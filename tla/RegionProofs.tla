------------------------------ MODULE RegionProofs -----------------------------
(* Proofs about Region and Gateway, for any threads, programs and requests.   *)
EXTENDS RegionInvariant, SequenceTheorems, TLAPS

-------------------------------------------------------------------------------
(* Sequences whose elements have no given type.                               *)

(* Append on the queue and on the stack.                                      *)
LEMMA AppendSequence ==
    ASSUME NEW s, IsSequence(s), NEW x
    PROVE  /\ IsSequence(Append(s, x)) /\ Append(s, x) # <<>>
           /\ Len(Append(s, x)) = Len(s) + 1 /\ Len(s) \in Nat
<1> DEFINE S == Range(s) \cup {x}
<1>1. s \in Seq(S)
  BY SeqMonotonic, s \in Seq(Range(s)), Range(s) \subseteq S DEF IsSequence
<1>2. Append(s, x) \in Seq(S) /\ Append(s, x) # <<>>
      /\ Len(Append(s, x)) = Len(s) + 1
  BY <1>1, AppendProperties
<1> QED
  BY <1>1, <1>2, SeqOfRange, LenProperties DEF IsSequence

(* The empty stack and the empty queue.                                       *)
LEMMA EmptySequence == IsSequence(<<>>) /\ Len(<<>>) = 0
BY EmptySeq DEF IsSequence

(* The queue of a new call.                                                   *)
LEMMA OneSequence ==
    ASSUME NEW x
    PROVE  IsSequence(<<x>>) /\ <<x>> # <<>> /\ Len(<<x>>) = 1
<1>1. <<x>> \in Seq({x})
  OBVIOUS
<1> QED
  BY <1>1, SeqOfRange DEF IsSequence

(* What is left of the stack when its top program leaves.                     *)
LEMMA FrontSequence ==
    ASSUME NEW s, IsSequence(s), s # <<>>
    PROVE  IsSequence(Front(s)) /\ Len(Front(s)) = Len(s) - 1 /\ Len(s) \in Nat \ {0}
<1>1. s \in Seq(Range(s)) /\ Len(s) \in Nat \ {0}
  BY EmptySeq DEF IsSequence
<1>2. \A i \in 1 .. Len(s) - 1 : s[i] \in Range(s)
  BY <1>1, ElementOfSeq
<1>3. PICK n \in Nat : n = Len(s) - 1
  BY <1>1
<1>4. SubSeq(s, 1, n) \in Seq(Range(s)) /\ Len(SubSeq(s, 1, n)) = n
  <2>1. /\ SubSeq(s, 1, n) \in Seq(Range(s))
        /\ Len(SubSeq(s, 1, n)) = IF 1 <= n THEN n - 1 + 1 ELSE 0
    BY <1>2, <1>3, SubSeqProperties
  <2> DEFINE len == Len(SubSeq(s, 1, n))
  <2>2. len = n
    <3> HIDE DEF len
    <3> QED
      BY <2>1 DEF len
  <2> QED
    BY <2>1, <2>2, Zenon
<1>5. SubSeq(s, 1, n) \in Seq(Range(SubSeq(s, 1, n)))
  BY <1>4, SeqOfRange
<1>6. Front(s) = SubSeq(s, 1, n)
  BY <1>3, Zenon DEF Front
<1> QED
  BY <1>1, <1>3, <1>4, <1>5, <1>6, Zenon DEF IsSequence

(* What is left of the queue when its first task starts.                      *)
LEMMA TailSequence ==
    ASSUME NEW s, IsSequence(s), s # <<>>
    PROVE  IsSequence(Tail(s)) /\ Len(Tail(s)) = Len(s) - 1 /\ Len(s) \in Nat \ {0}
<1>1. s \in Seq(Range(s)) /\ Len(s) \in Nat \ {0}
  BY EmptySeq DEF IsSequence
<1>2. Tail(s) \in Seq(Range(s)) /\ Len(Tail(s)) = Len(s) - 1
  BY <1>1, HeadTailProperties
<1> QED
  BY <1>1, <1>2, SeqOfRange DEF IsSequence

(* A sequence of length zero is the empty one.                                *)
LEMMA LenZero ==
    ASSUME NEW s, IsSequence(s)
    PROVE  Len(s) \in Nat /\ (s = <<>> <=> Len(s) = 0)
BY EmptySeq, LenProperties DEF IsSequence

-------------------------------------------------------------------------------
(* The operators of Program Control and Task Control on the record of a call. *)

(* Responses are never empty.                                                 *)
LEMMA ResponsesExist ==
    ASSUME NEW v
    PROVE  Normal(v) # <<>> /\ Condition(v) # <<>>
BY DEF Normal, Condition

(* Assigning a field of a call leaves a call.                                 *)
LEMMA ExceptIsCall ==
    ASSUME NEW c, IsCall(c), NEW x
    PROVE  /\ IsCall([c EXCEPT !.phase = x])
           /\ IsCall([c EXCEPT !.queue = x])
           /\ IsCall([c EXCEPT !.stack = x])
           /\ IsCall([c EXCEPT !.level = x])
           /\ IsCall([c EXCEPT !.id = x])
           /\ IsCall([c EXCEPT !.txn = x])
           /\ IsCall([c EXCEPT !.external = x])
           /\ IsCall([c EXCEPT !.outcome = x])
           /\ IsCall([c EXCEPT !.result = x])
           /\ IsCall([c EXCEPT !.answer = x])
           /\ IsCall([c EXCEPT !.calls = x])
           /\ IsCall([c EXCEPT !.commands = x])
           /\ IsCall([c EXCEPT !.started = x])
           /\ IsCall([c EXCEPT !.ran = x])
           /\ IsCall([c EXCEPT !.request = x])
           /\ IsCall([c EXCEPT !.first = x])
<1>1. IsCall([c EXCEPT !.phase = x])
  BY DEF IsCall
<1>2. IsCall([c EXCEPT !.queue = x])
  BY DEF IsCall
<1>3. IsCall([c EXCEPT !.stack = x])
  BY DEF IsCall
<1>4. IsCall([c EXCEPT !.level = x])
  BY DEF IsCall
<1>5. IsCall([c EXCEPT !.id = x])
  BY DEF IsCall
<1>6. IsCall([c EXCEPT !.txn = x])
  BY DEF IsCall
<1>7. IsCall([c EXCEPT !.external = x])
  BY DEF IsCall
<1>8. IsCall([c EXCEPT !.outcome = x])
  BY DEF IsCall
<1>9. IsCall([c EXCEPT !.result = x])
  BY DEF IsCall
<1>10. IsCall([c EXCEPT !.answer = x])
  BY DEF IsCall
<1>11. IsCall([c EXCEPT !.calls = x])
  BY DEF IsCall
<1>12. IsCall([c EXCEPT !.commands = x])
  BY DEF IsCall
<1>13. IsCall([c EXCEPT !.started = x])
  BY DEF IsCall
<1>14. IsCall([c EXCEPT !.ran = x])
  BY DEF IsCall
<1>15. IsCall([c EXCEPT !.request = x])
  BY DEF IsCall
<1>16. IsCall([c EXCEPT !.first = x])
  BY DEF IsCall
<1> QED
  BY <1>1, <1>2, <1>3, <1>4, <1>5, <1>6, <1>7, <1>8, <1>9, <1>10, <1>11, <1>12, <1>13, <1>14, <1>15, <1>16

(* A response to the program on top of the stack.                             *)
LEMMA RespondFields ==
    ASSUME NEW c, IsCall(c), NEW resp, NEW d, d = Respond(c, resp)
    PROVE  /\ IsCall(d) /\ d.phase = "run"
           /\ d.stack = Append(Front(c.stack), Learn(Last(c.stack), resp))
           /\ d.queue = c.queue /\ d.level = c.level /\ d.txn = c.txn
           /\ d.external = c.external /\ d.outcome = c.outcome
           /\ d.result = c.result /\ d.first = c.first
           /\ d.answer = c.answer /\ d.calls = c.calls
           /\ d.commands = c.commands /\ d.started = c.started /\ d.ran = c.ran
<1>1. IsCall(d)
  BY ExceptIsCall, Zenon DEF Respond
<1> QED
  BY <1>1 DEF Respond, IsCall

(* Returned, Reply, Ended and the other small edits of a call.                *)
LEMMA ReplyFields ==
    ASSUME NEW c, IsCall(c), NEW answer, NEW d, d = Reply(c, answer)
    PROVE  /\ IsCall(d) /\ d.phase = "idle" /\ d.queue = <<>> /\ d.stack = <<>>
           /\ d.txn \in BOOLEAN /\ ~d.txn /\ d.outcome = <<>> /\ d.answer = answer
           /\ d.level = c.level /\ d.external = c.external
           /\ d.calls = c.calls /\ d.commands = c.commands
           /\ d.started = c.started /\ d.ran = c.ran
           /\ d.result = c.result /\ d.first = c.first
<1>1. IsCall(d)
  BY ExceptIsCall, Zenon DEF Reply
<1> QED
  BY <1>1 DEF Reply, IsCall

(* start_task returns: whatever the call was doing, its record is in order,   *)
(* if the answer is an error or everything that was STARTed has run.          *)
LEMMA ReplyOK ==
    ASSUME NEW c, CallOK(c), NEW answer, NEW d, d = Reply(c, answer),
           \/ answer \in {Condition("Io"), Condition("panic")}
           \/ answer = c.first /\ c.ran = c.started
    PROVE  CallOK(d) /\ ~d.txn /\ d.external = c.external
<1>1. IsCall(c)
  BY DEF CallOK, CallTyped
<1>2. /\ IsCall(d) /\ d.phase = "idle" /\ d.queue = <<>> /\ d.stack = <<>>
      /\ d.txn \in BOOLEAN /\ ~d.txn /\ d.outcome = <<>> /\ d.answer = answer
      /\ d.level = c.level /\ d.external = c.external
      /\ d.calls = c.calls /\ d.commands = c.commands
      /\ d.started = c.started /\ d.ran = c.ran
      /\ d.result = c.result /\ d.first = c.first
  BY <1>1, ReplyFields
<1>3. CallTyped(d)
  BY <1>2, EmptySequence DEF CallOK, CallTyped, Phases
<1>6. PhaseOK(d) /\ TxnOK(d) /\ QueueOK(d) /\ FirstOK(d)
  BY <1>2 DEF CallOK, PhaseOK, TxnOK, QueueOK, FirstOK
<1>4. DepthOK(d)
  <2>1. c.level \in Nat /\ Len(c.stack) \in Nat /\ link_level(c) <= MAX_LINK_DEPTH
    BY LenZero DEF CallOK, CallTyped, DepthOK
  <2>2. link_level(d) = c.level - 1
    BY <1>2, <2>1, EmptySequence DEF link_level
  <2>3. link_level(d) <= MAX_LINK_DEPTH
    BY <2>1, <2>2, RegionAssumption DEF link_level
  <2> QED
    BY <1>2, <2>3 DEF CallOK, DepthOK
<1>5. AnswerOK(d)
  BY <1>2 DEF AnswerOK, Condition
<1> QED
  BY <1>2, <1>3, <1>4, <1>5, <1>6 DEF CallOK

(* A call between two commands: everything that a program which runs, and one *)
(* that is about to be entered or to return, needs of it.                     *)
Ready(c) ==
    /\ CallTyped(c) /\ DepthOK(c) /\ c.outcome = <<>>
    /\ ~c.external =>
           /\ c.started = c.ran + Len(c.queue)
           /\ c.result = c.first /\ c.ran > 0 /\ (c.result # <<>> <=> c.ran > 1)

(* The response to a command: the program on top goes on.                     *)
LEMMA RespondOK ==
    ASSUME NEW c, Ready(c), c.stack # <<>>, NEW resp, NEW d, d = Respond(c, resp)
    PROVE  CallOK(d) /\ d.txn = c.txn /\ d.external = c.external
<1>1. IsCall(c) /\ IsSequence(c.stack) /\ c.level \in Nat /\ Len(c.queue) \in Nat
  BY LenZero DEF Ready, CallTyped
<1>2. /\ IsCall(d) /\ d.phase = "run"
      /\ d.stack = Append(Front(c.stack), Learn(Last(c.stack), resp))
      /\ d.queue = c.queue /\ d.level = c.level /\ d.txn = c.txn
      /\ d.external = c.external /\ d.outcome = c.outcome
      /\ d.result = c.result /\ d.first = c.first
      /\ d.answer = c.answer /\ d.calls = c.calls
      /\ d.commands = c.commands /\ d.started = c.started /\ d.ran = c.ran
  BY <1>1, RespondFields
<1>3. IsSequence(Front(c.stack)) /\ Len(Front(c.stack)) = Len(c.stack) - 1
      /\ Len(c.stack) \in Nat
  BY <1>1, FrontSequence
<1>4. IsSequence(d.stack) /\ d.stack # <<>> /\ Len(d.stack) = Len(c.stack)
  BY <1>2, <1>3, AppendSequence
<1>5. CallTyped(d)
  BY <1>2, <1>4 DEF Ready, CallTyped, Phases
<1>6. DepthOK(d)
  BY <1>2, <1>4 DEF Ready, DepthOK, link_level
<1>7. PhaseOK(d) /\ TxnOK(d) /\ AnswerOK(d)
  BY <1>2, <1>4 DEF Ready, PhaseOK, TxnOK, AnswerOK
<1>8. QueueOK(d) /\ FirstOK(d)
  BY <1>1, <1>2 DEF Ready, QueueOK, FirstOK, CallTyped
<1> QED
  BY <1>2, <1>5, <1>6, <1>7, <1>8 DEF CallOK

(* run_program_loop returns.                                                  *)
LEMMA ReturnedOK ==
    ASSUME NEW c, Ready(c), NEW resp, resp # <<>>, NEW d, d = Returned(c, resp)
    PROVE  CallOK(d) /\ d.txn = c.txn /\ d.external = c.external
<1>1. CASE c.stack # <<>>
  BY <1>1, RespondOK DEF Returned
<1>2. CASE c.stack = <<>>
  <2>0. IsCall(c) /\ c.level \in Nat /\ Len(c.queue) \in Nat
    BY LenZero DEF Ready, CallTyped
  <2>1. d = [c EXCEPT !.phase = "end", !.outcome = resp]
    BY <1>2 DEF Returned
  <2>2. IsCall(d)
    BY <2>0, <2>1 DEF IsCall
  <2>3. /\ d.phase = "end" /\ d.outcome = resp /\ d.stack = c.stack
        /\ d.queue = c.queue /\ d.level = c.level /\ d.txn = c.txn
        /\ d.external = c.external /\ d.calls = c.calls /\ d.commands = c.commands
        /\ d.started = c.started /\ d.ran = c.ran
        /\ d.result = c.result /\ d.first = c.first
    BY <2>0, <2>1 DEF IsCall
  <2>4. CallTyped(d)
    BY <2>2, <2>3 DEF Ready, CallTyped, Phases
  <2>5. DepthOK(d)
    BY <2>3 DEF Ready, DepthOK, link_level
  <2>6. PhaseOK(d) /\ TxnOK(d) /\ AnswerOK(d)
    BY <1>2, <2>3 DEF PhaseOK, TxnOK, AnswerOK
  <2>7. QueueOK(d) /\ FirstOK(d)
    BY <2>0, <2>3 DEF Ready, QueueOK, FirstOK, CallTyped
  <2> QED
    BY <2>3, <2>4, <2>5, <2>6, <2>7 DEF CallOK
<1> QED
  BY <1>1, <1>2

(* The head of run_program_loop, with room for one more program.              *)
LEMMA RunOK ==
    ASSUME NEW c, Ready(c), link_level(c) + 1 <= MAX_LINK_DEPTH,
           NEW program, NEW commarea, NEW d, d = Run(c, program, commarea)
    PROVE  CallOK(d) /\ d.txn = c.txn /\ d.external = c.external
<1>1. CASE ~resolve(program)
  BY <1>1, ReturnedOK, ResponsesExist DEF Run
<1>2. CASE resolve(program)
  <2>0. IsCall(c) /\ c.level \in Nat /\ Len(c.queue) \in Nat /\ IsSequence(c.stack)
        /\ Len(c.stack) \in Nat
    BY LenZero DEF Ready, CallTyped
  <2>1. d = [c EXCEPT !.phase = "run",
                      !.stack = Append(@, Enter(program, commarea, Eib(c)))]
    BY <1>2 DEF Run
  <2>2. IsCall(d)
    BY <2>0, <2>1 DEF IsCall
  <2>3. /\ d.phase = "run" /\ d.outcome = c.outcome
        /\ d.stack = Append(c.stack, Enter(program, commarea, Eib(c)))
        /\ d.queue = c.queue /\ d.level = c.level /\ d.txn = c.txn
        /\ d.external = c.external /\ d.calls = c.calls /\ d.commands = c.commands
        /\ d.started = c.started /\ d.ran = c.ran
        /\ d.result = c.result /\ d.first = c.first
    BY <2>0, <2>1 DEF IsCall
  <2>4. IsSequence(d.stack) /\ d.stack # <<>> /\ Len(d.stack) = Len(c.stack) + 1
    BY <2>0, <2>3, AppendSequence
  <2>5. CallTyped(d)
    BY <2>2, <2>3, <2>4 DEF Ready, CallTyped, Phases
  <2>6. DepthOK(d)
    BY <2>0, <2>3, <2>4, RegionAssumption DEF Ready, DepthOK, link_level
  <2>7. PhaseOK(d) /\ TxnOK(d) /\ AnswerOK(d)
    BY <2>3, <2>4 DEF Ready, PhaseOK, TxnOK, AnswerOK
  <2>8. QueueOK(d) /\ FirstOK(d)
    BY <2>0, <2>3 DEF Ready, QueueOK, FirstOK, CallTyped
  <2> QED
    BY <2>3, <2>5, <2>6, <2>7, <2>8 DEF CallOK
<1> QED
  BY <1>1, <1>2

(* A running program, and one inside SYNCPOINT, is between two commands.      *)
LEMMA RunningReady ==
    ASSUME NEW c, CallOK(c), c.phase \in {"run", "sync"}
    PROVE  Ready(c) /\ c.stack # <<>> /\ IsSequence(c.stack)
<1>1. Len(c.queue) \in Nat
  BY LenZero DEF CallOK, CallTyped
<1>2. ~c.external =>
          /\ c.started = c.ran + Len(c.queue)
          /\ c.result = c.first /\ c.ran > 0 /\ (c.result # <<>> <=> c.ran > 1)
  BY <1>1 DEF CallOK, CallTyped, QueueOK, FirstOK
<1> QED
  BY <1>2 DEF CallOK, CallTyped, PhaseOK, Ready

(* A command is counted, and SYNCPOINT takes and gives back the transaction.  *)
LEMMA EditReady ==
    ASSUME NEW c, Ready(c), NEW d, IsCall(d), d.phase = c.phase \/ d.phase = "sync",
           d.txn \in BOOLEAN, d.commands \in Nat, d.queue = c.queue, d.stack = c.stack,
           d.level = c.level, d.external = c.external, d.outcome = c.outcome,
           d.calls = c.calls, d.started = c.started, d.ran = c.ran,
           d.result = c.result, d.first = c.first
    PROVE  Ready(d) /\ link_level(d) = link_level(c)
BY DEF Ready, CallTyped, DepthOK, link_level, Phases

(* The commands counter is no part of what the invariant relates.             *)
LEMMA CountedReady ==
    ASSUME NEW c, Ready(c), NEW d, d = [c EXCEPT !.commands = @ + 1]
    PROVE  /\ Ready(d) /\ d.stack = c.stack /\ d.txn = c.txn /\ d.external = c.external
           /\ link_level(d) = link_level(c)
<1>1. IsCall(c) /\ c.commands \in Nat /\ c.txn \in BOOLEAN
  BY DEF Ready, CallTyped
<1>2. IsCall(d)
  BY <1>1 DEF IsCall
<1>3. /\ d.phase = c.phase /\ d.txn = c.txn /\ d.commands = c.commands + 1
      /\ d.queue = c.queue /\ d.stack = c.stack /\ d.level = c.level
      /\ d.external = c.external /\ d.outcome = c.outcome /\ d.calls = c.calls
      /\ d.started = c.started /\ d.ran = c.ran
      /\ d.result = c.result /\ d.first = c.first
  BY <1>1 DEF IsCall
<1>4. d.commands \in Nat /\ d.txn \in BOOLEAN
  BY <1>1, <1>3
<1>5. Ready(d) /\ link_level(d) = link_level(c)
  BY <1>2, <1>3, <1>4, EditReady
<1> QED
  BY <1>3, <1>5

(* txn.take() inside SYNCPOINT: nobody waits for the lock with a transaction. *)
LEMMA SyncingOK ==
    ASSUME NEW c, Ready(c), c.stack # <<>>,
           NEW d, d = [c EXCEPT !.phase = "sync", !.txn = FALSE]
    PROVE  CallOK(d) /\ Ready(d) /\ d.stack # <<>> /\ d.txn \in BOOLEAN /\ ~d.txn
<1>1. IsCall(c) /\ c.commands \in Nat /\ Len(c.queue) \in Nat
  BY LenZero DEF Ready, CallTyped
<1>2. IsCall(d)
  BY <1>1 DEF IsCall
<1>3. /\ d.phase = "sync" /\ d.txn \in BOOLEAN /\ ~d.txn /\ d.commands = c.commands
      /\ d.queue = c.queue /\ d.stack = c.stack /\ d.level = c.level
      /\ d.external = c.external /\ d.outcome = c.outcome /\ d.calls = c.calls
      /\ d.started = c.started /\ d.ran = c.ran
      /\ d.result = c.result /\ d.first = c.first
  BY <1>1 DEF IsCall
<1>4. Ready(d)
  BY <1>1, <1>2, <1>3, EditReady
<1>5. PhaseOK(d) /\ TxnOK(d) /\ AnswerOK(d)
  BY <1>3 DEF Ready, PhaseOK, TxnOK, AnswerOK
<1>6. QueueOK(d) /\ FirstOK(d)
  BY <1>1, <1>3 DEF Ready, QueueOK, FirstOK, CallTyped
<1> QED
  BY <1>3, <1>4, <1>5, <1>6 DEF CallOK, Ready

(* SYNCPOINT has the writer lock again.                                       *)
LEMMA ResumedOK ==
    ASSUME NEW c, Ready(c), c.stack # <<>>, NEW resp,
           NEW d, d = Respond([c EXCEPT !.txn = TRUE], resp)
    PROVE  CallOK(d) /\ d.txn
<1>0. PICK e : e = [c EXCEPT !.txn = TRUE]
  OBVIOUS
<1>1. IsCall(c) /\ c.commands \in Nat
  BY DEF Ready, CallTyped
<1>2. IsCall(e)
  BY <1>0, <1>1 DEF IsCall
<1>3. /\ e.phase = c.phase /\ e.txn \in BOOLEAN /\ e.txn /\ e.commands = c.commands
      /\ e.queue = c.queue /\ e.stack = c.stack /\ e.level = c.level
      /\ e.external = c.external /\ e.outcome = c.outcome /\ e.calls = c.calls
      /\ e.started = c.started /\ e.ran = c.ran
      /\ e.result = c.result /\ e.first = c.first
  BY <1>0, <1>1 DEF IsCall
<1>4. d = Respond(e, resp)
  BY <1>0
<1>5. Ready(e)
  BY <1>1, <1>2, <1>3, EditReady
<1>6. CallOK(d) /\ d.txn = e.txn
  BY <1>3, <1>4, <1>5, RespondOK
<1> QED
  BY <1>3, <1>6

(* EXEC CICS LINK keeps to MAX_LINK_DEPTH.                                    *)
LEMMA LinkOK ==
    ASSUME NEW c, Ready(c), c.stack # <<>>, NEW program, NEW commarea,
           NEW d, d = link(c, program, commarea)
    PROVE  CallOK(d) /\ d.txn = c.txn
<1>1. CASE link_level(c) + 1 > MAX_LINK_DEPTH
  BY <1>1, RespondOK DEF link
<1>2. CASE ~(link_level(c) + 1 > MAX_LINK_DEPTH)
  <2>1. d = Run(c, program, commarea)
    BY <1>2 DEF link
  <2>2. link_level(c) \in Int
    BY LenZero DEF Ready, CallTyped, link_level
  <2>3. link_level(c) + 1 <= MAX_LINK_DEPTH
    BY <1>2, <2>2, RegionAssumption
  <2> QED
    BY <2>1, <2>3, RunOK
<1> QED
  BY <1>1, <1>2

(* EXEC CICS START: the request is counted as it is queued.                   *)
LEMMA StartOK ==
    ASSUME NEW c, Ready(c), c.stack # <<>>, NEW program, NEW commarea,
           NEW d, d = start(c, program, commarea)
    PROVE  CallOK(d) /\ d.txn = c.txn
<1> DEFINE r == [program |-> program, commarea |-> commarea]
<1>0. PICK e : e = [c EXCEPT !.queue = Append(@, r), !.started = @ + 1]
  OBVIOUS
<1>1. IsCall(c) /\ c.started \in Nat /\ c.ran \in Nat /\ IsSequence(c.queue)
  BY DEF Ready, CallTyped
<1>2. d = Respond(e, Normal(<<>>))
  BY <1>0, Zenon DEF start
<1> HIDE DEF r
<1>3. IsCall(e)
  BY <1>0, <1>1 DEF IsCall
<1>4. /\ e.queue = Append(c.queue, r) /\ e.started = c.started + 1
      /\ e.phase = c.phase /\ e.txn = c.txn /\ e.commands = c.commands
      /\ e.stack = c.stack /\ e.level = c.level
      /\ e.external = c.external /\ e.outcome = c.outcome /\ e.calls = c.calls
      /\ e.ran = c.ran /\ e.result = c.result /\ e.first = c.first
  BY <1>0, <1>1 DEF IsCall
<1>5. IsSequence(e.queue) /\ Len(e.queue) = Len(c.queue) + 1 /\ Len(c.queue) \in Nat
  BY <1>1, <1>4, AppendSequence
<1>6. Ready(e)
  <2>1. CallTyped(e)
    BY <1>1, <1>3, <1>4, <1>5 DEF Ready, CallTyped
  <2>2. DepthOK(e) /\ e.outcome = <<>>
    BY <1>4 DEF Ready, DepthOK, link_level
  <2>3. ~e.external =>
            /\ e.started = e.ran + Len(e.queue)
            /\ e.result = e.first /\ e.ran > 0 /\ (e.result # <<>> <=> e.ran > 1)
    BY <1>1, <1>4, <1>5 DEF Ready
  <2> QED
    BY <2>1, <2>2, <2>3 DEF Ready
<1>7. CallOK(d) /\ d.txn = e.txn
  BY <1>2, <1>4, <1>6, RespondOK
<1> QED
  BY <1>4, <1>7

(* The top program has left the stack, by RETURN, ABEND or XCTL.              *)
LEMMA PoppedReady ==
    ASSUME NEW c, Ready(c), c.stack # <<>>, NEW d, d = [c EXCEPT !.stack = Front(@)]
    PROVE  /\ Ready(d) /\ d.txn = c.txn /\ d.external = c.external
           /\ link_level(d) + 1 <= MAX_LINK_DEPTH
<1>1. IsCall(c) /\ IsSequence(c.stack) /\ c.level \in Nat
  BY DEF Ready, CallTyped
<1>2. IsCall(d)
  BY <1>1 DEF IsCall
<1>3. /\ d.phase = c.phase /\ d.txn = c.txn /\ d.commands = c.commands
      /\ d.queue = c.queue /\ d.stack = Front(c.stack) /\ d.level = c.level
      /\ d.external = c.external /\ d.outcome = c.outcome /\ d.calls = c.calls
      /\ d.started = c.started /\ d.ran = c.ran
      /\ d.result = c.result /\ d.first = c.first
  BY <1>1 DEF IsCall
<1>4. IsSequence(d.stack) /\ Len(d.stack) = Len(c.stack) - 1 /\ Len(c.stack) \in Nat
  BY <1>1, <1>3, FrontSequence
<1>5. link_level(d) = link_level(c) - 1 /\ link_level(c) \in Int
  BY <1>1, <1>3, <1>4 DEF link_level
<1>6. link_level(c) <= MAX_LINK_DEPTH
  BY DEF Ready, DepthOK
<1>7. link_level(d) <= MAX_LINK_DEPTH /\ link_level(d) + 1 <= MAX_LINK_DEPTH
  BY <1>5, <1>6, RegionAssumption
<1> QED
  BY <1>2, <1>3, <1>4, <1>7 DEF Ready, CallTyped, DepthOK

(* EXEC CICS XCTL: the new program is no deeper than the one it replaces.     *)
LEMMA XctlOK ==
    ASSUME NEW c, Ready(c), c.stack # <<>>, NEW program, NEW commarea,
           NEW d, d = xctl(c, program, commarea)
    PROVE  CallOK(d) /\ d.txn = c.txn
<1>1. PICK e : e = [c EXCEPT !.stack = Front(@)]
  OBVIOUS
<1>2. d = Run(e, program, commarea)
  BY <1>1, Zenon DEF xctl
<1> QED
  BY <1>1, <1>2, PoppedReady, RunOK

(* The end of an iteration of start_task's loop: the transaction is gone.     *)
LEMMA EndedOK ==
    ASSUME NEW c, CallOK(c), c.phase = "end", ~c.external, NEW d, d = Ended(c)
    PROVE  CallOK(d) /\ d.txn \in BOOLEAN /\ ~d.txn
<1>1. IsCall(c) /\ Len(c.queue) \in Nat /\ c.started \in Nat /\ c.ran \in Nat
  BY LenZero DEF CallOK, CallTyped
<1>2. d = [c EXCEPT !.phase = "dispatch", !.txn = FALSE, !.outcome = <<>>,
                    !.result = IF @ = <<>> THEN c.outcome ELSE @,
                    !.first = IF c.ran = 1 THEN c.outcome ELSE @]
  BY Zenon DEF Ended
<1>3. IsCall(d)
  BY <1>1, <1>2 DEF IsCall
<1>4. /\ d.phase = "dispatch" /\ d.txn \in BOOLEAN /\ ~d.txn /\ d.commands = c.commands
      /\ d.queue = c.queue /\ d.stack = c.stack /\ d.level = c.level
      /\ d.external = c.external /\ d.outcome = <<>> /\ d.calls = c.calls
      /\ d.started = c.started /\ d.ran = c.ran
      /\ d.result = (IF c.result = <<>> THEN c.outcome ELSE c.result)
      /\ d.first = (IF c.ran = 1 THEN c.outcome ELSE c.first)
  BY <1>1, <1>2 DEF IsCall
<1>5. CallTyped(d)
  BY <1>3, <1>4 DEF CallOK, CallTyped, Phases
<1>6. PhaseOK(d) /\ TxnOK(d) /\ AnswerOK(d) /\ DepthOK(d)
  BY <1>4 DEF CallOK, PhaseOK, TxnOK, AnswerOK, DepthOK, link_level
<1>7. QueueOK(d)
  BY <1>1, <1>4 DEF CallOK, QueueOK
<1>8. FirstOK(d)
  <2>1. c.result = c.first /\ c.ran > 0 /\ (c.result # <<>> <=> c.ran > 1)
    BY DEF CallOK, FirstOK
  <2>2. c.outcome # <<>>
    BY DEF CallOK, PhaseOK
  <2>3. c.ran = 1 <=> c.result = <<>>
    BY <1>1, <2>1
  <2>4. d.result = d.first /\ d.result # <<>>
    BY <1>4, <2>1, <2>2, <2>3
  <2> QED
    BY <1>4, <2>1, <2>4 DEF FirstOK
<1> QED
  BY <1>4, <1>5, <1>6, <1>7, <1>8 DEF CallOK

(* A thread outside any call.                                                 *)
LEMMA RestOK ==
    ASSUME NEW d, IsCall(d), d.phase = "idle", d.queue = <<>>, d.stack = <<>>,
           d.level = 1, d.txn \in BOOLEAN, d.external \in BOOLEAN,
           ~d.external => ~d.txn, d.outcome = <<>>, d.answer = <<>> \/ d.external,
           d.calls \in 0 .. MaxCalls, d.commands = 0, d.started = 0, d.ran = 0
    PROVE  CallOK(d)
<1>1. CallTyped(d)
  BY EmptySequence DEF CallTyped, Phases
<1>2. PhaseOK(d) /\ TxnOK(d) /\ QueueOK(d) /\ FirstOK(d) /\ AnswerOK(d)
  BY DEF PhaseOK, TxnOK, QueueOK, FirstOK, AnswerOK
<1>3. link_level(d) = 0
  BY EmptySequence DEF link_level
<1>4. DepthOK(d)
  BY <1>3, RegionAssumption DEF DepthOK
<1> QED
  BY <1>1, <1>2, <1>4 DEF CallOK

(* A thread that has not called yet, and one whose process has died.          *)
LEMMA IdleOK ==
    ASSUME NEW b \in BOOLEAN, NEW n \in 0 .. MaxCalls,
           NEW d, d = [Idle EXCEPT !.calls = n, !.external = b]
    PROVE  CallOK(d) /\ d.txn \in BOOLEAN /\ ~d.txn
<1>1. IsCall(d)
  BY DEF Idle, IsCall
<1>2. /\ d.phase = "idle" /\ d.queue = <<>> /\ d.stack = <<>> /\ d.level = 1
      /\ d.txn \in BOOLEAN /\ ~d.txn /\ d.external = b /\ d.outcome = <<>>
      /\ d.answer = <<>> /\ d.calls = n
      /\ d.commands = 0 /\ d.started = 0 /\ d.ran = 0
  BY DEF Idle
<1> QED
  BY <1>1, <1>2, RestOK

(* start_task is called: one request, in the queue.                           *)
LEMMA CallNewOK ==
    ASSUME NEW n \in 0 .. MaxCalls, NEW request,
           NEW d, d = [Idle EXCEPT !.phase = "dispatch", !.queue = <<request>>,
                                   !.request = request, !.calls = n, !.started = 1]
    PROVE  CallOK(d) /\ d.txn \in BOOLEAN /\ ~d.txn
<1>1. IsCall(d)
  BY DEF Idle, IsCall
<1>2. /\ d.phase = "dispatch" /\ d.queue = <<request>> /\ d.stack = <<>>
      /\ d.level = 1 /\ d.txn \in BOOLEAN /\ ~d.txn
      /\ d.external \in BOOLEAN /\ ~d.external /\ d.outcome = <<>>
      /\ d.answer = <<>> /\ d.calls = n
      /\ d.commands = 0 /\ d.started = 1 /\ d.ran = 0
      /\ d.result = <<>> /\ d.first = <<>>
  BY DEF Idle
<1>3. IsSequence(d.queue) /\ Len(d.queue) = 1 /\ d.queue # <<>>
  BY <1>2, OneSequence
<1>4. CallTyped(d)
  BY <1>1, <1>2, <1>3, EmptySequence DEF CallTyped, Phases
<1>5. PhaseOK(d) /\ TxnOK(d) /\ QueueOK(d) /\ FirstOK(d) /\ AnswerOK(d)
  BY <1>2, <1>3 DEF PhaseOK, TxnOK, QueueOK, FirstOK, AnswerOK
<1>6. link_level(d) = 0
  BY <1>2, EmptySequence DEF link_level
<1>7. DepthOK(d)
  BY <1>2, <1>6, RegionAssumption DEF DepthOK
<1> QED
  BY <1>2, <1>4, <1>5, <1>7 DEF CallOK

(* The head of start_task's loop.                                             *)
LEMMA DispatchedOK ==
    ASSUME NEW c, CallOK(c), c.phase = "dispatch", c.queue # <<>>, NEW n,
           NEW d, d = [c EXCEPT !.phase = "begin", !.id = n, !.ran = @ + 1]
    PROVE  CallOK(d) /\ d.txn = c.txn
<1>1. IsCall(c) /\ Len(c.queue) \in Nat /\ c.started \in Nat /\ c.ran \in Nat
  BY LenZero DEF CallOK, CallTyped
<1>2. IsCall(d)
  BY <1>1 DEF IsCall
<1>3. /\ d.phase = "begin" /\ d.txn = c.txn /\ d.commands = c.commands
      /\ d.queue = c.queue /\ d.stack = c.stack /\ d.level = c.level
      /\ d.external = c.external /\ d.outcome = c.outcome /\ d.calls = c.calls
      /\ d.started = c.started /\ d.ran = c.ran + 1
      /\ d.result = c.result /\ d.first = c.first
  BY <1>1 DEF IsCall
<1>4. CallTyped(d)
  BY <1>1, <1>2, <1>3 DEF CallOK, CallTyped, Phases
<1>5. PhaseOK(d) /\ TxnOK(d) /\ AnswerOK(d) /\ DepthOK(d)
  BY <1>3 DEF CallOK, PhaseOK, TxnOK, AnswerOK, DepthOK, link_level
<1>6. QueueOK(d)
  BY <1>1, <1>3 DEF CallOK, QueueOK
<1>7. FirstOK(d)
  BY <1>1, <1>3 DEF CallOK, FirstOK
<1> QED
  BY <1>3, <1>4, <1>5, <1>6, <1>7 DEF CallOK

(* A dispatched task has its transaction, and its program is entered.         *)
LEMMA BegunOK ==
    ASSUME NEW c, CallOK(c), c.phase = "begin", NEW program, NEW commarea,
           NEW d, d = Run([c EXCEPT !.queue = Tail(@), !.txn = TRUE], program, commarea)
    PROVE  CallOK(d) /\ d.txn
<1>1. /\ IsCall(c) /\ IsSequence(c.queue) /\ c.queue # <<>> /\ c.stack = <<>>
      /\ ~c.external /\ c.level = 1 /\ c.started \in Nat /\ c.ran \in Nat
      /\ c.outcome = <<>>
  BY DEF CallOK, CallTyped, PhaseOK, DepthOK
<1>2. PICK e : e = [c EXCEPT !.queue = Tail(@), !.txn = TRUE]
  OBVIOUS
<1>3. d = Run(e, program, commarea)
  BY <1>2
<1>4. IsCall(e)
  BY <1>1, <1>2 DEF IsCall
<1>5. /\ e.phase = c.phase /\ e.txn \in BOOLEAN /\ e.txn /\ e.commands = c.commands
      /\ e.queue = Tail(c.queue) /\ e.stack = c.stack /\ e.level = c.level
      /\ e.external = c.external /\ e.outcome = c.outcome /\ e.calls = c.calls
      /\ e.started = c.started /\ e.ran = c.ran
      /\ e.result = c.result /\ e.first = c.first
  BY <1>1, <1>2 DEF IsCall
<1>6. IsSequence(e.queue) /\ Len(e.queue) = Len(c.queue) - 1 /\ Len(c.queue) \in Nat
  BY <1>1, <1>5, TailSequence
<1>7. link_level(e) = 0
  BY <1>1, <1>5, EmptySequence DEF link_level
<1>8. Ready(e)
  <2>1. CallTyped(e)
    BY <1>4, <1>5, <1>6 DEF CallOK, CallTyped
  <2>2. DepthOK(e) /\ e.outcome = <<>>
    BY <1>1, <1>5, <1>7, RegionAssumption DEF DepthOK
  <2>3. c.started + 1 = c.ran + Len(c.queue)
    BY <1>1 DEF CallOK, QueueOK
  <2>4. e.started = e.ran + Len(e.queue)
    BY <1>1, <1>5, <1>6, <2>3
  <2>5. e.result = e.first /\ e.ran > 0 /\ (e.result # <<>> <=> e.ran > 1)
    BY <1>1, <1>5 DEF CallOK, FirstOK
  <2> QED
    BY <2>1, <2>2, <2>4, <2>5 DEF Ready
<1>9. link_level(e) + 1 <= MAX_LINK_DEPTH
  BY <1>7, RegionAssumption
<1>10. CallOK(d) /\ d.txn = e.txn
  BY <1>3, <1>8, <1>9, RunOK
<1> QED
  BY <1>5, <1>10

(* A gateway begins or ends its unit of work between two calls.               *)
LEMMA UnitOK ==
    ASSUME NEW c, CallOK(c), c.phase = "idle", c.external, NEW b \in BOOLEAN,
           NEW d, d = [c EXCEPT !.txn = b]
    PROVE  CallOK(d) /\ d.txn = b
<1>1. IsCall(c)
  BY DEF CallOK, CallTyped
<1>2. IsCall(d)
  BY <1>1 DEF IsCall
<1>3. /\ d.phase = c.phase /\ d.txn = b /\ d.commands = c.commands
      /\ d.queue = c.queue /\ d.stack = c.stack /\ d.level = c.level
      /\ d.external = c.external /\ d.outcome = c.outcome /\ d.calls = c.calls
      /\ d.started = c.started /\ d.ran = c.ran
      /\ d.result = c.result /\ d.first = c.first
  BY <1>1 DEF IsCall
<1>4. CallTyped(d)
  BY <1>2, <1>3 DEF CallOK, CallTyped
<1>5. PhaseOK(d) /\ TxnOK(d) /\ AnswerOK(d) /\ DepthOK(d) /\ QueueOK(d) /\ FirstOK(d)
  BY <1>3 DEF CallOK, PhaseOK, TxnOK, AnswerOK, DepthOK, QueueOK, FirstOK, link_level
<1> QED
  BY <1>3, <1>4, <1>5 DEF CallOK

(* Region::link_external: the caller's level is bounded like any other.       *)
LEMMA ExternalOK ==
    ASSUME NEW level \in Nat, NEW request, NEW n \in 0 .. MaxCalls, NEW b \in BOOLEAN,
           NEW c, c = [Idle EXCEPT !.external = TRUE, !.txn = b, !.calls = n],
           NEW d, d = link_external(c, level, request)
    PROVE  CallOK(d) /\ d.txn = b
<1>1. IsCall(c)
  BY DEF Idle, IsCall
<1>2. /\ c.phase = "idle" /\ c.queue = <<>> /\ c.stack = <<>> /\ c.level = 1
      /\ c.txn = b /\ c.external \in BOOLEAN /\ c.external /\ c.outcome = <<>>
      /\ c.answer = <<>> /\ c.calls = n
      /\ c.commands = 0 /\ c.started = 0 /\ c.ran = 0
  BY DEF Idle
<1>3. CASE level + 1 > MAX_LINK_DEPTH
  <2>1. d = [c EXCEPT !.answer = Condition("LinkStackOverflow")]
    BY <1>3 DEF link_external
  <2>2. IsCall(d)
    BY <1>1, <2>1 DEF IsCall
  <2>3. /\ d.phase = "idle" /\ d.queue = <<>> /\ d.stack = <<>> /\ d.level = 1
        /\ d.txn = b /\ d.external \in BOOLEAN /\ d.external /\ d.outcome = <<>>
        /\ d.calls = n /\ d.commands = 0 /\ d.started = 0 /\ d.ran = 0
    BY <1>1, <1>2, <2>1 DEF IsCall
  <2> QED
    BY <2>2, <2>3, RestOK
<1>4. CASE ~(level + 1 > MAX_LINK_DEPTH)
  <2>1. PICK e : e = [c EXCEPT !.level = level + 1]
    OBVIOUS
  <2>2. d = Run(e, request.program, request.commarea)
    BY <1>4, <2>1 DEF link_external
  <2>3. IsCall(e)
    BY <1>1, <2>1 DEF IsCall
  <2>4. /\ e.phase = "idle" /\ e.queue = <<>> /\ e.stack = <<>> /\ e.level = level + 1
        /\ e.txn = b /\ e.external \in BOOLEAN /\ e.external /\ e.outcome = <<>>
        /\ e.calls = n /\ e.commands = 0 /\ e.started = 0 /\ e.ran = 0
    BY <1>1, <1>2, <2>1 DEF IsCall
  <2>5. CallTyped(e)
    BY <2>3, <2>4, EmptySequence DEF CallTyped, Phases
  <2>6. link_level(e) = level
    BY <2>4, EmptySequence DEF link_level
  <2>7. link_level(e) + 1 <= MAX_LINK_DEPTH /\ link_level(e) <= MAX_LINK_DEPTH
    BY <1>4, <2>6, RegionAssumption
  <2>8. Ready(e)
    BY <2>4, <2>5, <2>7 DEF Ready, DepthOK
  <2> QED
    BY <2>2, <2>4, <2>7, <2>8, RunOK
<1> QED
  BY <1>3, <1>4

(* link_external returns, or unwinds to a gateway that catches the panic, with *)
(* the transaction its programs have left.                                    *)
LEMMA ExternalReturnOK ==
    ASSUME NEW c, CallOK(c), c.external,
           NEW answer, NEW e, e = Reply(c, answer), NEW d, d = [e EXCEPT !.txn = c.txn]
    PROVE  CallOK(d) /\ d.txn = c.txn
<1>0. IsCall(c)
  BY DEF CallOK, CallTyped
<1>1. c.txn \in BOOLEAN /\ c.level \in Nat /\ Len(c.stack) \in Nat
  BY LenZero DEF CallOK, CallTyped
<1>3. /\ IsCall(e) /\ e.phase = "idle" /\ e.queue = <<>> /\ e.stack = <<>>
      /\ e.outcome = <<>> /\ e.level = c.level
      /\ e.calls = c.calls /\ e.commands = c.commands
      /\ e.started = c.started /\ e.ran = c.ran
      /\ e.result = c.result /\ e.first = c.first
  BY <1>0, ReplyFields
<1>4. e.external = c.external
  BY <1>0, ReplyFields
<1>5. IsCall(d)
  BY <1>3, <1>4 DEF IsCall
<1>6. /\ d.phase = "idle" /\ d.queue = <<>> /\ d.stack = <<>> /\ d.txn = c.txn
      /\ d.outcome = <<>> /\ d.level = c.level /\ d.external = c.external
      /\ d.calls = c.calls /\ d.commands = c.commands
      /\ d.started = c.started /\ d.ran = c.ran
      /\ d.result = c.result /\ d.first = c.first
  BY <1>3, <1>4 DEF IsCall
<1>7. CallTyped(d)
  BY <1>5, <1>6, EmptySequence DEF CallOK, CallTyped, Phases
<1>8. PhaseOK(d) /\ TxnOK(d) /\ AnswerOK(d) /\ QueueOK(d) /\ FirstOK(d)
  BY <1>6 DEF PhaseOK, TxnOK, AnswerOK, QueueOK, FirstOK
<1>9. DepthOK(d)
  <2>1. link_level(c) <= MAX_LINK_DEPTH
    BY DEF CallOK, DepthOK
  <2>2. link_level(d) = c.level - 1
    BY <1>1, <1>6, EmptySequence DEF link_level
  <2>3. link_level(d) <= MAX_LINK_DEPTH
    BY <1>1, <2>1, <2>2, RegionAssumption DEF link_level
  <2> QED
    BY <1>6, <2>3 DEF CallOK, DepthOK
<1> QED
  BY <1>6, <1>7, <1>8, <1>9 DEF CallOK

-------------------------------------------------------------------------------
(* The records, and what a unit of work has done to them.                     *)

(* A unit that has changed nothing shows the committed records.               *)
LEMMA ApplyNone ==
    ASSUME NEW m, IsFcn(m)
    PROVE  Work!Apply(m, NoRecords) = m
<1>1. DOMAIN NoRecords = {}
  BY DEF NoRecords
<1>2. {k \in DOMAIN m \cup DOMAIN NoRecords : k \in DOMAIN NoRecords => NoRecords[k] # <<>>}
        = DOMAIN m
  BY <1>1
<1>3. Work!Apply(m, NoRecords) = [k \in DOMAIN m |-> m[k]]
  BY <1>1, <1>2 DEF Work!Apply
<1> QED
  BY <1>3 DEF IsFcn

(* WRITE and REWRITE store into the transaction what they add to the effects. *)
LEMMA ApplyStored ==
    ASSUME NEW m, NEW e, NEW k, NEW v
    PROVE  Work!Apply(m, Assign(e, k, <<v>>)) = Assign(Work!Apply(m, e), k, v)
<1> DEFINE f == Assign(e, k, <<v>>)
           D == {x \in DOMAIN m \cup DOMAIN f : x \in DOMAIN f => f[x] # <<>>}
           C == {x \in DOMAIN m \cup DOMAIN e : x \in DOMAIN e => e[x] # <<>>}
<1>1. DOMAIN f = DOMAIN e \cup {k} /\ f[k] = <<v>>
      /\ \A x \in DOMAIN e : x # k => f[x] = e[x]
  BY DEF Assign
<1>2. <<v>> # <<>> /\ <<v>>[1] = v
  OBVIOUS
<1> HIDE DEF f
<1>3. D = C \cup {k}
  BY <1>1, <1>2
<1>4. \A x \in D : (IF x \in DOMAIN f THEN f[x][1] ELSE m[x])
                 = (IF x = k THEN v ELSE IF x \in DOMAIN e THEN e[x][1] ELSE m[x])
  BY <1>1, <1>2
<1>5. Work!Apply(m, f) = [x \in D |-> IF x \in DOMAIN f THEN f[x][1] ELSE m[x]]
  BY DEF Work!Apply
<1>6. Work!Apply(m, e) = [x \in C |-> IF x \in DOMAIN e THEN e[x][1] ELSE m[x]]
  BY DEF Work!Apply
<1> HIDE DEF C, D
<1>7. Assign(Work!Apply(m, e), k, v)
        = [x \in C \cup {k} |-> IF x = k THEN v
                                ELSE IF x \in DOMAIN e THEN e[x][1] ELSE m[x]]
  BY <1>6 DEF Assign
<1>8. Work!Apply(m, f) = Assign(Work!Apply(m, e), k, v)
  BY <1>3, <1>4, <1>5, <1>7
<1> QED
  BY <1>8 DEF f

(* DELETE takes out of the transaction what it marks in the effects.          *)
LEMMA ApplyErased ==
    ASSUME NEW m, NEW e, NEW k
    PROVE  Work!Apply(m, Assign(e, k, <<>>)) = Erase(Work!Apply(m, e), k)
<1> DEFINE f == Assign(e, k, <<>>)
           D == {x \in DOMAIN m \cup DOMAIN f : x \in DOMAIN f => f[x] # <<>>}
           C == {x \in DOMAIN m \cup DOMAIN e : x \in DOMAIN e => e[x] # <<>>}
<1>1. DOMAIN f = DOMAIN e \cup {k} /\ f[k] = <<>>
      /\ \A x \in DOMAIN e : x # k => f[x] = e[x]
  BY DEF Assign
<1> HIDE DEF f
<1>3. D = C \ {k}
  BY <1>1
<1>4. \A x \in D : (IF x \in DOMAIN f THEN f[x][1] ELSE m[x])
                 = (IF x \in DOMAIN e THEN e[x][1] ELSE m[x])
  BY <1>1
<1>5. Work!Apply(m, f) = [x \in D |-> IF x \in DOMAIN f THEN f[x][1] ELSE m[x]]
  BY DEF Work!Apply
<1>6. Work!Apply(m, e) = [x \in C |-> IF x \in DOMAIN e THEN e[x][1] ELSE m[x]]
  BY DEF Work!Apply
<1> HIDE DEF C, D
<1>7. Erase(Work!Apply(m, e), k)
        = [x \in C \ {k} |-> IF x \in DOMAIN e THEN e[x][1] ELSE m[x]]
  BY <1>6 DEF Erase
<1>8. Work!Apply(m, f) = Erase(Work!Apply(m, e), k)
  BY <1>3, <1>4, <1>5, <1>7
<1> QED
  BY <1>8 DEF f

(* Both are maps again.                                                       *)
LEMMA ApplyIsFcn ==
    ASSUME NEW m, NEW e
    PROVE  IsFcn(Work!Apply(m, e))
BY DEF Work!Apply, IsFcn

(* WRITE, REWRITE and DELETE fail and change nothing, or change one record.   *)
LEMMA ExecutedShape ==
    ASSUME NEW x, x.op \in {"WRITE", "REWRITE", "DELETE"}, NEW r, r = Executed(x),
           NEW k, k = storage_key(fct.files[x.file], x.key)
    PROVE  \/ r.resp.cond # "NORMAL" /\ r.w = working
           \/ r.resp.cond = "NORMAL" /\ x.op = "DELETE" /\ r.w = Erase(working, k)
           \/ r.resp.cond = "NORMAL" /\ x.op # "DELETE" /\ r.w = Assign(working, k, x.data)
<1>1. \A c : Failed(working, c).w = working /\ Failed(working, c).resp.cond = c
  BY DEF Failed, Condition
<1>2. /\ Stored(working, k, x.data).w = Assign(working, k, x.data)
      /\ Stored(working, k, x.data).resp.cond = "NORMAL"
      /\ Erased(working, k).w = Erase(working, k)
      /\ Erased(working, k).resp.cond = "NORMAL"
  BY DEF Stored, Erased, Normal
<1>3. CASE x.op = "WRITE"
  <2>1. r = exec_write(working, fct, x.file, x.key, x.data)
    BY <1>3 DEF Executed
  <2>2. r \in {Failed(working, "FileNotFound"), Failed(working, "DuplicateKey"),
               Stored(working, k, x.data)}
    BY <2>1 DEF exec_write
  <2> QED
    BY <1>1, <1>2, <1>3, <2>2
<1>4. CASE x.op = "REWRITE"
  <2>1. r = exec_rewrite(working, fct, x.file, x.key, x.data)
    BY <1>4 DEF Executed
  <2>2. r \in {Failed(working, "FileNotFound"), Failed(working, "RecordNotFound"),
               Stored(working, k, x.data)}
    BY <2>1 DEF exec_rewrite
  <2> QED
    BY <1>1, <1>2, <1>4, <2>2
<1>5. CASE x.op = "DELETE"
  <2>1. r = exec_delete(working, fct, x.file, x.key)
    BY <1>5 DEF Executed
  <2>2. r \in {Failed(working, "FileNotFound"), Failed(working, "RecordNotFound"),
               Erased(working, k)}
    BY <2>1 DEF exec_delete
  <2> QED
    BY <1>1, <1>2, <1>5, <2>2
<1> QED
  BY <1>3, <1>4, <1>5

-------------------------------------------------------------------------------
(* Every step of a thread is one of four to the store.  d is the record of    *)
(* its call after the step.                                                   *)

Kept(t, d) == Stay /\ d.txn = task[t].txn

Opened(t, d) == begin_write(t) /\ d.txn

Closed(t, d) ==
    /\ Release(t) /\ ~d.txn
    /\ \/ data' = data
       \/ task[t].txn /\ data' = working

Edited(t, d) ==
    /\ task[t].txn /\ d.txn /\ UNCHANGED <<data, lock>>
    /\ \E k, v :
          /\ effects' = [effects EXCEPT ![t] = Assign(@, k, v)]
          /\ \/ v = <<>> /\ working' = Erase(working, k)
             \/ \E y : v = <<y>> /\ working' = Assign(working, k, y)

Moves(t, d) == Kept(t, d) \/ Opened(t, d) \/ Closed(t, d) \/ Edited(t, d)

Counters == next_task' \in Nat /\ errors' \in 0 .. MaxErrors /\ UNCHANGED restarts

StepOf(t) == \E d : CallOK(d) /\ d.txn \in BOOLEAN /\ Update(t, d) /\ Moves(t, d) /\ Counters

(* The thread-local half of an action's proof: what it leaves alone, counts.  *)
LEMMA CountersKept ==
    ASSUME RInv
    PROVE  /\ UNCHANGED <<next_task, errors, restarts>> => Counters
           /\ UNCHANGED <<errors, restarts>> /\ NextTaskId => Counters
           /\ \A t : UNCHANGED <<next_task, restarts>> /\ commit_fails(t) => Counters
<1>1. MaxErrors \in Nat /\ next_task \in Nat /\ errors \in 0 .. MaxErrors
  BY RegionAssumption DEF RInv
<1> QED
  BY <1>1 DEF Counters, NextTaskId, commit_fails

(* Every end of a unit of work releases, and only commit stores.              *)
LEMMA EndsRelease ==
    ASSUME NEW t
    PROVE  /\ commit(t) => Release(t) /\ data' = working
           /\ commit_fails(t) \/ rollback(t) => Release(t) /\ data' = data
BY DEF commit, commit_fails, rollback

(* start_task: the call, the loop over the queue, the return.                 *)
LEMMA TaskControlStep ==
    ASSUME RInv, NEW t \in Threads,
           \/ \E request \in Requests : Call(t, request)
           \/ Dispatch(t) \/ BeginTask(t) \/ EndNormal(t) \/ EndAbend(t) \/ Return(t)
    PROVE  StepOf(t)
<1> DEFINE c == task[t]
<1>1. CallOK(c) /\ c.txn \in BOOLEAN /\ c.calls \in Nat
  BY RegionAssumption DEF RInv, CallOK, CallTyped
<1>2. ASSUME NEW request \in Requests, Call(t, request)
      PROVE  StepOf(t)
  <2>1. PICK d : /\ Update(t, d)
                 /\ d = [Idle EXCEPT !.phase = "dispatch", !.queue = <<request>>,
                              !.request = request, !.calls = c.calls + 1, !.started = 1]
    BY <1>2 DEF Call
  <2>2. c.calls + 1 \in 0 .. MaxCalls
    <3>1. c.calls < MaxCalls /\ MaxCalls \in Nat
      BY <1>2, RegionAssumption DEF Call
    <3> QED
      BY <1>1, <3>1
  <2>3. CallOK(d) /\ d.txn \in BOOLEAN /\ ~d.txn
    BY <2>1, <2>2, CallNewOK
  <2>4. ~c.txn
    BY <1>1, <1>2 DEF Call, CallOK, TxnOK
  <2>5. Kept(t, d) /\ Counters
    BY <1>1, <1>2, <2>3, <2>4, CountersKept DEF Call, Kept
  <2> QED
    BY <2>1, <2>3, <2>5 DEF StepOf, Moves
<1>3. CASE Dispatch(t)
  <2>1. PICK n : n = next_task
    OBVIOUS
  <2>2. PICK d : Update(t, d) /\ d = [c EXCEPT !.phase = "begin", !.id = n, !.ran = @ + 1]
    BY <1>3, <2>1 DEF Dispatch
  <2>3. CallOK(d) /\ d.txn = c.txn
    BY <1>1, <1>3, <2>2, DispatchedOK DEF Dispatch
  <2>4. Kept(t, d) /\ Counters
    BY <1>3, <2>3, CountersKept DEF Dispatch, Kept
  <2> QED
    BY <1>1, <2>2, <2>3, <2>4 DEF StepOf, Moves
<1>4. CASE BeginTask(t)
  <2>1. PICK p, a, d : /\ Update(t, d)
                       /\ d = Run([c EXCEPT !.queue = Tail(@), !.txn = TRUE], p, a)
    BY <1>4 DEF BeginTask
  <2>2. CallOK(d) /\ d.txn
    BY <1>1, <1>4, <2>1, BegunOK DEF BeginTask
  <2>3. Opened(t, d) /\ Counters
    BY <1>4, <2>2, CountersKept DEF BeginTask, Opened
  <2>4. d.txn \in BOOLEAN
    BY <2>2 DEF CallOK, CallTyped
  <2> QED
    BY <2>1, <2>2, <2>3, <2>4 DEF StepOf, Moves
<1>5. ASSUME EndNormal(t) \/ EndAbend(t), Update(t, Ended(c))
      PROVE  StepOf(t)
  <2>1. PICK d : d = Ended(c) /\ Update(t, d)
    BY <1>5
  <2>2. CallOK(d) /\ d.txn \in BOOLEAN /\ ~d.txn
    BY <1>1, <1>5, <2>1, EndedOK DEF EndNormal, EndAbend, TaskEnded
  <2>3. Counters
    BY <1>5, CountersKept DEF EndNormal, EndAbend, commit, rollback
  <2>4. CASE Stay /\ ~c.txn
    BY <1>1, <2>1, <2>2, <2>3, <2>4 DEF StepOf, Moves, Kept
  <2>5. CASE Release(t) /\ (data' = data \/ (c.txn /\ data' = working))
    BY <2>1, <2>2, <2>3, <2>5 DEF StepOf, Moves, Closed
  <2>6. \/ Stay /\ ~c.txn
        \/ Release(t) /\ (data' = data \/ (c.txn /\ data' = working))
    <3>1. CASE EndNormal(t)
      BY <3>1, EndsRelease DEF EndNormal
    <3>2. CASE EndAbend(t)
      BY <3>2, EndsRelease DEF EndAbend
    <3> QED
      BY <1>5, <3>1, <3>2
  <2> QED
    BY <2>4, <2>5, <2>6, Zenon
<1>6. CASE EndNormal(t)
  <2>1. CASE Update(t, Ended(c))
    BY <1>5, <1>6, <2>1
  <2>2. CASE commit_fails(t) /\ Update(t, Reply(c, Condition("Io")))
    <3>1. PICK a, d : /\ a = Condition("Io") /\ d = Reply(c, a) /\ Update(t, d)
      BY <2>2
    <3>2. CallOK(d) /\ ~d.txn
      BY <1>1, <3>1, ReplyOK
    <3>3. Closed(t, d)
      BY <2>2, <3>2, EndsRelease DEF Closed
    <3>4. Counters /\ d.txn \in BOOLEAN
      BY <1>6, <2>2, <3>2, CountersKept DEF EndNormal, CallOK, CallTyped
    <3> QED
      BY <3>1, <3>2, <3>3, <3>4 DEF StepOf, Moves
  <2> QED
    BY <1>6, <2>1, <2>2 DEF EndNormal
<1>7. CASE EndAbend(t)
  BY <1>5, <1>7 DEF EndAbend
<1>8. CASE Return(t)
  <2>1. PICK a, d : a = c.result /\ d = Reply(c, a) /\ Update(t, d)
    BY <1>8 DEF Return
  <2>2. c.phase = "dispatch" /\ c.queue = <<>> /\ ~c.external /\ ~c.txn
    BY <1>1, <1>8 DEF Return, CallOK, PhaseOK, TxnOK
  <2>3. c.started = c.ran /\ c.result = c.first
    BY <1>1, <2>2, EmptySequence DEF CallOK, CallTyped, QueueOK, FirstOK
  <2>4. CallOK(d) /\ ~d.txn
    BY <1>1, <2>1, <2>3, ReplyOK
  <2>5. d.txn \in BOOLEAN
    BY <2>4 DEF CallOK, CallTyped
  <2>6. Kept(t, d) /\ Counters
    BY <1>1, <1>8, <2>2, <2>4, <2>5, CountersKept DEF Return, Kept
  <2> QED
    BY <2>1, <2>4, <2>5, <2>6 DEF StepOf, Moves
<1> QED
  BY <1>2, <1>3, <1>4, <1>6, <1>7, <1>8

(* A command that leaves the store alone, and whose operator keeps the call   *)
(* in order.                                                                  *)
LEMMA QuietStep ==
    ASSUME RInv, NEW t \in Threads, NEW d, CallOK(d), d.txn = task[t].txn, Update(t, d),
           Stay, UNCHANGED <<next_task, errors, restarts>>
    PROVE  StepOf(t)
<1>1. Counters /\ Kept(t, d)
  BY CountersKept DEF Kept
<1>2. d.txn \in BOOLEAN
  BY DEF CallOK, CallTyped
<1> QED
  BY <1>1, <1>2 DEF StepOf, Moves

(* The commands of a program that do not touch the store: Program Control,    *)
(* READ and browse, and the end of a program.                                 *)
LEMMA ProgramStep ==
    ASSUME RInv, NEW t \in Threads, NEW x,
           \/ ExecRead(t, x) \/ ExecBrowse(t, x)
           \/ Link(t, x) \/ Xctl(t, x) \/ Start(t, x) \/ Leave(t, x)
    PROVE  StepOf(t)
<1>1. PICK c : c = task[t]
  OBVIOUS
<1>2. CallOK(c) /\ c.phase = "run" /\ Stay /\ UNCHANGED <<next_task, errors, restarts>>
  BY <1>1 DEF RInv, ExecRead, ExecBrowse, Link, Xctl, Start, Leave, Issues
<1>3. Ready(c) /\ c.stack # <<>>
  BY <1>2, RunningReady
<1>4. PICK e : e = [c EXCEPT !.commands = @ + 1]
  OBVIOUS
<1>5. Ready(e) /\ e.stack # <<>> /\ e.txn = c.txn
  BY <1>3, <1>4, CountedReady
<1>6. Counted(t) = e
  BY <1>1, <1>4 DEF Counted
<1>7. CASE ExecRead(t, x) \/ ExecBrowse(t, x)
  <2>1. PICK resp, d : d = Respond(e, resp) /\ Update(t, d)
    BY <1>6, <1>7 DEF ExecRead, ExecBrowse
  <2>2. CallOK(d) /\ d.txn = e.txn
    BY <1>5, <2>1, RespondOK
  <2> QED
    BY <1>1, <1>2, <1>5, <2>1, <2>2, QuietStep
<1>8. CASE Link(t, x)
  <2>1. PICK p, a, d : d = link(e, p, a) /\ Update(t, d)
    BY <1>6, <1>8 DEF Link
  <2>2. CallOK(d) /\ d.txn = e.txn
    BY <1>5, <2>1, LinkOK
  <2> QED
    BY <1>1, <1>2, <1>5, <2>1, <2>2, QuietStep
<1>9. CASE Xctl(t, x)
  <2>1. PICK p, a, d : d = xctl(e, p, a) /\ Update(t, d)
    BY <1>6, <1>9 DEF Xctl
  <2>2. CallOK(d) /\ d.txn = e.txn
    BY <1>5, <2>1, XctlOK
  <2> QED
    BY <1>1, <1>2, <1>5, <2>1, <2>2, QuietStep
<1>10. CASE Start(t, x)
  <2>1. PICK p, a, d : d = start(e, p, a) /\ Update(t, d)
    BY <1>6, <1>10 DEF Start
  <2>2. CallOK(d) /\ d.txn = e.txn
    BY <1>5, <2>1, StartOK
  <2> QED
    BY <1>1, <1>2, <1>5, <2>1, <2>2, QuietStep
<1>11. CASE Leave(t, x)
  <2>1. PICK f : f = [c EXCEPT !.stack = Front(@)]
    OBVIOUS
  <2>2. PICK resp : resp = IF x.op = "RETURN" THEN Normal(x.commarea)
                           ELSE Condition(x.cond)
    OBVIOUS
  <2>3. resp # <<>>
    BY <2>2, ResponsesExist
  <2>4. PICK d : d = Returned(f, resp) /\ Update(t, d)
    BY <1>1, <1>11, <2>1, <2>2 DEF Leave
  <2>5. Ready(f) /\ f.txn = c.txn
    BY <1>3, <2>1, PoppedReady
  <2>6. CallOK(d) /\ d.txn = f.txn
    BY <2>3, <2>4, <2>5, ReturnedOK
  <2> QED
    BY <1>1, <1>2, <2>4, <2>5, <2>6, QuietStep
<1> QED
  BY <1>7, <1>8, <1>9, <1>10, <1>11

(* WRITE, REWRITE and DELETE, inside a transaction.                           *)
LEMMA ChangeStep ==
    ASSUME RInv, NEW t \in Threads, NEW x, Change(t, x)
    PROVE  StepOf(t)
<1>1. PICK c : c = task[t]
  OBVIOUS
<1>2. /\ CallOK(c) /\ c.phase = "run" /\ UNCHANGED <<data, lock>>
      /\ UNCHANGED <<next_task, errors, restarts>> /\ c.txn
      /\ x.op \in {"WRITE", "REWRITE", "DELETE"}
  BY <1>1 DEF RInv, Change, Issues
<1>3. Ready(c) /\ c.stack # <<>>
  BY <1>2, RunningReady
<1>4. PICK e : e = [c EXCEPT !.commands = @ + 1]
  OBVIOUS
<1>5. Ready(e) /\ e.stack # <<>> /\ e.txn = c.txn
  BY <1>3, <1>4, CountedReady
<1>6. Counted(t) = e
  BY <1>1, <1>4 DEF Counted
<1>7. PICK k : k = storage_key(fct.files[x.file], x.key)
  OBVIOUS
<1>8. PICK r : /\ r = Executed(x) /\ working' = r.w
               /\ Update(t, Respond(e, r.resp))
               /\ effects' = IF r.resp.cond # "NORMAL" THEN effects
                             ELSE [effects EXCEPT ![t] =
                                     Assign(@, k, IF x.op = "DELETE" THEN <<>> ELSE <<x.data>>)]
  BY <1>6, <1>7 DEF Change
<1>9. PICK resp, d : resp = r.resp /\ d = Respond(e, resp) /\ Update(t, d)
  BY <1>8
<1>10. CallOK(d) /\ d.txn = e.txn
  BY <1>5, <1>9, RespondOK
<1>11. CASE r.resp.cond # "NORMAL"
  <2>1. r.w = working
    BY <1>2, <1>7, <1>8, <1>11, ExecutedShape
  <2>2. Stay
    BY <1>2, <1>8, <1>11, <2>1 DEF Stay
  <2> QED
    BY <1>1, <1>2, <1>5, <1>9, <1>10, <2>2, QuietStep
<1>12. CASE r.resp.cond = "NORMAL"
  <2>1. PICK v : v = IF x.op = "DELETE" THEN <<>> ELSE <<x.data>>
    OBVIOUS
  <2>2. \/ v = <<>> /\ working' = Erase(working, k)
        \/ \E y : v = <<y>> /\ working' = Assign(working, k, y)
    BY <1>2, <1>7, <1>8, <1>12, <2>1, ExecutedShape
  <2>3. effects' = [effects EXCEPT ![t] = Assign(@, k, v)]
    BY <1>8, <1>12, <2>1
  <2>4. task[t].txn /\ d.txn
    BY <1>1, <1>2, <1>5, <1>10
  <2>5. Edited(t, d) /\ Counters
    BY <1>2, <2>2, <2>3, <2>4, CountersKept DEF Edited
  <2>6. d.txn \in BOOLEAN
    BY <1>10 DEF CallOK, CallTyped
  <2> QED
    BY <1>9, <1>10, <2>5, <2>6 DEF StepOf, Moves
<1> QED
  BY <1>11, <1>12

(* SYNCPOINT and SYNCPOINT ROLLBACK give the lock back, wait for it and go    *)
(* on; a failed SYNCPOINT goes on without a transaction; a panic unwinds.     *)
LEMMA SyncpointStep ==
    ASSUME RInv, NEW t \in Threads, NEW x,
           Panic(t, x) \/ Syncpoint(t, x) \/ SyncpointRollback(t, x)
    PROVE  StepOf(t)
<1>1. PICK c : c = task[t]
  OBVIOUS
<1>2. CallOK(c) /\ c.phase = "run" /\ UNCHANGED <<next_task, restarts>>
  BY <1>1 DEF RInv, Panic, Syncpoint, SyncpointRollback, Issues
<1>3. Ready(c) /\ c.stack # <<>>
  BY <1>2, RunningReady
<1>4. PICK e : e = [c EXCEPT !.commands = @ + 1]
  OBVIOUS
<1>5. Ready(e) /\ e.stack # <<>> /\ e.txn = c.txn
  BY <1>3, <1>4, CountedReady
<1>6. PICK f : f = [e EXCEPT !.phase = "sync", !.txn = FALSE]
  OBVIOUS
<1>7. CallOK(f) /\ Ready(f) /\ f.stack # <<>> /\ f.txn \in BOOLEAN /\ ~f.txn
  BY <1>5, <1>6, SyncingOK
<1>8. Syncing(t) = f
  BY <1>1, <1>4, <1>6 DEF Syncing, Counted
<1>9. ASSUME NEW d, CallOK(d), ~d.txn, Update(t, d),
             \/ rollback(t) \/ commit_fails(t)
             \/ commit(t) /\ task[t].txn
      PROVE  StepOf(t)
  <2>1. Closed(t, d)
    BY <1>9, EndsRelease DEF Closed
  <2>2. Counters
    BY <1>2, <1>9, CountersKept DEF rollback, commit
  <2>3. d.txn \in BOOLEAN
    BY <1>9 DEF CallOK, CallTyped
  <2> QED
    BY <1>9, <2>1, <2>2, <2>3 DEF StepOf, Moves
<1>10. CASE Panic(t, x)
  <2>0. PICK a, g : a = Condition("panic") /\ g = Reply(c, a)
    OBVIOUS
  <2>1. CASE rollback(t) /\ Update(t, g)
    <3>1. CallOK(g) /\ ~g.txn
      BY <1>2, <2>0, ReplyOK
    <3> QED
      BY <1>9, <2>1, <3>1
  <2>2. CASE c.external /\ Stay /\ errors' = errors /\ Update(t, [g EXCEPT !.txn = c.txn])
    <3>1. PICK d : d = [g EXCEPT !.txn = c.txn] /\ Update(t, d)
      BY <2>2
    <3>2. CallOK(d) /\ d.txn = c.txn
      BY <1>2, <2>0, <2>2, <3>1, ExternalReturnOK
    <3> QED
      BY <1>1, <1>2, <2>2, <3>1, <3>2, QuietStep
  <2>3. \/ rollback(t) /\ Update(t, g)
        \/ c.external /\ Stay /\ errors' = errors /\ Update(t, [g EXCEPT !.txn = c.txn])
    BY <1>1, <1>10, <2>0 DEF Panic
  <2> QED
    BY <2>1, <2>2, <2>3
<1>11. CASE commit_fails(t) /\ Update(t, Respond(Syncing(t), Condition("Io")))
  <2>1. PICK resp, d : d = Respond(f, resp) /\ Update(t, d)
    BY <1>8, <1>11
  <2>2. CallOK(d) /\ d.txn = f.txn
    BY <1>7, <2>1, RespondOK
  <2> QED
    BY <1>7, <1>9, <1>11, <2>1, <2>2
<1>12. CASE commit(t) /\ task[t].txn /\ Update(t, Syncing(t))
  BY <1>7, <1>8, <1>9, <1>12
<1>13. CASE rollback(t) /\ Update(t, Syncing(t))
  BY <1>7, <1>8, <1>9, <1>13
<1> QED
  BY <1>10, <1>11, <1>12, <1>13 DEF Syncpoint, SyncpointRollback

(* begin_write inside SYNCPOINT.                                              *)
LEMMA ResumeStep ==
    ASSUME RInv, NEW t \in Threads, Resume(t)
    PROVE  StepOf(t)
<1>1. PICK c : c = task[t]
  OBVIOUS
<1>2. Ready(c) /\ c.stack # <<>>
  BY <1>1, RunningReady DEF RInv, Resume
<1>3. PICK resp, d : d = Respond([c EXCEPT !.txn = TRUE], resp) /\ Update(t, d)
  BY <1>1 DEF Resume
<1>4. CallOK(d) /\ d.txn
  BY <1>2, <1>3, ResumedOK
<1>5. Opened(t, d) /\ Counters
  BY <1>4, CountersKept DEF Opened, Resume
<1>6. d.txn \in BOOLEAN
  BY <1>4 DEF CallOK, CallTyped
<1> QED
  BY <1>3, <1>4, <1>5, <1>6 DEF StepOf, Moves

(* The gateway's own unit of work, and its calls of link_external.            *)
LEMMA GatewayStep ==
    ASSUME RInv, NEW t \in Threads, Gateway(t)
    PROVE  StepOf(t)
<1>1. PICK c : c = task[t]
  OBVIOUS
<1>2. CallOK(c) /\ c.txn \in BOOLEAN /\ c.calls \in Nat
  BY <1>1, RegionAssumption DEF RInv, CallOK, CallTyped
<1>3. CASE OpenUnit(t)
  <2>1. PICK b, d : b \in BOOLEAN /\ b /\ d = [c EXCEPT !.txn = b] /\ Update(t, d)
    BY <1>1, <1>3 DEF OpenUnit
  <2>2. CallOK(d) /\ d.txn = b
    BY <1>1, <1>2, <1>3, <2>1, UnitOK DEF OpenUnit, Outside
  <2>3. Opened(t, d) /\ Counters
    BY <1>3, <2>1, <2>2, CountersKept DEF OpenUnit, Outside, Opened
  <2> QED
    BY <2>1, <2>2, <2>3 DEF StepOf, Moves
<1>4. CASE CloseUnit(t)
  <2>1. PICK b, d : b \in BOOLEAN /\ ~b /\ d = [c EXCEPT !.txn = b] /\ Update(t, d)
    BY <1>1, <1>4 DEF CloseUnit
  <2>2. CallOK(d) /\ d.txn = b
    BY <1>1, <1>2, <1>4, <2>1, UnitOK DEF CloseUnit, Outside
  <2>3. Closed(t, d)
    BY <1>4, <2>1, <2>2, EndsRelease DEF CloseUnit, Closed
  <2>4. Counters
    BY <1>4, CountersKept DEF CloseUnit, Outside, rollback, commit
  <2> QED
    BY <2>1, <2>2, <2>3, <2>4 DEF StepOf, Moves
<1>5. CASE ReturnExternal(t)
  <2>1. PICK a, e : a = c.outcome /\ e = Reply(c, a)
    OBVIOUS
  <2>2. PICK d : d = [e EXCEPT !.txn = c.txn] /\ Update(t, d)
    BY <1>1, <1>5, <2>1 DEF ReturnExternal
  <2>3. CallOK(d) /\ d.txn = c.txn
    BY <1>1, <1>2, <1>5, <2>1, <2>2, ExternalReturnOK DEF ReturnExternal
  <2> QED
    BY <1>1, <1>5, <2>2, <2>3, QuietStep DEF ReturnExternal
<1>6. ASSUME NEW level \in Levels, NEW request \in Requests,
             CallExternal(t, level, request)
      PROVE  StepOf(t)
  <2>1. PICK b, n : b \in BOOLEAN /\ b = c.txn /\ n = c.calls + 1
    BY <1>2
  <2>2. n \in 0 .. MaxCalls
    <3>1. c.calls < MaxCalls /\ MaxCalls \in Nat
      BY <1>1, <1>6, RegionAssumption DEF CallExternal
    <3> QED
      BY <1>2, <2>1, <3>1
  <2>3. PICK e : e = [Idle EXCEPT !.external = TRUE, !.txn = b, !.calls = n]
    OBVIOUS
  <2>4. PICK d : d = link_external(e, level, request) /\ Update(t, d)
    BY <1>1, <1>6, <2>1, <2>3 DEF CallExternal
  <2>5. b \in BOOLEAN
    BY <2>1
  <2>6. CallOK(d) /\ d.txn = b
    BY <2>2, <2>3, <2>4, <2>5, ExternalOK, GatewayAssumption
  <2> QED
    BY <1>1, <1>6, <2>1, <2>4, <2>6, QuietStep DEF CallExternal, Outside
<1> QED
  BY <1>3, <1>4, <1>5, <1>6 DEF Gateway

-------------------------------------------------------------------------------
(* The store, step by step.                                                   *)

(* What each unit of work reads.                                              *)
Seen == [t \in Threads |-> IF t \in lock THEN working ELSE NoRecords]

(* The units of the refinement start from the same empty effects.             *)
LEMMA SameNone == Work!None = NoRecords
BY DEF Work!None, NoRecords

(* The records of all calls after a step of t.                                *)
LEMMA StepCalls ==
    ASSUME RInv, NEW t \in Threads, NEW d, CallOK(d), Update(t, d)
    PROVE  /\ IsFcn(task)' /\ (DOMAIN task)' = Threads
           /\ task'[t] = d
           /\ \A u \in Threads \ {t} : task'[u] = task[u]
           /\ \A u \in Threads : CallOK(task[u])'
<1>1. task' = [task EXCEPT ![t] = d] /\ DOMAIN task = Threads
  BY DEF RInv, Update
<1>2. IsFcn(task)' /\ (DOMAIN task)' = Threads /\ task'[t] = d
      /\ \A u \in Threads \ {t} : task'[u] = task[u]
  BY <1>1 DEF IsFcn
<1>3. \A u \in Threads : task'[u] = d \/ task'[u] = task[u]
  BY <1>2
<1>4. \A u \in Threads : CallOK(task[u])
  BY DEF RInv
<1> QED
  BY <1>2, <1>3, <1>4

(* No step on the store.                                                      *)
LEMMA KeptStore ==
    ASSUME RInv, NEW t \in Threads, NEW d, CallOK(d), d.txn \in BOOLEAN, Update(t, d),
           Stay, d.txn = task[t].txn
    PROVE  StoreOK' /\ UNCHANGED Work!vars
<1>1. StoreOK /\ UNCHANGED <<data, lock, working, effects>>
  BY DEF RInv, Stay
<1>2. \A u \in Threads : task'[u].txn = task[u].txn
  BY StepCalls
<1>3. UNCHANGED Work!vars
  BY <1>1 DEF Work!vars
<1>4. {u \in Threads : task'[u].txn} = {u \in Threads : task[u].txn}
  BY <1>2
<1>5. StoreOK'
  BY <1>1, <1>4 DEF StoreOK
<1> QED
  BY <1>3, <1>5

(* begin_write: the unit of work starts from the records committed last.      *)
LEMMA OpenedStore ==
    ASSUME RInv, NEW t \in Threads, NEW d, CallOK(d), d.txn \in BOOLEAN, Update(t, d),
           begin_write(t), d.txn
    PROVE  StoreOK' /\ Work!Begin(t)
<1>1. StoreOK /\ lock = {} /\ lock' = {t} /\ working' = data /\ data' = data
      /\ effects' = effects
  BY DEF RInv, begin_write
<1>2. task'[t].txn /\ \A u \in Threads \ {t} : ~task'[u].txn
  BY <1>1, StepCalls DEF StoreOK
<1>3. lock' = {u \in Threads : task'[u].txn}
  BY <1>1, <1>2
<1>4. effects[t] = NoRecords /\ IsFcn(data)
  BY <1>1 DEF StoreOK
<1>5. Work!Apply(data, effects[t]) = data
  BY <1>4, ApplyNone
<1>6. StoreOK'
  BY <1>1, <1>3, <1>5 DEF StoreOK
<1>7. Seen' = [Seen EXCEPT ![t] = data]
  BY <1>1 DEF Seen
<1>8. Work!Begin(t)
  BY <1>1, <1>7 DEF Work!Begin, Seen
<1> QED
  BY <1>6, <1>8

(* commit, rollback and the drop of a transaction: all of its effects become  *)
(* committed records, or none.                                                *)
LEMMA ClosedStore ==
    ASSUME RInv, NEW t \in Threads, NEW d, CallOK(d), d.txn \in BOOLEAN, Update(t, d),
           Closed(t, d)
    PROVE  /\ StoreOK'
           /\ Work!Commit(t) \/ Work!Backout(t) \/ UNCHANGED Work!vars
<1>1. /\ StoreOK /\ ~d.txn /\ lock' = lock \ {t}
      /\ effects' = [effects EXCEPT ![t] = NoRecords]
      /\ working' = IF t \in lock THEN NoRecords ELSE working
  BY DEF RInv, Closed, Release
<1>2. ~task'[t].txn /\ \A u \in Threads \ {t} : task'[u].txn = task[u].txn
  BY <1>1, StepCalls
<1>3. lock = {u \in Threads : task[u].txn}
  BY <1>1 DEF StoreOK
<1>4. lock' = {u \in Threads : task'[u].txn}
  BY <1>1, <1>2, <1>3
<1>5. CASE t \in lock
  <2>1. lock = {t} /\ lock' = {}
    BY <1>1, <1>5 DEF StoreOK
  <2>2. /\ IsFcn(effects) /\ DOMAIN effects = Threads
        /\ \A u \in Threads \ {t} : effects[u] = NoRecords
        /\ working = Work!Apply(data, effects[t]) /\ IsFcn(data)
    BY <1>1, <2>1 DEF StoreOK
  <2>3. /\ IsFcn(effects') /\ DOMAIN effects' = Threads
        /\ \A u \in Threads : effects'[u] = NoRecords
    BY <1>1, <2>2 DEF IsFcn
  <2>4. IsFcn(NoRecords)
    BY DEF IsFcn, NoRecords
  <2>5. data' = data \/ data' = working
    BY DEF Closed
  <2>6. IsFcn(data')
    BY <2>2, <2>5, ApplyIsFcn
  <2>7. StoreOK'
    BY <1>4, <2>1, <2>3, <2>4, <2>6 DEF StoreOK
  <2>8. Seen' = [Seen EXCEPT ![t] = NoRecords]
    BY <1>1, <2>1 DEF Seen
  <2>9. Work!End(t)
    BY <1>1, <2>1, <2>8, SameNone DEF Work!End, Seen
  <2> QED
    BY <2>2, <2>5, <2>7, <2>9 DEF Work!Commit, Work!Backout
<1>6. CASE t \notin lock
  <2>1. ~task[t].txn /\ effects[t] = NoRecords
    BY <1>1, <1>3, <1>6 DEF StoreOK
  <2>2. data' = data
    BY <2>1 DEF Closed
  <2>3. effects' = effects
    BY <1>1, <2>1 DEF StoreOK, IsFcn
  <2>4. lock' = lock /\ working' = working
    BY <1>1, <1>6
  <2>5. StoreOK'
    BY <1>1, <1>4, <2>2, <2>3, <2>4 DEF StoreOK
  <2> QED
    BY <2>2, <2>3, <2>4, <2>5 DEF Work!vars
<1> QED
  BY <1>5, <1>6

(* WRITE, REWRITE and DELETE: the transaction shows the committed records     *)
(* under its effects, the new one included.                                   *)
LEMMA EditedStore ==
    ASSUME RInv, NEW t \in Threads, NEW d, CallOK(d), d.txn \in BOOLEAN, Update(t, d),
           Edited(t, d)
    PROVE  StoreOK' /\ Work!Change(t)
<1>1. StoreOK /\ task[t].txn /\ d.txn /\ data' = data /\ lock' = lock
  BY DEF RInv, Edited
<1>2. PICK k, v : /\ effects' = [effects EXCEPT ![t] = Assign(@, k, v)]
                  /\ \/ v = <<>> /\ working' = Erase(working, k)
                     \/ \E y : v = <<y>> /\ working' = Assign(working, k, y)
  BY DEF Edited
<1>3. lock = {t}
  BY <1>1 DEF StoreOK
<1>4. lock' = {u \in Threads : task'[u].txn}
  <2>1. task'[t].txn /\ \A u \in Threads \ {t} : task'[u].txn = task[u].txn
    BY <1>1, StepCalls
  <2>2. lock = {u \in Threads : task[u].txn}
    BY <1>1 DEF StoreOK
  <2> QED
    BY <1>1, <2>1, <2>2
<1>5. /\ IsFcn(effects) /\ DOMAIN effects = Threads
      /\ \A u \in Threads \ {t} : effects[u] = NoRecords
      /\ \A u \in Threads : IsFcn(effects[u])
      /\ working = Work!Apply(data, effects[t]) /\ IsFcn(data)
  BY <1>1, <1>3 DEF StoreOK
<1>6. /\ DOMAIN effects' = Threads /\ effects'[t] = Assign(effects[t], k, v)
      /\ \A u \in Threads \ {t} : effects'[u] = effects[u]
  BY <1>2, <1>5
<1>7. IsFcn(effects')
  BY <1>2, <1>5 DEF IsFcn
<1>8. working' = Work!Apply(data, effects'[t])
  <2>1. CASE v = <<>> /\ working' = Erase(working, k)
    BY <1>5, <1>6, <2>1, ApplyErased
  <2>2. ASSUME NEW y, v = <<y>>, working' = Assign(working, k, y)
        PROVE  working' = Work!Apply(data, effects'[t])
    BY <1>5, <1>6, <2>2, ApplyStored
  <2> QED
    BY <1>2, <2>1, <2>2
<1>9. \A u \in Threads : IsFcn(effects'[u])
  <2>1. IsFcn(Assign(effects[t], k, v))
    BY DEF IsFcn, Assign
  <2> QED
    BY <1>5, <1>6, <2>1
<1>10. StoreOK'
  BY <1>1, <1>3, <1>4, <1>5, <1>6, <1>7, <1>8, <1>9 DEF StoreOK
<1>11. Seen' = [Seen EXCEPT ![t] = Work!Apply(data, effects'[t])]
  BY <1>1, <1>3, <1>8 DEF Seen
<1>12. k \in DOMAIN effects'[t] /\ effects'[t][k] = v
  BY <1>6 DEF Assign
<1>13. effects' = [effects EXCEPT ![t] =
          [x \in DOMAIN @ \cup {k} |-> IF x = k THEN effects'[t][k] ELSE @[x]]]
  BY <1>2, <1>12 DEF Assign
<1>14. Work!Change(t)
  BY <1>1, <1>3, <1>11, <1>12, <1>13 DEF Work!Change, Seen
<1> QED
  BY <1>10, <1>14

-------------------------------------------------------------------------------
(* The invariant and the theorems.                                            *)

(* Every action of a thread is a step of the form above.                      *)
LEMMA ThreadStep ==
    ASSUME RInv, NEW t \in Threads,
           \/ \E request \in Requests : Call(t, request)
           \/ Acquire(t) \/ Proceed(t) \/ Gateway(t)
    PROVE  StepOf(t)
<1>1. CASE Gateway(t)
  BY <1>1, GatewayStep
<1>2. CASE Acquire(t)
  BY <1>2, TaskControlStep, ResumeStep DEF Acquire
<1>3. CASE Proceed(t)
  <2>1. CASE Dispatch(t) \/ EndNormal(t) \/ EndAbend(t) \/ Return(t)
    BY <2>1, TaskControlStep
  <2>2. CASE Command(t)
    BY <2>2, ProgramStep, ChangeStep, SyncpointStep DEF Command
  <2> QED
    BY <1>3, <2>1, <2>2 DEF Proceed
<1>4. CASE \E request \in Requests : Call(t, request)
  BY <1>4, TaskControlStep
<1> QED
  BY <1>1, <1>2, <1>3, <1>4

(* A step of that form keeps the invariant and is a step of Units.            *)
LEMMA StepKeeps ==
    ASSUME RInv, NEW t \in Threads, StepOf(t)
    PROVE  RInv' /\ (Work!Next \/ UNCHANGED Work!vars)
<1>1. PICK d : CallOK(d) /\ d.txn \in BOOLEAN /\ Update(t, d) /\ Moves(t, d) /\ Counters
  BY DEF StepOf
<1>2. StoreOK' /\ (Work!Next \/ UNCHANGED Work!vars)
  <2>1. CASE Kept(t, d)
    BY <1>1, <2>1, KeptStore DEF Kept
  <2>2. CASE Opened(t, d)
    BY <1>1, <2>2, OpenedStore DEF Opened, Work!Next
  <2>3. CASE Closed(t, d)
    BY <1>1, <2>3, ClosedStore DEF Work!Next
  <2>4. CASE Edited(t, d)
    BY <1>1, <2>4, EditedStore DEF Work!Next
  <2> QED
    BY <1>1, <2>1, <2>2, <2>3, <2>4 DEF Moves
<1>3. IsFcn(task)' /\ (DOMAIN task)' = Threads /\ \A u \in Threads : CallOK(task[u])'
  BY <1>1, StepCalls
<1>4. /\ next_task' \in Nat /\ errors' \in 0 .. MaxErrors /\ restarts' \in 0 .. MaxRestarts
  BY <1>1 DEF Counters, RInv
<1> QED
  BY <1>2, <1>3, <1>4 DEF RInv

(* The process dies: every open unit of work is backed out.                   *)
LEMMA RestartKeeps ==
    ASSUME RInv, Restart
    PROVE  RInv' /\ (Work!Next \/ UNCHANGED Work!vars)
<1>1. /\ restarts < MaxRestarts /\ restarts' = restarts + 1 /\ lock' = {}
      /\ working' = NoRecords /\ next_task' = 1 /\ data' = data /\ errors' = errors
      /\ effects' = [t \in Threads |-> NoRecords]
      /\ task' = [t \in Threads |-> [Idle EXCEPT !.calls = task[t].calls,
                                                 !.external = task[t].external]]
  BY DEF Restart
<1>2. \A t \in Threads : CallOK(task'[t]) /\ ~task'[t].txn
  <2> SUFFICES ASSUME NEW t \in Threads
               PROVE  CallOK(task'[t]) /\ ~task'[t].txn
    OBVIOUS
  <2>1. PICK b \in BOOLEAN, n \in 0 .. MaxCalls : b = task[t].external /\ n = task[t].calls
    BY DEF RInv, CallOK, CallTyped
  <2>2. task'[t] = [Idle EXCEPT !.calls = n, !.external = b]
    BY <1>1, <2>1
  <2> QED
    BY <2>2, IdleOK
<1>3. IsFcn(task') /\ DOMAIN task' = Threads
  BY <1>1 DEF IsFcn
<1>4. restarts' \in 0 .. MaxRestarts
  <2>1. MaxRestarts \in Nat /\ restarts \in 0 .. MaxRestarts
    BY RegionAssumption DEF RInv
  <2>2. restarts < MaxRestarts /\ restarts' = restarts + 1
    BY <1>1
  <2> QED
    BY <2>1, <2>2
<1>5. IsFcn(effects') /\ DOMAIN effects' = Threads
      /\ \A t \in Threads : effects'[t] = NoRecords
  BY <1>1 DEF IsFcn
<1>6. IsFcn(NoRecords)
  BY DEF IsFcn, NoRecords
<1>7. StoreOK'
  <2>1. lock' = {t \in Threads : task'[t].txn}
    BY <1>1, <1>2
  <2>2. IsFcn(data')
    BY <1>1 DEF RInv, StoreOK
  <2> QED
    BY <1>1, <1>5, <1>6, <2>1, <2>2 DEF StoreOK
<1>8. RInv'
  BY <1>1, <1>2, <1>3, <1>4, <1>7 DEF RInv
<1>9. StoreOK
  BY DEF RInv
<1>10. CASE lock = {}
  <2>1. effects' = effects
    BY <1>1, <1>9, <1>10 DEF StoreOK, IsFcn
  <2>2. Seen' = Seen
    BY <1>1, <1>10 DEF Seen
  <2>3. UNCHANGED Work!vars
    BY <1>1, <1>10, <2>1, <2>2 DEF Work!vars, Seen
  <2> QED
    BY <1>8, <2>3
<1>11. CASE lock # {}
  <2>1. PICK t \in Threads : lock = {t}
    BY <1>9, <1>11 DEF StoreOK
  <2>2. effects' = [effects EXCEPT ![t] = NoRecords]
    BY <1>1, <1>9, <2>1 DEF StoreOK, IsFcn
  <2>3. Seen' = [Seen EXCEPT ![t] = NoRecords]
    BY <1>1, <2>1 DEF Seen
  <2>4. Work!Backout(t)
    BY <1>1, <2>1, <2>2, <2>3, SameNone DEF Work!Backout, Work!End, Seen
  <2> QED
    BY <1>8, <2>4 DEF Work!Next
<1> QED
  BY <1>10, <1>11

(* The states a region or a gateway starts in.                                *)
LEMMA InitRInv ==
    ASSUME GatewayInit
    PROVE  RInv /\ Work!Init
<1>1. /\ data = NoRecords /\ working = NoRecords /\ lock = {} /\ next_task = 1
      /\ effects = [t \in Threads |-> NoRecords] /\ errors = 0 /\ restarts = 0
  BY DEF GatewayInit, NewStore
<1>2. PICK b \in BOOLEAN : task = [t \in Threads |-> [Idle EXCEPT !.external = b]]
  BY DEF GatewayInit
<1>3. MaxCalls \in Nat /\ MaxErrors \in Nat /\ MaxRestarts \in Nat
  BY RegionAssumption
<1>4. \A t \in Threads : CallOK(task[t]) /\ ~task[t].txn
  <2>1. PICK d : d = [Idle EXCEPT !.external = b]
    OBVIOUS
  <2>2. IsCall(d)
    BY <2>1 DEF Idle, IsCall
  <2>3. /\ d.phase = "idle" /\ d.queue = <<>> /\ d.stack = <<>> /\ d.level = 1
        /\ d.txn \in BOOLEAN /\ ~d.txn /\ d.external = b /\ d.outcome = <<>>
        /\ d.answer = <<>> /\ d.calls = 0
        /\ d.commands = 0 /\ d.started = 0 /\ d.ran = 0
    BY <2>1 DEF Idle
  <2>4. 0 \in 0 .. MaxCalls
    BY <1>3
  <2>5. CallOK(d)
    BY <2>2, <2>3, <2>4, RestOK
  <2> QED
    BY <1>2, <2>1, <2>3, <2>5
<1>5. IsFcn(task) /\ DOMAIN task = Threads /\ IsFcn(effects) /\ DOMAIN effects = Threads
      /\ \A t \in Threads : effects[t] = NoRecords
  BY <1>1, <1>2 DEF IsFcn
<1>6. IsFcn(NoRecords)
  BY DEF IsFcn, NoRecords
<1>7. lock = {t \in Threads : task[t].txn}
  BY <1>1, <1>4
<1>8. StoreOK
  BY <1>1, <1>5, <1>6, <1>7 DEF StoreOK
<1>9. RInv
  BY <1>1, <1>3, <1>4, <1>5, <1>8 DEF RInv
<1>10. Work!Init
  BY <1>1, SameNone DEF Work!Init
<1> QED
  BY <1>9, <1>10

(* One step of a region with its gateways.                                    *)
LEMMA NextKeeps ==
    ASSUME RInv, [GatewayNext]_vars
    PROVE  RInv' /\ [Work!Next]_(Work!vars)
<1>1. ASSUME UNCHANGED <<data, lock, working, task, effects, errors, restarts>>,
             next_task' \in Nat
      PROVE  RInv' /\ UNCHANGED Work!vars
  <2>1. RInv'
    BY <1>1 DEF RInv, StoreOK
  <2>2. UNCHANGED Work!vars
    BY <1>1 DEF Work!vars
  <2> QED
    BY <2>1, <2>2
<1>2. CASE task_count_hint
  <2>1. next_task' \in Nat
    BY <1>2 DEF task_count_hint, NextTaskId, RInv
  <2> QED
    BY <1>1, <1>2, <2>1 DEF task_count_hint, Stay
<1>3. CASE UNCHANGED vars
  BY <1>1, <1>3 DEF vars, RInv
<1>4. CASE Restart
  BY <1>4, RestartKeeps
<1>5. CASE \E t \in Threads : \/ \E request \in Requests : Call(t, request)
                              \/ Acquire(t) \/ Proceed(t) \/ Gateway(t)
  BY <1>5, ThreadStep, StepKeeps
<1> QED
  BY <1>2, <1>3, <1>4, <1>5 DEF GatewayNext, Next

(* The invariant says what the runs check.                                    *)
LEMMA RInvImplies ==
    ASSUME RInv
    PROVE  TypeOK /\ LockOwned /\ DepthBounded /\ AnswerComplete
<1>1. TypeOK
  BY DEF RInv, StoreOK, CallOK, CallTyped, PhaseOK, TypeOK
<1>2. LockOwned
  <2>1. lock = {t \in Threads : task[t].txn} /\ \A t, u \in lock : t = u
    BY DEF RInv, StoreOK
  <2>2. \A t \in Threads : task[t].txn => task[t].phase \in {"run", "end", "idle"}
    BY DEF RInv, CallOK, CallTyped, TxnOK, Phases
  <2> QED
    BY <2>1, <2>2 DEF LockOwned
<1>3. DepthBounded
  BY DEF RInv, CallOK, DepthOK, DepthBounded
<1>4. AnswerComplete
  BY DEF RInv, CallOK, AnswerOK, AnswerComplete
<1> QED
  BY <1>1, <1>2, <1>3, <1>4

(* Whatever programs are defined and whatever they do, every region and every *)
(* gateway keeps the inductive invariant.  The fairness of GatewaySpec is not *)
(* needed for safety.                                                         *)
THEOREM Invariance == GatewaySpec => []RInv
<1>1. GatewayInit => RInv
  BY InitRInv
<1>2. RInv /\ [GatewayNext]_vars => RInv'
  BY NextKeeps
<1> QED
  BY <1>1, <1>2, PTL DEF GatewaySpec

(* The record of a call of start_task or link_external is the one its phase   *)
(* needs, and a call leaves nothing queued.                                   *)
THEOREM TypeCorrect == GatewaySpec => []TypeOK
<1>1. RInv => TypeOK
  BY RInvImplies
<1> QED
  BY <1>1, Invariance, PTL

(* No end of a task, of a SYNCPOINT or of a call - RETURN, ABEND, a failed    *)
(* commit, a panic, the death of the process - leaves a transaction without   *)
(* the writer lock or the lock without a transaction, and whoever waits for   *)
(* it in begin_write does not hold it.                                        *)
THEOREM LockDiscipline == GatewaySpec => []LockOwned
<1>1. RInv => LockOwned
  BY RInvImplies
<1> QED
  BY <1>1, Invariance, PTL

(* LINK, XCTL and link_external, in any mix and from any level a gateway      *)
(* passes, never run a program deeper than MAX_LINK_DEPTH.                    *)
THEOREM DepthSafety == GatewaySpec => []DepthBounded
<1>1. RInv => DepthBounded
  BY RInvImplies
<1> QED
  BY <1>1, Invariance, PTL

(* start_task has run everything that was STARTed when it returns without an  *)
(* I/O error, and returns what its originating task returned.                 *)
THEOREM AnswersComplete == GatewaySpec => []AnswerComplete
<1>1. RInv => AnswerComplete
  BY RInvImplies
<1> QED
  BY <1>1, Invariance, PTL

(* A region with its gateways implements serial units of work: every effect   *)
(* of a task since its last syncpoint is committed at once or backed out, and *)
(* each unit works on the records committed last.                             *)
THEOREM UnitsRefined == GatewaySpec => ImplementsUnits
<1>1. GatewayInit => RInv /\ Work!Init
  BY InitRInv
<1>2. RInv /\ [GatewayNext]_vars => RInv' /\ [Work!Next]_(Work!vars)
  BY NextKeeps
<1> QED
  BY <1>1, <1>2, PTL DEF GatewaySpec, ImplementsUnits, Work!Spec

===============================================================================
