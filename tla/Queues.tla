------------------------------- MODULE Queues -------------------------------
(***************************************************************************)
(* The queues of chschd.c that threads wait in, as sequences of threads.   *)
(***************************************************************************)
EXTENDS Integers, Sequences, SequencesExt

\* Mutation: the thread is not dequeued.
DequeueNone(q, t) == q

\* queue_dequeue(tp): the only occurrence of t leaves q.
Dequeue(q, t) == LET i == CHOOSE j \in DOMAIN q : q[j] = t IN RemoveAt(q, i)

\* queue_prio_insert: behind every thread of the same or a higher priority.
PrioInsert(q, t, p) ==
  LET i == SelectInSeq(q, LAMBDA w : p[w] < p[t])
  IN InsertAt(q, IF i = 0 THEN Len(q) + 1 ELSE i, t)

\* Several threads leave q at once: those in S stay, in their order.
StillIn(q, S) ==
  LET kept[i \in 0..Len(q)] ==
        IF i = 0 THEN <<>>
        ELSE IF q[i] \in S THEN Append(kept[i - 1], q[i]) ELSE kept[i - 1]
  IN kept[Len(q)]

\* The most urgent thread first.
Descending(q, p) == \A i, j \in DOMAIN q : i < j => p[q[i]] >= p[q[j]]

=============================================================================
