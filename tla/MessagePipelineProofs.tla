----------------------- MODULE MessagePipelineProofs -----------------------
(***************************************************************************)
(* Theorems about MessagePipeline, for any number of requests and senders, *)
(* any queue size and any number of crashes and database errors.           *)
(***************************************************************************)
EXTENDS MessagePipeline, FiniteSetTheorems, TLAPS

(***************************************************************************)
(* The type invariant.                                                     *)
(***************************************************************************)

\* The initial state has the right types.
LEMMA TypeInit == Init => TypeOK
BY QueueSizeAssumption DEF Init, TypeOK, RowStates, Live, HandlerPCs, SenderPCs

\* A step of the push handler (controller/message.go) keeps the types; the
\* bound on the queue is the capacity of the Go channel.
LEMMA TypeHandler ==
    ASSUME TypeOK, NEW r \in Requests, Handler(r)
    PROVE  TypeOK'
<1> USE DEF TypeOK, RowStates, Live, HandlerPCs, SenderPCs, Goto, Fault,
            senderVars, loaderVars, history
<1>1. CASE HandlerReject(r)
  BY <1>1 DEF HandlerReject
<1>2. CASE HandlerAccept(r)
  BY <1>2 DEF HandlerAccept, Accept
<1>3. CASE HandlerResend(r)
  BY <1>3 DEF HandlerResend, Accept
<1>4. CASE HandlerInsert(r)
  BY <1>4 DEF HandlerInsert, Create
<1>5. CASE HandlerInsertFails(r)
  BY <1>5 DEF HandlerInsertFails, InsertFails
<1>6. CASE HandlerSend(r)
  <2>1. sends' \in [Ids -> Nat] /\ paid' \in SUBSET Requests
    <3>1. CASE saved[r]
      BY <1>6, <3>1 DEF HandlerSend
    <3>2. CASE ~saved[r]
      BY <1>6, <3>2 DEF HandlerSend
    <3> QED
      BY <3>1, <3>2
  <2>2. /\ pc' \in [Requests -> HandlerPCs] /\ success' \in [Requests -> BOOLEAN]
        /\ pc'[r] # "send" /\ \A q \in Requests \ {r} : pc'[q] = pc[q]
    BY <1>6 DEF HandlerSend, Answer
  <2>3. \A q \in Requests : pc'[q] = "send" /\ saved[q] => id[q] \in Ids
    BY <2>2
  <2> QED
    BY <1>6, <2>1, <2>2, <2>3 DEF HandlerSend
<1>7. CASE HandlerStatus(r)
  BY <1>7 DEF HandlerStatus, AfterStatus, UpdateStatus, Answer
<1>8. CASE HandlerStatusFails(r)
  BY <1>8 DEF HandlerStatusFails, AfterStatus, Answer
<1>9. CASE HandlerEnqueue(r)
  BY <1>9, QueueSizeAssumption DEF HandlerEnqueue, Enqueue, Answer
<1>10. CASE HandlerInsertTaken(r)
  BY <1>10 DEF HandlerInsertTaken, InsertFails
<1> QED
  BY <1>1, <1>2, <1>3, <1>4, <1>5, <1>6, <1>7, <1>8, <1>9, <1>10 DEF Handler

\* A step of asyncMessageSender keeps the types.
LEMMA TypeSender ==
    ASSUME TypeOK, NEW s \in Senders, Sender(s)
    PROVE  TypeOK'
<1> USE DEF TypeOK, RowStates, Live, HandlerPCs, SenderPCs, Fault, EndIteration,
            handlerVars, loaderVars, history
<1>1. CASE SenderReceive(s)
  BY <1>1, QueueSizeAssumption DEF SenderReceive
<1>2. CASE SenderLoad(s)
  BY <1>2 DEF SenderLoad
<1>3. CASE SenderSkip(s)
  BY <1>3 DEF SenderSkip
<1>4. CASE SenderLoadFails(s)
  BY <1>4 DEF SenderLoadFails
<1>5. CASE SenderLookupFails(s)
  BY <1>5 DEF SenderLookupFails
<1>6. CASE SenderSend(s)
  BY <1>6 DEF SenderSend
<1>7. CASE SenderStatus(s)
  BY <1>7 DEF SenderStatus, UpdateStatus
<1>8. CASE SenderStatusFails(s)
  BY <1>8 DEF SenderStatusFails
<1> QED
  BY <1>1, <1>2, <1>3, <1>4, <1>5, <1>6, <1>7, <1>8 DEF Sender

\* The end of the process keeps the types.
LEMMA TypeDie ==
    ASSUME TypeOK, Die, crashes' \in Nat, faults' \in Nat
    PROVE  TypeOK'
<1>1. pc' \in [Requests -> HandlerPCs]
  BY DEF TypeOK, Die, HandlerPCs
<1>2. /\ queue' \in Seq(Ids \cup {NoId})
      /\ Len(queue') <= QueueSize
  BY QueueSizeAssumption DEF Die
<1>3. /\ spc' \in [Senders -> SenderPCs]
      /\ sid' \in [Senders -> Ids \cup {NoId}]
      /\ sok' \in [Senders -> BOOLEAN]
      /\ \A s \in Senders : spc'[s] \in {"send", "status"} => sid'[s] \in Ids
  BY DEF Die, SenderPCs
<1> QED
  BY <1>1, <1>2, <1>3 DEF TypeOK, Die

\* The other steps (loader, deletions, crash, restart) keep the types.
LEMMA TypeOther ==
    ASSUME TypeOK,
           \/ Loader \/ LoaderReadFails \/ DeleteMessage \/ DeleteAllMessages
           \/ Crash \/ Restart \/ Quiescent \/ UNCHANGED vars
    PROVE  TypeOK'
<1> USE DEF TypeOK, RowStates, Live, HandlerPCs, SenderPCs, Fault,
            handlerVars, senderVars, loaderVars, history
<1>1. CASE LoaderRead
  BY <1>1 DEF LoaderRead, AsyncPendingIds
<1>2. CASE LoaderPush
  BY <1>2, QueueSizeAssumption DEF LoaderPush
<1>3. CASE LoaderReadFails
  <2>1. crashes' \in Nat /\ faults' \in Nat /\ Die
    BY <1>3 DEF LoaderReadFails
  <2> QED
    BY <2>1, TypeDie
<1>4. CASE DeleteMessage
  BY <1>4 DEF DeleteMessage, Delete
<1>5. CASE DeleteAllMessages
  BY <1>5 DEF DeleteAllMessages, Delete
<1>6. CASE Crash
  <2>1. crashes' \in Nat /\ faults' \in Nat /\ Die
    BY <1>6 DEF Crash
  <2> QED
    BY <2>1, TypeDie
<1>7. CASE Restart
  BY <1>7 DEF Restart
<1>8. CASE Quiescent \/ UNCHANGED vars
  BY <1>8 DEF Quiescent, vars
<1> QED
  BY <1>1, <1>2, <1>3, <1>4, <1>5, <1>6, <1>7, <1>8 DEF Loader

LEMMA TypeNext == TypeOK /\ [Next]_vars => TypeOK'
BY TypeHandler, TypeSender, TypeOther DEF Next

\* Every reachable state is well typed; in particular the queue never holds
\* more ids than the Go channel's capacity, whoever sends on it.
THEOREM TypeCorrect == Spec => []TypeOK
<1>1. Init => TypeOK
  BY TypeInit
<1>2. TypeOK /\ [Next]_vars => TypeOK'
  BY TypeNext
<1> QED
  BY <1>1, <1>2, PTL DEF Spec

(***************************************************************************)
(* What the queue holds.                                                   *)
(***************************************************************************)

\* Enqueueing adds the new id and nothing else.
LEMMA OccursAppend ==
    ASSUME NEW S, NEW q \in Seq(S), NEW e \in S, NEW r
    PROVE  Occurs(r, Append(q, e)) <=> (r = e \/ Occurs(r, q))
<1>1. ASSUME Occurs(r, Append(q, e)) PROVE r = e \/ Occurs(r, q)
  BY <1>1 DEF Occurs
<1>2. ASSUME r = e PROVE Occurs(r, Append(q, e))
  <2>1. /\ Len(q) + 1 \in 1..Len(Append(q, e))
        /\ Append(q, e)[Len(q) + 1] = r
    BY <1>2
  <2> QED
    BY <2>1 DEF Occurs
<1>3. ASSUME Occurs(r, q) PROVE Occurs(r, Append(q, e))
  <2>1. PICK i \in 1..Len(q) : q[i] = r
    BY <1>3 DEF Occurs
  <2>2. i \in 1..Len(Append(q, e)) /\ Append(q, e)[i] = r
    BY <2>1
  <2> QED
    BY <2>2 DEF Occurs
<1> QED
  BY <1>1, <1>2, <1>3

\* Receiving takes the first id and leaves the others.
LEMMA OccursTail ==
    ASSUME NEW S, NEW q \in Seq(S), q # <<>>, NEW r
    PROVE  Occurs(r, q) <=> (r = Head(q) \/ Occurs(r, Tail(q)))
<1>1. ASSUME Occurs(r, q) PROVE r = Head(q) \/ Occurs(r, Tail(q))
  <2>1. PICK i \in 1..Len(q) : q[i] = r
    BY <1>1 DEF Occurs
  <2>2. CASE i = 1
    BY <2>1, <2>2
  <2>3. CASE i # 1
    <3>1. i - 1 \in 1..Len(Tail(q)) /\ Tail(q)[i - 1] = r
      BY <2>1, <2>3
    <3> QED
      BY <3>1 DEF Occurs
  <2> QED
    BY <2>2, <2>3
<1>2. ASSUME r = Head(q) PROVE Occurs(r, q)
  <2>1. 1 \in 1..Len(q) /\ q[1] = r
    BY <1>2
  <2> QED
    BY <2>1 DEF Occurs
<1>3. ASSUME Occurs(r, Tail(q)) PROVE Occurs(r, q)
  <2>1. PICK i \in 1..Len(Tail(q)) : Tail(q)[i] = r
    BY <1>3 DEF Occurs
  <2>2. i + 1 \in 1..Len(q) /\ q[i + 1] = r
    BY <2>1
  <2> QED
    BY <2>2 DEF Occurs
<1> QED
  BY <1>1, <1>2, <1>3

\* The channel of a new process is empty.
LEMMA OccursEmpty == ASSUME NEW r PROVE ~Occurs(r, <<>>)
BY DEF Occurs

(***************************************************************************)
(* No AsyncPending row is forgotten.                                       *)
(***************************************************************************)

\* A handler's step leaves every AsyncPending row covered: it is marked
\* just before its id is enqueued, and enqueueing hands it to the queue.
LEMMA CoveredHandler ==
    ASSUME TypeOK, AsyncPendingCovered, NEW h \in Requests, Handler(h)
    PROVE  AsyncPendingCovered'
<1> SUFFICES ASSUME up', NEW i \in Ids, row'[i] = "AsyncPending"
             PROVE  (Covered(i) \/ i \in missed)'
  BY DEF AsyncPendingCovered
<1> DEFINE Enqueuing == \E r \in Requests : pc[r] = "enqueue" /\ id[r] = i
<1>0. /\ spc' = spc /\ sid' = sid /\ ids' = ids /\ lpc' = lpc
      /\ missed' = missed /\ up' = up
  BY DEF Handler, HandlerReject, HandlerAccept, HandlerResend, Accept,
         HandlerInsert, HandlerInsertFails, HandlerInsertTaken, InsertFails,
         HandlerSend, HandlerStatus, HandlerStatusFails, HandlerEnqueue,
         Enqueue, senderVars, loaderVars, history
<1>a. HeldBySender(i)' = HeldBySender(i)
  BY <1>0 DEF HeldBySender
<1> USE <1>0, <1>a DEF Goto, Fault, Covered, Underway, InQueue
<1>1. CASE HandlerReject(h) \/ HandlerAccept(h) \/ HandlerResend(h)
  <2>1. /\ row' = row /\ queue' = queue /\ pc[h] = "idle"
        /\ \A r \in Requests \ {h} : pc'[r] = pc[r] /\ id'[r] = id[r]
    BY <1>1 DEF HandlerReject, HandlerAccept, HandlerResend, Accept, TypeOK
  <2>2. Enqueuing => Enqueuing'
    BY <2>1
  <2> QED
    BY <2>1, <2>2 DEF AsyncPendingCovered
<1>2. CASE HandlerInsert(h) \/ HandlerInsertFails(h) \/ HandlerInsertTaken(h)
           \/ HandlerSend(h)
  <2>1. /\ row[i] = "AsyncPending" /\ queue' = queue
        /\ pc[h] \in {"insert", "send"}
        /\ \A r \in Requests \ {h} : pc'[r] = pc[r] /\ id'[r] = id[r]
    BY <1>2 DEF HandlerInsert, Create, HandlerInsertFails, HandlerInsertTaken,
                InsertFails, HandlerSend, TypeOK
  <2>2. Enqueuing => Enqueuing'
    BY <2>1
  <2> QED
    BY <2>1, <2>2 DEF AsyncPendingCovered
<1>3. CASE HandlerStatus(h)
  <2>1. /\ queue' = queue /\ id' = id /\ pc[h] = "status"
        /\ \A r \in Requests \ {h} : pc'[r] = pc[r]
    BY <1>3 DEF HandlerStatus, AfterStatus, TypeOK
  <2>2. Enqueuing => Enqueuing'
    BY <2>1
  <2>3. CASE row[i] = "AsyncPending"
    BY <2>1, <2>2, <2>3 DEF AsyncPendingCovered
  <2>4. CASE row[i] # "AsyncPending"
    BY <1>3, <2>4, <2>1 DEF HandlerStatus, UpdateStatus, AfterStatus, TypeOK
  <2> QED
    BY <2>3, <2>4
<1>4. CASE HandlerStatusFails(h)
  <2>1. /\ queue' = queue /\ id' = id /\ pc[h] = "status" /\ row' = row
        /\ \A r \in Requests \ {h} : pc'[r] = pc[r]
    BY <1>4 DEF HandlerStatusFails, AfterStatus, TypeOK
  <2>2. Enqueuing => Enqueuing'
    BY <2>1
  <2> QED
    BY <2>1, <2>2 DEF AsyncPendingCovered
<1>5. CASE HandlerEnqueue(h)
  <2>0. /\ queue \in Seq(Ids \cup {NoId}) /\ id[h] \in Ids \cup {NoId}
        /\ queue' = Append(queue, id[h])
    BY <1>5 DEF HandlerEnqueue, Enqueue, TypeOK
  <2>1. Occurs(i, queue') <=> (i = id[h] \/ Occurs(i, queue))
    BY <2>0, OccursAppend
  <2>2. /\ row' = row /\ id' = id
        /\ \A r \in Requests \ {h} : pc'[r] = pc[r]
    BY <1>5 DEF HandlerEnqueue, Enqueue, TypeOK
  <2>3. Enqueuing => Enqueuing' \/ i = id[h]
    BY <2>2
  <2> QED
    BY <2>1, <2>2, <2>3 DEF AsyncPendingCovered
<1> QED
  BY <1>1, <1>2, <1>3, <1>4, <1>5 DEF Handler

\* A sender lets go of an AsyncPending row only by settling it, or because of
\* a database error.
LEMMA CoveredSender ==
    ASSUME TypeOK, AsyncPendingCovered, NEW s \in Senders, Sender(s)
    PROVE  AsyncPendingCovered'
<1> SUFFICES ASSUME up', NEW i \in Ids, row'[i] = "AsyncPending"
             PROVE  (Covered(i) \/ i \in missed)'
  BY DEF AsyncPendingCovered
<1>0. pc' = pc /\ id' = id /\ lpc' = lpc /\ ids' = ids /\ up' = up
  BY DEF Sender, SenderReceive, SenderLoad, SenderSkip, SenderLoadFails,
         SenderLookupFails, SenderSend, SenderStatus, SenderStatusFails,
         handlerVars, loaderVars
<1> USE <1>0 DEF Fault, EndIteration, history, Covered, Underway, InQueue,
                 HeldBySender
<1>1. CASE SenderReceive(s)
  <2>1. Occurs(i, queue) <=> (i = Head(queue) \/ Occurs(i, queue'))
    BY <1>1, OccursTail DEF SenderReceive, TypeOK
  <2>2. i = Head(queue) => HeldBySender(i)'
    BY <1>1 DEF SenderReceive, TypeOK
  <2>3. HeldBySender(i) => HeldBySender(i)'
    BY <1>1 DEF SenderReceive, TypeOK
  <2> QED
    BY <1>1, <2>1, <2>2, <2>3 DEF SenderReceive, AsyncPendingCovered
<1>2. CASE SenderLoad(s)
  <2>1. HeldBySender(i) => HeldBySender(i)'
    BY <1>2 DEF SenderLoad, TypeOK
  <2> QED
    BY <1>2, <2>1 DEF SenderLoad, AsyncPendingCovered
<1>3. CASE SenderSkip(s)
  <2>1. sid[s] # i
    BY <1>3 DEF SenderSkip, Live
  <2>2. HeldBySender(i) => HeldBySender(i)'
    BY <1>3, <2>1 DEF SenderSkip, TypeOK
  <2> QED
    BY <1>3, <2>2 DEF SenderSkip, AsyncPendingCovered
<1>4. CASE SenderLoadFails(s)
  <2>1. HeldBySender(i) => HeldBySender(i)' \/ i \in missed'
    BY <1>4, NoIdAssumption DEF SenderLoadFails, TypeOK
  <2> QED
    BY <1>4, <2>1 DEF SenderLoadFails, AsyncPendingCovered
<1>5. CASE SenderLookupFails(s)
  <2>1. HeldBySender(i) => HeldBySender(i)'
    BY <1>5 DEF SenderLookupFails, TypeOK
  <2> QED
    BY <1>5, <2>1 DEF SenderLookupFails, AsyncPendingCovered
<1>6. CASE SenderSend(s)
  <2>1. HeldBySender(i) => HeldBySender(i)'
    BY <1>6 DEF SenderSend, TypeOK
  <2> QED
    BY <1>6, <2>1 DEF SenderSend, AsyncPendingCovered
<1>7. CASE SenderStatus(s)
  <2>1. sid[s] # i /\ row[i] = "AsyncPending"
    BY <1>7 DEF SenderStatus, UpdateStatus, TypeOK, Live
  <2>2. HeldBySender(i) => HeldBySender(i)'
    BY <1>7, <2>1 DEF SenderStatus, TypeOK
  <2> QED
    BY <1>7, <2>1, <2>2 DEF SenderStatus, AsyncPendingCovered
<1>8. CASE SenderStatusFails(s)
  <2>1. HeldBySender(i) => HeldBySender(i)' \/ i \in missed'
    BY <1>8 DEF SenderStatusFails, TypeOK
  <2> QED
    BY <1>8, <2>1 DEF SenderStatusFails, AsyncPendingCovered
<1> QED
  BY <1>1, <1>2, <1>3, <1>4, <1>5, <1>6, <1>7, <1>8 DEF Sender

\* The loader reads every AsyncPending row and drops none; a new process
\* starts with a loader that has not read yet.
LEMMA CoveredOther ==
    ASSUME TypeOK, AsyncPendingCovered, ~up => lpc = "read",
           \/ Loader \/ LoaderReadFails \/ DeleteMessage \/ DeleteAllMessages
           \/ Crash \/ Restart \/ Quiescent \/ UNCHANGED vars
    PROVE  AsyncPendingCovered'
<1> SUFFICES ASSUME up', NEW i \in Ids, row'[i] = "AsyncPending"
             PROVE  (Covered(i) \/ i \in missed)'
  BY DEF AsyncPendingCovered
<1> USE DEF Fault, handlerVars, senderVars, loaderVars, history, Covered,
            Underway, InQueue, HeldBySender
<1>1. CASE LoaderRead
  BY <1>1 DEF LoaderRead, AsyncPendingIds
<1>2. CASE LoaderPush
  <2>1. PICK j \in ids : queue' = Append(queue, j) /\ ids' = ids \ {j}
    BY <1>2 DEF LoaderPush
  <2>a. queue \in Seq(Ids \cup {NoId}) /\ j \in Ids \cup {NoId}
    BY DEF TypeOK
  <2>2. Occurs(i, queue') <=> (i = j \/ Occurs(i, queue))
    BY <2>1, <2>a, OccursAppend
  <2> QED
    BY <1>2, <2>1, <2>2 DEF LoaderPush, AsyncPendingCovered
<1>3. CASE LoaderReadFails \/ Crash
  BY <1>3 DEF LoaderReadFails, Crash, Die
<1>4. CASE DeleteMessage \/ DeleteAllMessages
  <2>1. PICK D \in SUBSET Ids : Delete(D)
    BY <1>4 DEF DeleteMessage, DeleteAllMessages
  <2> QED
    BY <2>1 DEF Delete, AsyncPendingCovered
<1>5. CASE Restart
  BY <1>5 DEF Restart
<1>6. CASE Quiescent \/ UNCHANGED vars
  BY <1>6 DEF Quiescent, vars, AsyncPendingCovered
<1> QED
  BY <1>1, <1>2, <1>3, <1>4, <1>5, <1>6 DEF Loader

\* A process that is down will start with a loader that has not read yet.
DownMeansUnread == ~up => lpc = "read"

LEMMA DownNext ==
    ASSUME TypeOK, DownMeansUnread, [Next]_vars
    PROVE  DownMeansUnread'
<1> USE DEF DownMeansUnread, Fault, Goto, EndIteration, handlerVars, senderVars,
            loaderVars, history
<1>1. CASE \E r \in Requests : Handler(r)
  BY <1>1 DEF Handler, HandlerReject, HandlerAccept, HandlerResend, Accept,
              HandlerInsert, HandlerInsertFails, HandlerInsertTaken,
              InsertFails, HandlerSend, HandlerStatus, HandlerStatusFails,
              HandlerEnqueue, Enqueue
<1>2. CASE \E s \in Senders : Sender(s)
  BY <1>2 DEF Sender, SenderReceive, SenderLoad, SenderSkip, SenderLoadFails,
              SenderLookupFails, SenderSend, SenderStatus, SenderStatusFails
<1>3. CASE Loader
  BY <1>3 DEF Loader, LoaderRead, LoaderPush
<1>4. CASE LoaderReadFails \/ Crash
  BY <1>4 DEF LoaderReadFails, Crash, Die
<1>5. CASE DeleteMessage \/ DeleteAllMessages
  BY <1>5 DEF DeleteMessage, DeleteAllMessages, Delete
<1>6. CASE Restart \/ Quiescent \/ UNCHANGED vars
  BY <1>6 DEF Restart, Quiescent, vars
<1> QED
  BY <1>1, <1>2, <1>3, <1>4, <1>5, <1>6 DEF Next

\* Whatever the interleaving of handlers, senders, loader, deletions, crashes
\* and restarts, a row that saveAndSendMessage marked AsyncPending always has
\* someone who will bring it to a send, or met a database error in a sender.
THEOREM AsyncPendingNeverForgotten == Spec => []AsyncPendingCovered
<1> DEFINE IInv == TypeOK /\ DownMeansUnread /\ AsyncPendingCovered
<1>1. Init => IInv
  BY TypeInit DEF Init, AsyncPendingCovered, DownMeansUnread
<1>2. IInv /\ [Next]_vars => IInv'
  <2> SUFFICES ASSUME TypeOK, DownMeansUnread, AsyncPendingCovered, [Next]_vars
               PROVE  TypeOK' /\ DownMeansUnread' /\ AsyncPendingCovered'
    OBVIOUS
  <2>1. AsyncPendingCovered'
    BY CoveredHandler, CoveredSender, CoveredOther DEF Next, DownMeansUnread
  <2> QED
    BY <2>1, TypeNext, DownNext
<1>3. IInv => AsyncPendingCovered
  OBVIOUS
<1> QED
  BY <1>1, <1>2, <1>3, PTL DEF Spec

(***************************************************************************)
(* Who may hold an id, and when.                                           *)
(***************************************************************************)

\* What the place of a handler says of its message: the message of an idle
\* handler is empty, only asynchronous handlers enqueue, and a handler that
\* has not come to its send or its enqueue has not paid for one.
HandlerCustody(r) ==
    /\ pc[r] = "idle" => ~async[r] /\ ~saved[r] /\ id[r] = NoId
    /\ pc[r] \in {"insert", "status", "enqueue"} => saved[r]
    /\ pc[r] = "enqueue" => async[r]
    /\ pc[r] = "send" => ~async[r] /\ (saved[r] => r \in inserted)
    /\ pc[r] \in {"idle", "insert"} => r \notin inserted
    /\ pc[r] \in {"idle", "insert", "send"} => r \notin paid
    /\ async[r] /\ pc[r] \in {"status", "enqueue"} => r \notin paid
    /\ r \in inserted => id[r] \in Ids /\ saved[r]
    /\ r \in paid => saved[r] /\ (async[r] \/ r \in inserted)

\* What the carriers of an id say of its row: without an asynchronous carrier
\* it is never under way, and the only carrier of an id is alone with its row
\* until it has marked it.
IdCustody(i) ==
    /\ SyncOnly(i) => ~Underway(i) /\ row[i] # "AsyncPending" /\ reloads[i] = 0
    /\ row[i] # "absent" => \E r \in Requests : Carries(r, i)
    /\ Alone(i) => \A r \in Requests :
         /\ Carries(r, i) /\ async[r] /\ pc[r] \in {"insert", "status"} =>
              ~Underway(i) /\ row[i] \in {"absent", "Pending", "deleted"}
         /\ Carries(r, i) /\ pc[r] = "insert" => row[i] = "absent"

Custody ==
    /\ \A r \in Requests : HandlerCustody(r)
    /\ \A i \in Ids : IdCustody(i)

\* Only the enqueue of a handler that carries it puts an id on its way.
LEMMA UnderwayHandler ==
    ASSUME TypeOK, NEW h \in Requests, Handler(h), NEW i \in Ids
    PROVE  Underway(i)' => Underway(i) \/ (pc[h] = "enqueue" /\ id[h] = i)
<1> USE DEF Underway, InQueue, HeldBySender, senderVars, loaderVars
<1>1. CASE HandlerEnqueue(h)
  <2>1. /\ queue \in Seq(Ids \cup {NoId}) /\ id[h] \in Ids \cup {NoId}
        /\ queue' = Append(queue, id[h])
    BY <1>1 DEF HandlerEnqueue, Enqueue, TypeOK
  <2>2. Occurs(i, queue') <=> (i = id[h] \/ Occurs(i, queue))
    BY <2>1, OccursAppend
  <2> QED
    BY <1>1, <2>2 DEF HandlerEnqueue, Enqueue
<1>2. CASE ~HandlerEnqueue(h)
  BY <1>2 DEF Handler, HandlerReject, HandlerAccept, HandlerResend, Accept,
              HandlerInsert, HandlerInsertFails, HandlerInsertTaken,
              InsertFails, HandlerSend, HandlerStatus, HandlerStatusFails
<1> QED
  BY <1>1, <1>2

\* A sender only moves ids from the queue to itself.
LEMMA UnderwaySender ==
    ASSUME TypeOK, NEW s \in Senders, Sender(s), NEW i \in Ids
    PROVE  Underway(i)' => Underway(i)
<1> USE DEF Underway, InQueue, HeldBySender, loaderVars, EndIteration
<1>1. CASE SenderReceive(s)
  <2>1. Occurs(i, queue) <=> (i = Head(queue) \/ Occurs(i, queue'))
    BY <1>1, OccursTail DEF SenderReceive, TypeOK
  <2>2. HeldBySender(i)' => HeldBySender(i) \/ i = Head(queue)
    BY <1>1 DEF SenderReceive, TypeOK
  <2> QED
    BY <1>1, <2>1, <2>2 DEF SenderReceive
<1>2. CASE ~SenderReceive(s)
  <2>1. queue' = queue /\ ids' = ids
    BY <1>2 DEF Sender, SenderLoad, SenderSkip, SenderLoadFails,
                SenderLookupFails, SenderSend, SenderStatus, SenderStatusFails
  <2>2. HeldBySender(i)' => HeldBySender(i)
    BY <1>2 DEF Sender, SenderLoad, SenderSkip, SenderLoadFails,
                SenderLookupFails, SenderSend, SenderStatus, SenderStatusFails,
                TypeOK
  <2> QED
    BY <2>1, <2>2
<1> QED
  BY <1>1, <1>2

\* A handler's own steps keep its custody and touch no other handler's.
LEMMA HandlerCustodyHandler ==
    ASSUME TypeOK, Custody, NEW h \in Requests, Handler(h), NEW r \in Requests
    PROVE  HandlerCustody(r)'
<1>0. HandlerCustody(r)
  BY DEF Custody
<1> USE <1>0 DEF HandlerCustody, TypeOK, Goto, history
<1>1. CASE HandlerReject(h)
  BY <1>1 DEF HandlerReject
<1>2. CASE HandlerAccept(h)
  BY <1>2 DEF HandlerAccept, Accept
<1>3. CASE HandlerResend(h)
  BY <1>3 DEF HandlerResend, Accept
<1>4. CASE HandlerInsert(h)
  BY <1>4 DEF HandlerInsert, Create
<1>5. CASE HandlerInsertFails(h) \/ HandlerInsertTaken(h)
  BY <1>5 DEF HandlerInsertFails, HandlerInsertTaken, InsertFails
<1>6. CASE HandlerSend(h)
  BY <1>6 DEF HandlerSend, Answer
<1>7. CASE HandlerStatus(h)
  BY <1>7 DEF HandlerStatus, AfterStatus, Answer
<1>8. CASE HandlerStatusFails(h)
  BY <1>8 DEF HandlerStatusFails, AfterStatus, Answer
<1>9. CASE HandlerEnqueue(h)
  BY <1>9 DEF HandlerEnqueue, Enqueue, Answer
<1> QED
  BY <1>1, <1>2, <1>3, <1>4, <1>5, <1>6, <1>7, <1>8, <1>9 DEF Handler

\* A request keeps the id it carries, and its message is asynchronous or not
\* for good: nobody ceases to be alone or synchronous backwards.
LEMMA CarriersGrow ==
    ASSUME TypeOK, Custody, NEW h \in Requests, Handler(h)
    PROVE  /\ \A r \in Requests, i \in Ids : Carries(r, i) => Carries(r, i)'
           /\ \A r \in Requests, i \in Ids :
                Carries(r, i) => (async[r] <=> async'[r])
           /\ \A i \in Ids : SyncOnly(i)' => SyncOnly(i)
           /\ \A i \in Ids : Alone(i)' => Alone(i)
<1>0. HandlerCustody(h)
  BY DEF Custody
<1>1. \A r \in Requests, i \in Ids :
        Carries(r, i) => Carries(r, i)' /\ (async[r] <=> async'[r])
  <2> USE <1>0 DEF Carries, HandlerCustody, TypeOK
  <2>1. CASE HandlerAccept(h) \/ HandlerResend(h)
    BY <2>1 DEF HandlerAccept, HandlerResend, Accept
  <2>2. CASE HandlerInsert(h)
    BY <2>2, NoIdAssumption DEF HandlerInsert, Create
  <2>3. CASE ~HandlerAccept(h) /\ ~HandlerResend(h) /\ ~HandlerInsert(h)
    BY <2>3 DEF Handler, HandlerReject, HandlerInsertFails, HandlerInsertTaken,
                InsertFails, HandlerSend, HandlerStatus, HandlerStatusFails,
                HandlerEnqueue, Enqueue
  <2> QED
    BY <2>1, <2>2, <2>3
<1>2. \A i \in Ids : SyncOnly(i)' => SyncOnly(i)
  BY <1>1 DEF SyncOnly
<1>3. \A i \in Ids : Alone(i)' => Alone(i)
  BY <1>1 DEF Alone
<1> QED
  BY <1>1, <1>2, <1>3

\* Handlers keep the custody of rows: the only carrier of an id is alone with
\* its row until it enqueues.
LEMMA IdCustodyHandler ==
    ASSUME TypeOK, Custody, NEW h \in Requests, Handler(h), NEW i \in Ids
    PROVE  IdCustody(i)'
<1>0. IdCustody(i) /\ HandlerCustody(h)
  BY DEF Custody
<1>1. Underway(i)' => Underway(i) \/ (pc[h] = "enqueue" /\ id[h] = i)
  BY UnderwayHandler
<1>2. /\ \A r \in Requests : Carries(r, i) => Carries(r, i)'
      /\ \A r \in Requests : Carries(r, i) => (async[r] <=> async'[r])
      /\ SyncOnly(i)' => SyncOnly(i)
      /\ Alone(i)' => Alone(i)
  BY CarriersGrow
<1>3. i # NoId
  BY NoIdAssumption
<1>4. reloads' = reloads
  BY DEF Handler, HandlerReject, HandlerAccept, HandlerResend, Accept,
         HandlerInsert, HandlerInsertFails, HandlerInsertTaken, InsertFails,
         HandlerSend, HandlerStatus, HandlerStatusFails, HandlerEnqueue,
         Enqueue, history
<1> DEFINE Carried == \E r \in Requests : Carries(r, i)
           Early(r) == /\ Carries(r, i) /\ async[r] /\ pc[r] \in {"insert", "status"} =>
                            ~Underway(i) /\ row[i] \in {"absent", "Pending", "deleted"}
                       /\ Carries(r, i) /\ pc[r] = "insert" => row[i] = "absent"
<1>5. ~Carried => row[i] = "absent" /\ ~Underway(i)
  BY <1>0 DEF IdCustody, SyncOnly
<1>6. ASSUME SyncOnly(i)' => ~Underway(i)' /\ row'[i] # "AsyncPending",
             row'[i] # "absent" => row[i] # "absent" \/ Carries(h, i)',
             Alone(i)' => \A r \in Requests : Early(r)'
      PROVE  IdCustody(i)'
  <2>1. SyncOnly(i)' => reloads'[i] = 0
    BY <1>0, <1>2, <1>4 DEF IdCustody
  <2>2. row'[i] # "absent" => Carried'
    BY <1>0, <1>2, <1>6 DEF IdCustody
  <2> QED
    BY <1>6, <2>1, <2>2 DEF IdCustody, Early
<1> HIDE DEF Early
<1>7. CASE HandlerReject(h)
  <2>1. row' = row /\ id' = id /\ saved' = saved /\ async' = async
        /\ \A r \in Requests : pc'[r] = pc[r] \/ pc'[r] = "error"
    BY <1>7 DEF HandlerReject, Goto, TypeOK
  <2>2. pc[h] # "enqueue"
    BY <1>7 DEF HandlerReject
  <2> QED
    BY <1>6, <1>0, <1>1, <1>2, <2>1, <2>2 DEF IdCustody, Early, Carries
<1>8. CASE HandlerAccept(h) \/ HandlerResend(h)
  <2>1. /\ row' = row /\ pc[h] = "idle" /\ pc'[h] # "status"
        /\ \A r \in Requests \ {h} : /\ pc'[r] = pc[r] /\ id'[r] = id[r]
                                     /\ saved'[r] = saved[r] /\ async'[r] = async[r]
    BY <1>8 DEF HandlerAccept, HandlerResend, Accept, Goto, TypeOK
  <2>2. SyncOnly(i)' => ~Underway(i)' /\ row'[i] # "AsyncPending"
    BY <1>0, <1>1, <1>2, <2>1 DEF IdCustody
  <2>3. ASSUME Alone(i)', NEW r \in Requests PROVE Early(r)'
    <3>1. CASE r # h
      BY <1>0, <1>1, <1>2, <2>1, <2>3, <3>1 DEF IdCustody, Early, Carries
    <3>2. CASE r = h /\ Carries(h, i)'
      <4>1. ~Carried
        BY <1>0, <1>2, <2>1, <2>3, <3>2 DEF Alone, HandlerCustody, Carries
      <4> QED
        BY <1>1, <1>5, <2>1, <3>2, <4>1 DEF Early
    <3>3. CASE r = h /\ ~Carries(h, i)'
      BY <3>3 DEF Early
    <3> QED
      BY <3>1, <3>2, <3>3
  <2> QED
    BY <1>6, <2>1, <2>2, <2>3
<1>9. CASE HandlerInsert(h)
  <2>0. PICK j \in Ids : Create(h, j)
    BY <1>9 DEF HandlerInsert
  <2>1. /\ pc[h] = "insert" /\ saved[h] /\ saved' = saved /\ async' = async
        /\ pc'[h] = IF async[h] THEN "status" ELSE "send"
        /\ \A r \in Requests \ {h} : pc'[r] = pc[r] /\ id'[r] = id[r]
        /\ id'[h] = j
        /\ row'[i] = IF i = j THEN "Pending" ELSE row[i]
    BY <1>0, <1>9, <2>0 DEF HandlerInsert, Create, HandlerCustody, Goto, TypeOK
  <2>2. SyncOnly(i)' => ~Underway(i)' /\ row'[i] # "AsyncPending"
    BY <1>0, <1>1, <1>2, <2>1 DEF IdCustody
  <2>3. row'[i] # "absent" => row[i] # "absent" \/ Carries(h, i)'
    BY <1>3, <2>1 DEF Carries
  <2>4. ASSUME Alone(i)', NEW r \in Requests PROVE Early(r)'
    <3>1. CASE r # h /\ i # j
      BY <1>0, <1>1, <1>2, <2>1, <2>4, <3>1 DEF IdCustody, Early, Carries
    <3>2. CASE r # h /\ i = j
      <4>1. ~Carries(r, i)'
        BY <1>3, <2>1, <2>4, <3>2 DEF Alone, Carries
      <4> QED
        BY <4>1 DEF Early
    <3>3. CASE r = h /\ i = j
      <4>1. ~Underway(i)' \/ ~async[h]
        <5>1. CASE Carries(h, i)
          BY <1>0, <1>1, <1>2, <2>1, <2>4, <5>1 DEF IdCustody
        <5>2. CASE ~Carries(h, i)
          <6>1. ~Carried
            BY <1>2, <2>1, <2>4, <3>3, <5>2, <1>3 DEF Alone, Carries
          <6> QED
            BY <1>1, <1>5, <2>1, <6>1
        <5> QED
          BY <5>1, <5>2
      <4> QED
        BY <2>1, <3>3, <4>1 DEF Early
    <3>4. CASE r = h /\ i # j
      BY <2>1, <3>4 DEF Early, Carries
    <3> QED
      BY <3>1, <3>2, <3>3, <3>4
  <2> QED
    BY <1>6, <2>2, <2>3, <2>4
<1>10. CASE HandlerInsertFails(h) \/ HandlerInsertTaken(h)
  <2>1. /\ row' = row /\ id' = id /\ saved' = saved /\ async' = async
        /\ pc[h] = "insert" /\ pc'[h] = "status"
        /\ \A r \in Requests \ {h} : pc'[r] = pc[r]
    BY <1>10 DEF HandlerInsertFails, HandlerInsertTaken, InsertFails, Goto, TypeOK
  <2> QED
    BY <1>6, <1>0, <1>1, <1>2, <2>1 DEF IdCustody, Early, Carries
<1>11. CASE HandlerSend(h) \/ HandlerStatusFails(h) \/ HandlerEnqueue(h)
  <2>1. /\ row' = row /\ id' = id /\ saved' = saved /\ async' = async
        /\ \A r \in Requests \ {h} : pc'[r] = pc[r]
        /\ pc'[h] = "status" => pc[h] = "send"
        /\ pc'[h] # "insert"
        /\ pc[h] \in {"send", "status", "enqueue"}
    BY <1>11 DEF HandlerSend, HandlerStatusFails, HandlerEnqueue, Enqueue,
                 AfterStatus, Answer, Goto, TypeOK
  <2>2. ~async[h] \/ pc'[h] \notin {"insert", "status"}
    BY <1>0, <2>1 DEF HandlerCustody
  <2>3. pc[h] = "enqueue" => async[h] /\ saved[h]
    BY <1>0 DEF HandlerCustody
  <2>4. SyncOnly(i)' => ~Underway(i)' /\ row'[i] # "AsyncPending"
    BY <1>0, <1>1, <1>2, <1>3, <2>1, <2>3 DEF IdCustody, SyncOnly, Carries
  <2>5. ASSUME Alone(i)', NEW r \in Requests PROVE Early(r)'
    <3>1. CASE r = h
      BY <2>1, <2>2, <3>1 DEF Early
    <3>2. CASE r # h /\ Carries(r, i)
      <4>1. ~Carries(h, i)
        BY <1>2, <2>5, <3>2 DEF Alone
      <4>2. Underway(i)' => Underway(i)
        BY <1>1, <1>3, <2>3, <4>1 DEF Carries
      <4> QED
        BY <1>0, <1>2, <2>1, <2>5, <3>2, <4>2 DEF IdCustody, Early, Carries
    <3>3. CASE r # h /\ ~Carries(r, i)
      BY <2>1, <3>3 DEF Early, Carries
    <3> QED
      BY <3>1, <3>2, <3>3
  <2> QED
    BY <1>6, <2>1, <2>4, <2>5
<1>12. CASE HandlerStatus(h)
  <2>1. /\ id' = id /\ saved' = saved /\ async' = async
        /\ pc[h] = "status" /\ pc'[h] \notin {"insert", "status"} /\ saved[h]
        /\ \A r \in Requests \ {h} : pc'[r] = pc[r]
        /\ row'[i] = row[i] \/ (id[h] = i /\ row[i] # "absent"
                                /\ (row'[i] = "AsyncPending" => async[h]))
    BY <1>0, <1>12 DEF HandlerStatus, UpdateStatus, AfterStatus, Answer, Goto,
                       HandlerCustody, Live, TypeOK
  <2>2. SyncOnly(i)' => ~Underway(i)' /\ row'[i] # "AsyncPending"
    BY <1>0, <1>1, <1>2, <1>3, <2>1 DEF IdCustody, SyncOnly, Carries
  <2>3. row'[i] # "absent" => row[i] # "absent"
    BY <2>1
  <2>4. ASSUME Alone(i)', NEW r \in Requests PROVE Early(r)'
    <3>1. CASE r = h
      BY <2>1, <3>1 DEF Early
    <3>2. CASE r # h /\ Carries(r, i)
      <4>1. ~Carries(h, i)
        BY <1>2, <2>4, <3>2 DEF Alone
      <4>2. row'[i] = row[i]
        BY <1>3, <2>1, <4>1 DEF Carries
      <4> QED
        BY <1>0, <1>1, <1>2, <2>1, <2>4, <3>2, <4>2 DEF IdCustody, Early, Carries
    <3>3. CASE r # h /\ ~Carries(r, i)
      BY <2>1, <3>3 DEF Early, Carries
    <3> QED
      BY <3>1, <3>2, <3>3
  <2> QED
    BY <1>6, <2>2, <2>3, <2>4
<1> QED
  BY <1>7, <1>8, <1>9, <1>10, <1>11, <1>12 DEF Handler

LEMMA CustodyHandler ==
    ASSUME TypeOK, Custody, NEW h \in Requests, Handler(h)
    PROVE  Custody'
BY HandlerCustodyHandler, IdCustodyHandler DEF Custody

\* Senders work only for ids that are under way, hence carried by an
\* asynchronous handler and already marked.
LEMMA CustodySender ==
    ASSUME TypeOK, Custody, NEW s \in Senders, Sender(s)
    PROVE  Custody'
<1>0. /\ pc' = pc /\ id' = id /\ async' = async /\ saved' = saved
      /\ inserted' = inserted /\ paid' = paid /\ reloads' = reloads
  BY DEF Sender, SenderReceive, SenderLoad, SenderSkip, SenderLoadFails,
         SenderLookupFails, SenderSend, SenderStatus, SenderStatusFails,
         handlerVars, history
<1>1. ASSUME NEW r \in Requests PROVE HandlerCustody(r)'
  BY <1>0 DEF Custody, HandlerCustody
<1>2. ASSUME NEW i \in Ids PROVE IdCustody(i)'
  <2>1. IdCustody(i)
    BY DEF Custody
  <2>2. Underway(i)' => Underway(i)
    BY UnderwaySender
  <2>3. row'[i] = row[i] \/ (Underway(i) /\ row[i] \in Live /\ row'[i] \in Settled)
    <3>1. CASE SenderStatus(s)
      BY <3>1 DEF SenderStatus, UpdateStatus, TypeOK, Underway, HeldBySender, Settled
    <3>2. CASE ~SenderStatus(s)
      BY <3>2 DEF Sender, SenderReceive, SenderLoad, SenderSkip, SenderLoadFails,
                  SenderLookupFails, SenderSend, SenderStatusFails
    <3> QED
      BY <3>1, <3>2
  <2> QED
    BY <1>0, <2>1, <2>2, <2>3 DEF IdCustody, SyncOnly, Alone, Carries, Settled, Live
<1> QED
  BY <1>1, <1>2 DEF Custody

\* The loader picks up marked rows only; a crash ends all custody.
LEMMA CustodyOther ==
    ASSUME TypeOK, Custody,
           \/ Loader \/ LoaderReadFails \/ DeleteMessage \/ DeleteAllMessages
           \/ Crash \/ Restart \/ Quiescent \/ UNCHANGED vars
    PROVE  Custody'
<1> USE DEF handlerVars, senderVars, loaderVars, history
<1>0. /\ id' = id /\ async' = async /\ saved' = saved
      /\ inserted' = inserted /\ paid' = paid
      /\ \A r \in Requests : pc'[r] = pc[r] \/ pc'[r] = "dead"
  BY DEF Loader, LoaderRead, LoaderPush, LoaderReadFails, Crash, Die,
         DeleteMessage, DeleteAllMessages, Delete, Restart, Quiescent, vars, TypeOK
<1>1. ASSUME NEW r \in Requests PROVE HandlerCustody(r)'
  BY <1>0 DEF Custody, HandlerCustody
<1>2. ASSUME NEW i \in Ids PROVE IdCustody(i)'
  <2>0. IdCustody(i)
    BY DEF Custody
  <2>1. /\ SyncOnly(i)' <=> SyncOnly(i)
        /\ Alone(i)' <=> Alone(i)
        /\ \A r \in Requests : Carries(r, i)' <=> Carries(r, i)
    BY <1>0 DEF SyncOnly, Alone, Carries
  <2>2. ASSUME Underway(i)' => Underway(i) \/ row[i] = "AsyncPending",
               row'[i] = row[i] \/ (row[i] # "absent" /\ row'[i] = "deleted"),
               reloads'[i] = reloads[i] \/ row[i] = "AsyncPending"
        PROVE  IdCustody(i)'
    BY <1>0, <2>0, <2>1, <2>2 DEF IdCustody
  <2>3. CASE LoaderRead
    BY <2>2, <2>3 DEF LoaderRead, AsyncPendingIds, Underway, InQueue, HeldBySender
  <2>4. CASE LoaderPush
    <3>1. PICK j \in ids : queue' = Append(queue, j) /\ ids' = ids \ {j}
      BY <2>4 DEF LoaderPush
    <3>2. queue \in Seq(Ids \cup {NoId}) /\ j \in Ids \cup {NoId}
      BY DEF TypeOK
    <3>3. Occurs(i, queue') <=> (i = j \/ Occurs(i, queue))
      BY <3>1, <3>2, OccursAppend
    <3>4. Underway(i)' => Underway(i)
      BY <2>4, <3>1, <3>3 DEF LoaderPush, Underway, InQueue, HeldBySender
    <3> QED
      BY <2>2, <2>4, <3>4 DEF LoaderPush
  <2>5. CASE LoaderReadFails \/ Crash
    <3>1. Die
      BY <2>5 DEF LoaderReadFails, Crash
    <3>2. ~Underway(i)'
      BY <3>1, OccursEmpty DEF Die, Underway, InQueue, HeldBySender
    <3> QED
      BY <2>2, <3>1, <3>2 DEF Die
  <2>6. CASE DeleteMessage \/ DeleteAllMessages
    <3>1. PICK D \in SUBSET Ids : Delete(D)
      BY <2>6 DEF DeleteMessage, DeleteAllMessages
    <3>2. Underway(i)' = Underway(i)
      BY <3>1 DEF Delete, Underway, InQueue, HeldBySender
    <3> QED
      BY <2>2, <3>1, <3>2 DEF Delete, Live
  <2>7. CASE Restart \/ Quiescent \/ UNCHANGED vars
    <3>1. Underway(i)' = Underway(i)
      BY <2>7 DEF Restart, Quiescent, vars, Underway, InQueue, HeldBySender
    <3> QED
      BY <2>2, <2>7, <3>1 DEF Restart, Quiescent, vars
  <2> QED
    BY <2>3, <2>4, <2>5, <2>6, <2>7 DEF Loader
<1> QED
  BY <1>1, <1>2 DEF Custody

\* Custody holds in every reachable state.
LEMMA CustodyHolds == Spec => [](TypeOK /\ Custody)
<1>1. Init => TypeOK /\ Custody
  <2> SUFFICES ASSUME Init PROVE Custody
    BY TypeInit
  <2>1. ASSUME NEW i \in Ids PROVE ~Underway(i)
    BY OccursEmpty DEF Init, Underway, InQueue, HeldBySender
  <2> QED
    BY <2>1, NoIdAssumption DEF Init, Custody, HandlerCustody, IdCustody, SyncOnly, Carries
<1>2. TypeOK /\ Custody /\ [Next]_vars => (TypeOK /\ Custody)'
  BY TypeNext, CustodyHandler, CustodySender, CustodyOther DEF Next
<1> QED
  BY <1>1, <1>2, PTL DEF Spec

\* The result a sender or a handler has written is never turned back into a
\* pending status, as long as one request only has carried the id.
THEOREM SettledForGood == Spec => SettledStaysSettled
<1>1. ASSUME TypeOK, Custody, [Next]_vars
      PROVE  \A i \in Ids : row[i] \in Settled /\ Alone(i)
                              => row'[i] \in Settled \cup {"deleted"}
  <2> SUFFICES ASSUME NEW i \in Ids, row[i] \in Settled, Alone(i)
               PROVE  row'[i] \in Settled \cup {"deleted"}
    OBVIOUS
  <2>0. TypeOK /\ IdCustody(i) /\ i # NoId
    BY <1>1, NoIdAssumption DEF Custody
  <2> USE <2>0 DEF Settled
  <2>1. ASSUME NEW h \in Requests, Handler(h)
        PROVE  row'[i] \in Settled \cup {"deleted"}
    <3>1. CASE HandlerInsert(h)
      BY <3>1 DEF HandlerInsert, Create, Live, TypeOK
    <3>2. CASE HandlerStatus(h)
      <4>1. pc[h] = "status" /\ saved[h]
        BY <1>1, <3>2 DEF HandlerStatus, Custody, HandlerCustody
      <4>2. ~(id[h] = i /\ async[h])
        BY <4>1 DEF IdCustody, Carries
      <4> QED
        BY <3>2, <4>2 DEF HandlerStatus, UpdateStatus, TypeOK
    <3>3. CASE ~HandlerInsert(h) /\ ~HandlerStatus(h)
      BY <2>1, <3>3 DEF Handler, HandlerReject, HandlerAccept, HandlerResend,
                        Accept, HandlerInsertFails, HandlerInsertTaken,
                        InsertFails, HandlerSend, HandlerStatusFails,
                        HandlerEnqueue, Enqueue
    <3> QED
      BY <3>1, <3>2, <3>3
  <2>2. ASSUME NEW s \in Senders, Sender(s)
        PROVE  row'[i] \in Settled \cup {"deleted"}
    BY <2>2 DEF Sender, SenderReceive, SenderLoad, SenderSkip, SenderLoadFails,
                SenderLookupFails, SenderSend, SenderStatus, SenderStatusFails,
                UpdateStatus, TypeOK
  <2>3. CASE DeleteMessage \/ DeleteAllMessages
    BY <2>3 DEF DeleteMessage, DeleteAllMessages, Delete
  <2>4. CASE Loader \/ LoaderReadFails \/ Crash
    BY <2>4 DEF Loader, LoaderRead, LoaderPush, LoaderReadFails, Crash, Die
  <2>5. CASE Restart \/ Quiescent \/ UNCHANGED vars
    BY <2>5 DEF Restart, Quiescent, vars
  <2> QED
    BY <1>1, <2>1, <2>2, <2>3, <2>4, <2>5 DEF Next
<1> QED
  BY <1>1, CustodyHolds, PTL DEF Spec, SettledStaysSettled

(***************************************************************************)
(* What the answer of the handler says of the row.                         *)
(***************************************************************************)

\* The strengthening of AnswerMatchesRow, one conjunct per place of the
\* handler: an insertion that fails leaves no row and success = false, and
\* the error answer of an asynchronous push has no row a sender could settle.
AnswerOf(r) ==
    /\ pc[r] \in {"idle", "insert"} => ~success[r]
    /\ saved[r] /\ Alone(id[r]) =>
         /\ pc[r] = "insert" => RowOf(r) = "absent"
         /\ pc[r] = "send" => RowOf(r) \in {"Pending", "deleted"}
         /\ pc[r] = "status" =>
              /\ RowOf(r) \in {"absent", "Pending", "deleted"}
              /\ RowOf(r) = "absent" => ~success[r]
              /\ async[r] /\ ~success[r] => RowOf(r) = "absent"
         /\ pc[r] = "enqueue" =>
              IF success[r]
              THEN r \notin unmarked =>
                     RowOf(r) \in {"AsyncPending", "Sent", "Failed", "deleted"}
              ELSE RowOf(r) = "absent"
         /\ pc[r] = "ok" /\ r \notin unmarked =>
              IF async[r] THEN RowOf(r) \in {"AsyncPending", "Sent", "Failed", "deleted"}
                          ELSE RowOf(r) \in {"Sent", "deleted"}
         /\ pc[r] = "error" /\ async[r] => RowOf(r) = "absent"
         /\ pc[r] = "error" /\ r \notin unmarked =>
              RowOf(r) \in {"Failed", "absent", "deleted"}

AnswersTell == \A r \in Requests : AnswerOf(r)

\* A handler leaves the row and the claims of another handler's id alone.
LEMMA OthersRow ==
    ASSUME TypeOK, Custody, NEW h \in Requests, Handler(h),
           NEW r \in Requests, r # h, saved'[r], Alone(id[r])'
    PROVE  /\ saved[r] /\ Alone(id[r]) /\ RowOf(r)' = RowOf(r)
           /\ pc'[r] = pc[r] /\ success'[r] = success[r] /\ async'[r] = async[r]
           /\ r \in unmarked' <=> r \in unmarked
<1>1. /\ saved[r] /\ id'[r] = id[r] /\ pc'[r] = pc[r] /\ success'[r] = success[r]
      /\ async'[r] = async[r] /\ (r \in unmarked' <=> r \in unmarked)
  BY DEF Handler, HandlerReject, HandlerAccept, HandlerResend, Accept,
         HandlerInsert, Create, HandlerInsertFails, HandlerInsertTaken,
         InsertFails, HandlerSend, HandlerStatus, HandlerStatusFails,
         AfterStatus, HandlerEnqueue, Enqueue, Goto, TypeOK, history
<1>2. CASE id[r] = NoId
  BY <1>1, <1>2 DEF RowOf, Alone, Carries
<1>3. CASE id[r] # NoId
  <2>1. id[r] \in Ids /\ Alone(id[r])
    BY <1>1, <1>3, CarriersGrow DEF TypeOK
  <2>2. ~Carries(h, id[r])' /\ Carries(r, id[r])'
    BY <1>1, <1>3, <2>1 DEF Alone, Carries
  <2>3. row'[id[r]] = row[id[r]]
    <3>0. HandlerCustody(h)
      BY DEF Custody
    <3>1. CASE HandlerInsert(h)
      BY <1>3, <2>1, <2>2, <3>0, <3>1
         DEF HandlerInsert, Create, Carries, HandlerCustody, TypeOK
    <3>2. CASE HandlerStatus(h)
      BY <1>3, <2>1, <2>2, <3>0, <3>2
         DEF HandlerStatus, UpdateStatus, Carries, HandlerCustody, TypeOK
    <3>3. CASE ~HandlerInsert(h) /\ ~HandlerStatus(h)
      BY <3>3 DEF Handler, HandlerReject, HandlerAccept, HandlerResend,
                  Accept, HandlerInsertFails, HandlerInsertTaken,
                  InsertFails, HandlerSend, HandlerStatusFails,
                  HandlerEnqueue, Enqueue
    <3> QED
      BY <3>1, <3>2, <3>3
  <2> QED
    BY <1>1, <2>1, <2>3 DEF RowOf
<1> QED
  BY <1>2, <1>3

\* The handler's own steps: the row is marked before the answer is given.
LEMMA AnswersHandler ==
    ASSUME TypeOK, Custody, AnswersTell, NEW h \in Requests, Handler(h)
    PROVE  AnswersTell'
<1>1. ASSUME NEW r \in Requests, r # h PROVE AnswerOf(r)'
  <2>1. AnswerOf(r)
    BY DEF AnswersTell
  <2>2. pc'[r] = pc[r] /\ success'[r] = success[r]
    BY <1>1 DEF Handler, HandlerReject, HandlerAccept, HandlerResend, Accept,
         HandlerInsert, HandlerInsertFails, HandlerInsertTaken,
         InsertFails, HandlerSend, HandlerStatus, HandlerStatusFails,
         AfterStatus, HandlerEnqueue, Enqueue, Goto, TypeOK
  <2>3. CASE saved'[r] /\ Alone(id[r])'
    BY <1>1, <2>1, <2>3, OthersRow DEF AnswerOf
  <2>4. CASE ~(saved'[r] /\ Alone(id[r])')
    BY <2>1, <2>2, <2>4 DEF AnswerOf
  <2> QED
    BY <2>3, <2>4
<1>2. AnswerOf(h)'
  <2>0. AnswerOf(h) /\ HandlerCustody(h) /\ (id[h] = NoId \/ IdCustody(id[h]))
    BY DEF AnswersTell, Custody, TypeOK
  <2>a. ASSUME id'[h] = id[h], Alone(id[h])', saved[h] PROVE Alone(id[h])
    <3>1. CASE id[h] = NoId
      BY <3>1 DEF Alone, Carries
    <3>2. CASE id[h] # NoId
      <4>1. PICK i \in Ids : i = id[h]
        BY <3>2 DEF TypeOK
      <4>2. Alone(i)'
        BY <2>a, <4>1 DEF Alone, Carries
      <4>3. Alone(i)
        BY <4>2, CarriersGrow
      <4> QED
        BY <4>1, <4>3
    <3> QED
      BY <3>1, <3>2
  <2> USE <2>0 DEF AnswerOf, TypeOK, Goto, history
  <2>1. CASE HandlerReject(h)
    BY <2>1 DEF HandlerReject, HandlerCustody
  <2>2. CASE HandlerAccept(h) \/ HandlerResend(h)
    <3>1. PICK i \in Ids \cup {NoId}, isAsync \in BOOLEAN, isSaved \in BOOLEAN :
            Accept(h, i, isAsync, isSaved)
      BY <2>2 DEF HandlerAccept, HandlerResend
    <3>2. ~success'[h] /\ id'[h] = i /\ row' = row
          /\ (saved'[h] => pc'[h] = "insert")
      BY <3>1 DEF Accept
    <3>3. ASSUME saved'[h], Alone(id[h])' PROVE RowOf(h)' = "absent"
      <4>1. CASE i = NoId
        BY <3>2, <4>1 DEF RowOf
      <4>2. CASE i # NoId
        <5>1. i \in Ids /\ Alone(i)'
          BY <3>2, <3>3, <4>2
        <5>2. \A r \in Requests : ~Carries(r, i)
          <6>1. ~Carries(h, i)
            BY <3>1, <2>0 DEF Accept, HandlerCustody, Carries
          <6>2. Carries(h, i)'
            BY <3>2, <3>3, <4>2 DEF Carries
          <6> QED
            BY <5>1, <6>1, <6>2, CarriersGrow DEF Alone
        <5> QED
          BY <3>2, <4>2, <5>1, <5>2 DEF RowOf, Custody, IdCustody
      <4> QED
        BY <4>1, <4>2
    <3> QED
      BY <3>2, <3>3
  <2>3. CASE HandlerInsert(h)
    <3>1. PICK i \in Ids : Create(h, i)
      BY <2>3 DEF HandlerInsert
    <3>2. RowOf(h)' = "Pending"
      BY <3>1, NoIdAssumption DEF Create, RowOf
    <3> QED
      BY <2>3, <3>2 DEF HandlerInsert
  <2>4. CASE HandlerInsertFails(h) \/ HandlerInsertTaken(h)
    <3>1. id' = id /\ row' = row /\ saved' = saved /\ success' = success
          /\ pc[h] = "insert" /\ pc'[h] = "status"
      BY <2>4 DEF HandlerInsertFails, HandlerInsertTaken, InsertFails
    <3>2. RowOf(h)' = RowOf(h)
      BY <3>1 DEF RowOf
    <3> QED
      BY <2>a, <3>1, <3>2
  <2>5. CASE HandlerSend(h)
    <3>1. /\ id' = id /\ row' = row /\ saved' = saved /\ async' = async
          /\ pc[h] = "send" /\ (saved[h] => pc'[h] = "status")
      BY <2>5 DEF HandlerSend
    <3>2. RowOf(h)' = RowOf(h) /\ ~async[h]
      BY <3>1 DEF RowOf, HandlerCustody
    <3>3. pc'[h] \notin {"idle", "insert"}
      BY <2>5 DEF HandlerSend, Answer
    <3> QED
      BY <2>a, <3>1, <3>2, <3>3
  <2>6. CASE HandlerStatus(h)
    <3>1. /\ id' = id /\ saved' = saved /\ async' = async /\ success' = success
          /\ unmarked' = unmarked /\ pc[h] = "status" /\ saved[h]
          /\ pc'[h] = IF async[h] THEN "enqueue" ELSE Answer(success[h])
      BY <2>6 DEF HandlerStatus, AfterStatus, HandlerCustody
    <3>2. RowOf(h)' = IF RowOf(h) \in Live
                      THEN IF async[h] THEN "AsyncPending"
                           ELSE IF success[h] THEN "Sent" ELSE "Failed"
                      ELSE RowOf(h)
      BY <2>6, <3>1, NoIdAssumption DEF HandlerStatus, UpdateStatus, RowOf, Live
    <3> QED
      BY <2>a, <3>1, <3>2 DEF Answer, Live
  <2>7. CASE HandlerStatusFails(h)
    <3>1. /\ id' = id /\ saved' = saved /\ async' = async /\ success' = success
          /\ h \in unmarked' /\ pc[h] = "status" /\ saved[h] /\ row' = row
          /\ pc'[h] = IF async[h] THEN "enqueue" ELSE Answer(success[h])
      BY <2>7 DEF HandlerStatusFails, AfterStatus, HandlerCustody
    <3>2. RowOf(h)' = RowOf(h)
      BY <3>1 DEF RowOf
    <3> QED
      BY <2>a, <3>1, <3>2 DEF Answer
  <2>8. CASE HandlerEnqueue(h)
    <3>1. /\ id' = id /\ saved' = saved /\ async' = async /\ success' = success
          /\ unmarked' = unmarked /\ pc[h] = "enqueue" /\ saved[h] /\ async[h]
          /\ row' = row /\ pc'[h] = Answer(success[h])
      BY <2>8 DEF HandlerEnqueue, Enqueue, HandlerCustody
    <3>2. RowOf(h)' = RowOf(h)
      BY <3>1 DEF RowOf
    <3> QED
      BY <2>a, <3>1, <3>2 DEF Answer
  <2> QED
    BY <2>1, <2>2, <2>3, <2>4, <2>5, <2>6, <2>7, <2>8 DEF Handler
<1> QED
  BY <1>1, <1>2 DEF AnswersTell

\* A sender settles only rows whose asynchronous carrier has marked them.
LEMMA AnswersSender ==
    ASSUME TypeOK, Custody, AnswersTell, NEW s \in Senders, Sender(s)
    PROVE  AnswersTell'
<1> SUFFICES ASSUME NEW r \in Requests PROVE AnswerOf(r)'
  BY DEF AnswersTell
<1>0. AnswerOf(r) /\ HandlerCustody(r) /\ (id[r] = NoId \/ IdCustody(id[r]))
  BY DEF AnswersTell, Custody, TypeOK
<1>1. /\ pc' = pc /\ id' = id /\ async' = async /\ saved' = saved
      /\ success' = success /\ unmarked' = unmarked
  BY DEF Sender, SenderReceive, SenderLoad, SenderSkip, SenderLoadFails,
         SenderLookupFails, SenderSend, SenderStatus, SenderStatusFails,
         handlerVars, history
<1>2. Alone(id[r])' <=> Alone(id[r])
  BY <1>1 DEF Alone, Carries
<1>3. CASE id[r] = NoId \/ ~saved[r] \/ ~Alone(id[r])
  BY <1>0, <1>1, <1>2, <1>3 DEF AnswerOf, RowOf
<1>4. CASE id[r] # NoId /\ saved[r] /\ Alone(id[r])
  <2>0. id[r] \in Ids /\ Carries(r, id[r])
    BY <1>4 DEF TypeOK, Carries
  <2>1. RowOf(r)' = RowOf(r)
        \/ (Underway(id[r]) /\ RowOf(r) \in Live /\ RowOf(r)' \in Settled)
    <3>1. CASE SenderStatus(s)
      BY <1>1, <1>4, <2>0, <3>1 DEF SenderStatus, UpdateStatus, TypeOK, Underway,
                                    HeldBySender, Settled, RowOf
    <3>2. CASE ~SenderStatus(s)
      BY <1>1, <3>2 DEF Sender, SenderReceive, SenderLoad, SenderSkip, SenderLoadFails,
                  SenderLookupFails, SenderSend, SenderStatusFails, RowOf
    <3> QED
      BY <3>1, <3>2
  <2>2. Underway(id[r]) => async[r] /\ pc[r] \notin {"insert", "status"}
    BY <1>0, <1>4, <2>0 DEF IdCustody, SyncOnly, Alone
  <2> QED
    BY <1>0, <1>1, <1>2, <1>4, <2>1, <2>2 DEF AnswerOf, HandlerCustody, Settled, Live
<1> QED
  BY <1>3, <1>4

\* The loader changes no row, a deletion only deletes, a crash only silences.
LEMMA AnswersOther ==
    ASSUME TypeOK, AnswersTell,
           \/ Loader \/ LoaderReadFails \/ DeleteMessage \/ DeleteAllMessages
           \/ Crash \/ Restart \/ Quiescent \/ UNCHANGED vars
    PROVE  AnswersTell'
<1> SUFFICES ASSUME NEW r \in Requests PROVE AnswerOf(r)'
  BY DEF AnswersTell
<1> USE DEF handlerVars, senderVars, loaderVars, history
<1>0. AnswerOf(r)
  BY DEF AnswersTell
<1>1. /\ id' = id /\ async' = async /\ saved' = saved /\ success' = success
      /\ unmarked' = unmarked /\ pc'[r] \in {pc[r], "dead"}
  BY DEF Loader, LoaderRead, LoaderPush, LoaderReadFails, Crash, Die,
         DeleteMessage, DeleteAllMessages, Delete, Restart, Quiescent, vars, TypeOK
<1>2. RowOf(r)' = RowOf(r) \/ (RowOf(r) \in Live /\ RowOf(r)' = "deleted")
  <2>1. CASE DeleteMessage \/ DeleteAllMessages
    <3>1. PICK D \in SUBSET Ids : Delete(D)
      BY <2>1 DEF DeleteMessage, DeleteAllMessages
    <3> QED
      BY <1>1, <3>1 DEF Delete, Live, RowOf, TypeOK
  <2>2. CASE row' = row
    BY <1>1, <2>2 DEF RowOf
  <2> QED
    BY <2>1, <2>2 DEF Loader, LoaderRead, LoaderPush, LoaderReadFails, Crash, Die,
                      Restart, Quiescent, vars
<1>3. Alone(id[r])' <=> Alone(id[r])
  BY <1>1 DEF Alone, Carries
<1> QED
  BY <1>0, <1>1, <1>2, <1>3 DEF AnswerOf, Live

\* The answer given to the client of a saved push agrees with the row, for as
\* long as the row exists and no other push names its id: a crash, a sender,
\* the loader or another handler never makes an answered "success" false.
THEOREM AnswersHold == Spec => []AnswerMatchesRow
<1>1. Init => AnswersTell
  BY DEF Init, AnswersTell, AnswerOf
<1>2. TypeOK /\ Custody /\ AnswersTell /\ [Next]_vars => AnswersTell'
  BY AnswersHandler, AnswersSender, AnswersOther DEF Next
<1>3. AnswersTell => AnswerMatchesRow
  BY DEF AnswersTell, AnswerOf, AnswerMatchesRow
<1> QED
  BY <1>1, <1>2, <1>3, CustodyHolds, PTL DEF Spec

(***************************************************************************)
(* Every send is paid for.                                                 *)
(***************************************************************************)

\* The places of an id in a queue can be counted.
LEMMA PlacesFinite ==
    ASSUME NEW S, NEW q \in Seq(S), NEW r
    PROVE  IsFiniteSet(Places(r, q)) /\ Cardinality(Places(r, q)) \in Nat
<1>1. Places(r, q) \subseteq 1..Len(q) /\ IsFiniteSet(1..Len(q))
  BY FS_Interval DEF Places
<1>2. IsFiniteSet(Places(r, q))
  BY <1>1, FS_Subset
<1> QED
  BY <1>2, FS_CardinalityType

\* Enqueueing an id adds one place of it.
LEMMA PlacesAppend ==
    ASSUME NEW S, NEW q \in Seq(S), NEW e \in S, NEW r
    PROVE  Cardinality(Places(r, Append(q, e))) =
             Cardinality(Places(r, q)) + (IF e = r THEN 1 ELSE 0)
<1>1. IsFiniteSet(Places(r, q)) /\ Cardinality(Places(r, q)) \in Nat
  BY PlacesFinite
<1>2. CASE e = r
  <2>1. Places(r, Append(q, e)) = Places(r, q) \cup {Len(q) + 1}
    BY <1>2 DEF Places
  <2>2. Len(q) + 1 \notin Places(r, q)
    BY DEF Places
  <2> QED
    BY <1>1, <1>2, <2>1, <2>2, FS_AddElement
<1>3. CASE e # r
  <2>1. Places(r, Append(q, e)) = Places(r, q)
    BY <1>3 DEF Places
  <2> QED
    BY <1>1, <1>3, <2>1
<1> QED
  BY <1>2, <1>3

\* Receiving takes one place of the first id and moves the other places up.
LEMMA PlacesTail ==
    ASSUME NEW S, NEW q \in Seq(S), q # <<>>, NEW r
    PROVE  Cardinality(Places(r, q)) =
             Cardinality(Places(r, Tail(q))) + (IF Head(q) = r THEN 1 ELSE 0)
<1> DEFINE Rest == Places(r, q) \ {1}
           up1 == [i \in Places(r, Tail(q)) |-> i + 1]
<1>1. /\ IsFiniteSet(Places(r, q)) /\ Cardinality(Places(r, q)) \in Nat
      /\ IsFiniteSet(Places(r, Tail(q))) /\ Cardinality(Places(r, Tail(q))) \in Nat
  <2>1. Tail(q) \in Seq(S)
    OBVIOUS
  <2>2. IsFiniteSet(Places(r, Tail(q))) /\ Cardinality(Places(r, Tail(q))) \in Nat
    BY <2>1, PlacesFinite
  <2> QED
    BY <2>2, PlacesFinite
<1>2. Len(q) \in Nat \ {0} /\ Len(Tail(q)) = Len(q) - 1
      /\ \A i \in 1..Len(Tail(q)) : Tail(q)[i] = q[i + 1]
  OBVIOUS
<1>3. up1 \in [Places(r, Tail(q)) -> Rest]
  BY <1>2 DEF Places
<1>4. \A i, j \in Places(r, Tail(q)) : up1[i] = up1[j] => i = j
  BY DEF Places
<1>5. \A k \in Rest : \E i \in Places(r, Tail(q)) : up1[i] = k
  <2> SUFFICES ASSUME NEW k \in Rest PROVE \E i \in Places(r, Tail(q)) : up1[i] = k
    OBVIOUS
  <2>1. k - 1 \in Places(r, Tail(q)) /\ (k - 1) + 1 = k
    BY <1>2 DEF Places
  <2> QED
    BY <2>1
<1>6. up1 \in Bijection(Places(r, Tail(q)), Rest)
  BY <1>3, <1>4, <1>5 DEF Bijection, Injection, Surjection, IsInjective
<1>7. Cardinality(Rest) = Cardinality(Places(r, Tail(q)))
  BY <1>1, <1>6, FS_Bijection DEF ExistsBijection
<1>8. 1 \in Places(r, q) <=> Head(q) = r
  BY <1>2 DEF Places
<1>9. Cardinality(Rest) = IF 1 \in Places(r, q) THEN Cardinality(Places(r, q)) - 1
                          ELSE Cardinality(Places(r, q))
  BY <1>1, FS_RemoveElement
<1> HIDE DEF Rest
<1> QED
  BY <1>1, <1>7, <1>8, <1>9

\* The senders are finitely many, so those that hold an id can be counted.
LEMMA HoldersFinite ==
    ASSUME NEW r
    PROVE  IsFiniteSet(Holders(r)) /\ Cardinality(Holders(r)) \in Nat
<1>1. Holders(r) \subseteq Senders
  BY DEF Holders
<1>2. IsFiniteSet(Holders(r))
  BY <1>1, FiniteAssumption, FS_Subset
<1> QED
  BY <1>2, FS_CardinalityType

\* The handlers that have paid for an id can be counted.
LEMMA PayersFinite ==
    ASSUME TypeOK, NEW i
    PROVE  /\ IsFiniteSet(Payers(i)) /\ Cardinality(Payers(i)) \in Nat
           /\ IsFiniteSet({r \in inserted : id[r] = i})
<1>1. Payers(i) \subseteq Requests /\ {r \in inserted : id[r] = i} \subseteq Requests
  BY DEF Payers, TypeOK
<1>2. IsFiniteSet(Payers(i)) /\ IsFiniteSet({r \in inserted : id[r] = i})
  BY <1>1, FiniteAssumption, FS_Subset
<1> QED
  BY <1>2, FS_CardinalityType

\* A handler pays for its one send when it calls SendMessage or enqueues.
LEMMA SendsHandler ==
    ASSUME TypeOK, Custody, SendsAccounted, NEW h \in Requests, Handler(h)
    PROVE  SendsAccounted'
<1> SUFFICES ASSUME NEW i \in Ids
             PROVE  (sends[i] + Copies(i) <= Cardinality(Payers(i)) + reloads[i])'
  BY DEF SendsAccounted
<1>0. /\ sends[i] + Copies(i) <= Cardinality(Payers(i)) + reloads[i]
      /\ sends[i] \in Nat /\ reloads[i] \in Nat
  BY DEF SendsAccounted, TypeOK
<1>1. HandlerCustody(h) /\ i # NoId
  BY NoIdAssumption DEF Custody
<1>2. /\ Cardinality(Places(i, queue)) \in Nat /\ Cardinality(Holders(i)) \in Nat
      /\ IsFiniteSet(Payers(i)) /\ Cardinality(Payers(i)) \in Nat
  BY PlacesFinite, HoldersFinite, PayersFinite DEF TypeOK
<1>3. Holders(i)' = Holders(i) /\ ids' = ids /\ reloads' = reloads
  BY DEF Handler, HandlerReject, HandlerAccept, HandlerResend, Accept,
         HandlerInsert, HandlerInsertFails, HandlerInsertTaken, InsertFails,
         HandlerSend, HandlerStatus, HandlerStatusFails, HandlerEnqueue, Enqueue,
         senderVars, loaderVars, history, Holders
<1> USE <1>0, <1>2, <1>3 DEF history
<1>4. CASE HandlerAccept(h) \/ HandlerResend(h) \/ HandlerInsert(h)
  <2>1. /\ queue' = queue /\ sends' = sends /\ paid' = paid /\ h \notin paid
        /\ \A r \in Requests \ {h} : id'[r] = id[r]
    BY <1>1, <1>4 DEF HandlerAccept, HandlerResend, Accept, HandlerInsert, Create,
                      HandlerCustody, TypeOK
  <2>2. Payers(i)' = Payers(i)
    BY <2>1 DEF Payers, TypeOK
  <2> QED
    BY <2>1, <2>2 DEF Copies
<1>5. CASE HandlerReject(h) \/ HandlerInsertFails(h) \/ HandlerInsertTaken(h)
           \/ HandlerStatus(h) \/ HandlerStatusFails(h)
  <2>1. queue' = queue /\ sends' = sends /\ paid' = paid /\ id' = id
    BY <1>5 DEF HandlerReject, HandlerInsertFails, HandlerInsertTaken, InsertFails,
                HandlerStatus, HandlerStatusFails
  <2>2. Payers(i)' = Payers(i)
    BY <2>1 DEF Payers
  <2> QED
    BY <2>1, <2>2 DEF Copies
<1>6. CASE HandlerSend(h) /\ saved[h] /\ id[h] = i
  <2>1. /\ queue' = queue /\ sends'[i] = sends[i] + 1
        /\ paid' = paid \cup {h} /\ h \notin paid /\ id' = id
    BY <1>1, <1>6 DEF HandlerSend, HandlerCustody, TypeOK
  <2>2. Payers(i)' = Payers(i) \cup {h} /\ h \notin Payers(i)
    BY <1>6, <2>1 DEF Payers
  <2>3. Cardinality(Payers(i)') = Cardinality(Payers(i)) + 1
    BY <2>2, FS_AddElement
  <2> QED
    BY <2>1, <2>3 DEF Copies
<1>7. CASE HandlerSend(h) /\ ~(saved[h] /\ id[h] = i)
  <2>1. /\ queue' = queue /\ sends'[i] = sends[i] /\ id' = id
        /\ \A r \in Requests : id[r] = i => (r \in paid' <=> r \in paid)
    <3>1. CASE saved[h]
      BY <1>7, <3>1 DEF HandlerSend, TypeOK
    <3>2. CASE ~saved[h]
      BY <1>7, <3>2 DEF HandlerSend
    <3> QED
      BY <3>1, <3>2
  <2>2. paid \subseteq Requests /\ paid' \subseteq Requests
    BY <1>7 DEF HandlerSend, TypeOK
  <2>3. Payers(i)' = Payers(i)
    BY <2>1, <2>2 DEF Payers
  <2> QED
    BY <2>1, <2>3 DEF Copies
<1>8. CASE HandlerEnqueue(h)
  <2>1. /\ queue \in Seq(Ids \cup {NoId}) /\ id[h] \in Ids \cup {NoId}
        /\ queue' = Append(queue, id[h]) /\ sends' = sends
        /\ paid' = paid \cup {h} /\ h \notin paid /\ id' = id
    BY <1>1, <1>8 DEF HandlerEnqueue, Enqueue, HandlerCustody, TypeOK
  <2>2. Cardinality(Places(i, queue')) =
          Cardinality(Places(i, queue)) + (IF id[h] = i THEN 1 ELSE 0)
    BY <2>1, PlacesAppend
  <2>3. CASE id[h] = i
    <3>1. Payers(i)' = Payers(i) \cup {h} /\ h \notin Payers(i)
      BY <2>1, <2>3 DEF Payers
    <3>2. Cardinality(Payers(i)') = Cardinality(Payers(i)) + 1
      BY <3>1, FS_AddElement
    <3>3. sends'[i] = sends[i] /\ Copies(i)' = Copies(i) + 1
      BY <2>1, <2>2, <2>3 DEF Copies
    <3>4. Copies(i) \in Nat
      BY DEF Copies
    <3> QED
      BY <3>2, <3>3, <3>4
  <2>4. CASE id[h] # i
    <3>1. Payers(i)' = Payers(i)
      BY <2>1, <2>4 DEF Payers
    <3> QED
      BY <2>1, <2>2, <2>4, <3>1 DEF Copies
  <2> QED
    BY <2>3, <2>4
<1> QED
  BY <1>4, <1>5, <1>6, <1>7, <1>8 DEF Handler

\* A sender takes over the claim of the place it empties, and gives it up
\* with the call of SendMessage or without one.
LEMMA SendsSender ==
    ASSUME TypeOK, SendsAccounted, NEW s \in Senders, Sender(s)
    PROVE  SendsAccounted'
<1> SUFFICES ASSUME NEW i \in Ids
             PROVE  (sends[i] + Copies(i) <= Cardinality(Payers(i)) + reloads[i])'
  BY DEF SendsAccounted
<1>0. /\ sends[i] + Copies(i) <= Cardinality(Payers(i)) + reloads[i]
      /\ sends[i] \in Nat /\ reloads[i] \in Nat
  BY DEF SendsAccounted, TypeOK
<1>1. /\ IsFiniteSet(Holders(i)) /\ Cardinality(Holders(i)) \in Nat
      /\ Cardinality(Places(i, queue)) \in Nat
      /\ Cardinality(Payers(i)) \in Nat
  BY PlacesFinite, HoldersFinite, PayersFinite DEF TypeOK
<1>2. ids' = ids /\ reloads' = reloads /\ Payers(i)' = Payers(i)
  BY DEF Sender, SenderReceive, SenderLoad, SenderSkip, SenderLoadFails,
         SenderLookupFails, SenderSend, SenderStatus, SenderStatusFails,
         loaderVars, handlerVars, history, Payers
<1> USE <1>0, <1>1, <1>2
<1>3. CASE SenderReceive(s)
  <2>1. /\ queue \in Seq(Ids \cup {NoId}) /\ queue # <<>>
        /\ queue' = Tail(queue) /\ sends' = sends
    BY <1>3 DEF SenderReceive, TypeOK, history
  <2>2. Cardinality(Places(i, queue)) =
          Cardinality(Places(i, queue')) + (IF Head(queue) = i THEN 1 ELSE 0)
    BY <2>1, PlacesTail
  <2>3. Cardinality(Places(i, queue')) \in Nat
    <3>1. queue' \in Seq(Ids \cup {NoId})
      BY <2>1
    <3> QED
      BY <3>1, PlacesFinite
  <2>4. /\ s \notin Holders(i)
        /\ Holders(i)' = IF Head(queue) = i THEN Holders(i) \cup {s} ELSE Holders(i)
    BY <1>3 DEF SenderReceive, TypeOK, Holders
  <2>5. Cardinality(Holders(i)') =
          Cardinality(Holders(i)) + (IF Head(queue) = i THEN 1 ELSE 0)
    <3>1. CASE Head(queue) = i
      BY <2>4, <3>1, FS_AddElement
    <3>2. CASE Head(queue) # i
      BY <2>4, <3>2
    <3> QED
      BY <3>1, <3>2
  <2>6. sends'[i] = sends[i]
    BY <2>1
  <2> QED
    BY <2>2, <2>3, <2>5, <2>6 DEF Copies
<1>4. CASE SenderLoad(s) \/ SenderStatus(s) \/ SenderStatusFails(s)
  <2>1. queue' = queue /\ sends' = sends
    BY <1>4 DEF SenderLoad, SenderStatus, SenderStatusFails, history
  <2>2. Holders(i)' = Holders(i)
    BY <1>4 DEF SenderLoad, SenderStatus, SenderStatusFails, EndIteration,
                Holders, TypeOK
  <2> QED
    BY <2>1, <2>2 DEF Copies
<1>5. CASE SenderSkip(s) \/ SenderLoadFails(s) \/ SenderLookupFails(s) \/ SenderSend(s)
  <2>1. /\ queue' = queue /\ spc[s] \in {"load", "send"}
        /\ spc'[s] \notin {"load", "send"}
        /\ \A t \in Senders \ {s} : spc'[t] = spc[t] /\ sid'[t] = sid[t]
    BY <1>5 DEF SenderSkip, SenderLoadFails, SenderLookupFails, SenderSend,
                EndIteration, TypeOK
  <2>2. Holders(i)' = Holders(i) \ {s} /\ (s \in Holders(i) <=> sid[s] = i)
    BY <2>1 DEF Holders
  <2>3. sends'[i] = sends[i] \/ (sid[s] = i /\ sends'[i] = sends[i] + 1)
    BY <1>5 DEF SenderSkip, SenderLoadFails, SenderLookupFails, SenderSend,
                history, TypeOK
  <2>4. Cardinality(Holders(i)') =
          IF sid[s] = i THEN Cardinality(Holders(i)) - 1 ELSE Cardinality(Holders(i))
    BY <2>2, FS_RemoveElement
  <2> QED
    BY <2>1, <2>3, <2>4 DEF Copies
<1> QED
  BY <1>3, <1>4, <1>5 DEF Sender

\* LoadAsyncMessages pays for what it reads; a crash forfeits every claim.
LEMMA SendsOther ==
    ASSUME TypeOK, SendsAccounted,
           \/ Loader \/ LoaderReadFails \/ DeleteMessage \/ DeleteAllMessages
           \/ Crash \/ Restart \/ Quiescent \/ UNCHANGED vars
    PROVE  SendsAccounted'
<1> SUFFICES ASSUME NEW i \in Ids
             PROVE  (sends[i] + Copies(i) <= Cardinality(Payers(i)) + reloads[i])'
  BY DEF SendsAccounted
<1>0. /\ sends[i] + Copies(i) <= Cardinality(Payers(i)) + reloads[i]
      /\ sends[i] \in Nat /\ reloads[i] \in Nat
  BY DEF SendsAccounted, TypeOK
<1>1. /\ Cardinality(Holders(i)) \in Nat
      /\ Cardinality(Places(i, queue)) \in Nat /\ Cardinality(Payers(i)) \in Nat
  BY PlacesFinite, HoldersFinite, PayersFinite DEF TypeOK
<1>2. Payers(i)' = Payers(i) /\ sends' = sends
  BY DEF Loader, LoaderRead, LoaderPush, LoaderReadFails, Crash, Die,
         DeleteMessage, DeleteAllMessages, Delete, Restart, Quiescent, vars,
         handlerVars, history, Payers
<1> USE <1>0, <1>1, <1>2 DEF handlerVars, senderVars, loaderVars, history
<1>3. CASE LoaderRead
  <2>1. queue' = queue /\ Holders(i)' = Holders(i)
    BY <1>3 DEF LoaderRead, Holders
  <2>2. reloads'[i] = IF i \in ids' THEN reloads[i] + 1 ELSE reloads[i]
    BY <1>3 DEF LoaderRead
  <2> QED
    BY <2>1, <2>2 DEF Copies
<1>4. CASE LoaderPush
  <2>1. PICK j \in ids : queue' = Append(queue, j) /\ ids' = ids \ {j}
    BY <1>4 DEF LoaderPush
  <2>2. queue \in Seq(Ids \cup {NoId}) /\ j \in Ids \cup {NoId}
    BY DEF TypeOK
  <2>3. Cardinality(Places(i, queue')) =
          Cardinality(Places(i, queue)) + (IF j = i THEN 1 ELSE 0)
    BY <2>1, <2>2, PlacesAppend
  <2>4. Holders(i)' = Holders(i) /\ reloads' = reloads
    BY <1>4 DEF LoaderPush, Holders
  <2> QED
    BY <2>1, <2>3, <2>4 DEF Copies
<1>5. CASE LoaderReadFails \/ Crash
  <2>1. Die
    BY <1>5 DEF LoaderReadFails, Crash
  <2>2. Places(i, queue') = {} /\ Holders(i)' = {} /\ i \notin ids'
    BY <2>1 DEF Die, Places, Holders
  <2>3. Cardinality(Places(i, queue')) = 0 /\ Cardinality(Holders(i)') = 0
    BY <2>2, FS_EmptySet
  <2>4. reloads' = reloads
    BY <2>1 DEF Die
  <2> QED
    BY <2>2, <2>3, <2>4 DEF Copies
<1>6. CASE DeleteMessage \/ DeleteAllMessages \/ Restart \/ Quiescent
           \/ UNCHANGED vars
  <2>1. /\ queue' = queue /\ Holders(i)' = Holders(i)
        /\ ids' = ids /\ reloads' = reloads
    BY <1>6 DEF DeleteMessage, DeleteAllMessages, Delete, Restart, Quiescent,
                vars, Holders
  <2> QED
    BY <2>1 DEF Copies
<1> QED
  BY <1>3, <1>4, <1>5, <1>6 DEF Loader

\* No row is sent more often than once for each handler that carried its id
\* and once for each start that found it AsyncPending, for any number of
\* senders, crashes and deletions, and whatever ids the clients send.
THEOREM SendsPaidFor == Spec => []SendsAccounted
<1>1. Init => SendsAccounted
  <2> SUFFICES ASSUME Init, NEW i \in Ids
               PROVE  sends[i] + Copies(i) <= Cardinality(Payers(i)) + reloads[i]
    BY DEF SendsAccounted
  <2>1. Places(i, queue) = {} /\ Holders(i) = {} /\ Payers(i) = {} /\ i \notin ids
    BY DEF Init, Places, Holders, Payers
  <2>2. /\ Cardinality(Places(i, queue)) = 0 /\ Cardinality(Holders(i)) = 0
        /\ Cardinality(Payers(i)) = 0
    BY <2>1, FS_EmptySet
  <2> QED
    BY <2>1, <2>2 DEF Init, Copies
<1>2. TypeOK /\ Custody /\ SendsAccounted /\ [Next]_vars => SendsAccounted'
  BY SendsHandler, SendsSender, SendsOther DEF Next
<1> QED
  BY <1>1, <1>2, CustodyHolds, PTL DEF Spec

\* A row whose id only synchronous requests carried is sent at most once for
\* each insertion and never gets into the asynchronous machinery.
THEOREM SyncAtMostOnce == Spec => []SyncSentAtMostOnce
<1>1. TypeOK /\ Custody /\ SendsAccounted => SyncSentAtMostOnce
  <2> SUFFICES ASSUME TypeOK, Custody, SendsAccounted, NEW i \in Ids, SyncOnly(i)
               PROVE  /\ ~Underway(i)
                      /\ sends[i] <= Cardinality({r \in inserted : id[r] = i})
    BY DEF SyncSentAtMostOnce
  <2> DEFINE Inserters == {r \in inserted : id[r] = i}
  <2>1. ~Underway(i) /\ reloads[i] = 0 /\ i # NoId
    BY NoIdAssumption DEF Custody, IdCustody
  <2>2. Payers(i) \subseteq Inserters
    BY <2>1 DEF Payers, Custody, HandlerCustody, SyncOnly, Carries, TypeOK
  <2>3. IsFiniteSet(Inserters) /\ Cardinality(Payers(i)) \in Nat
    BY PayersFinite
  <2>4. Cardinality(Payers(i)) <= Cardinality(Inserters)
    BY <2>2, <2>3, FS_Subset
  <2>5. Cardinality(Inserters) \in Nat
    BY <2>3, FS_CardinalityType
  <2>6. Cardinality(Places(i, queue)) \in Nat /\ Cardinality(Holders(i)) \in Nat
    BY PlacesFinite, HoldersFinite DEF TypeOK
  <2>7. sends[i] <= Cardinality(Payers(i)) /\ sends[i] \in Nat
    <3>1. Copies(i) \in Nat
      BY <2>6 DEF Copies
    <3>2. sends[i] + Copies(i) <= Cardinality(Payers(i)) + reloads[i]
      BY DEF SendsAccounted
    <3>3. sends[i] \in Nat
      BY DEF TypeOK
    <3> QED
      BY <2>1, <2>3, <3>1, <3>2, <3>3
  <2> QED
    BY <2>1, <2>3, <2>4, <2>5, <2>7
<1> QED
  BY <1>1, CustodyHolds, SendsPaidFor, PTL
============================================================================
