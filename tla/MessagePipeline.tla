-------------------------- MODULE MessagePipeline --------------------------
(***************************************************************************)
(* The life of a push: the HTTP handler (controller/message.go,            *)
(* saveAndSendMessage), the messages table (model/message.go), the bounded *)
(* channel AsyncMessageQueue with its asyncMessageSender goroutines and    *)
(* the LoadAsyncMessages goroutine of each start (channel/message-queue.go,*)
(* main.go), with crashes, restarts and database errors.                   *)
(*                                                                         *)
(* A request is served by a handler goroutine of its own and inserts at    *)
(* most one row. The table assigns ids it has never used; a JSON push may  *)
(* bring an id of its own, because its body is decoded into model.Message. *)
(* Contents of messages are abstracted away.                               *)
(***************************************************************************)
EXTENDS Integers, Sequences, FiniteSets

CONSTANTS
    Requests,     \* pushes and resends, one handler goroutine each
    Senders,      \* the AsyncMessageSenderNum goroutines
    QueueSize,    \* capacity of AsyncMessageQueue
    Ids,          \* ids of rows, at least as many as requests
    NoId,         \* id 0: the id of a message that was not inserted
    MaxCrashes,   \* bound: how often the process may die
    MaxFaults     \* bound: how many database calls may fail

ASSUME QueueSizeAssumption == QueueSize \in Nat \ {0}
ASSUME NoIdAssumption == NoId \notin Ids
ASSUME FiniteAssumption == IsFiniteSet(Senders) /\ IsFiniteSet(Requests)
ASSUME BoundsAssumption == MaxCrashes \in Nat /\ MaxFaults \in Nat

VARIABLES
    up,        \* the process runs
    row,       \* the messages table: the status column of each id
    pc,        \* where the handler of a request is; "ok", "error": it answered
    id,        \* message.Id
    async,     \* message.Async
    saved,     \* the persistence condition evaluated by the handler
    success,   \* the handler's local variable of that name
    queue,     \* AsyncMessageQueue
    spc,       \* where a sender goroutine is
    sid,       \* the id it took from the queue
    sok,       \* whether its send succeeded
    lpc,       \* where LoadAsyncMessages is
    ids,       \* the ids it has read and not yet enqueued
    crashes,   \* number of crashes so far
    faults     \* number of failed database calls so far

\* History, read by properties only.
VARIABLES
    sends,     \* how often SendMessage was called for a saved message
    reloads,   \* how often LoadAsyncMessages read its row
    missed,    \* sender hit by a database error since the last start
    unmarked,  \* handlers whose UpdateStatus failed
    inserted,  \* handlers whose insertion succeeded
    paid       \* handlers that have sent their saved message or enqueued its id

handlerVars == <<pc, id, async, saved, success>>
senderVars  == <<spc, sid, sok>>
loaderVars  == <<lpc, ids>>
history     == <<sends, reloads, missed, unmarked, inserted, paid>>
vars == <<up, row, handlerVars, queue, senderVars, loaderVars,
          crashes, faults, history>>

Live == {"Pending", "AsyncPending", "Sent", "Failed"}
Settled == {"Sent", "Failed"}
RowStates == Live \cup {"absent", "deleted"}
HandlerPCs == {"idle", "insert", "send", "status", "enqueue", "ok", "error", "dead"}
Running == {"insert", "send", "status", "enqueue"}
SenderPCs == {"receive", "load", "send", "status"}

Init ==
    /\ up = TRUE
    /\ row = [i \in Ids |-> "absent"]
    /\ pc = [r \in Requests |-> "idle"]
    /\ id = [r \in Requests |-> NoId]
    /\ async = [r \in Requests |-> FALSE]
    /\ saved = [r \in Requests |-> FALSE]
    /\ success = [r \in Requests |-> FALSE]
    /\ queue = <<>>
    /\ spc = [s \in Senders |-> "receive"]
    /\ sid = [s \in Senders |-> NoId]
    /\ sok = [s \in Senders |-> FALSE]
    /\ lpc = "read"
    /\ ids = {}
    /\ crashes = 0
    /\ faults = 0
    /\ sends = [i \in Ids |-> 0]
    /\ reloads = [i \in Ids |-> 0]
    /\ missed = {}
    /\ unmarked = {}
    /\ inserted = {}
    /\ paid = {}

----------------------------------------------------------------------------
(* The messages table. *)

\* UPDATE messages SET status = st WHERE id = i: a deleted row stays deleted,
\* and without an id the statement is refused.
UpdateStatus(i, st) ==
    row' = [j \in Ids |-> IF j = i /\ row[j] \in Live THEN st ELSE row[j]]

\* A database call returns an error.
Fault == faults < MaxFaults /\ faults' = faults + 1

----------------------------------------------------------------------------
(* The handler: processMessage and saveAndSendMessage. *)

Goto(r, l) == pc' = [pc EXCEPT ![r] = l]

\* Unknown channel, wrong token, disabled channel: answered without a trace.
HandlerReject(r) ==
    /\ up /\ pc[r] = "idle"
    /\ Goto(r, "error")
    /\ UNCHANGED <<up, row, id, async, saved, success, queue, senderVars,
                   loaderVars, crashes, faults, history>>

\* The persistence condition decides: insert first, refuse an asynchronous
\* message, or send at once.
Accept(r, i, isAsync, isSaved) ==
    /\ up /\ pc[r] = "idle"
    /\ id' = [id EXCEPT ![r] = i]
    /\ async' = [async EXCEPT ![r] = isAsync]
    /\ saved' = [saved EXCEPT ![r] = isSaved]
    /\ Goto(r, IF isSaved THEN "insert" ELSE IF isAsync THEN "error" ELSE "send")
    /\ UNCHANGED <<up, row, success, queue, senderVars, loaderVars,
                   crashes, faults, history>>

\* A push; with a JSON body the client may send an id, any id.
HandlerAccept(r) ==
    \E i \in Ids \cup {NoId} : \E isAsync, isSaved \in BOOLEAN :
      Accept(r, i, isAsync, isSaved)

\* ResendMessage copies an existing row into a new message, without its id;
\* Async is not a column, so the copy is sent synchronously.
HandlerResend(r) ==
    /\ \E i \in Ids : row[i] \in Live
    /\ \E isSaved \in BOOLEAN : Accept(r, NoId, FALSE, isSaved)

\* INSERT: a new id if the message has none, else its own, if no row has it.
Create(r, i) ==
    /\ IF id[r] = NoId THEN row[i] = "absent"
                       ELSE i = id[r] /\ row[i] \notin Live
    /\ row' = [row EXCEPT ![i] = "Pending"]
    /\ id' = [id EXCEPT ![r] = i]
    /\ inserted' = inserted \cup {r}

\* Mutant: the status update is left out for asynchronous messages.
HandlerInsertUnmarked(r) ==
    /\ pc[r] = "insert"
    /\ \E i \in Ids : Create(r, i)
    /\ success' = [success EXCEPT ![r] = async[r]]
    /\ Goto(r, IF async[r] THEN "enqueue" ELSE "send")
    /\ UNCHANGED <<up, async, saved, queue, senderVars, loaderVars,
                   crashes, faults, sends, reloads, missed, unmarked, paid>>

\* Mutant: the id is enqueued before the status is updated.
HandlerInsertEnqueues(r) ==
    /\ pc[r] = "insert"
    /\ async[r] => Len(queue) < QueueSize
    /\ \E i \in Ids :
         /\ Create(r, i)
         /\ queue' = IF async[r] THEN Append(queue, i) ELSE queue
    /\ success' = [success EXCEPT ![r] = async[r]]
    /\ Goto(r, IF async[r] THEN "status" ELSE "send")
    /\ UNCHANGED <<up, async, saved, senderVars, loaderVars,
                   crashes, faults, sends, reloads, missed, unmarked, paid>>

\* UpdateAndInsert. An asynchronous message skips the send with success = true.
HandlerInsert(r) ==
    /\ pc[r] = "insert"
    /\ \E i \in Ids : Create(r, i)
    /\ success' = [success EXCEPT ![r] = async[r]]
    /\ Goto(r, IF async[r] THEN "status" ELSE "send")
    /\ UNCHANGED <<up, async, saved, queue, senderVars, loaderVars,
                   crashes, faults, sends, reloads, missed, unmarked, paid>>

\* The early return after a failed insertion: the deferred function still
\* runs, with the id the message had before.
InsertFails(r) ==
    /\ pc[r] = "insert"
    /\ Goto(r, "status")
    /\ UNCHANGED <<up, row, id, async, saved, success, queue, senderVars,
                   loaderVars, crashes, history>>

\* The insertion fails with a database error.
HandlerInsertFails(r) == InsertFails(r) /\ Fault

\* The insertion fails because a row has the id the client sent.
HandlerInsertTaken(r) ==
    /\ InsertFails(r)
    /\ \E i \in Ids : i = id[r] /\ row[i] \in Live
    /\ UNCHANGED faults

Answer(ok) == IF ok THEN "ok" ELSE "error"

\* SendMessage on the request's own goroutine.
HandlerSend(r) ==
    /\ pc[r] = "send"
    /\ IF saved[r] THEN /\ sends' = [sends EXCEPT ![id[r]] = @ + 1]
                        /\ paid' = paid \cup {r}
                   ELSE UNCHANGED <<sends, paid>>
    /\ \E ok \in BOOLEAN :
         /\ success' = [success EXCEPT ![r] = ok]
         /\ Goto(r, IF saved[r] THEN "status" ELSE Answer(ok))
    /\ UNCHANGED <<up, row, id, async, saved, queue, senderVars, loaderVars,
                   crashes, faults, reloads, missed, unmarked, inserted>>

\* What follows UpdateStatus in the deferred function.
AfterStatus(r) == Goto(r, IF async[r] THEN "enqueue" ELSE Answer(success[r]))

\* The deferred function's UpdateStatus.
HandlerStatus(r) ==
    /\ pc[r] = "status"
    /\ UpdateStatus(id[r], IF async[r] THEN "AsyncPending"
                           ELSE IF success[r] THEN "Sent" ELSE "Failed")
    /\ AfterStatus(r)
    /\ UNCHANGED <<up, id, async, saved, success, queue, senderVars, loaderVars,
                   crashes, faults, history>>

\* The same, refused by the database: the error is only logged.
HandlerStatusFails(r) ==
    /\ pc[r] = "status"
    /\ Fault
    /\ unmarked' = unmarked \cup {r}
    /\ AfterStatus(r)
    /\ UNCHANGED <<up, row, id, async, saved, success, queue, senderVars,
                   loaderVars, crashes, sends, reloads, missed, inserted, paid>>

\* The end of the deferred function: AsyncMessageQueue <- message.Id and the
\* answer.
Enqueue(r) ==
    /\ pc[r] = "enqueue"
    /\ queue' = Append(queue, id[r])
    /\ paid' = paid \cup {r}
    /\ Goto(r, Answer(success[r]))
    /\ UNCHANGED <<up, row, id, async, saved, success, senderVars, loaderVars,
                   crashes, faults, sends, reloads, missed, unmarked, inserted>>

\* Mutant: the channel never blocks.
HandlerEnqueueUnbounded(r) == Enqueue(r)

\* The handler blocks while the queue is full.
HandlerEnqueue(r) == Len(queue) < QueueSize /\ Enqueue(r)

\* DeleteMessage and DeleteAllMessages.
Delete(S) ==
    /\ up
    /\ S # {}
    /\ \A i \in S : row[i] \in Live
    /\ row' = [i \in Ids |-> IF i \in S THEN "deleted" ELSE row[i]]
    /\ UNCHANGED <<up, handlerVars, queue, senderVars, loaderVars,
                   crashes, faults, history>>

DeleteMessage == \E i \in Ids : Delete({i})
DeleteAllMessages == Delete({i \in Ids : row[i] \in Live})

----------------------------------------------------------------------------
(* asyncMessageSender. *)

\* The end of an iteration: its local variables go out of scope.
EndIteration(s) ==
    /\ spc' = [spc EXCEPT ![s] = "receive"]
    /\ sid' = [sid EXCEPT ![s] = NoId]
    /\ sok' = [sok EXCEPT ![s] = FALSE]

\* id := <-AsyncMessageQueue.
SenderReceive(s) ==
    /\ up /\ spc[s] = "receive"
    /\ queue # <<>>
    /\ sid' = [sid EXCEPT ![s] = Head(queue)]
    /\ queue' = Tail(queue)
    /\ spc' = [spc EXCEPT ![s] = "load"]
    /\ UNCHANGED <<up, row, handlerVars, sok, loaderVars, crashes, faults, history>>

\* GetMessageById finds the row.
SenderLoad(s) ==
    /\ spc[s] = "load"
    /\ \E i \in Ids : i = sid[s] /\ row[i] \in Live
    /\ spc' = [spc EXCEPT ![s] = "send"]
    /\ UNCHANGED <<up, row, handlerVars, queue, sid, sok, loaderVars,
                   crashes, faults, history>>

\* Mutant: return instead of continue ends the goroutine.
SenderSkipReturns(s) ==
    /\ spc[s] = "load"
    /\ ~ \E i \in Ids : i = sid[s] /\ row[i] \in Live
    /\ spc' = [spc EXCEPT ![s] = "returned"]
    /\ UNCHANGED <<up, row, handlerVars, queue, sid, sok, loaderVars,
                   crashes, faults, history>>

\* GetMessageById of id 0 or of a deleted row: logged, next iteration.
SenderSkip(s) ==
    /\ spc[s] = "load"
    /\ ~ \E i \in Ids : i = sid[s] /\ row[i] \in Live
    /\ EndIteration(s)
    /\ UNCHANGED <<up, row, handlerVars, queue, loaderVars,
                   crashes, faults, history>>

\* The same with a database error: logged, and the id is gone.
SenderLoadFails(s) ==
    /\ spc[s] = "load"
    /\ Fault
    /\ EndIteration(s)
    /\ missed' = missed \cup ({sid[s]} \ {NoId})
    /\ UNCHANGED <<up, row, handlerVars, queue, loaderVars,
                   crashes, sends, reloads, unmarked, inserted, paid>>

\* asyncMessageSenderHelper: the user or the channel is gone (or not readable).
SenderLookupFails(s) ==
    /\ spc[s] = "send"
    /\ sok' = [sok EXCEPT ![s] = FALSE]
    /\ spc' = [spc EXCEPT ![s] = "status"]
    /\ UNCHANGED <<up, row, handlerVars, queue, sid, loaderVars,
                   crashes, faults, history>>

\* asyncMessageSenderHelper: SendMessage is called and succeeds or fails.
SenderSend(s) ==
    /\ spc[s] = "send"
    /\ sends' = [sends EXCEPT ![sid[s]] = @ + 1]
    /\ \E ok \in BOOLEAN : sok' = [sok EXCEPT ![s] = ok]
    /\ spc' = [spc EXCEPT ![s] = "status"]
    /\ UNCHANGED <<up, row, handlerVars, queue, sid, loaderVars,
                   crashes, faults, reloads, missed, unmarked, inserted, paid>>

SenderStatus(s) ==
    /\ spc[s] = "status"
    /\ UpdateStatus(sid[s], IF sok[s] THEN "Sent" ELSE "Failed")
    /\ EndIteration(s)
    /\ UNCHANGED <<up, handlerVars, queue, loaderVars,
                   crashes, faults, history>>

\* Mutant: the whole send is retried after a failed status update.
SenderStatusFailsResends(s) ==
    /\ spc[s] = "status"
    /\ Fault
    /\ spc' = [spc EXCEPT ![s] = "send"]
    /\ UNCHANGED <<up, row, handlerVars, queue, sid, sok, loaderVars,
                   crashes, history>>

\* The status update fails: logged, and the row keeps its status.
SenderStatusFails(s) ==
    /\ spc[s] = "status"
    /\ Fault
    /\ EndIteration(s)
    /\ missed' = missed \cup {sid[s]}
    /\ UNCHANGED <<up, row, handlerVars, queue, loaderVars,
                   crashes, sends, reloads, unmarked, inserted, paid>>

----------------------------------------------------------------------------
(* LoadAsyncMessages, once per start, beside the HTTP server. *)

\* Mutants: the query selects another status, or one status too many.
PendingIds == {i \in Ids : row[i] = "Pending"}
UnsettledIds == {i \in Ids : row[i] \in {"Pending", "AsyncPending"}}

\* GetAsyncPendingMessageIds.
AsyncPendingIds == {i \in Ids : row[i] = "AsyncPending"}

LoaderRead ==
    /\ up /\ lpc = "read"
    /\ ids' = AsyncPendingIds
    /\ lpc' = "push"
    /\ reloads' = [i \in Ids |->
                     IF i \in ids' THEN reloads[i] + 1 ELSE reloads[i]]
    /\ UNCHANGED <<up, row, handlerVars, queue, senderVars, crashes, faults,
                   sends, missed, unmarked, inserted, paid>>

\* The query has no ORDER BY: any of the ids may come next.
LoaderPush ==
    /\ lpc = "push"
    /\ Len(queue) < QueueSize
    /\ \E i \in ids :
         /\ queue' = Append(queue, i)
         /\ ids' = ids \ {i}
    /\ UNCHANGED <<up, row, handlerVars, senderVars, lpc, crashes, faults, history>>

----------------------------------------------------------------------------
(* The process. *)

\* The process dies: rows survive, goroutines and the queue do not.
Die ==
    /\ up' = FALSE
    /\ pc' = [r \in Requests |-> IF pc[r] \in Running THEN "dead" ELSE pc[r]]
    /\ queue' = <<>>
    /\ spc' = [s \in Senders |-> "receive"]
    /\ sid' = [s \in Senders |-> NoId]
    /\ sok' = [s \in Senders |-> FALSE]
    /\ lpc' = "read"
    /\ ids' = {}
    /\ missed' = {}
    /\ UNCHANGED <<row, id, async, saved, success, sends, reloads, unmarked,
                   inserted, paid>>

Crash ==
    /\ up
    /\ crashes < MaxCrashes
    /\ crashes' = crashes + 1
    /\ Die
    /\ UNCHANGED faults

\* GetAsyncPendingMessageIds fails: FatalLog ends the process.
LoaderReadFails ==
    /\ up /\ lpc = "read"
    /\ Fault
    /\ Die
    /\ UNCHANGED crashes

Restart ==
    /\ ~up
    /\ up' = TRUE
    /\ UNCHANGED <<row, handlerVars, queue, senderVars, loaderVars, crashes,
                   faults, history>>

\* Nothing left to do: every handler has answered or died, the senders wait.
Quiescent ==
    /\ up
    /\ \A r \in Requests : pc[r] \notin Running
    /\ queue = <<>> /\ ids = {} /\ lpc = "push"
    /\ \A s \in Senders : spc[s] = "receive"
    /\ UNCHANGED vars

Handler(r) ==
    \/ HandlerReject(r) \/ HandlerAccept(r) \/ HandlerResend(r)
    \/ HandlerInsert(r) \/ HandlerInsertFails(r) \/ HandlerInsertTaken(r)
    \/ HandlerSend(r)
    \/ HandlerStatus(r) \/ HandlerStatusFails(r) \/ HandlerEnqueue(r)

Sender(s) ==
    \/ SenderReceive(s) \/ SenderLoad(s) \/ SenderSkip(s) \/ SenderLoadFails(s)
    \/ SenderLookupFails(s) \/ SenderSend(s)
    \/ SenderStatus(s) \/ SenderStatusFails(s)

Loader == LoaderRead \/ LoaderPush

Next ==
    \/ \E r \in Requests : Handler(r)
    \/ \E s \in Senders : Sender(s)
    \/ Loader \/ LoaderReadFails
    \/ DeleteMessage \/ DeleteAllMessages
    \/ Crash \/ Restart \/ Quiescent

Spec == Init /\ [][Next]_vars

\* A handler that has accepted its request goes on.
HandlerProceeds(r) ==
    \/ HandlerInsert(r) \/ HandlerInsertTaken(r) \/ HandlerSend(r)
    \/ HandlerStatus(r) \/ HandlerEnqueue(r)

\* Goroutines that can run do run. Fairness is strong for the two that may
\* block on the full channel: the Go runtime serves waiting senders first
\* come, first served. The process is restarted after a crash, and external
\* services answer.
Fairness ==
    /\ \A r \in Requests : SF_vars(HandlerProceeds(r))
    /\ \A s \in Senders : WF_vars(Sender(s))
    /\ SF_vars(Loader)
    /\ WF_vars(Restart)

FairSpec == Spec /\ Fairness

----------------------------------------------------------------------------
(* Properties. *)

TypeOK ==
    /\ up \in BOOLEAN
    /\ row \in [Ids -> RowStates]
    /\ pc \in [Requests -> HandlerPCs]
    /\ id \in [Requests -> Ids \cup {NoId}]
    /\ \A r \in Requests : pc[r] = "send" /\ saved[r] => id[r] \in Ids
    /\ async \in [Requests -> BOOLEAN]
    /\ saved \in [Requests -> BOOLEAN]
    /\ success \in [Requests -> BOOLEAN]
    /\ queue \in Seq(Ids \cup {NoId})
    /\ Len(queue) <= QueueSize
    /\ spc \in [Senders -> SenderPCs]
    /\ sid \in [Senders -> Ids \cup {NoId}]
    /\ \A s \in Senders : spc[s] \in {"send", "status"} => sid[s] \in Ids
    /\ sok \in [Senders -> BOOLEAN]
    /\ lpc \in {"read", "push"}
    /\ ids \in SUBSET Ids
    /\ crashes \in Nat
    /\ faults \in Nat
    /\ sends \in [Ids -> Nat]
    /\ reloads \in [Ids -> Nat]
    /\ missed \in SUBSET Ids
    /\ unmarked \in SUBSET Requests
    /\ inserted \in SUBSET Requests
    /\ paid \in SUBSET Requests

Occurs(i, q) == \E k \in 1..Len(q) : q[k] = i
InQueue(i) == Occurs(i, queue)
HeldBySender(i) == \E s \in Senders : spc[s] # "receive" /\ sid[s] = i

\* The id is somewhere on its way to a send by asyncMessageSender.
Underway(i) == InQueue(i) \/ HeldBySender(i) \/ i \in ids

\* Some goroutine or the queue will still bring the row to a sender.
Covered(i) ==
    \/ \E r \in Requests : pc[r] = "enqueue" /\ id[r] = i
    \/ Underway(i)
    \/ lpc = "read"

\* A row marked AsyncPending is never forgotten: while the process runs it is
\* about to be enqueued, in AsyncMessageQueue, with a sender or with
\* LoadAsyncMessages, unless a sender met a database error on it since the
\* last start (which only the next start repairs).
AsyncPendingCovered ==
    up => \A i \in Ids :
            row[i] = "AsyncPending" => Covered(i) \/ i \in missed

\* The handler of a saved message acts on row i, its own or the one its
\* client named.
Carries(r, i) == saved[r] /\ id[r] = i /\ i # NoId

\* At most one request has carried the id.
Alone(i) == \A q, r \in Requests : Carries(q, i) /\ Carries(r, i) => q = r

\* No asynchronous request has carried the id.
SyncOnly(i) == \A r \in Requests : Carries(r, i) => ~async[r]

\* A message that only synchronous requests carried never reaches the queue,
\* the loader or a sender, and is sent at most once for each time its row was
\* inserted, across crashes, restarts, deletions, resends of other messages
\* and pushes that name its id and fail. (An asynchronous push that names
\* its id does send it again: that case is SendsAccounted's.)
SyncSentAtMostOnce ==
    \A i \in Ids :
      SyncOnly(i) => /\ ~Underway(i)
                     /\ sends[i] <= Cardinality({r \in inserted : id[r] = i})

\* Where an id is in a queue, and which senders are about to send it.
Places(i, q) == {k \in 1..Len(q) : q[k] = i}
Holders(i) == {s \in Senders : spc[s] \in {"load", "send"} /\ sid[s] = i}

\* How many times a row may still be sent by what is under way.
Copies(i) ==
    Cardinality(Places(i, queue)) + Cardinality(Holders(i))
    + (IF i \in ids THEN 1 ELSE 0)

\* The handlers that have made or handed on the one send they owe to row i.
Payers(i) == {r \in paid : id[r] = i}

\* Every call of SendMessage for a saved message is paid for: once by each
\* handler that carried its id (with a client-sent id there may be several,
\* also one whose insertion failed) and once by each start whose
\* LoadAsyncMessages read its row, never more often, whatever the senders,
\* the crashes and the deletions do.
SendsAccounted ==
    \A i \in Ids : sends[i] + Copies(i) <= Cardinality(Payers(i)) + reloads[i]

RowOf(r) == IF id[r] = NoId THEN "absent" ELSE row[id[r]]

\* What the answer of the push handler says of the row, once it is given: an
\* accepted asynchronous message is durable as AsyncPending or beyond (so a
\* crash cannot lose it), a synchronous "success" is a row marked Sent and an
\* error is a row marked Failed, if the message is saved, not deleted since,
\* its status update met no database error and no other push carried its id.
AnswerMatchesRow ==
    \A r \in Requests \ unmarked :
      saved[r] /\ Alone(id[r]) /\ RowOf(r) # "deleted" =>
        /\ pc[r] = "ok" /\ async[r] => RowOf(r) \in {"AsyncPending", "Sent", "Failed"}
        /\ pc[r] = "ok" /\ ~async[r] => RowOf(r) = "Sent"
        /\ pc[r] = "error" => RowOf(r) \in {"Failed", "absent"}

\* A settled row never becomes pending again, unless two requests carried its
\* id: the handler marks the row AsyncPending before anyone can take its id,
\* so no late update of the handler overwrites the result of a sender.
SettledStaysSettled ==
    [][\A i \in Ids :
         row[i] \in Settled /\ Alone(i) => row'[i] \in Settled \cup {"deleted"}]_vars

\* The row of r was deleted and another request has inserted one with its id.
Replaced(r) == \E q \in inserted \ {r} : id[q] = id[r]

\* An asynchronous message that was accepted is settled or deleted in the end,
\* if the database makes no error: through full queues, crashes between the
\* status update and the enqueue, crashes while a sender holds it, and pushes
\* that name its id.
AsyncEventuallySettled ==
    \A r \in Requests :
      (pc[r] = "ok" /\ async[r]) ~> (RowOf(r) \in Settled \cup {"deleted"} \/ Replaced(r))

\* A handler that started ends: no push waits for ever on AsyncMessageQueue.
HandlerEnds == \A r \in Requests : (pc[r] \in Running) ~> (pc[r] \notin Running)

============================================================================
