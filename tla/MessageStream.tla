--------------------------- MODULE MessageStream ---------------------------
(***************************************************************************)
(* The server-sent-event stream of new messages (controller/message-sse.go)*)
(* : messageChanStore maps a user to the channel of one open page; every   *)
(* saved or unsaved push starts a syncMessageToUser goroutine, which sends *)
(* on that channel while it holds the read lock; GetNewMessages registers, *)
(* streams, unregisters and closes its channel.                            *)
(*                                                                         *)
(* sync.RWMutex is modelled as Go implements it: a goroutine waiting for   *)
(* the write lock keeps out new readers.  Stream is gin's: it looks at     *)
(* clientGone only between two steps, and a step blocks on the channel.    *)
(***************************************************************************)
EXTENDS Integers, Sequences, FiniteSets

CONSTANTS
    Users,
    Pages,        \* calls of GetNewMessages
    Messages,     \* calls of syncMessageToUser
    PageUser,     \* the user of each page
    MessageUser,  \* the user of each message
    BufferSize,   \* messageChanBufferSize
    None          \* no entry, no goroutine

ASSUME PageUserAssumption == PageUser \in [Pages -> Users]
ASSUME MessageUserAssumption == MessageUser \in [Messages -> Users]
ASSUME BufferSizeAssumption == BufferSize \in Nat \ {0}
ASSUME NoneAssumption == None \notin Pages

VARIABLES
    store,     \* messageChanStore.Map: user -> page whose channel is stored
    waiting,   \* the page whose goroutine waits for or holds the write lock
    page,      \* where GetNewMessages is
    gone,      \* the browser has closed the connection
    buffer,    \* what the channel of a page holds
    chanClosed, \* the channel has been closed
    sync,      \* where syncMessageToUser is; "send" holds the read lock
    target,    \* the page whose channel it sends on
    received   \* messages written to the browser, for each page

pageVars == <<page, gone>>
chanVars == <<buffer, chanClosed>>
syncVars == <<sync, target>>
streamVars == <<store, waiting, pageVars, chanVars, syncVars, received>>

StreamInit ==
    /\ store = [u \in Users |-> None]
    /\ waiting = None
    /\ page = [p \in Pages |-> "idle"]
    /\ gone = [p \in Pages |-> FALSE]
    /\ buffer = [p \in Pages |-> <<>>]
    /\ chanClosed = [p \in Pages |-> FALSE]
    /\ sync = [m \in Messages |-> "idle"]
    /\ target = [m \in Messages |-> None]
    /\ received = [p \in Pages |-> {}]

NoReaders == \A m \in Messages : sync[m] # "send"

\* Mutex.Lock() called: from here on no reader gets in.
Announce(p, from, to) ==
    /\ page[p] = from
    /\ waiting = None
    /\ waiting' = p
    /\ page' = [page EXCEPT ![p] = to]
    /\ UNCHANGED <<store, gone, chanVars, syncVars, received>>

----------------------------------------------------------------------------
(* GetNewMessages. *)

PageOpens(p) ==
    /\ page[p] = "idle"
    /\ page' = [page EXCEPT ![p] = "open"]
    /\ UNCHANGED <<store, waiting, gone, chanVars, syncVars, received>>

AddLocks(p) == Announce(p, "open", "adding")

\* Mutant: the write lock is not given back.
AddKeepsLock(p) ==
    /\ page[p] = "adding"
    /\ NoReaders
    /\ store' = [store EXCEPT ![PageUser[p]] = p]
    /\ page' = [page EXCEPT ![p] = "check"]
    /\ UNCHANGED <<waiting, gone, chanVars, syncVars, received>>

\* messageChanStoreAdd replaces the channel of another page of the user.
ChanAdd(p) ==
    /\ page[p] = "adding"
    /\ NoReaders
    /\ store' = [store EXCEPT ![PageUser[p]] = p]
    /\ waiting' = None
    /\ page' = [page EXCEPT ![p] = "check"]
    /\ UNCHANGED <<gone, chanVars, syncVars, received>>

\* Stream between two steps: end if the client is gone, else receive.
StreamChecks(p) ==
    /\ page[p] = "check"
    /\ page' = [page EXCEPT ![p] = IF gone[p] THEN "leave" ELSE "receive"]
    /\ UNCHANGED <<store, waiting, gone, chanVars, syncVars, received>>

\* The step: <-messageChan, then SSEvent.
StreamReceives(p) ==
    /\ page[p] = "receive"
    /\ buffer[p] # <<>>
    /\ received' = [received EXCEPT ![p] = @ \cup (IF gone[p] THEN {} ELSE {Head(buffer[p])})]
    /\ buffer' = [buffer EXCEPT ![p] = Tail(@)]
    /\ page' = [page EXCEPT ![p] = "check"]
    /\ UNCHANGED <<store, waiting, gone, chanClosed, syncVars>>

RemoveLocks(p) == Announce(p, "leave", "removing")

\* Mutant: the entry is deleted without waiting for the readers.
RemoveUnlocked(p) ==
    /\ page[p] = "removing"
    /\ store' = [store EXCEPT ![PageUser[p]] = None]
    /\ waiting' = None
    /\ page' = [page EXCEPT ![p] = "close"]
    /\ UNCHANGED <<gone, chanVars, syncVars, received>>

\* messageChanStoreRemove deletes whatever entry the user has.
ChanRemove(p) ==
    /\ page[p] = "removing"
    /\ NoReaders
    /\ store' = [store EXCEPT ![PageUser[p]] = None]
    /\ waiting' = None
    /\ page' = [page EXCEPT ![p] = "close"]
    /\ UNCHANGED <<gone, chanVars, syncVars, received>>

\* close(messageChan).
PageCloses(p) ==
    /\ page[p] = "close"
    /\ chanClosed' = [chanClosed EXCEPT ![p] = TRUE]
    /\ page' = [page EXCEPT ![p] = "done"]
    /\ UNCHANGED <<store, waiting, gone, buffer, syncVars, received>>

\* The browser closes the page.
Leave(p) ==
    /\ page[p] \notin {"idle", "done"}
    /\ ~gone[p]
    /\ gone' = [gone EXCEPT ![p] = TRUE]
    /\ UNCHANGED <<store, waiting, page, chanVars, syncVars, received>>

----------------------------------------------------------------------------
(* syncMessageToUser. *)

SyncStarts(m) ==
    /\ sync[m] = "idle"
    /\ sync' = [sync EXCEPT ![m] = "started"]
    /\ UNCHANGED <<store, waiting, pageVars, chanVars, target, received>>

\* RLock and the lookup; without an entry the lock is given back at once.
SyncLooksUp(m) ==
    /\ sync[m] = "started"
    /\ waiting = None
    /\ LET p == store[MessageUser[m]] IN
         /\ target' = [target EXCEPT ![m] = p]
         /\ sync' = [sync EXCEPT ![m] = IF p = None THEN "done" ELSE "send"]
    /\ UNCHANGED <<store, waiting, pageVars, chanVars, received>>

\* Mutant: a message that finds the channel full is dropped.
SyncSendsOrDrops(m) ==
    /\ sync[m] = "send"
    /\ buffer' = [buffer EXCEPT ![target[m]] =
                    IF Len(@) < BufferSize THEN Append(@, m) ELSE @]
    /\ sync' = [sync EXCEPT ![m] = "done"]
    /\ UNCHANGED <<store, waiting, pageVars, chanClosed, target, received>>

\* *messageChan <- message, blocking while the buffer is full, then RUnlock.
SyncSends(m) ==
    /\ sync[m] = "send"
    /\ Len(buffer[target[m]]) < BufferSize
    /\ buffer' = [buffer EXCEPT ![target[m]] = Append(@, m)]
    /\ sync' = [sync EXCEPT ![m] = "done"]
    /\ UNCHANGED <<store, waiting, pageVars, chanClosed, target, received>>

----------------------------------------------------------------------------

PageStep(p) ==
    \/ AddLocks(p) \/ ChanAdd(p) \/ StreamChecks(p) \/ StreamReceives(p)
    \/ RemoveLocks(p) \/ ChanRemove(p) \/ PageCloses(p)

SyncStep(m) == SyncLooksUp(m) \/ SyncSends(m)

StreamNext ==
    \/ \E p \in Pages : PageOpens(p) \/ PageStep(p) \/ Leave(p)
    \/ \E m \in Messages : SyncStarts(m) \/ SyncStep(m)

StreamSpec == StreamInit /\ [][StreamNext]_streamVars

\* Every goroutine that can run does.
Fairness ==
    /\ \A p \in Pages : WF_streamVars(PageStep(p))
    /\ \A m \in Messages : WF_streamVars(SyncStep(m))

FairStreamSpec == StreamSpec /\ Fairness

----------------------------------------------------------------------------
(* Properties. *)

PagePCs == {"idle", "open", "adding", "check", "receive", "leave", "removing",
            "close", "done"}

StreamTypeOK ==
    /\ store \in [Users -> Pages \cup {None}]
    /\ waiting \in Pages \cup {None}
    /\ page \in [Pages -> PagePCs]
    /\ gone \in [Pages -> BOOLEAN]
    /\ buffer \in [Pages -> Seq(Messages)]
    /\ \A p \in Pages : Len(buffer[p]) <= BufferSize
    /\ chanClosed \in [Pages -> BOOLEAN]
    /\ sync \in [Messages -> {"idle", "started", "send", "done"}]
    /\ target \in [Messages -> Pages \cup {None}]
    /\ \A m \in Messages : sync[m] = "send" => target[m] \in Pages
    /\ received \in [Pages -> SUBSET Messages]

\* Nobody ever sends on a closed channel, which would panic in a goroutine
\* without recover and end the whole server: not while a page of the same user
\* replaces this one, and not while the page leaves.
NoSendOnClosed ==
    \A m \in Messages : sync[m] = "send" => ~chanClosed[target[m]]

\* What makes it so: a stored channel, and a channel somebody sends on, belong
\* to a page that has not finished messageChanStoreRemove, and the write lock
\* is exclusive.
Streaming == {"check", "receive", "leave", "removing"}

StoredIsStreaming ==
    /\ \A u \in Users : store[u] # None =>
         page[store[u]] \in Streaming /\ PageUser[store[u]] = u
    /\ \A m \in Messages : sync[m] = "send" =>
         page[target[m]] \in Streaming /\ store[MessageUser[m]] = target[m]
    /\ \A p \in Pages : chanClosed[p] => page[p] = "done"

\* A message that found a page is written to that page, unless the user closes
\* that very page: neither a full channel nor other pages that come, go or wait
\* for the mutex keep it back.
SentIsShown ==
    \A m \in Messages :
      (sync[m] = "send")
        ~> (\E p \in Pages : target[m] = p /\ (m \in received[p] \/ gone[p]))

\* As long as no page is closed, the goroutine of every push ends: pages that
\* connect, full channels and replaced pages stop nobody.
SyncEndsWhileOpen ==
    \A m \in Messages :
      (sync[m] = "started") ~> (sync[m] = "done" \/ \E p \in Pages : gone[p])
============================================================================
