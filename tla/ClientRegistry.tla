--------------------------- MODULE ClientRegistry --------------------------
(***************************************************************************)
(* WebSocket clients (channel/client.go, controller/websocket.go): the     *)
(* clientMap entry of one key, the goroutines of RegisterClient, the reader*)
(* and the writer goroutine of every client, and SendClientMessage.        *)
(*                                                                         *)
(* The channels message, pong and stop are unbuffered: a send on them is a *)
(* rendezvous with the writer's select.  clientConnMapMutex is never held  *)
(* across a blocking operation, so each locked region is one step.  Entries*)
(* of different keys meet only at the mutex; one key is modelled.          *)
(***************************************************************************)
EXTENDS Integers, FiniteSets

CONSTANTS
    Clients,     \* connections accepted by the upgrader, one RegisterClient each
    Pushes,      \* calls of SendClientMessage
    None         \* no entry in clientMap

ASSUME NoneAssumption == None \notin Clients

VARIABLES
    clientMap,   \* the client stored under the key, or None
    reg,         \* where RegisterClient is for each connection
    oldClient,   \* its local variable
    writer,      \* where handleDataWriting is
    reader,      \* where handleDataReading is
    conn,        \* the connection
    timestamp,   \* UnixMilli at creation
    now,         \* the latest timestamp given
    push,        \* where SendClientMessage is
    client       \* its local variable

\* History, read by properties only: the clients whose connection broke before
\* RegisterClient had stored them.
VARIABLE early

regVars == <<reg, oldClient>>
pushVars == <<push, client>>
stampVars == <<timestamp, now>>
vars == <<clientMap, regVars, writer, reader, conn, stampVars, pushVars,
          early>>

Init ==
    /\ clientMap = None
    /\ reg = [c \in Clients |-> "idle"]
    /\ oldClient = [c \in Clients |-> None]
    /\ writer = [c \in Clients |-> "none"]
    /\ reader = [c \in Clients |-> "none"]
    /\ conn = [c \in Clients |-> "open"]
    /\ timestamp = [c \in Clients |-> 0]
    /\ now = 0
    /\ push = [p \in Pushes |-> "idle"]
    /\ client = [p \in Pushes |-> None]
    /\ early = {}

\* The writer of c is in its select: the other side of a rendezvous.
Selecting(c) == writer[c] = "select"

\* c.message <- m: the writer takes the message and writes it.
SendMessage(c) == Selecting(c) /\ writer' = [writer EXCEPT ![c] = "write"]

\* c.stop <- true: the writer sends a close frame and returns.
TakeStop(c) == Selecting(c) /\ writer' = [writer EXCEPT ![c] = "cleanup"]

----------------------------------------------------------------------------
(* RegisterClient. *)

RegLookup(c) ==
    /\ reg[c] = "idle"
    /\ oldClient' = [oldClient EXCEPT ![c] = clientMap]
    /\ reg' = [reg EXCEPT ![c] = IF clientMap = None THEN "create" ELSE "bye"]
    /\ UNCHANGED <<clientMap, writer, reader, conn, stampVars, pushVars, early>>

\* oldClient.sendMessage(byeMessage).
RegBye(c) ==
    /\ reg[c] = "bye"
    /\ SendMessage(oldClient[c])
    /\ reg' = [reg EXCEPT ![c] = "close"]
    /\ UNCHANGED <<clientMap, oldClient, reader, conn, stampVars, pushVars, early>>

RegClose(c) ==
    /\ reg[c] = "close"
    /\ TakeStop(oldClient[c])
    /\ reg' = [reg EXCEPT ![c] = "create"]
    /\ UNCHANGED <<clientMap, oldClient, reader, conn, stampVars, pushVars, early>>

\* The client is created and its goroutines start before it is in the map;
\* two clients may be created in the same millisecond.
RegCreate(c) ==
    /\ reg[c] = "create"
    /\ \E t \in {now, now + 1} \ {0} :
         /\ now' = t
         /\ timestamp' = [timestamp EXCEPT ![c] = t]
    /\ writer' = [writer EXCEPT ![c] = "select"]
    /\ reader' = [reader EXCEPT ![c] = "read"]
    /\ reg' = [reg EXCEPT ![c] = "store"]
    /\ UNCHANGED <<clientMap, oldClient, conn, pushVars, early>>

RegStore(c) ==
    /\ reg[c] = "store"
    /\ clientMap' = c
    /\ reg' = [reg EXCEPT ![c] = "hello"]
    /\ UNCHANGED <<oldClient, writer, reader, conn, stampVars, pushVars, early>>

\* The deferred newClient.sendMessage(helloMessage).
RegHello(c) ==
    /\ reg[c] = "hello"
    /\ SendMessage(c)
    /\ reg' = [reg EXCEPT ![c] = "done"]
    /\ UNCHANGED <<clientMap, oldClient, reader, conn, stampVars, pushVars, early>>

----------------------------------------------------------------------------
(* handleDataWriting. *)

\* Mutant: no write deadline, a write to a stalled peer does not end.
WriterBlocks(c) == writer[c] = "write" /\ UNCHANGED vars

\* WriteJSON succeeds; on a broken connection it may still fill a buffer.
WriterWrites(c) ==
    /\ writer[c] = "write"
    /\ writer' = [writer EXCEPT ![c] = "select"]
    /\ UNCHANGED <<clientMap, regVars, reader, conn, stampVars, pushVars, early>>

\* WriteJSON or the periodic ping fails: the writer returns.
WriterFails(c) ==
    /\ writer[c] \in {"write", "select"}
    /\ conn[c] = "broken"
    /\ writer' = [writer EXCEPT ![c] = "cleanup"]
    /\ UNCHANGED <<clientMap, regVars, reader, conn, stampVars, pushVars, early>>

\* Mutant: the test that protects a newer client is missing.
WriterCleanupAlways(c) ==
    /\ writer[c] = "cleanup"
    /\ clientMap' = None
    /\ conn' = [conn EXCEPT ![c] = "closed"]
    /\ writer' = [writer EXCEPT ![c] = "returned"]
    /\ UNCHANGED <<regVars, reader, stampVars, pushVars, early>>

\* Mutant: only the connection is closed.
WriterCleanupNever(c) ==
    /\ writer[c] = "cleanup"
    /\ conn' = [conn EXCEPT ![c] = "closed"]
    /\ writer' = [writer EXCEPT ![c] = "returned"]
    /\ UNCHANGED <<clientMap, regVars, reader, stampVars, pushVars, early>>

\* The deferred function: delete the entry if its timestamp is ours, close.
WriterCleanup(c) ==
    /\ writer[c] = "cleanup"
    /\ clientMap' = IF clientMap # None /\ timestamp[clientMap] = timestamp[c]
                    THEN None ELSE clientMap
    /\ conn' = [conn EXCEPT ![c] = "closed"]
    /\ writer' = [writer EXCEPT ![c] = "returned"]
    /\ UNCHANGED <<regVars, reader, stampVars, pushVars, early>>

----------------------------------------------------------------------------
(* handleDataReading: ReadMessage fails and close() is called. *)

ReaderFails(c) ==
    /\ reader[c] = "read"
    /\ conn[c] # "open"
    /\ reader' = [reader EXCEPT ![c] = "close"]
    /\ UNCHANGED <<clientMap, regVars, writer, conn, stampVars, pushVars, early>>

ReaderCloses(c) ==
    /\ reader[c] = "close"
    /\ TakeStop(c)
    /\ reader' = [reader EXCEPT ![c] = "returned"]
    /\ UNCHANGED <<clientMap, regVars, conn, stampVars, pushVars, early>>

Stored(c) == reg[c] \in {"hello", "done"}

\* The peer goes away, sends too much, or misses its pong for pongWait.
Break(c) ==
    /\ conn[c] = "open"
    /\ conn' = [conn EXCEPT ![c] = "broken"]
    /\ early' = IF Stored(c) THEN early ELSE early \cup {c}
    /\ UNCHANGED <<clientMap, regVars, writer, reader, stampVars, pushVars>>

----------------------------------------------------------------------------
(* SendClientMessage. *)

\* The locked lookup: an error if nobody is connected.
PushLookup(p) ==
    /\ push[p] = "idle"
    /\ client' = [client EXCEPT ![p] = clientMap]
    /\ push' = [push EXCEPT ![p] = IF clientMap = None THEN "error" ELSE "send"]
    /\ UNCHANGED <<clientMap, regVars, writer, reader, conn, stampVars, early>>

PushSend(p) ==
    /\ push[p] = "send"
    /\ SendMessage(client[p])
    /\ push' = [push EXCEPT ![p] = "sent"]
    /\ UNCHANGED <<clientMap, regVars, reader, conn, stampVars, client,
                   early>>

----------------------------------------------------------------------------

Register(c) ==
    \/ RegLookup(c) \/ RegBye(c) \/ RegClose(c)
    \/ RegCreate(c) \/ RegStore(c) \/ RegHello(c)

Next ==
    \/ \E c \in Clients :
         \/ Register(c)
         \/ WriterWrites(c) \/ WriterFails(c) \/ WriterCleanup(c)
         \/ ReaderFails(c) \/ ReaderCloses(c)
         \/ Break(c)
    \/ \E p \in Pushes : PushLookup(p) \/ PushSend(p)

Spec == Init /\ [][Next]_vars

\* Goroutines that can run do: a rendezvous that stays possible takes place.
Fairness ==
    /\ \A c \in Clients :
         /\ WF_vars(RegBye(c) \/ RegClose(c) \/ RegCreate(c) \/ RegStore(c) \/ RegHello(c))
         /\ WF_vars(WriterWrites(c) \/ WriterFails(c) \/ WriterCleanup(c))
         /\ WF_vars(ReaderFails(c) \/ ReaderCloses(c))
    /\ \A p \in Pushes : WF_vars(PushSend(p))

FairSpec == Spec /\ Fairness

----------------------------------------------------------------------------
(* Properties. *)

TypeOK ==
    /\ clientMap \in Clients \cup {None}
    /\ reg \in [Clients -> {"idle", "bye", "close", "create", "store", "hello", "done"}]
    /\ oldClient \in [Clients -> Clients \cup {None}]
    /\ \A c \in Clients : reg[c] \in {"bye", "close"} => oldClient[c] \in Clients
    /\ writer \in [Clients -> {"none", "select", "write", "cleanup", "returned"}]
    /\ reader \in [Clients -> {"none", "read", "close", "returned"}]
    /\ conn \in [Clients -> {"open", "broken", "closed"}]
    /\ timestamp \in [Clients -> Nat]
    /\ now \in Nat
    /\ push \in [Pushes -> {"idle", "send", "sent", "error"}]
    /\ client \in [Pushes -> Clients \cup {None}]
    /\ \A p \in Pushes : push[p] = "send" => client[p] \in Clients
    /\ early \in SUBSET Clients

\* clientMap never holds a client whose writer has returned: such an entry
\* would block every later push and every later RegisterClient of the key.
\* The exception is a client whose connection broke before RegisterClient
\* stored it: its writer may have cleaned up before there was an entry.
EntryHasWriter ==
    clientMap # None => writer[clientMap] # "returned" \/ clientMap \in early

\* The cleanup of one client never deletes the entry of a newer one: an entry
\* disappears only with the return of its own writer, or of the writer of a
\* client created in the same millisecond.
OnlyOwnEntryDeleted ==
    [][\A c \in Clients :
         clientMap = c /\ clientMap' = None =>
           \E d \in Clients : /\ writer[d] # "returned" /\ writer'[d] = "returned"
                              /\ d = c \/ timestamp[d] = timestamp[c]]_vars

\* A new client is created only after the client it displaces has accepted
\* its stop: of two registrations one after the other, at most one is served.
DisplacedIsStopped ==
    \A c \in Clients :
      reg[c] \in {"create", "store", "hello", "done"} /\ oldClient[c] # None
        => writer[oldClient[c]] \in {"cleanup", "returned"}

\* The strengthening of the three properties above.  Only stored clients are
\* ever looked up; goroutines exist from creation on; a client whose
\* connection lasts until it is stored is untouched until then.
Created(c) == reg[c] \in {"store", "hello", "done"}

OnlyStoredKnown ==
    /\ clientMap # None => Stored(clientMap)
    /\ \A c \in Clients : oldClient[c] # None => Stored(oldClient[c])
    /\ \A p \in Pushes : client[p] # None => Stored(client[p])

WriterSinceCreation == \A c \in Clients : writer[c] = "none" <=> ~Created(c)

UntouchedUntilStored ==
    \A c \in Clients \ early : ~Stored(c) =>
      conn[c] = "open" /\ writer[c] \in {"none", "select"} /\ reader[c] \in {"none", "read"}

\* Nobody waits for ever on a client whose writer still serves: a push, a
\* bye or a stop is taken, or the writer has returned.
Gone(c) == c # None /\ writer[c] = "returned"

WaitersServed ==
    /\ \A p \in Pushes :
         (push[p] = "send") ~> (push[p] = "sent" \/ Gone(client[p]))
    /\ \A c \in Clients :
         (reg[c] \in {"bye", "close"})
           ~> (reg[c] \notin {"bye", "close"} \/ Gone(oldClient[c]))

\* A client whose connection broke leaves the map, so later pushes get the
\* error instead of blocking.
BrokenClientLeaves ==
    \A c \in Clients : (clientMap = c /\ conn[c] = "broken") ~> (clientMap # c)
============================================================================
