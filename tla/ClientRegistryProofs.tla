------------------------ MODULE ClientRegistryProofs -----------------------
(***************************************************************************)
(* Theorems about ClientRegistry, for any number of connections and pushes.*)
(***************************************************************************)
EXTENDS ClientRegistry, TLAPS

\* The initial state has the right types.
LEMMA TypeInit == Init => TypeOK
BY DEF Init, TypeOK

\* RegisterClient keeps the types.
LEMMA TypeRegister ==
    ASSUME TypeOK, NEW c \in Clients, Register(c)
    PROVE  TypeOK'
<1> USE DEF TypeOK, stampVars, pushVars, SendMessage, TakeStop, Selecting
<1>1. CASE RegLookup(c)
  BY <1>1 DEF RegLookup
<1>2. CASE RegBye(c)
  BY <1>2 DEF RegBye
<1>3. CASE RegClose(c)
  BY <1>3 DEF RegClose
<1>4. CASE RegCreate(c)
  BY <1>4 DEF RegCreate
<1>5. CASE RegStore(c)
  BY <1>5 DEF RegStore
<1>6. CASE RegHello(c)
  BY <1>6 DEF RegHello
<1> QED
  BY <1>1, <1>2, <1>3, <1>4, <1>5, <1>6 DEF Register

\* The goroutines of a client, the network and the pushes keep the types.
LEMMA TypeGoroutines ==
    ASSUME TypeOK, NEW c \in Clients,
           \/ WriterWrites(c) \/ WriterFails(c) \/ WriterCleanup(c)
           \/ ReaderFails(c) \/ ReaderCloses(c) \/ Break(c)
    PROVE  TypeOK'
<1> USE DEF TypeOK, regVars, stampVars, pushVars, TakeStop, Selecting
<1>1. CASE WriterWrites(c) \/ WriterFails(c)
  BY <1>1 DEF WriterWrites, WriterFails
<1>2. CASE WriterCleanup(c)
  BY <1>2 DEF WriterCleanup
<1>3. CASE ReaderFails(c) \/ ReaderCloses(c)
  BY <1>3 DEF ReaderFails, ReaderCloses
<1>4. CASE Break(c)
  BY <1>4 DEF Break
<1> QED
  BY <1>1, <1>2, <1>3, <1>4

\* SendClientMessage keeps the types.
LEMMA TypePush ==
    ASSUME TypeOK, NEW p \in Pushes, PushLookup(p) \/ PushSend(p)
    PROVE  TypeOK'
BY DEF TypeOK, regVars, stampVars, SendMessage, Selecting, PushLookup, PushSend

LEMMA TypeNext == TypeOK /\ [Next]_vars => TypeOK'
<1> SUFFICES ASSUME TypeOK, [Next]_vars PROVE TypeOK'
  OBVIOUS
<1>1. CASE UNCHANGED vars
  BY <1>1 DEF TypeOK, vars, regVars, stampVars, pushVars
<1> QED
  BY <1>1, TypeRegister, TypeGoroutines, TypePush DEF Next

(***************************************************************************)
(* The inductive invariant.                                                *)
(***************************************************************************)

\* The map, the registrations and the pushes know stored clients only, because
\* a client gets out of its RegisterClient through the map.
LEMMA KnownNext ==
    ASSUME TypeOK, OnlyStoredKnown, [Next]_vars
    PROVE  OnlyStoredKnown'
<1> USE DEF OnlyStoredKnown, Stored, TypeOK, regVars, stampVars, pushVars,
            SendMessage, TakeStop, Selecting
<1>1. ASSUME NEW c \in Clients, Register(c) PROVE OnlyStoredKnown'
  <2>1. CASE RegLookup(c)
    BY <2>1 DEF RegLookup
  <2>2. CASE RegBye(c) \/ RegClose(c)
    BY <2>2 DEF RegBye, RegClose
  <2>3. CASE RegCreate(c)
    BY <2>3 DEF RegCreate
  <2>4. CASE RegStore(c)
    BY <2>4 DEF RegStore
  <2>5. CASE RegHello(c)
    BY <2>5 DEF RegHello
  <2> QED
    BY <1>1, <2>1, <2>2, <2>3, <2>4, <2>5 DEF Register
<1>2. ASSUME NEW c \in Clients,
             \/ WriterWrites(c) \/ WriterFails(c) \/ WriterCleanup(c)
             \/ ReaderFails(c) \/ ReaderCloses(c) \/ Break(c)
      PROVE  OnlyStoredKnown'
  BY <1>2 DEF WriterWrites, WriterFails, WriterCleanup, ReaderFails,
              ReaderCloses, Break
<1>3. ASSUME NEW p \in Pushes, PushLookup(p) \/ PushSend(p)
      PROVE  OnlyStoredKnown'
  BY <1>3 DEF PushLookup, PushSend
<1>4. CASE UNCHANGED vars
  BY <1>4 DEF vars
<1> QED
  BY <1>1, <1>2, <1>3, <1>4 DEF Next

\* A writer goroutine exists exactly from the creation of its client on.
LEMMA SinceCreationNext ==
    ASSUME TypeOK, WriterSinceCreation, [Next]_vars
    PROVE  WriterSinceCreation'
<1> USE DEF WriterSinceCreation, Created, TypeOK, regVars, stampVars, pushVars,
            SendMessage, TakeStop, Selecting
<1>1. ASSUME NEW c \in Clients, Register(c) PROVE WriterSinceCreation'
  <2>1. CASE RegLookup(c) \/ RegStore(c)
    BY <2>1 DEF RegLookup, RegStore
  <2>2. CASE RegBye(c)
    BY <2>2 DEF RegBye
  <2>3. CASE RegClose(c)
    BY <2>3 DEF RegClose
  <2>4. CASE RegCreate(c)
    BY <2>4 DEF RegCreate
  <2>5. CASE RegHello(c)
    BY <2>5 DEF RegHello
  <2> QED
    BY <1>1, <2>1, <2>2, <2>3, <2>4, <2>5 DEF Register
<1>2. ASSUME NEW c \in Clients,
             \/ WriterWrites(c) \/ WriterFails(c) \/ WriterCleanup(c)
             \/ ReaderFails(c) \/ ReaderCloses(c) \/ Break(c)
      PROVE  WriterSinceCreation'
  BY <1>2 DEF WriterWrites, WriterFails, WriterCleanup, ReaderFails,
              ReaderCloses, Break
<1>3. ASSUME NEW p \in Pushes, PushLookup(p) \/ PushSend(p)
      PROVE  WriterSinceCreation'
  BY <1>3 DEF PushLookup, PushSend
<1>4. CASE UNCHANGED vars
  BY <1>4 DEF vars
<1> QED
  BY <1>1, <1>2, <1>3, <1>4 DEF Next

\* Nobody disturbs a client between its creation and its storing, if its
\* connection does not break in that time.
LEMMA UntouchedNext ==
    ASSUME TypeOK, OnlyStoredKnown, UntouchedUntilStored, [Next]_vars
    PROVE  UntouchedUntilStored'
<1> SUFFICES ASSUME NEW d \in Clients \ early', ~Stored(d)'
             PROVE  (/\ conn[d] = "open" /\ writer[d] \in {"none", "select"}
                     /\ reader[d] \in {"none", "read"})'
  BY DEF UntouchedUntilStored
<1> USE DEF UntouchedUntilStored, OnlyStoredKnown, Stored, TypeOK, regVars,
            stampVars, pushVars, SendMessage, TakeStop, Selecting
<1>1. ASSUME NEW c \in Clients, Register(c)
      PROVE  (/\ conn[d] = "open" /\ writer[d] \in {"none", "select"}
              /\ reader[d] \in {"none", "read"})'
  <2>1. CASE RegLookup(c) \/ RegStore(c)
    BY <2>1 DEF RegLookup, RegStore
  <2>2. CASE RegBye(c)
    BY <2>2, NoneAssumption DEF RegBye
  <2>3. CASE RegClose(c)
    BY <2>3, NoneAssumption DEF RegClose
  <2>4. CASE RegCreate(c)
    BY <2>4 DEF RegCreate
  <2>5. CASE RegHello(c)
    BY <2>5 DEF RegHello
  <2> QED
    BY <1>1, <2>1, <2>2, <2>3, <2>4, <2>5 DEF Register
<1>2. ASSUME NEW c \in Clients,
             \/ WriterWrites(c) \/ WriterFails(c) \/ WriterCleanup(c)
             \/ ReaderFails(c) \/ ReaderCloses(c) \/ Break(c)
      PROVE  (/\ conn[d] = "open" /\ writer[d] \in {"none", "select"}
              /\ reader[d] \in {"none", "read"})'
  BY <1>2 DEF WriterWrites, WriterFails, WriterCleanup, ReaderFails,
              ReaderCloses, Break
<1>3. ASSUME NEW p \in Pushes, PushLookup(p) \/ PushSend(p)
      PROVE  (/\ conn[d] = "open" /\ writer[d] \in {"none", "select"}
              /\ reader[d] \in {"none", "read"})'
  BY <1>3, NoneAssumption DEF PushLookup, PushSend
<1>4. CASE UNCHANGED vars
  BY <1>4 DEF vars
<1> QED
  BY <1>1, <1>2, <1>3, <1>4 DEF Next

RegistryInv ==
    /\ TypeOK /\ OnlyStoredKnown /\ WriterSinceCreation
    /\ UntouchedUntilStored

\* The registry's bookkeeping holds in every reachable state.
THEOREM RegistryCorrect == Spec => []RegistryInv
<1>1. Init => RegistryInv
  BY TypeInit DEF Init, RegistryInv, OnlyStoredKnown, WriterSinceCreation,
     UntouchedUntilStored, Created, Stored
<1>2. RegistryInv /\ [Next]_vars => RegistryInv'
  BY TypeNext, KnownNext, SinceCreationNext, UntouchedNext DEF RegistryInv
<1> QED
  BY <1>1, <1>2, PTL DEF Spec

\* The deferred function of a writer deletes no entry but that of a client
\* with its own timestamp, and nothing else deletes an entry.
THEOREM CleanupDeletesOwn == Spec => OnlyOwnEntryDeleted
<1>1. ASSUME RegistryInv, [Next]_vars
      PROVE  \A c \in Clients :
               clientMap = c /\ clientMap' = None =>
                 \E d \in Clients : /\ writer[d] # "returned" /\ writer'[d] = "returned"
                                    /\ d = c \/ timestamp[d] = timestamp[c]
  <2> SUFFICES ASSUME NEW c \in Clients, clientMap = c, clientMap' = None
               PROVE  \E d \in Clients :
                        /\ writer[d] # "returned" /\ writer'[d] = "returned"
                        /\ d = c \/ timestamp[d] = timestamp[c]
    OBVIOUS
  <2>1. PICK d \in Clients : WriterCleanup(d)
    BY <1>1, NoneAssumption DEF Next, Register, RegLookup, RegBye, RegClose, RegCreate,
       RegStore, RegHello, WriterWrites, WriterFails, ReaderFails, ReaderCloses,
       Break, PushLookup, PushSend, vars
  <2>2. timestamp[d] = timestamp[c]
    BY <2>1, NoneAssumption DEF WriterCleanup
  <2>3. writer[d] # "returned" /\ writer'[d] = "returned"
    BY <1>1, <2>1 DEF WriterCleanup, RegistryInv, TypeOK
  <2> QED
    BY <2>2, <2>3
<1> QED
  BY <1>1, RegistryCorrect, PTL DEF Spec, OnlyOwnEntryDeleted

\* An entry whose writer has returned never stays in clientMap, unless the
\* client's connection broke before RegisterClient had stored it.
THEOREM EntryAlwaysHasWriter == Spec => []EntryHasWriter
<1>1. Init => EntryHasWriter
  BY DEF Init, EntryHasWriter
<1>2. ASSUME RegistryInv, EntryHasWriter, [Next]_vars
      PROVE  EntryHasWriter'
  <2> USE <1>2, NoneAssumption DEF RegistryInv, EntryHasWriter, TypeOK, regVars,
          stampVars, pushVars, SendMessage, TakeStop, Selecting
  <2>1. ASSUME NEW c \in Clients, RegStore(c) PROVE EntryHasWriter'
    BY <2>1 DEF RegStore, UntouchedUntilStored, Stored
  <2>2. ASSUME NEW c \in Clients, Register(c), ~RegStore(c) PROVE EntryHasWriter'
    BY <2>2 DEF Register, RegLookup, RegBye, RegClose, RegCreate, RegHello
  <2>3. ASSUME NEW c \in Clients, WriterCleanup(c) PROVE EntryHasWriter'
    BY <2>3 DEF WriterCleanup
  <2>4. ASSUME NEW c \in Clients,
               \/ WriterWrites(c) \/ WriterFails(c)
               \/ ReaderFails(c) \/ ReaderCloses(c) \/ Break(c)
        PROVE  EntryHasWriter'
    BY <2>4 DEF WriterWrites, WriterFails, ReaderFails, ReaderCloses, Break
  <2>5. ASSUME NEW p \in Pushes, PushLookup(p) \/ PushSend(p)
        PROVE  EntryHasWriter'
    BY <2>5 DEF PushLookup, PushSend
  <2>6. CASE UNCHANGED vars
    BY <2>6 DEF vars
  <2> QED
    BY <2>1, <2>2, <2>3, <2>4, <2>5, <2>6 DEF Next
<1> QED
  BY <1>1, <1>2, RegistryCorrect, PTL DEF Spec

\* A registration goes past the client it displaces only when that client's
\* writer has taken its stop, and a writer that has taken it never comes back.
THEOREM DisplacedAlwaysStopped == Spec => []DisplacedIsStopped
<1>1. Init => DisplacedIsStopped
  BY DEF Init, DisplacedIsStopped
<1>2. ASSUME RegistryInv, DisplacedIsStopped, [Next]_vars
      PROVE  DisplacedIsStopped'
  <2> USE <1>2, NoneAssumption DEF RegistryInv, DisplacedIsStopped, TypeOK,
          regVars, stampVars, pushVars, SendMessage, TakeStop, Selecting
  <2>1. ASSUME NEW c \in Clients, RegLookup(c) PROVE DisplacedIsStopped'
    BY <2>1 DEF RegLookup
  <2>2. ASSUME NEW c \in Clients, RegBye(c) PROVE DisplacedIsStopped'
    BY <2>2 DEF RegBye
  <2>3. ASSUME NEW c \in Clients, RegClose(c) PROVE DisplacedIsStopped'
    BY <2>3 DEF RegClose
  <2>4. ASSUME NEW c \in Clients, RegCreate(c) PROVE DisplacedIsStopped'
    <3>1. \A d \in Clients : oldClient[d] # c
      BY <2>4 DEF RegCreate, OnlyStoredKnown, Stored
    <3> QED
      BY <2>4, <3>1 DEF RegCreate
  <2>5. ASSUME NEW c \in Clients, RegStore(c) \/ RegHello(c)
        PROVE  DisplacedIsStopped'
    BY <2>5 DEF RegStore, RegHello
  <2>6. ASSUME NEW c \in Clients,
               \/ WriterWrites(c) \/ WriterFails(c) \/ WriterCleanup(c)
               \/ ReaderFails(c) \/ ReaderCloses(c) \/ Break(c)
        PROVE  DisplacedIsStopped'
    BY <2>6 DEF WriterWrites, WriterFails, WriterCleanup, ReaderFails,
                ReaderCloses, Break
  <2>7. ASSUME NEW p \in Pushes, PushLookup(p) \/ PushSend(p)
        PROVE  DisplacedIsStopped'
    BY <2>7 DEF PushLookup, PushSend
  <2>8. CASE UNCHANGED vars
    BY <2>8 DEF vars
  <2> QED
    BY <2>1, <2>2, <2>3, <2>4, <2>5, <2>6, <2>7, <2>8 DEF Next, Register
<1> QED
  BY <1>1, <1>2, RegistryCorrect, PTL DEF Spec
============================================================================
