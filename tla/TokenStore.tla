----------------------------- MODULE TokenStore -----------------------------
(***************************************************************************)
(* The store of WeChat access tokens (channel/token-store.go) beside the   *)
(* channels table (model/channel.go): the handlers that change channels    *)
(* (controller/channel.go) or users (controller/user.go) and afterwards    *)
(* repair the store step by step, and the refresher goroutine of           *)
(* TokenStoreInit. A start of the process is an initial state with any     *)
(* rows in the table.                                                      *)
(*                                                                         *)
(* A row is reduced to the fields the store reads. Key() concatenates the  *)
(* credentials; they are fixed-length strings, so it is taken as injective.*)
(* Each access of the map is one step.                                     *)
(***************************************************************************)
EXTENDS Integers, Sequences, FiniteSets, SequencesExt

CONSTANTS
    Channels,        \* ids of channels
    Users,
    Owner,           \* a function: the user of a channel
    Types,           \* channel types
    Apps, Secrets,   \* values of app_id and secret
    Blank,           \* the empty string
    Malformed,       \* an app_id parseWechatCorpAccountAppId refuses
    Requests,        \* HTTP requests, one handler goroutine each
    Loader,          \* the creator of the items of TokenStoreInit
    NoRow, NoItem,
    MaxFailures,     \* bound: refreshes WeChat does not answer
    Inputs           \* what clients send as a channel

TokenTypes == {"test", "corp_app"}
Row == [type : Types, app : Apps, secret : Secrets \cup {Blank}]

ASSUME OwnerAssumption == Owner \in [Channels -> Users]
ASSUME InputsAssumption == Inputs \subseteq Row
ASSUME ChannelsAssumption == IsFiniteSet(Channels)
ASSUME BoundsAssumption == MaxFailures \in Nat

Items == (Requests \cup {Loader}) \X Channels
ASSUME NoneAssumption == NoRow \notin Row /\ NoItem \notin Items /\ Loader \notin Requests

VARIABLES
    row,         \* the channels table
    enabled,     \* users whose status is enabled
    map,         \* s.Map: the item of a key
    item,        \* the items, shared by pointer between s.Map and tmpMap
    todo,        \* what the handler of a request has still to do
    started,     \* requests whose handler has started
    lpc,         \* where the refresher is
    lrows,       \* the rows it read at start-up
    tmpMap,      \* its copy of s.Map
    unrefreshed, \* the keys of tmpMap it has not refreshed yet
    failures     \* number of refreshes that failed

\* History, read by properties only: the credentials that met a case in which
\* the code does not keep track of who needs their item.
VARIABLE disturbed

handlerVars == <<todo, started>>
refresherVars == <<lpc, lrows, tmpMap, unrefreshed>>
vars == <<row, enabled, map, item, handlerVars, refresherVars, failures, disturbed>>

----------------------------------------------------------------------------
(* Items. *)

\* The key of channel2item(r). The other types have no item.
KeyOf(r) == [type |-> r.type, app |-> r.app, secret |-> r.secret]

\* channel2item(r) # nil.
HasItem(r) ==
    /\ r.type \in TokenTypes
    /\ r.type = "corp_app" => r.app \notin {Blank, Malformed}

Keys == {k \in Row : HasItem(k)}

IsFilled(k) == k.app # Blank /\ k.secret # Blank

RowsWith(k) == {c \in Channels : row[c] # NoRow /\ KeyOf(row[c]) = k}

\* The count of rows with the credentials is greater than one.
IsShared(k) == Cardinality(RowsWith(k)) > 1

\* The steps of a handler: TokenStoreRemoveItem unless the item is shared ...
DropSteps(k) == <<[do |-> "isShared", key |-> k], [do |-> "remove", key |-> k]>>

\* ... and TokenStoreAddItem, which creates the item of channel c.
PutSteps(k, c) ==
    IF IsFilled(k)
    THEN <<[do |-> "refresh", key |-> k, chan |-> c],
           [do |-> "store", key |-> k, chan |-> c]>>
    ELSE <<>>

\* TokenStoreUpdateChannel(new, old): only changed fields count, and a blank
\* field is no change. For corp_app the app_id parsed for the new item is the
\* one of the old channel.
UpdatedKey(new, old) ==
    [type   |-> old.type,
     app    |-> IF old.type = "test" /\ new.app # Blank THEN new.app ELSE old.app,
     secret |-> IF new.secret # Blank THEN new.secret ELSE old.secret]

\* Mutant: the old item is removed last.
UpdateStepsDropLast(new, old, c) ==
    IF HasItem(old)
    THEN PutSteps(UpdatedKey(new, old), c) \o DropSteps(KeyOf(old))
    ELSE <<>>

UpdateSteps(new, old, c) ==
    IF HasItem(old)
    THEN DropSteps(KeyOf(old)) \o PutSteps(UpdatedKey(new, old), c)
    ELSE <<>>

\* The channels of a user that have an item.
UserChannels(u) == {c \in Channels : Owner[c] = u /\ row[c] # NoRow /\ HasItem(row[c])}

\* TokenStoreRemoveUser: two steps for each channel.
RemoveUserSteps(u) ==
    LET chans == SetToSeq(UserChannels(u))
    IN [i \in 1 .. 2 * Len(chans) |-> DropSteps(KeyOf(row[chans[(i + 1) \div 2]]))[2 - (i % 2)]]

\* TokenStoreAddUser: two steps for each channel whose item is filled.
AddUserSteps(u) ==
    LET chans == SetToSeq({c \in UserChannels(u) : IsFilled(KeyOf(row[c]))})
        Put(c) == PutSteps(KeyOf(row[c]), c)
    IN [i \in 1 .. 2 * Len(chans) |-> Put(chans[(i + 1) \div 2])[2 - (i % 2)]]

\* The items after WeChat has given a token for k to item i: for a test account
\* every earlier token of the account is void.
Issued(k, i) ==
    [j \in Items |->
       IF j = i THEN [key |-> k, token |-> "current"]
       ELSE IF k.type = "test" /\ item[j] = [key |-> k, token |-> "current"]
       THEN [key |-> k, token |-> "stale"]
       ELSE item[j]]

\* Refresh of item i, whose token stays as it was when WeChat does not answer.
Refresh(k, i, old) ==
    \/ /\ item' = Issued(k, i)
       /\ UNCHANGED failures
    \/ /\ failures < MaxFailures
       /\ failures' = failures + 1
       /\ item' = [item EXCEPT ![i] = [key |-> k, token |-> old]]

----------------------------------------------------------------------------

NoKey == [type |-> "none", app |-> Blank, secret |-> Blank]

Init ==
    /\ row \in [Channels -> Inputs \cup {NoRow}]
    /\ enabled = Users
    /\ map = [k \in Keys |-> NoItem]
    /\ item = [i \in Items |-> [key |-> NoKey, token |-> "none"]]
    /\ todo = [h \in Requests |-> <<>>]
    /\ started = {}
    /\ lpc = "read"
    /\ lrows = [c \in Channels |-> NoRow]
    /\ tmpMap = [k \in Keys |-> NoItem]
    /\ unrefreshed = {}
    /\ failures = 0
    /\ disturbed = {}

----------------------------------------------------------------------------
(* History: the cases in which an item that is needed may get lost.           *)

\* What a handler has still to do with the item of k: it may remove it ...
Drops(t, k) ==
    \E i \in 1 .. Len(t) :
      \/ t[i].do \in {"isShared", "remove"} /\ t[i].key = k
      \/ t[i].do = "save" /\ KeyOf(t[i].old) = k

\* ... or do anything that depends on it, or makes it needed.
Concerns(t, k) ==
    \/ Drops(t, k)
    \/ \E i \in 1 .. Len(t) :
         \/ t[i].do \in {"refresh", "store"} /\ t[i].key = k
         \/ t[i].do = "save" /\ k \in {KeyOf(t[i].new), UpdatedKey(t[i].new, t[i].old)}
         \/ t[i].do = "enable" /\ \E c \in RowsWith(k) : Owner[c] = t[i].user

\* Two requests at a time: one may remove an item while another one is at it.
Crossed(steps) ==
    {k \in Keys : \E g \in Requests :
       \/ Drops(steps, k) /\ Concerns(todo[g], k)
       \/ Concerns(steps, k) /\ Drops(todo[g], k)}

\* Another channel has the credentials that channel c gives up: after the row
\* is gone IsShared counts one channel too few.
GivenUp(k, c) == RowsWith(k) \ {c} # {}

\* Changes TokenStoreUpdateChannel does not follow: of the type, and of the
\* app_id of a corp_app channel.
NotFollowed(new, old) ==
    new.type # old.type \/ (old.type = "corp_app" /\ new.app # old.app)

\* A save over the change of another request takes channel c from one key to
\* another that its handler knows nothing of.
SavedOver(s) == row[s.chan] \notin {NoRow, s.old}

SaveDisturbs(s) ==
    {k \in Keys :
       \/ k = KeyOf(s.old) /\ GivenUp(k, s.chan)
       \/ k = KeyOf(s.new) /\ NotFollowed(s.new, s.old)
       \/ SavedOver(s) /\ k \in {KeyOf(row[s.chan]), KeyOf(s.new)}}

----------------------------------------------------------------------------
(* The handlers. The row is changed first, the store afterwards. UserAuth     *)
(* takes the status of the user from the session, so the requests of a user  *)
(* go on after an administrator has disabled it.                             *)

Active == {h \in Requests : todo[h] # <<>>}

Start(h, steps, lost) ==
    /\ h \notin started
    /\ started' = started \cup {h}
    /\ todo' = [todo EXCEPT ![h] = steps]
    /\ disturbed' = disturbed \cup Crossed(steps) \cup lost

AddChannel(h) ==
    \E c \in Channels, r \in Inputs :
      /\ row[c] = NoRow
      /\ row' = [row EXCEPT ![c] = r]
      /\ Start(h, IF HasItem(r) THEN PutSteps(KeyOf(r), c) ELSE <<>>, {})
      /\ UNCHANGED <<enabled, map, item, refresherVars, failures>>

DeleteChannel(h) ==
    \E c \in Channels :
      /\ row[c] # NoRow
      /\ row' = [row EXCEPT ![c] = NoRow]
      /\ Start(h, IF HasItem(row[c]) THEN DropSteps(KeyOf(row[c])) ELSE <<>>,
               {k \in Keys : k = KeyOf(row[c]) /\ GivenUp(k, c)})
      /\ UNCHANGED <<enabled, map, item, refresherVars, failures>>

\* UpdateChannel reads the old row; a blank secret keeps the old one.
UpdateChannel(h) ==
    \E c \in Channels, input \in Inputs :
      /\ row[c] # NoRow
      /\ LET old == row[c]
             new == [input EXCEPT !.secret = IF @ = Blank THEN old.secret ELSE @]
         IN Start(h, <<[do |-> "save", chan |-> c, old |-> old, new |-> new]>>, {})
      /\ UNCHANGED <<row, enabled, map, item, refresherVars, failures>>

\* status_only: the row is written back as it was read.
UpdateChannelStatus(h) ==
    \E c \in Channels :
      /\ row[c] # NoRow
      /\ Start(h, <<[do |-> "save", chan |-> c, old |-> row[c], new |-> row[c]]>>, {})
      /\ UNCHANGED <<row, enabled, map, item, refresherVars, failures>>

\* ManageUser, DeleteUser and DeleteSelf: a deleted user is a disabled one
\* that nobody enables again; the rows of its channels stay.
DisableUser(h) ==
    \E u \in enabled :
      /\ Start(h, RemoveUserSteps(u) \o <<[do |-> "disable", user |-> u]>>, {})
      /\ UNCHANGED <<row, enabled, map, item, refresherVars, failures>>

EnableUser(h) ==
    \E u \in Users \ enabled :
      /\ Start(h, AddUserSteps(u) \o <<[do |-> "enable", user |-> u]>>, {})
      /\ UNCHANGED <<row, enabled, map, item, refresherVars, failures>>

\* The next step of the handler of h, and what follows it.
Step(h, what) == todo[h] # <<>> /\ Head(todo[h]).do = what
Then(h, steps) == todo' = [todo EXCEPT ![h] = steps]

\* cleanChannel.Update(): the columns of the row, if it is still there.
SaveChannel(h) ==
    /\ Step(h, "save")
    /\ LET s == Head(todo[h])
       IN /\ row' = IF row[s.chan] = NoRow THEN row ELSE [row EXCEPT ![s.chan] = s.new]
          /\ Then(h, UpdateSteps(s.new, s.old, s.chan))
          /\ disturbed' = disturbed \cup SaveDisturbs(s)
    /\ UNCHANGED <<enabled, map, item, started, refresherVars, failures>>

\* A shared item stays: its removal is skipped.
QueryShared(h) ==
    /\ Step(h, "isShared")
    /\ Then(h, IF IsShared(Head(todo[h]).key) THEN Tail(Tail(todo[h])) ELSE Tail(todo[h]))
    /\ UNCHANGED <<row, enabled, map, item, started, refresherVars, failures, disturbed>>

TokenStoreRemoveItem(h) ==
    /\ Step(h, "remove")
    /\ map' = [map EXCEPT ![Head(todo[h]).key] = NoItem]
    /\ Then(h, Tail(todo[h]))
    /\ UNCHANGED <<row, enabled, item, started, refresherVars, failures, disturbed>>

\* Mutant: the new item is not refreshed.
RefreshLater(h) ==
    /\ Step(h, "refresh")
    /\ item' = [item EXCEPT ![<<h, Head(todo[h]).chan>>] = [key |-> Head(todo[h]).key, token |-> "none"]]
    /\ Then(h, Tail(todo[h]))
    /\ UNCHANGED <<row, enabled, map, started, refresherVars, failures, disturbed>>

\* item.Refresh() on the new item of TokenStoreAddItem, whose token is blank.
RefreshItem(h) ==
    /\ Step(h, "refresh")
    /\ Refresh(Head(todo[h]).key, <<h, Head(todo[h]).chan>>, "none")
    /\ Then(h, Tail(todo[h]))
    /\ UNCHANGED <<row, enabled, map, started, refresherVars, disturbed>>

StoreItem(h) ==
    /\ Step(h, "store")
    /\ map' = [map EXCEPT ![Head(todo[h]).key] = <<h, Head(todo[h]).chan>>]
    /\ Then(h, Tail(todo[h]))
    /\ UNCHANGED <<row, enabled, item, started, refresherVars, failures, disturbed>>

\* The last step of ManageUser: the status of the user.
SaveUser(h) ==
    /\ \/ Step(h, "disable") /\ enabled' = enabled \ {Head(todo[h]).user}
       \/ Step(h, "enable") /\ enabled' = enabled \cup {Head(todo[h]).user}
    /\ Then(h, Tail(todo[h]))
    /\ UNCHANGED <<row, map, item, started, refresherVars, failures, disturbed>>

----------------------------------------------------------------------------
(* The refresher goroutine of TokenStoreInit. *)

\* GetTokenStoreChannels.
LoadRows ==
    /\ lpc = "read"
    /\ lrows' = [c \in Channels |->
                   IF row[c] # NoRow /\ HasItem(row[c]) THEN row[c] ELSE NoRow]
    /\ lpc' = "load"
    /\ UNCHANGED <<row, enabled, map, item, handlerVars, tmpMap, unrefreshed, failures, disturbed>>

\* The items of the rows go into the map, whatever it holds by now, and blank;
\* of the rows with the same key the last one counts.
LoadItems ==
    /\ lpc = "load"
    /\ LET loaded(k) == {c \in Channels : lrows[c] # NoRow /\ KeyOf(lrows[c]) = k}
           keys == {k \in Keys : loaded(k) # {}}
       IN /\ \E last \in [keys -> Channels] :
               /\ \A k \in keys : last[k] \in loaded(k)
               /\ map' = [k \in Keys |-> IF k \in keys THEN <<Loader, last[k]>> ELSE map[k]]
          /\ item' = [i \in Items |->
                        IF i[1] = Loader /\ lrows[i[2]] # NoRow
                        THEN [key |-> KeyOf(lrows[i[2]]), token |-> "none"]
                        ELSE item[i]]
    /\ lrows' = [c \in Channels |-> NoRow]
    /\ lpc' = "copy"
    /\ UNCHANGED <<row, enabled, handlerVars, tmpMap, unrefreshed, failures, disturbed>>

\* tmpMap is made a copy of s.Map, at the start and after each sleep.
CopyMap ==
    /\ lpc \in {"copy", "sleep"}
    /\ tmpMap' = map
    /\ unrefreshed' = {k \in Keys : map[k] # NoItem}
    /\ lpc' = "refresh"
    /\ UNCHANGED <<row, enabled, map, item, handlerVars, lrows, failures, disturbed>>

\* Refresh of the items of tmpMap, one after the other, without the lock.
RefreshNext ==
    /\ lpc = "refresh"
    /\ \E k \in unrefreshed :
         /\ Refresh(k, tmpMap[k], item[tmpMap[k]].token)
         /\ unrefreshed' = unrefreshed \ {k}
    /\ UNCHANGED <<row, enabled, map, handlerVars, lpc, lrows, tmpMap, disturbed>>

\* The round is over: the refresher sleeps for ExpirationSeconds.
EndRound ==
    /\ lpc = "refresh" /\ unrefreshed = {}
    /\ tmpMap' = [k \in Keys |-> NoItem]
    /\ lpc' = "sleep"
    /\ UNCHANGED <<row, enabled, item, handlerVars, lrows, unrefreshed, failures, disturbed>>

\* The items of tmpMap go back into the map, under the keys that are still there.
MergeMap ==
    /\ EndRound
    /\ map' = [k \in Keys |->
                 IF map[k] # NoItem /\ tmpMap[k] # NoItem THEN tmpMap[k] ELSE map[k]]

----------------------------------------------------------------------------

Handler(h) ==
    \/ AddChannel(h) \/ DeleteChannel(h) \/ UpdateChannel(h) \/ UpdateChannelStatus(h)
    \/ DisableUser(h) \/ EnableUser(h)
    \/ SaveChannel(h) \/ QueryShared(h) \/ TokenStoreRemoveItem(h)
    \/ RefreshItem(h) \/ StoreItem(h) \/ SaveUser(h)

Refresher == LoadRows \/ LoadItems \/ CopyMap \/ RefreshNext \/ MergeMap

Next == Refresher \/ \E h \in Requests : Handler(h)

Spec == Init /\ [][Next]_vars

----------------------------------------------------------------------------
(* Properties. *)

\* What a handler may still have to do.
HandlerStep ==
    [do : {"isShared", "remove"}, key : Keys]
      \cup [do : {"refresh", "store"}, key : Keys, chan : Channels]
      \cup [do : {"save"}, chan : Channels, old : Row, new : Row]
      \cup [do : {"disable", "enable"}, user : Users]

TypeOK ==
    /\ row \in [Channels -> Row \cup {NoRow}]
    /\ enabled \subseteq Users
    /\ map \in [Keys -> Items \cup {NoItem}]
    /\ item \in [Items -> [key : Keys \cup {NoKey}, token : {"none", "current", "stale"}]]
    /\ todo \in [Requests -> Seq(HandlerStep)]
    /\ started \subseteq Requests
    /\ lpc \in {"read", "load", "copy", "refresh", "sleep"}
    /\ lrows \in [Channels -> {r \in Row : HasItem(r)} \cup {NoRow}]
    /\ tmpMap \in [Keys -> Items \cup {NoItem}]
    /\ unrefreshed \subseteq {k \in Keys : tmpMap[k] # NoItem}
    /\ failures \in 0..MaxFailures
    /\ disturbed \subseteq Keys

\* A push through some channel of an enabled user asks for the token of k.
Needed(k) ==
    IsFilled(k) /\ \E c \in RowsWith(k) : Owner[c] \in enabled /\ HasItem(row[c])

\* No handler is at work and the start-up is over.
Settled == Active = {} /\ lpc \notin {"read", "load"}

\* Once the handlers are done, the store has an item for the credentials of
\* every channel of an enabled user, so TokenStoreGetToken finds one: channels
\* and users come and go, requests overlap, but no removal hits an item that is
\* still needed, unless the code has lost track of the credentials: a channel
\* that shared them gave them up, an update it does not follow brought them, or
\* a request was about to remove their item while another one was at it.
NeededPresent ==
    Settled => \A k \in Keys \ disturbed : Needed(k) => map[k] # NoItem

\* When the refresher has ended a round and every refresh was answered, no
\* item of the store is blank, whatever the start-up load and the write-back of
\* tmpMap have overwritten and whatever the handlers are about to do.
NotBlankAfterRound ==
    lpc = "sleep" /\ failures = 0 =>
      \A k \in Keys : map[k] # NoItem => item[map[k]].token # "none"

============================================================================
