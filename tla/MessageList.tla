---------------------------- MODULE MessageList ----------------------------
(***************************************************************************)
(* The page with the list of messages (web/src/components/                 *)
(* MessagesTable.jsx, web/src/helpers/api.js) and what it knows of the     *)
(* server.  Every request is answered at one moment and the answer is      *)
(* applied at a later one, so answers overtake each other; meanwhile the   *)
(* stream (EventSource) inserts new messages, breaks, and is opened again  *)
(* after a delay; the page is left and entered again.                      *)
(*                                                                         *)
(* A row is its id.  The server stores every message (MessagePersistence-  *)
(* Enabled, or the permission of the user).                                *)
(***************************************************************************)
EXTENDS Naturals, FiniteSets, Functions, SequencesExt

CONSTANTS
    ItemsPerPage,
    Matches,        \* the messages that match the keyword of the searches
    MaxId,          \* bound: messages that are stored
    MaxRequests     \* bound: requests of one visit of the page

ASSUME BoundsAssumption ==
    /\ ItemsPerPage \in Nat \ {0}
    /\ MaxId \in Nat /\ MaxRequests \in Nat \ {0}

VARIABLES
    stored,         \* the ids in the table of the server
    lastId,         \* the last id the server has given out
    events,         \* messages on their way to the stream
    messages,       \* what the list shows
    loadSeq,        \* the number of the latest load
    loading,
    searching,
    activePage,
    requests,       \* sent, and not yet applied
    sent,           \* how many have been sent
    sources,        \* how many event sources are not closed
    retryTimer,     \* a timer that opens the stream again after retryDelay
    closed,         \* the page has been left
    rateLimited     \* Date.now() < rateLimitedUntil

\* History.
VARIABLES
    confirmed,      \* ids whose deletion this page was told of
    revived         \* of those, the ones a search or the stream has shown again

server == <<stored, lastId, events>>
list == <<messages, loadSeq, loading, searching, activePage, requests, sent>>
stream == <<sources, retryTimer, closed>>
history == <<confirmed, revived>>
vars == <<server, list, stream, rateLimited, history>>

NoAnswer == [done |-> FALSE, ok |-> FALSE, rows |-> << >>]
Answer(rows) == [done |-> TRUE, ok |-> TRUE, rows |-> rows]
Failure == [done |-> TRUE, ok |-> FALSE, rows |-> << >>]

\* arg is the page of a load and the id of the others; then is the page to show
\* after a load, or 0.  A reload is the load that ends a deletion.
Request(kind, arg, seq, then) ==
    [n |-> sent + 1, kind |-> kind, arg |-> arg, seq |-> seq, then |-> then, answer |-> NoAnswer]

Ids == 1 .. MaxId
Loads == {"load", "reload"}
Kinds == Loads \cup {"search", "view", "delete"}

Requests ==
    [n : Nat, kind : Kinds, arg : Nat, seq : Nat, then : Nat,
     answer : [done : BOOLEAN, ok : BOOLEAN, rows : Seq(Ids)]]

TypeOK ==
    /\ lastId \in 0 .. MaxId /\ stored \subseteq 1 .. lastId /\ events \subseteq 1 .. lastId
    /\ messages \in Seq(Ids)
    /\ sent \in 0 .. MaxRequests /\ loadSeq \in 0 .. sent
    /\ loading \in BOOLEAN /\ searching \in BOOLEAN /\ rateLimited \in BOOLEAN
    /\ activePage \in Nat \ {0}
    /\ requests \subseteq Requests
    /\ sources \in Nat /\ retryTimer \in BOOLEAN /\ closed \in BOOLEAN
    /\ confirmed \subseteq 1 .. lastId /\ revived \subseteq confirmed

----------------------------------------------------------------------------
(* The server. *)

\* A message is pushed: stored, and handed to the stream of its user.
PushMessage ==
    /\ lastId < MaxId
    /\ lastId' = lastId + 1
    /\ stored' = stored \cup {lastId'}
    /\ events' = events \cup {lastId'}
    /\ UNCHANGED <<list, stream, rateLimited, history>>

\* No stream of the user is known to the server when the message comes.
LoseEvent ==
    /\ \E id \in events : events' = events \ {id}
    /\ UNCHANGED <<stored, lastId, list, stream, rateLimited, history>>

\* The members of a finite set of numbers: behind each stand the greater ones.
Ascending(S) ==
    [i \in 1 .. Cardinality(S) |-> CHOOSE x \in S : Cardinality({y \in S : y < x}) = i - 1]

NewestFirst(ids) == Reverse(Ascending(ids))

\* The rows of s that are not in ids, in their order.
Without(s, ids) ==
    LET kept == Ascending({i \in DOMAIN s : s[i] \notin ids})
    IN  [i \in DOMAIN kept |-> s[kept[i]]]

PageOf(ids, page) ==
    SubSeq(NewestFirst(ids), page * ItemsPerPage + 1,
           IF (page + 1) * ItemsPerPage < Cardinality(ids) THEN (page + 1) * ItemsPerPage ELSE Cardinality(ids))

Answered(q, answer) == requests' = (requests \ {q}) \cup {[q EXCEPT !.answer = answer]}

\* The server answers; a search finds the messages that match.
Serve(q) ==
    /\ ~q.answer.done
    /\ \/ q.kind \in Loads /\ Answered(q, Answer(PageOf(stored, q.arg))) /\ UNCHANGED stored
       \/ q.kind = "search" /\ Answered(q, Answer(NewestFirst(stored \cap Matches))) /\ UNCHANGED stored
       \/ q.kind \in {"view", "delete"} /\ q.arg \notin stored
             /\ Answered(q, Failure) /\ UNCHANGED stored
       \/ q.kind = "view" /\ q.arg \in stored
             /\ Answered(q, Answer(<<q.arg>>)) /\ UNCHANGED stored
       \/ q.kind = "delete" /\ q.arg \in stored
             /\ Answered(q, Answer(<<q.arg>>)) /\ stored' = stored \ {q.arg}
    /\ UNCHANGED <<lastId, events, messages, loadSeq, loading, searching, activePage, sent,
                   stream, rateLimited, history>>

\* The request, or its answer, is lost, or it is refused as one too many: the
\* interceptor of api.js makes an answer of every failure, and starts the
\* cool-down after a 429.
FailRequest(q) ==
    /\ ~q.answer.done
    /\ Answered(q, Failure)
    /\ rateLimited' \in {rateLimited, TRUE}
    /\ stored' \in {stored, IF q.kind = "delete" THEN stored \ {q.arg} ELSE stored}
    /\ UNCHANGED <<lastId, events, messages, loadSeq, loading, searching, activePage, sent,
                   stream, history>>

EndCoolDown ==
    /\ rateLimited
    /\ rateLimited' = FALSE
    /\ UNCHANGED <<server, list, stream, history>>

----------------------------------------------------------------------------
(* The list. *)

\* loadMessages up to its await.
LoadMessages(kind, page, then, others) ==
    /\ sent < MaxRequests
    /\ loadSeq' = loadSeq + 1
    /\ loading' = TRUE
    /\ sent' = sent + 1
    /\ requests' = others \cup {Request(kind, page, loadSeq + 1, then)}

Send(kind, id) ==
    /\ ~closed /\ sent < MaxRequests
    /\ sent' = sent + 1
    /\ requests' = requests \cup {Request(kind, id, 0, 0)}

CeilDiv(a, b) == (a + b - 1) \div b
TotalPages ==
    CeilDiv(Len(messages), ItemsPerPage) + IF Len(messages) % ItemsPerPage = 0 THEN 1 ELSE 0

OnPaginationChange(page) ==
    /\ ~closed
    /\ page \in 1 .. TotalPages
    /\ \/ /\ page = CeilDiv(Len(messages), ItemsPerPage) + 1
          /\ LoadMessages("load", page - 1, page, requests)
          /\ UNCHANGED activePage
       \/ /\ page # CeilDiv(Len(messages), ItemsPerPage) + 1
          /\ activePage' = page
          /\ UNCHANGED <<loadSeq, loading, requests, sent>>
    /\ UNCHANGED <<server, messages, searching, stream, rateLimited, history>>

\* The button for it does not react while it shows loading.
Refresh ==
    /\ ~closed /\ ~loading
    /\ LoadMessages("load", 0, 1, requests)
    /\ UNCHANGED <<server, messages, searching, activePage, stream, rateLimited, history>>

\* viewMessage, resendMessage and deleteMessage up to their await; the first two
\* differ only in what they ask of the server.
ManageMessage(kind, id) ==
    /\ id \in ToSet(messages)
    /\ Send(kind, id)
    /\ loading' = TRUE
    /\ UNCHANGED <<server, messages, loadSeq, searching, activePage, stream, rateLimited, history>>

\* Mutant: a search makes the loads before it out of date.
SearchSendsBumpsSeq == Send("search", 0) /\ searching' = TRUE /\ loadSeq' = loadSeq + 1 /\ UNCHANGED loading

SearchSends == Send("search", 0) /\ searching' = TRUE /\ UNCHANGED <<loadSeq, loading>>

\* searchMessages up to its await; without a keyword it loads.
SearchMessages ==
    /\ ~closed
    /\ \/ SearchSends
       \/ LoadMessages("load", 0, 1, requests) /\ UNCHANGED searching
    /\ UNCHANGED <<server, messages, activePage, stream, rateLimited, history>>

Rearranged(s) ==
    {[i \in DOMAIN s |-> s[p[i]]] : p \in Bijection(DOMAIN s, DOMAIN s)}

\* sortMessage(key): the order depends on the column, and is turned round when
\* the first row stays the first.
SortMessage ==
    /\ ~closed /\ messages # << >>
    /\ \E sorted \in Rearranged(messages) :
          messages' = IF Head(sorted) = Head(messages) THEN Reverse(sorted) ELSE sorted
    /\ loading' = FALSE
    /\ UNCHANGED <<server, loadSeq, searching, activePage, requests, sent, stream, rateLimited, history>>

\* Mutant: the rows are appended as they come.
AppendedAll(rows) == messages \o rows

Appended(rows) == messages \o Without(rows, ToSet(messages))

\* Mutant: every answer is applied.
IsNewestAlways(q) == TRUE

IsNewest(q) == q.seq = loadSeq

\* The rest of loadMessages, and of what has been waiting for it.
LoadAnswered(q) ==
    /\ q.kind \in Loads /\ q.answer.done
    /\ requests' = requests \ {q}
    /\ messages' = CASE ~IsNewest(q) \/ ~q.answer.ok -> messages
                     [] IsNewest(q) /\ q.answer.ok /\ q.arg = 0 -> q.answer.rows
                     [] IsNewest(q) /\ q.answer.ok /\ q.arg # 0 -> Appended(q.answer.rows)
    /\ loading' = (loading /\ ~IsNewest(q) /\ q.kind = "load")
    /\ activePage' = IF q.then = 0 THEN activePage ELSE q.then
    /\ UNCHANGED <<server, loadSeq, searching, sent, stream, rateLimited, history>>

SearchAnswered(q) ==
    /\ q.kind = "search" /\ q.answer.done
    /\ requests' = requests \ {q}
    /\ searching' = FALSE
    /\ IF q.answer.ok
       THEN /\ messages' = q.answer.rows
            /\ activePage' = 1
            /\ revived' = revived \cup (confirmed \cap ToSet(q.answer.rows))
       ELSE UNCHANGED <<messages, activePage, revived>>
    /\ UNCHANGED <<server, loadSeq, loading, sent, stream, rateLimited, confirmed>>

ManageAnswered(q) ==
    /\ q.kind = "view" /\ q.answer.done
    /\ requests' = requests \ {q}
    /\ loading' = FALSE
    /\ UNCHANGED <<server, messages, loadSeq, searching, activePage, sent, stream, rateLimited, history>>

\* The rest of deleteMessage: the row goes and the list is loaded again.
DeleteAnswered(q) ==
    /\ q.kind = "delete" /\ q.answer.done
    /\ \/ /\ q.answer.ok
          /\ messages' = Without(messages, {q.arg})
          /\ LoadMessages("reload", 0, 0, requests \ {q})
          /\ confirmed' = confirmed \cup {q.arg}
       \/ /\ ~q.answer.ok
          /\ requests' = requests \ {q}
          /\ loading' = FALSE
          /\ UNCHANGED <<messages, loadSeq, sent, confirmed>>
    /\ UNCHANGED <<server, searching, activePage, stream, rateLimited, revived>>

----------------------------------------------------------------------------
(* The stream. *)

\* insertNewMessage: in the place of the row with its id, or in front.
OnMessage ==
    /\ sources > 0
    /\ \E id \in events :
          /\ events' = events \ {id}
          /\ messages' = IF id \in ToSet(messages) THEN messages ELSE <<id>> \o messages
          /\ revived' = revived \cup (confirmed \cap {id})
    /\ activePage' = 1
    /\ UNCHANGED <<stored, lastId, loadSeq, loading, searching, requests, sent, stream, rateLimited, confirmed>>

\* Mutant: the broken source is left to itself, and connects again.
CloseSourceNot == UNCHANGED sources

CloseSource == sources' = sources - 1

OnError ==
    /\ sources > 0 /\ ~retryTimer
    /\ CloseSource
    /\ retryTimer' = TRUE
    /\ UNCHANGED <<server, list, closed, rateLimited, history>>

\* The timer is up: connectEventSource.
ConnectEventSource ==
    /\ retryTimer
    /\ retryTimer' = FALSE
    /\ sources' = IF closed THEN sources ELSE sources + 1
    /\ UNCHANGED <<server, list, closed, rateLimited, history>>

----------------------------------------------------------------------------
(* The timer of the list, leaving and entering the page. *)

\* The interval has counted down: it refreshes the list, unless the server has
\* refused a request a while ago or the interval has been switched off.
AutoRefresh ==
    /\ ~closed /\ ~rateLimited
    /\ LoadMessages("load", 0, 1, requests)
    /\ UNCHANGED <<server, messages, searching, activePage, stream, rateLimited, history>>

\* The cleanup of the effects; answers that come later change nothing.
Unmount ==
    /\ ~closed
    /\ closed' = TRUE
    /\ retryTimer' = FALSE
    /\ sources' = IF sources > 0 THEN sources - 1 ELSE 0
    /\ messages' = << >> /\ requests' = {} /\ searching' = FALSE /\ loading' = FALSE /\ activePage' = 1
    /\ UNCHANGED <<server, loadSeq, sent, rateLimited, history>>

\* A new page: its state is fresh, the cool-down is that of the module.
Mount ==
    /\ closed
    /\ closed' = FALSE
    /\ sources' = sources + 1 /\ retryTimer' = FALSE
    /\ messages' = << >> /\ searching' = FALSE /\ activePage' = 1
    /\ loadSeq' = 1 /\ loading' = TRUE /\ sent' = 1
    /\ requests' = {[Request("load", 0, 1, 0) EXCEPT !.n = 1]}
    /\ UNCHANGED <<server, rateLimited, history>>

Init ==
    /\ lastId \in 0 .. MaxId /\ stored = 1 .. lastId
    /\ events = {}
    /\ messages = << >> /\ loadSeq = 0 /\ loading = FALSE /\ searching = FALSE /\ activePage = 1
    /\ requests = {} /\ sent = 0
    /\ sources = 0 /\ retryTimer = FALSE
    /\ closed = TRUE
    /\ rateLimited = FALSE
    /\ confirmed = {} /\ revived = {}

Next ==
    \/ PushMessage \/ LoseEvent \/ EndCoolDown
    \/ \E page \in 1 .. (MaxId + 2) : OnPaginationChange(page)
    \/ \E kind \in {"view", "delete"}, id \in Ids : ManageMessage(kind, id)
    \/ Refresh \/ SearchMessages \/ SortMessage
    \/ \E q \in requests :
           \/ Serve(q) \/ FailRequest(q)
           \/ LoadAnswered(q) \/ SearchAnswered(q) \/ ManageAnswered(q) \/ DeleteAnswered(q)
    \/ OnMessage \/ OnError \/ ConnectEventSource
    \/ AutoRefresh \/ Unmount \/ Mount

Spec == Init /\ [][Next]_vars

----------------------------------------------------------------------------
(* Properties. *)

\* Whatever loads, pages and stream events overlap, no message has two rows
\* (Appended, insertNewMessage).
NoDuplicates == \A i, j \in DOMAIN messages : i # j => messages[i] # messages[j]

\* A row whose deletion was confirmed is never brought back by the answer of a
\* load, however late (loadSeq); a search answer or a stream event may bring it.
DeletedStayAway == confirmed \cap ToSet(messages) \subseteq revived

\* When no request is under way the list does not show that it is loading:
\* a load that is dropped leaves that to a later one.
LoadingEnds == requests = {} => ~loading /\ ~searching

\* Over all breaks, delays, visits and departures the page has at most one
\* event source or timer for one, and none once it has been left.
OneStream ==
    /\ sources + (IF retryTimer THEN 1 ELSE 0) <= 1
    /\ closed => sources = 0 /\ ~retryTimer
=============================================================================
