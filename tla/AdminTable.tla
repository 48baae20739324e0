----------------------------- MODULE AdminTable -----------------------------
(***************************************************************************)
(* The tables of channels, webhooks and users (web/src/components/         *)
(* ChannelsTable.jsx, WebhooksTable.jsx, UsersTable.jsx).  The page keeps  *)
(* an array of row objects.  A handler uses, after its await, the array of *)
(* the render in which it was started: it marks a row object in place and  *)
(* makes a copy of that array the current one, whatever has become current *)
(* meanwhile; a further page is pushed onto that array itself.  So arrays  *)
(* and row objects have identities here.                                   *)
(***************************************************************************)
EXTENDS Naturals, FiniteSets, SequencesExt

CONSTANTS
    ItemsPerPage,
    Matches,        \* the ids that match the keyword of the searches
    MaxId,          \* bound: ids the database gives
    MaxCalls        \* bound: requests of one visit of the page

VARIABLES
    rows,           \* the table of the server: id -> a record with a status
    lastId,         \* the last id it has given
    arrays,         \* the arrays of row objects that have been current
    current,        \* which of them is
    deleted,        \* the row objects marked as deleted
    shown,          \* the status each row object has
    calls,          \* requests, and the answers that are not applied yet
    called,         \* how many there have been
    mounted,
    byObject        \* the table of users: a handler has got the row object itself

\* History.
VARIABLES
    gone,           \* ids whose deletion this page was told of
    mixed,          \* two lists were fetched at a time, or a whole new one beside a
                    \* request that manages a row, or a page beside a request that
                    \* has more rows than the table
    twice,          \* ids an array of the page got a second object of
    unsure          \* ids managed by two requests at a time, or by one that was
                    \* served and answered as failed, since the last whole list

NoRow == << >>

Enabled == 1
Disabled == 2

Absent ==
    /\ arrays = << << >> >> /\ current = 1 /\ deleted = {} /\ shown = << >>
    /\ calls = {} /\ called = 0 /\ mounted = FALSE
    /\ gone = {} /\ mixed = FALSE /\ twice = {} /\ unsure = {}

\* A request keeps the array of the render it was made in, and the row it is for.
Call(kind, arg, row) ==
    [n |-> called + 1, kind |-> kind, arg |-> arg, row |-> row, array |-> current, done |-> FALSE, ok |-> FALSE, data |-> << >>]

Fetches == {"load", "search"}
Manages == {"delete", "enable", "disable"}
Kinds(ks) == {q \in calls : q.kind \in ks}

\* Those that replace the array, not those that add to it.
Replaces(q) == q.kind = "search" \/ (q.kind = "load" /\ q.arg = 0)

----------------------------------------------------------------------------
(* The user. *)

Send(kind, arg, row) ==
    /\ mounted /\ called < MaxCalls
    /\ called' = called + 1
    /\ calls' = calls \cup {Call(kind, arg, row)}
    /\ UNCHANGED <<rows, lastId, arrays, current, deleted, shown, mounted, gone, twice>>

CeilDiv(a, b) == (a + b - 1) \div b

\* loadChannels(page - 1) from onPaginationChange, when the page is not here yet.
LoadMore ==
    /\ LET length == Len(arrays[current])
       IN  length > 0 /\ length % ItemsPerPage = 0 /\ Send("load", CeilDiv(length, ItemsPerPage), NoRow)
    /\ mixed' = (\/ mixed \/ Kinds(Fetches) # {}
                 \/ \E q \in calls : ~(ToSet(arrays[q.array]) \subseteq ToSet(arrays[current])))
    /\ UNCHANGED unsure

\* searchChannels: a search, or with an empty keyword a load.
SearchChannels ==
    /\ Send("search", 0, NoRow) \/ Send("load", 0, NoRow)
    /\ mixed' = (mixed \/ calls # {})
    /\ UNCHANGED unsure

Visible == {o \in ToSet(arrays[current]) : o \notin deleted}

\* The switch and the button of a row.  What else an administrator can do to a
\* user is like the switch.
Offered(o) == {"delete", IF shown[o] = Enabled THEN "disable" ELSE "enable"}

\* manageChannel, manageWebhook, manageUser of a row that is shown.
ManageChannel(o, action) ==
    /\ o \in Visible
    /\ action \in Offered(o)
    /\ Send(action, o.id, o)
    /\ mixed' = (mixed \/ \E q \in calls : Replaces(q))
    /\ unsure' = unsure \cup {q.arg : q \in {p \in Kinds(Manages) : p.arg = o.id}}

\* The members of a set, those with fewer before them first.
Ranked(members, Before(_, _)) ==
    [i \in 1 .. Cardinality(members) |->
        CHOOSE x \in members : Cardinality({y \in members : Before(y, x)}) = i - 1]

SortedById(a) ==
    LET Before(j, i) == a[j].id < a[i].id \/ (a[j].id = a[i].id /\ j < i)
        order == Ranked(DOMAIN a, Before)
    IN  [i \in DOMAIN a |-> a[order[i]]]

SortChannel ==
    /\ mounted /\ arrays[current] # << >> /\ Len(arrays) <= MaxCalls
    /\ LET a == arrays[current]
           sorted == SortedById(a)
       IN  arrays' = Append(arrays, IF sorted[1].id = a[1].id THEN Reverse(sorted) ELSE sorted)
    /\ current' = Len(arrays')
    /\ UNCHANGED <<rows, lastId, deleted, shown, calls, called, mounted, gone, mixed, twice, unsure>>

----------------------------------------------------------------------------
(* The server. *)

NewestFirst(ids) == Ranked(ids, >)

PageOf(ids, p) ==
    SubSeq(NewestFirst(ids), p * ItemsPerPage + 1,
           IF (p + 1) * ItemsPerPage < Cardinality(ids) THEN (p + 1) * ItemsPerPage ELSE Cardinality(ids))

RowsOf(ids) == [i \in DOMAIN ids |-> [id |-> ids[i], status |-> rows[ids[i]].status]]

Without(id) == [i \in DOMAIN rows \ {id} |-> rows[i]]

Answer(q, ok, data) == calls' = (calls \ {q}) \cup {[q EXCEPT !.done = TRUE, !.ok = ok, !.data = data]}

\* What a request that manages a row does to it.
Change(q) ==
    /\ q.kind \in Manages /\ q.arg \in DOMAIN rows
    /\ rows' = CASE q.kind = "delete" -> Without(q.arg)
                 [] q.kind = "enable" -> [rows EXCEPT ![q.arg].status = Enabled]
                 [] q.kind = "disable" -> [rows EXCEPT ![q.arg].status = Disabled]

\* The row that is answered.
Changed(q) == IF q.kind = "delete" THEN << >> ELSE <<[id |-> q.arg, status |-> rows'[q.arg].status]>>

Serve(q) ==
    /\ ~q.done
    /\ \/ q.kind = "load" /\ Answer(q, TRUE, RowsOf(PageOf(DOMAIN rows, q.arg))) /\ UNCHANGED rows
       \/ /\ q.kind = "search" /\ UNCHANGED rows       \* the query of a search has no order
          /\ \E found \in SetToSeqs(DOMAIN rows \cap Matches) : Answer(q, TRUE, RowsOf(found))
       \/ q.kind \in Manages /\ q.arg \notin DOMAIN rows /\ Answer(q, FALSE, << >>) /\ UNCHANGED rows
       \/ Change(q) /\ Answer(q, TRUE, Changed(q))
    /\ UNCHANGED <<lastId, arrays, current, deleted, shown, called, mounted, gone, mixed, twice, unsure>>

\* The request is lost or refused, or it only reads and its answer is lost.
Refuse(q) ==
    /\ ~q.done
    /\ Answer(q, FALSE, << >>)
    /\ UNCHANGED <<rows, lastId, arrays, current, deleted, shown, called, mounted, gone, mixed, twice, unsure>>

\* The request is served and its answer lost, which API makes a failure too.
Lose(q) ==
    /\ ~q.done
    /\ Change(q)
    /\ Answer(q, FALSE, << >>)
    /\ unsure' = unsure \cup {q.arg}
    /\ UNCHANGED <<lastId, arrays, current, deleted, shown, called, mounted, gone, mixed, twice>>

\* A user registers, or a channel or a webhook is added from another tab.
AddRow ==
    /\ lastId < MaxId
    /\ lastId' = lastId + 1
    /\ rows' = [i \in DOMAIN rows \cup {lastId'} |-> IF i \in DOMAIN rows THEN rows[i] ELSE [status |-> Enabled]]
    /\ UNCHANGED <<arrays, current, deleted, shown, calls, called, mounted, gone, mixed, twice, unsure>>

----------------------------------------------------------------------------
(* The handlers after their await. *)

\* The row objects of an answer are new ones.
Objects(q) == [i \in DOMAIN q.data |-> [from |-> q.n, id |-> q.data[i].id]]

NewShown(q) ==
    [o \in DOMAIN shown \cup ToSet(Objects(q)) |->
        IF o \in DOMAIN shown THEN shown[o] ELSE q.data[CHOOSE i \in DOMAIN q.data : q.data[i].id = o.id].status]

Failed(q) ==
    /\ q.done /\ ~q.ok
    /\ calls' = calls \ {q}
    /\ UNCHANGED <<rows, lastId, arrays, current, deleted, shown, called, mounted, gone, mixed, twice, unsure>>

IdsOf(a) == {o.id : o \in ToSet(a)}

ListAnswered(q) ==
    /\ q.done /\ q.ok /\ q.kind \in Fetches
    /\ calls' = calls \ {q}
    /\ \/ /\ Replaces(q)
          /\ arrays' = Append(arrays, Objects(q))
          /\ current' = Len(arrays')
       \/ /\ ~Replaces(q)
          /\ arrays' = [arrays EXCEPT ![q.array] = @ \o Objects(q)]
          /\ current' = q.array
    /\ shown' = NewShown(q)
    /\ twice' = IF Replaces(q) THEN {} ELSE twice \cup (IdsOf(Objects(q)) \cap IdsOf(arrays[q.array]))
    /\ unsure' = IF Replaces(q) THEN {} ELSE unsure
    /\ UNCHANGED <<rows, lastId, deleted, called, mounted, gone, mixed>>

\* findIndex in the array of the handler
RealIdx(q) == CHOOSE i \in DOMAIN arrays[q.array] :
    /\ arrays[q.array][i].id = q.arg
    /\ \A j \in 1 .. (i - 1) : arrays[q.array][j].id # q.arg

\* Mutant: the row object is replaced by a changed copy.
MarkACopy(q) ==
    LET i == RealIdx(q)
        o == [arrays[q.array][i] EXCEPT !.from = 100 + q.n]
    IN  /\ arrays' = Append(arrays, [arrays[q.array] EXCEPT ![i] = o])
        /\ deleted' = IF q.kind = "delete" THEN deleted \cup {o} ELSE deleted
        /\ shown' = [p \in DOMAIN shown \cup {o} |->
                        IF p = o THEN IF q.kind = "delete" THEN shown[arrays[q.array][i]] ELSE q.data[1].status
                                 ELSE shown[p]]

\* The row object is changed in place, in a copy of the array.
Mark(q) ==
    LET o == IF byObject THEN q.row ELSE arrays[q.array][RealIdx(q)]
    IN  /\ arrays' = Append(arrays, arrays[q.array])
        /\ deleted' = IF q.kind = "delete" THEN deleted \cup {o} ELSE deleted
        /\ shown' = IF q.kind = "delete" THEN shown ELSE [shown EXCEPT ![o] = q.data[1].status]

ManageAnswered(q) ==
    /\ q.done /\ q.ok /\ q.kind \in Manages
    /\ calls' = calls \ {q}
    /\ Mark(q)
    /\ current' = Len(arrays')
    /\ gone' = IF q.kind = "delete" THEN gone \cup {q.arg} ELSE gone
    /\ UNCHANGED <<rows, lastId, called, mounted, mixed, twice, unsure>>

----------------------------------------------------------------------------
(* Coming and going. *)

Mount ==
    /\ ~mounted
    /\ mounted' = TRUE
    /\ calls' = {Call("load", 0, NoRow)}
    /\ called' = 1
    /\ UNCHANGED <<rows, lastId, arrays, current, deleted, shown, gone, mixed, twice, unsure>>

\* Answers that come later change nothing; what the server still does for them
\* is taken to be done before, or not at all.
Unmount ==
    /\ mounted
    /\ mounted' = FALSE
    /\ calls' = {} /\ called' = 0
    /\ arrays' = << << >> >> /\ current' = 1 /\ deleted' = {} /\ shown' = << >>
    /\ gone' = {} /\ mixed' = FALSE /\ twice' = {} /\ unsure' = {}
    /\ UNCHANGED <<rows, lastId>>

Act ==
    \/ LoadMore \/ SearchChannels \/ SortChannel
    \/ \E o \in Visible, action \in Manages : ManageChannel(o, action)
    \/ \E q \in calls : Serve(q) \/ Refuse(q) \/ Lose(q) \/ Failed(q) \/ ListAnswered(q) \/ ManageAnswered(q)
    \/ AddRow

----------------------------------------------------------------------------

\* However many deletions, switches, sorts and further pages overlap and
\* whatever is added on the server meanwhile, as long as no two lists, and no
\* whole new list beside them, are fetched at a time, and no page beside a
\* request that still has more rows (the answer to an older request can take a
\* page away): a row whose deletion was confirmed stays hidden, and a row
\* nothing is under way for shows the server's status.  Excepted are the very
\* rows that the page has two objects of, because a page has shifted (one of
\* them is marked only), and for their status those managed by two requests at
\* a time or by one whose answer was lost, all until the whole list is fetched
\* again.  It rests on the handlers sharing their row objects, each having its
\* own array.
TableTellsTruth ==
    mounted /\ ~mixed =>
        \A o \in Visible : o.id \notin twice =>
            /\ o.id \notin gone
            /\ o.id \in DOMAIN rows /\ o.id \notin unsure /\ (\A q \in Kinds(Manages) : q.arg # o.id)
                  => shown[o] = rows[o.id].status
=============================================================================
