---------------------------- MODULE CloudServing ----------------------------
(***************************************************************************)
(* CloudStore handles (src/lodedb/cloud/serving.py) and the managed        *)
(* service it talks to over an unreliable connection.  The service orders  *)
(* accepted writes in a log, folds them later, one at a time, into the     *)
(* snapshot that reads are served from, and may condemn one.  The handle   *)
(* makes one blocking call at a time; other sessions write meanwhile.      *)
(*                                                                         *)
(* Document ids are naturals in their keyset order; a document's text is   *)
(* the sequence number of the write that put it, 0 when it is absent.      *)
(***************************************************************************)
EXTENDS CloudSession, SequencesExt

CONSTANTS
  Ids,               \* document ids
  Singles,           \* the ids single-document writes are made on
  PageSize,          \* 100 documents of one page of a walk or a by-id fetch
  BrowseLimit,       \* 25, the page a plain browse answers
  ReadYourWrites,    \* the handle's read_your_writes option
  None,              \* an absent limit
  Limits,            \* limit and max_documents arguments
  TransportRetries,  \* _WRITE_TRANSPORT_RETRIES
  ConflictRetries,   \* _WRITE_CONFLICT_RETRIES
  MaxLog,            \* bound: accepted writes
  MaxCalls,          \* bound: calls on the handles
  BorrowedCalls      \* bound: calls on a handle borrowed from a Client

VARIABLES
  log,      \* accepted writes, in sequence order
  folded,   \* how many of them are folded or condemned
  snap,     \* the served snapshot: id -> text
  hidden,   \* documents whose TTL has lapsed
  late,     \* write requests given up on that may still arrive
  last_seq, \* _last_seq, the session's read-your-writes floor
  calls,    \* calls made so far
  call,     \* the call in progress, or the one that just returned
  acked,    \* the highest sequence number this session was acknowledged
  during    \* what each id held at some time of the enumeration in progress

vars == <<session, log, folded, snap, hidden, late, last_seq, calls, call, acked, during>>
service == <<log, folded, snap, hidden>>

(***************************************************************************)
(* The service (external).                                                 *)
(***************************************************************************)
Visible(id) == snap[id] # 0 /\ id \notin hidden

Now == [id \in Ids |-> {<<snap[id], Visible(id)>>}]

Unwatched == [id \in Ids |-> {}]

Registered(key) == \E i \in DOMAIN log : log[i].key = key

AcceptedAs(key) == CHOOSE i \in DOMAIN log : log[i].key = key

\* Which requests the service refuses for want of a snapshot: 404 "no such
\* store" before the first write, "nothing has been pushed" before the first fold.
Unprovisioned == folded = 0

\* 425: the fold has not reached the caller's min_seq.
NotCaughtUp(min_seq) == folded < min_seq

First(n, s) == SubSeq(s, 1, IF Len(s) < n THEN Len(s) ELSE n)

\* A keyset page in id order.
Page(after, size) == First(size, SetToSortSeq({id \in Ids : id > after /\ Visible(id)}, <))

\* A by-id page; a control plane that does not know the field answers a plain page.
PageOf(plane, ids) ==
  IF plane = "old" THEN Page(0, BrowseLimit)
  ELSE SetToSortSeq({id \in ids : Visible(id)}, <)

Write(key, id, op) == [key |-> key, id |-> id, op |-> op, state |-> "registered"]

Apply(op, seq) ==
  [id \in Ids |-> IF id \notin op.ids THEN snap[id] ELSE IF op.put THEN seq ELSE 0]

(***************************************************************************)
(* The handle's calls.                                                     *)
(***************************************************************************)
Idle == [pc |-> "idle"]

Sent == [kind |-> "none", seq |-> 0]
Accept(seq) == [kind |-> "accepted", seq |-> seq]

AtRest == call.pc \in {"idle", "returned"}

CanCall == AtRest /\ calls < MaxCalls /\ session.at = "handle"

Begin(c) ==
  /\ CanCall
  /\ calls' = calls + 1
  /\ call' = c
  /\ during' = IF c.pc \in {"list", "browse_ids"} THEN Now ELSE Unwatched

Return(field, r) == call' = [call EXCEPT !.pc = "returned"] @@ (field :> r)

Raise == call' = Idle

\* The write verbs: what each sends through _written.
add_many(ids) == [put |-> TRUE, ids |-> ids]
add(id) == add_many({id})
add_vectors_many(ids) == [put |-> TRUE, ids |-> ids]
add_vectors(id) == add_vectors_many({id})
add_images(ids) == [put |-> TRUE, ids |-> ids]
add_image(id) == add_images({id})
\* An empty batch raises: there is no accepted write to name.
remove_many(ids) == [put |-> FALSE, ids |-> ids]
remove(id) == remove_many({id})

WriteOps ==
  UNION {{add(id), add_vectors(id), add_image(id), remove(id)} : id \in Singles}
    \cup {add_many(Ids), add_vectors_many(Ids), add_images(Ids), remove_many(Ids)}

IdempotencyKeyPerAttempt(id, attempt) == <<id + MaxCalls * attempt>>
\* One key per call, drawn before the retry loop.
IdempotencyKey(id, attempt) == <<id>>

Attempt(c) == c.transport_failures + c.conflicts
Request(c) == [key |-> IdempotencyKey(c.id, Attempt(c)), id |-> c.id, op |-> c.op]

written(op) ==
  /\ Begin([pc |-> "written", id |-> calls, op |-> op, transport_failures |-> 0,
            conflicts |-> 0, reply |-> Sent])
  /\ UNCHANGED <<service, late, last_seq, acked>>

\* A request whose answer did not come may still arrive.
Abandoned(c) == IF c.reply = Sent THEN {Request(c)} ELSE {}

TransportErrorForever ==
  /\ call.pc = "written"
  /\ late' = late \cup Abandoned(call)
  /\ call' = [call EXCEPT !.reply = Sent]
  /\ UNCHANGED <<service, last_seq, calls, acked, during>>

TransportError ==
  /\ call.pc = "written"
  /\ late' = late \cup Abandoned(call)
  /\ LET failures == call.transport_failures + 1
     IN IF failures > TransportRetries
          THEN Raise
          ELSE call' = [call EXCEPT !.transport_failures = failures, !.reply = Sent]
  /\ UNCHANGED <<service, last_seq, calls, acked, during>>

\* The coded 409 segment_object_missing is retried; every other refusal is raised.
Refused ==
  /\ call.pc = "written"
  /\ \/ /\ call.reply.kind = "segment_object_missing"
        /\ LET conflicts == call.conflicts + 1
           IN IF conflicts > ConflictRetries
                THEN Raise
                ELSE call' = [call EXCEPT !.conflicts = conflicts, !.reply = Sent]
     \/ call.reply.kind = "refused" /\ Raise
  /\ UNCHANGED <<service, late, last_seq, calls, acked, during>>

NoFloor(seq) == last_seq
Floor(seq) == IF seq > last_seq THEN seq ELSE last_seq

accepted ==
  /\ call.pc = "written"
  /\ call.reply.kind = "accepted"
  /\ last_seq' = Floor(call.reply.seq)
  /\ acked' = IF call.reply.seq > acked THEN call.reply.seq ELSE acked
  /\ Return("seq", call.reply.seq)
  /\ UNCHANGED <<service, late, calls, during>>

\* The service answers a request: it replays the acceptance of a key it knows,
\* registers a new one, or refuses it unregistered.
Register(m) ==
  /\ ~Registered(m.key) /\ Len(log) < MaxLog
  /\ log' = Append(log, Write(m.key, m.id, m.op))

Deliver ==
  /\ call.pc = "written" /\ call.reply = Sent
  /\ LET m == Request(call)
         Answer(r) == call' = [call EXCEPT !.reply = r]
     IN \/ Registered(m.key) /\ Answer(Accept(AcceptedAs(m.key))) /\ UNCHANGED log
        \/ Register(m) /\ Answer(Accept(Len(log) + 1))
        \/ /\ ~Registered(m.key)
           /\ \E k \in {"segment_object_missing", "refused"} : Answer([kind |-> k, seq |-> 0])
           /\ UNCHANGED log
  /\ UNCHANGED <<folded, snap, hidden, late, last_seq, calls, acked, during>>

\* An abandoned request arrives after all; nobody reads its answer.
DeliverLate(m) ==
  /\ Register(m)
  /\ late' = late \ {m}
  /\ UNCHANGED <<folded, snap, hidden, last_seq, calls, call, acked, during>>

\* delete_memories carries no key and is not retried.  The service removes what
\* its snapshot holds, or accepts nothing.
delete_memories ==
  /\ CanCall
  /\ calls' = calls + 1
  /\ during' = Unwatched
  /\ LET ids == {id \in Ids : snap[id] # 0}
         w == Write(<<"delete", calls>>, calls, remove_many(ids))
         seq == Len(log) + 1
     IN \/ /\ ids # {} /\ Len(log) < MaxLog
           /\ log' = Append(log, w)
           /\ \/ /\ last_seq' = Floor(seq)
                 /\ acked' = seq
                 /\ call' = [pc |-> "returned"]
              \/ call' = Idle /\ UNCHANGED <<last_seq, acked>>   \* the answer is lost
        \/ /\ ids = {}
           /\ call' = [pc |-> "returned"]
           /\ UNCHANGED <<log, last_seq, acked>>
        \/ call' = Idle /\ UNCHANGED <<log, last_seq, acked>>
  /\ UNCHANGED <<folded, snap, hidden, late>>

(***************************************************************************)
(* The read verbs: whether a verb passes the session floor, whether it is  *)
(* a browse (whose floor an older control plane ignores), and what it      *)
(* answers for a store that holds nothing yet.                             *)
(***************************************************************************)
Verb(floor, browses, empty) == [floor |-> floor, browses |-> browses, empty |-> empty]

search == Verb(TRUE, FALSE, TRUE)
search_many == Verb(TRUE, FALSE, TRUE)
search_by_vector == Verb(TRUE, FALSE, TRUE)
search_many_by_vector == Verb(TRUE, FALSE, TRUE)
search_by_image == Verb(TRUE, FALSE, TRUE)
recall == Verb(TRUE, FALSE, TRUE)
context_block == Verb(TRUE, FALSE, TRUE)
browse == Verb(TRUE, TRUE, TRUE)
get == Verb(FALSE, FALSE, TRUE)
stats == Verb(FALSE, FALSE, FALSE)
count == Verb(FALSE, FALSE, TRUE)

ReadVerbs == {search, search_many, search_by_vector, search_many_by_vector,
              search_by_image, recall, context_block, browse, get, stats, count}

min_seq(v) == IF v.floor /\ ReadYourWrites THEN last_seq ELSE 0

\* 425 is retried until the visibility budget is spent, then raised.
Waits(v) == NotCaughtUp(call.min_seq) /\ ~(v.browses /\ call.plane = "old")

Planes(v) == IF v.browses THEN {"current", "old"} ELSE {"current"}

Read(v, plane) ==
  /\ Begin([pc |-> "searched", verb |-> v, plane |-> plane, min_seq |-> min_seq(v), need |-> acked])
  /\ UNCHANGED <<service, late, last_seq, acked>>

empty_if_unprovisioned(v) == IF v.empty THEN Return("at", 0) ELSE Raise

searched ==
  /\ call.pc = "searched"
  /\ \/ Raise                           \* an error, or the budget is spent
     \/ /\ ~Waits(call.verb)
        /\ IF Unprovisioned
             THEN empty_if_unprovisioned(call.verb)
             ELSE Return("at", folded)
  /\ UNCHANGED <<service, late, last_seq, calls, acked, during>>

\* wait_for(write_id) polls until the write is folded or condemned, or gives up.
wait_for(seq) ==
  /\ Begin([pc |-> "wait_for", seq |-> seq])
  /\ UNCHANGED <<service, late, last_seq, acked>>

WaitPoll ==
  /\ call.pc = "wait_for"
  /\ \/ log[call.seq].state = "folded" /\ Return("state", "folded")
     \/ log[call.seq].state # "folded" /\ Raise  \* condemned, timed out or failed
  /\ UNCHANGED <<service, late, last_seq, calls, acked, during>>

(***************************************************************************)
(* get_texts: by-id browse pages, then the text endpoint for every id a    *)
(* page did not answer, or for all of them when pages cannot be trusted.   *)
(***************************************************************************)
get_texts(ids, plane) ==
  LET requested == SetToSortSeq(ids, <)
  IN /\ Begin([pc |-> "browse_ids", verb |-> browse, plane |-> plane, min_seq |-> min_seq(browse),
               requested |-> requested, rest |-> requested,
               texts |-> [id \in {} |-> 0]])
     /\ UNCHANGED <<service, late, last_seq, acked>>

get_texts_by_id(requested) ==
  call' = [call EXCEPT !.pc = "text_by_id", !.rest = requested, !.texts = [id \in {} |-> 0]]

NothingUnanswered(texts) == <<>>
Unanswered(texts) == SelectSeq(call.requested, LAMBDA id : id \notin DOMAIN texts)

TrustPage(page, wanted) == ToSet(page) \subseteq wanted

BrowseIds ==
  /\ call.pc = "browse_ids"
  /\ \/ Raise
     \/ call.plane = "no_browse" /\ get_texts_by_id(call.requested)
     \/ /\ call.plane # "no_browse" /\ ~Waits(call.verb)
        /\ LET wanted == ToSet(First(PageSize, call.rest))
               page == IF Unprovisioned THEN <<>> ELSE PageOf(call.plane, wanted)
               rest == SelectSeq(call.rest, LAMBDA id : id \notin wanted)
               texts == [id \in ToSet(page) |-> snap[id]] @@ call.texts
           IN IF ~TrustPage(page, wanted)
                THEN get_texts_by_id(call.requested)
                ELSE call' = IF rest = <<>>
                               THEN [call EXCEPT !.pc = "text_by_id", !.texts = texts,
                                                 !.rest = Unanswered(texts)]
                               ELSE [call EXCEPT !.texts = texts, !.rest = rest]
  /\ UNCHANGED <<service, late, last_seq, calls, acked, during>>

get_text_by_id ==
  /\ call.pc = "text_by_id"
  /\ \/ Raise
     \/ call.rest = <<>> /\ Return("result", call.texts)
     \/ /\ call.rest # <<>>
        /\ LET id == Head(call.rest)
           IN call' = [call EXCEPT !.rest = Tail(@),
                         !.texts = IF Unprovisioned \/ snap[id] = 0 THEN @ ELSE (id :> snap[id]) @@ @]
  /\ UNCHANGED <<service, late, last_seq, calls, acked, during>>

(***************************************************************************)
(* list_documents walks the id order page by page.  The export command of  *)
(* the CLI is the same walk, unbounded and without a session.              *)
(***************************************************************************)
Walk(v, plane, after, limit, max_documents) ==
  /\ Begin([pc |-> "list", verb |-> v, plane |-> plane, min_seq |-> min_seq(v), need |-> acked, after |-> after,
            cursor |-> after, limit |-> limit, remaining |-> limit, max |-> max_documents,
            records |-> <<>>, at |-> 0])
  /\ UNCHANGED <<service, late, last_seq, acked>>

list_documents(plane, after, limit, max_documents) ==
  Walk(Verb(TRUE, TRUE, TRUE), plane, after, limit, max_documents)

store_export(plane) == Walk(Verb(FALSE, TRUE, FALSE), plane, 0, None, None)

SkippingCursor(page) == Last(page) + 1
NextCursor(page) == Last(page)

ListPage ==
  /\ call.pc = "list"
  /\ \/ Raise                          \* an error, or the walk's deadline
     \/ call.remaining = 0 /\ Return("result", call.records)
     \/ /\ call.remaining # 0 /\ ~Waits(call.verb)
        /\ (Unprovisioned => call.verb.empty)
        /\ LET size == IF call.remaining = None \/ call.remaining > PageSize
                         THEN PageSize ELSE call.remaining
               page == IF Unprovisioned THEN <<>> ELSE Page(call.cursor, size)
               records == call.records \o page
               at == IF call.cursor = call.after THEN folded ELSE call.at
           IN IF call.max # None /\ Len(records) > call.max THEN Raise
              ELSE IF Len(page) < size
                THEN call' = [call EXCEPT !.pc = "returned", !.at = at] @@ [result |-> records]
                ELSE call' = [call EXCEPT !.at = at, !.records = records, !.cursor = NextCursor(page),
                                !.remaining = IF @ = None THEN None ELSE @ - Len(page)]
  /\ UNCHANGED <<service, late, last_seq, calls, acked, during>>

(***************************************************************************)
(* The rest of the service (external): folds, lapsing TTLs and the writes  *)
(* of other sessions.                                                      *)
(***************************************************************************)
Observe ==
  during' = IF call.pc \in {"list", "browse_ids", "text_by_id"}
              THEN [id \in Ids |-> during[id] \cup Now'[id]] ELSE during

Fold ==
  /\ folded < Len(log)
  /\ folded' = folded + 1
  /\ LET op == log[folded'].op
     IN \/ /\ log' = [log EXCEPT ![folded'].state = "folded"]
           /\ snap' = Apply(op, folded')
           /\ hidden' = hidden \ op.ids
        \/ /\ log' = [log EXCEPT ![folded'].state = "condemned"]
           /\ UNCHANGED <<snap, hidden>>
  /\ Observe
  /\ UNCHANGED <<late, last_seq, calls, call, acked>>

Lapse(id) ==
  /\ Visible(id)
  /\ hidden' = hidden \cup {id}
  /\ UNCHANGED snap
  /\ Observe
  /\ UNCHANGED <<log, folded, late, last_seq, calls, call, acked>>

OtherWrite(op) ==
  /\ Len(log) < MaxLog
  /\ log' = Append(log, Write(<<"other", Len(log)>>, MaxCalls, op))
  /\ UNCHANGED <<folded, snap, hidden, late, last_seq, calls, call, acked, during>>

Init ==
  /\ SessionInit
  /\ log = <<>> /\ folded = 0 /\ snap = [id \in Ids |-> 0] /\ hidden = {} /\ late = {}
  /\ last_seq = 0 /\ calls = 0 /\ call = Idle /\ acked = 0
  /\ during = Unwatched

Client == TransportError \/ Refused \/ accepted \/ searched \/ WaitPoll \/ BrowseIds
            \/ get_text_by_id \/ ListPage

Calls ==
  \/ \E op \in WriteOps : written(op)
  \/ delete_memories
  \/ \E v \in ReadVerbs : \E plane \in Planes(v) : Read(v, plane)
  \/ \E seq \in 1..last_seq : wait_for(seq)
  \/ \E ids \in SUBSET Ids, plane \in {"current", "old", "no_browse"} : ids # {} /\ get_texts(ids, plane)
  \/ \E plane \in {"current", "old"}, limit \in Limits, max \in Limits :
       list_documents(plane, 0, limit, max)
  \/ store_export("current")

Service ==
  \/ Deliver
  \/ \E m \in late : DeliverLate(m)
  \/ Fold
  \/ \E id \in Ids : Lapse(id)
  \/ \E op \in {add_many(Ids), remove_many(Singles)} : OtherWrite(op)

(***************************************************************************)
(* The session.  A new handle has no floor.  To bound the model a session  *)
(* is opened before any call is made, and the handles of a Client make     *)
(* BorrowedCalls between them.                                             *)
(***************************************************************************)
handle == <<log, folded, snap, hidden, late, last_seq, calls, call, acked, during>>

Forget ==
  /\ last_seq' = 0 /\ acked' = 0 /\ call' = Idle /\ during' = Unwatched
  /\ UNCHANGED <<service, late, calls>>

Open ==
  \/ calls = 0 /\ \E t \in Targets : connect(t) /\ UNCHANGED handle
  \/ /\ calls = 0 /\ calls' = MaxCalls - BorrowedCalls
     /\ \E org \in {"", "a"}, environment \in {"", "production"} : Client_init(org, environment)
     /\ UNCHANGED <<service, late, last_seq, call, acked, during>>
  \/ \E warm \in BOOLEAN : Client_store(warm) /\ UNCHANGED handle
  \/ ClientCall /\ UNCHANGED handle

Close == AtRest /\ (CloseHandle \/ CloseClient) /\ Forget

WarmAnswers == {"failed", IF Unprovisioned THEN "unprovisioned" ELSE "served"}

Opening == (SessionStep \/ \E answer \in WarmAnswers : Warm(answer)) /\ UNCHANGED handle

ClientSteps == Client /\ UNCHANGED session

Next == Open \/ Opening \/ Close \/ ClientSteps \/ ((Calls \/ Service) /\ UNCHANGED session)

\* A blocking call keeps taking its steps: its time-outs see to it.
Spec == Init /\ [][Next]_vars /\ WF_vars(ClientSteps \/ Opening)

-----------------------------------------------------------------------------
Blocked == ~AtRest \/ session.at \notin {"out", "client", "handle"}

\* Type invariant: the session's floor is a sequence number the service handed
\* out (_record_seq).
TypeOK ==
  /\ last_seq \in 0..MaxLog /\ acked \in 0..MaxLog /\ folded \in 0..Len(log)
  /\ snap \in [Ids -> 0..MaxLog] /\ hidden \subseteq Ids

\* A write call registers at most one write, whatever is lost, resent or late:
\* the retries of _written carry one idempotency key.  (A write's id is the number
\* of the call that made it; MaxCalls stands for other sessions.)
WrittenOnce == \A i, j \in DOMAIN log : log[i].id = log[j].id /\ log[i].id < MaxCalls => i = j

\* A search, recall, context block, browse or page after this handle's writes and
\* deletions answers from a fold that covers all of them, never from an earlier
\* snapshot nor as an empty store (_searched, _accepted, delete_memories).
SessionReadsOwnWrites ==
  call.pc = "returned" /\ "at" \in DOMAIN call /\ call.verb.floor
    /\ ~(call.verb.browses /\ call.plane = "old") => call.at >= call.need

\* get_texts answers what the text endpoint would: every id that held a text
\* throughout the call, TTL-hidden ones included, with a text it held during the
\* call, and no id that held none; whatever the control plane does with the ids.
GetTextsExact ==
  call.pc = "returned" /\ "texts" \in DOMAIN call =>
    /\ DOMAIN call.result \subseteq ToSet(call.requested)
    /\ \A id \in ToSet(call.requested) :
         LET held == {o[1] : o \in during[id]}
         IN IF id \in DOMAIN call.result THEN call.result[id] \in held \ {0} ELSE 0 \in held

\* list_documents returns ids in ascending order, each once; every document visible
\* throughout the walk up to where it stopped, and none that never was.
WalkExact ==
  call.pc = "returned" /\ "records" \in DOMAIN call =>
    LET r == call.result
        short == call.limit = None \/ Len(r) < call.limit
    IN /\ \A i, j \in DOMAIN r : i < j => r[i] < r[j]
       /\ \A id \in Ids :
            IF \A o \in during[id] : o[2]
              THEN id \in ToSet(r) \/ id <= call.after \/ (~short /\ id > Last(r))
              ELSE id \in ToSet(r) => \E o \in during[id] : o[2]

\* Every blocking call of a handle, a Client or connect ends, whatever the service
\* does: retries are bounded and waits have a budget.
CallsReturn == Blocked ~> ~Blocked
=============================================================================
