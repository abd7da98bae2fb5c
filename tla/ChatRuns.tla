------------------------------ MODULE ChatRuns ------------------------------
(***************************************************************************)
(* The answers of one web chat session: dashboard/services/chat_service.py *)
(* with the queues of webchat_queue_mgr.py and the sending side of         *)
(* webchat_event.py.                                                       *)
(*                                                                         *)
(* A message starts a run.  The pipeline puts the payloads of the answer   *)
(* into the run's bounded back queue, and "end" unless it fails; the run's *)
(* own task takes them out, stores the answer and publishes every payload, *)
(* numbered by `revision`, to the subscribers, each with a bounded queue   *)
(* of its own.  Pages may disconnect and resume from a snapshot, and the   *)
(* session may be deleted while it answers, which cancels the task.        *)
(*                                                                         *)
(* One action takes a task from one await to the next.  A payload is its   *)
(* kind; a piece of content is its number in the run; a record of the      *)
(* history is the list of the pieces it holds.                             *)
(***************************************************************************)
EXTENDS Naturals, Sequences, FiniteSets, SequencesExt

CONSTANTS
  Run,
  Stream,               \* the connections of pages
  NoRun,
  BackQueueSize,        \* back_queue_maxsize
  SubscriberQueueSize,  \* CHAT_RUN_SUBSCRIBER_QUEUE_SIZE
  MaxPayloads           \* bound: payloads of one answer, "end" included

ASSUME ChatAssumption ==
  /\ NoRun \notin Run
  /\ {BackQueueSize, SubscriberQueueSize, MaxPayloads} \subseteq Nat \ {0}

VARIABLES
  task,       \* [Run -> location]: where the run's task is suspended
  cancelled,  \* the runs whose task will find a CancelledError at its await
  flush,      \* [Run -> state]: the shielded last flush of the answer
  backq,      \* [Run -> Seq(Kind)]: the back queue
  open,       \* the runs whose back queue is registered and not closed
  producer,   \* [Run -> state]: the pipeline's sending of the answer
  offered,    \* [Run -> Kind]: what a blocked put_back_queue wants to put
  sent,       \* [Run -> Nat]: payloads offered so far
  published,  \* [Run -> Seq({"content", "note"})]: by revision, what was published
  parts,      \* [Run -> Nat]: pieces in run.message_parts
  pending,    \* [Run -> Nat]: pieces, the last ones, that are not stored yet
  stored,     \* [Run -> Seq(Nat)]: the pieces in the history's records
  listed,     \* chat_runs, and chat_runs_by_session of the session
  running,    \* running_convs of the session
  subs,       \* [Run -> SUBSET Stream]: run.subscribers
  stream,     \* [Stream -> record]: what a page has been given
  inbox,      \* the session's chat queue, with its listener
  deleter,    \* where delete_session_internal is
  victims,    \* the runs whose task it cancelled and waits for
  late        \* (history) those it cancelled before their first step or in
              \* their last flush

taskVars   == <<task, cancelled, flush>>
queueVars  == <<backq, open, producer, offered, sent, inbox>>
answerVars == <<published, parts, pending, stored>>
pageVars   == <<subs, stream>>
tableVars  == <<listed, running>>
deleteVars == <<deleter, victims, late>>
vars == <<taskVars, queueVars, answerVars, pageVars, tableVars, deleteVars>>

\* "part": a piece that is not stored at once (of a streamed answer, a tool
\* call, the statistics); "whole": a message that is; "image": an attachment;
\* "complete": the streamed answer is whole; "end": the request is finished.
Kind == {"part", "whole", "image", "complete", "end"}

\* None in a subscriber's queue.
End == 0

Saving == {"save", "end_save"}
Suspended == {"get", "attach"} \cup Saving

Init ==
  /\ task = [r \in Run |-> "none"] /\ cancelled = {}
  /\ flush = [r \in Run |-> "none"]
  /\ backq = [r \in Run |-> <<>>] /\ open = {}
  /\ producer = [r \in Run |-> "none"] /\ offered = [r \in Run |-> "end"]
  /\ sent = [r \in Run |-> 0] /\ inbox = <<>>
  /\ published = [r \in Run |-> <<>>] /\ parts = [r \in Run |-> 0]
  /\ pending = [r \in Run |-> 0] /\ stored = [r \in Run |-> <<>>]
  /\ listed = {} /\ running = FALSE
  /\ subs = [r \in Run |-> {}]
  /\ stream = [s \in Stream |-> [state |-> "free", run |-> NoRun, q |-> <<>>,
                                 got |-> 0, view |-> 0]]
  /\ deleter = "idle" /\ victims = {} /\ late = {}

-----------------------------------------------------------------------------
(* Subscribers *)

Opened(r, got, view) == [state |-> "open", run |-> r, q |-> <<>>, got |-> got, view |-> view]

\* build_chat_stream: the message, the run with its first stream, its task.
Start(r, s) ==
  /\ task[r] = "none" /\ stream[s].state = "free"
  /\ task' = [task EXCEPT ![r] = "created"]
  /\ open' = open \cup {r}
  /\ listed' = listed \cup {r}
  /\ subs' = [subs EXCEPT ![r] = {s}]
  /\ stream' = [stream EXCEPT ![s] = Opened(r, 0, 0)]
  /\ inbox' = Append(inbox, r)
  /\ UNCHANGED <<cancelled, flush, backq, producer, offered, sent,
                 answerVars, running, deleteVars>>

\* build_chat_run_stream: a page resumes from a snapshot.
Resume(r, s) ==
  /\ r \in listed /\ stream[s].state = "free"
  /\ subs' = [subs EXCEPT ![r] = @ \cup {s}]
  /\ stream' = [stream EXCEPT ![s] = Opened(r, Len(published[r]), parts[r])]
  /\ UNCHANGED <<taskVars, queueVars, answerVars, tableVars, deleteVars>>

\* The generator's finally: the subscriber is given up.
Closed(s) ==
  /\ stream' = [stream EXCEPT ![s].state = "over", ![s].q = <<>>, ![s].got = 0, ![s].view = 0]
  /\ subs' = [subs EXCEPT ![stream[s].run] = @ \ {s}]

\* The stream hands on the next payload, or ends.
Read(s) ==
  /\ stream[s].state = "open" /\ stream[s].q # <<>>
  /\ LET item == Head(stream[s].q)  r == stream[s].run IN
     \/ item = End /\ Closed(s)
     \/ /\ item # End
        /\ stream' = [stream EXCEPT
             ![s].q = Tail(@), ![s].got = item,
             ![s].view = @ + IF published[r][item] = "content" THEN 1 ELSE 0]
        /\ UNCHANGED subs
  /\ UNCHANGED <<taskVars, queueVars, answerVars, tableVars, deleteVars>>

\* The page goes away.
Disconnect(s) ==
  /\ stream[s].state = "open"
  /\ Closed(s)
  /\ UNCHANGED <<taskVars, queueVars, answerVars, tableVars, deleteVars>>

\* Mutant: a queue without a bound.
FitsAlways(s, payloads) == TRUE

Fits(s, payloads) == Len(stream[s].q) + Len(payloads) <= SubscriberQueueSize

\* Mutant: a payload that does not fit is dropped and the stream goes on.
PublishDropping(r, payloads) ==
  LET revs == [i \in DOMAIN payloads |-> Len(published[r]) + i] IN
  /\ published' = [published EXCEPT ![r] = @ \o payloads]
  /\ stream' = [s \in Stream |->
       IF s \in subs[r] /\ Fits(s, payloads)
       THEN [stream[s] EXCEPT !.q = @ \o revs] ELSE stream[s]]
  /\ UNCHANGED subs

\* _publish_chat_run: a subscriber that is full is emptied and ended.
Publish(r, payloads) ==
  LET revs == [i \in DOMAIN payloads |-> Len(published[r]) + i] IN
  /\ published' = [published EXCEPT ![r] = @ \o payloads]
  /\ stream' = [s \in Stream |->
       IF s \notin subs[r] THEN stream[s]
       ELSE [stream[s] EXCEPT !.q = IF Fits(s, payloads) THEN @ \o revs ELSE <<End>>]]
  /\ subs' = [subs EXCEPT ![r] = {s \in @ : Fits(s, payloads)}]

-----------------------------------------------------------------------------
(* The pipeline's side: the listener of the chat queue and put_back_queue *)

\* The listener hands the message to the adapter, and its event is processed;
\* or the adapter raises, which is logged, or the event has no scheduler.
Listen ==
  /\ inbox # <<>>
  /\ \E to \in {"sending", "failed"} : producer' = [producer EXCEPT ![Head(inbox)] = to]
  /\ inbox' = Tail(inbox)
  /\ UNCHANGED <<taskVars, backq, open, offered, sent, answerVars, pageVars,
                 tableVars, deleteVars>>

After(k) == IF k = "end" THEN "done" ELSE "sending"

\* The answer's next payload: accepted, refused because the queue is closed,
\* or its put waits for room.
Put(r, k) ==
  /\ producer[r] = "sending" /\ sent[r] < MaxPayloads
  /\ sent[r] = MaxPayloads - 1 => k = "end"
  /\ sent' = [sent EXCEPT ![r] = @ + 1]
  /\ \/ /\ r \in open /\ Len(backq[r]) < BackQueueSize
        /\ backq' = [backq EXCEPT ![r] = Append(@, k)]
        /\ producer' = [producer EXCEPT ![r] = After(k)]
        /\ UNCHANGED offered
     \/ /\ r \notin open
        /\ producer' = [producer EXCEPT ![r] = After(k)]
        /\ UNCHANGED <<backq, offered>>
     \/ /\ r \in open /\ Len(backq[r]) = BackQueueSize
        /\ producer' = [producer EXCEPT ![r] = "blocked"]
        /\ offered' = [offered EXCEPT ![r] = k]
        /\ UNCHANGED backq
  /\ UNCHANGED <<taskVars, open, inbox, answerVars, pageVars, tableVars, deleteVars>>

\* A stage of the pipeline raises: execute() does not come to send the "end".
SendingFails(r) ==
  /\ producer[r] = "sending"
  /\ producer' = [producer EXCEPT ![r] = "failed"]
  /\ UNCHANGED <<taskVars, backq, open, offered, sent, inbox, answerVars, pageVars,
                 tableVars, deleteVars>>

\* Mutant: nobody waits for the close event.
PutReturnsOnRoom(r) ==
  /\ producer[r] = "blocked" /\ r \in open /\ Len(backq[r]) < BackQueueSize
  /\ backq' = [backq EXCEPT ![r] = Append(@, offered[r])]
  /\ producer' = [producer EXCEPT ![r] = After(offered[r])]
  /\ offered' = [offered EXCEPT ![r] = "end"]
  /\ UNCHANGED <<taskVars, open, sent, inbox, answerVars, pageVars, tableVars,
                 deleteVars>>

\* There is room, or the queue was closed under the put.
PutReturns(r) ==
  /\ producer[r] = "blocked"
  /\ producer' = [producer EXCEPT ![r] = After(offered[r])]
  /\ offered' = [offered EXCEPT ![r] = "end"]
  /\ \/ /\ r \in open /\ Len(backq[r]) < BackQueueSize
        /\ backq' = [backq EXCEPT ![r] = Append(@, offered[r])]
     \/ /\ r \notin open
        /\ UNCHANGED backq
  /\ UNCHANGED <<taskVars, open, sent, inbox, answerVars, pageVars, tableVars,
                 deleteVars>>

-----------------------------------------------------------------------------
(* _consume_chat_run *)

Begin(r) ==
  /\ task[r] = "created" /\ r \notin cancelled
  /\ task' = [task EXCEPT ![r] = "get"]
  /\ running' = TRUE
  /\ UNCHANGED <<cancelled, flush, queueVars, answerVars, pageVars,
                 listed, deleteVars>>

\* The task enters its finally: the last flush runs in a task of its own.
Leave(r) ==
  /\ task' = [task EXCEPT ![r] = "last"]
  /\ flush' = [flush EXCEPT ![r] = "running"]

\* What follows a payload: the loop goes on, or breaks after "end".
Continue(r, ended) ==
  IF ended THEN Leave(r)
  ELSE task' = [task EXCEPT ![r] = "get"] /\ UNCHANGED flush

\* The payload is added to the answer (n pieces), published, and stored when
\* it completes a message that has something to store.
Handle(r, k, n, payloads) ==
  /\ parts' = [parts EXCEPT ![r] = @ + n]
  /\ pending' = [pending EXCEPT ![r] = @ + n]
  /\ Publish(r, payloads)
  /\ \/ /\ k # "part" /\ pending'[r] > 0
        /\ task' = [task EXCEPT ![r] = IF k = "end" THEN "end_save" ELSE "save"]
        /\ UNCHANGED flush
     \/ /\ k = "part" \/ pending'[r] = 0
        /\ Continue(r, k = "end")

\* An attachment is stored before the payload is handled.
Attach(r) ==
  /\ task' = [task EXCEPT ![r] = "attach"]
  /\ UNCHANGED <<flush, answerVars, pageVars>>

Get(r) ==
  /\ task[r] = "get" /\ r \notin cancelled /\ backq[r] # <<>>
  /\ LET k == Head(backq[r]) IN
     \/ k = "image" /\ Attach(r)
     \/ /\ k \in {"part", "whole"} /\ Handle(r, k, 1, <<"content">>)
        /\ UNCHANGED stored
     \/ /\ k \in {"complete", "end"} /\ Handle(r, k, 0, <<"note">>)
        /\ UNCHANGED stored
  /\ backq' = [backq EXCEPT ![r] = Tail(@)]
  /\ UNCHANGED <<cancelled, open, producer, offered, sent, inbox, tableVars, deleteVars>>

\* create_attachment_from_file is back, with a part or (the file is missing)
\* without.  One that belongs to a streamed answer is not stored at once.
Attached(r) ==
  /\ task[r] = "attach" /\ r \notin cancelled
  /\ \E k \in {"image", "part"} : \/ Handle(r, k, 1, <<"content", "note">>)
                                \/ Handle(r, k, 0, <<"note">>)
  /\ UNCHANGED <<cancelled, queueVars, stored, tableVars, deleteVars>>

\* Mutant: the saved pieces stay in the pending accumulator.
StoreTwice(r) ==
  /\ stored' = [stored EXCEPT ![r] =
       @ \o [i \in 1 .. pending[r] |-> parts[r] - pending[r] + i]]
  /\ UNCHANGED pending

\* save_bot_message has inserted the record.
Store(r) ==
  /\ stored' = [stored EXCEPT ![r] =
       @ \o [i \in 1 .. pending[r] |-> parts[r] - pending[r] + i]]
  /\ pending' = [pending EXCEPT ![r] = 0]

Saved(r) ==
  /\ task[r] \in Saving /\ r \notin cancelled
  /\ Store(r)
  /\ Publish(r, <<"note">>)
  /\ Continue(r, task[r] = "end_save")
  /\ UNCHANGED <<cancelled, queueVars, parts, tableVars, deleteVars>>

\* The database or the file raises: an error is published.
Raises(r) ==
  /\ task[r] \in {"attach"} \cup Saving /\ r \notin cancelled
  /\ Publish(r, <<"note">>)
  /\ Leave(r)
  /\ UNCHANGED <<cancelled, queueVars, parts, pending, stored,
                 tableVars, deleteVars>>

\* The cancellation arrives.  An insert that it interrupts may have been
\* committed; the accumulator keeps what it held.
Cancelled(r) ==
  /\ task[r] \in Suspended /\ r \in cancelled
  /\ cancelled' = cancelled \ {r}
  /\ Leave(r)
  /\ \/ UNCHANGED stored
     \/ task[r] \in Saving /\ stored' = [stored EXCEPT ![r] =
          @ \o [i \in 1 .. pending[r] |-> parts[r] - pending[r] + i]]
  /\ UNCHANGED <<queueVars, published, parts, pending, pageVars,
                 tableVars, deleteVars>>

\* The shielded flush: nothing is left, the rest is stored, or that fails.
Flush(r) ==
  /\ flush[r] = "running"
  /\ \/ /\ pending[r] = 0
        /\ flush' = [flush EXCEPT ![r] = "empty"]
        /\ UNCHANGED <<pending, stored>>
     \/ /\ pending[r] > 0
        /\ flush' = [flush EXCEPT ![r] = "saved"]
        /\ Store(r)
     \/ /\ pending[r] > 0
        /\ flush' = [flush EXCEPT ![r] = "failed"]
        /\ UNCHANGED <<pending, stored>>
  /\ UNCHANGED <<task, cancelled, queueVars, published, parts, pageVars,
                 tableVars, deleteVars>>

\* Mutant: the run leaves the tables and forgets its subscribers.
CleanupSilently(r) ==
  /\ task[r] = "last" /\ r \notin cancelled /\ flush[r] # "running"
  /\ task' = [task EXCEPT ![r] = "over"]
  /\ open' = open \ {r}
  /\ listed' = listed \ {r}
  /\ running' = (listed' # {} /\ running)
  /\ subs' = [subs EXCEPT ![r] = {}]
  /\ UNCHANGED <<cancelled, flush, backq, producer, offered, sent, inbox,
                 answerVars, stream, deleteVars>>

\* Mutant: the back queue stays.
CleanupKeepsQueue(r) ==
  /\ task[r] = "last" /\ r \notin cancelled /\ flush[r] # "running"
  /\ task' = [task EXCEPT ![r] = "over"]
  /\ listed' = listed \ {r}
  /\ running' = (listed' # {} /\ running)
  /\ stream' = [s \in Stream |-> IF s \in subs[r] THEN [stream[s] EXCEPT !.q = <<End>>]
                                 ELSE stream[s]]
  /\ subs' = [subs EXCEPT ![r] = {}]
  /\ UNCHANGED <<cancelled, flush, backq, open, producer, offered, sent, inbox,
                 answerVars, deleteVars>>

\* The rest of the finally: the record that was just stored is announced, the
\* back queue is removed, the run leaves the tables, and every subscriber is
\* emptied and ended.
Cleanup(r) ==
  /\ task[r] = "last" /\ r \notin cancelled /\ flush[r] # "running"
  /\ task' = [task EXCEPT ![r] = "over"]
  /\ published' = [published EXCEPT ![r] =
       IF flush[r] = "saved" THEN Append(@, "note") ELSE @]
  /\ open' = open \ {r}
  /\ listed' = listed \ {r}
  /\ running' = (listed' # {} /\ running)
  /\ stream' = [s \in Stream |-> IF s \in subs[r] THEN [stream[s] EXCEPT !.q = <<End>>]
                                 ELSE stream[s]]
  /\ subs' = [subs EXCEPT ![r] = {}]
  /\ UNCHANGED <<cancelled, flush, backq, producer, offered, sent, inbox,
                 parts, pending, stored, deleteVars>>

\* A cancellation before the first step or in the await of the last flush:
\* nothing of the try, or nothing of the rest of the finally, is executed.
Killed(r) ==
  /\ task[r] \in {"created", "last"} /\ r \in cancelled
  /\ cancelled' = cancelled \ {r}
  /\ task' = [task EXCEPT ![r] = "over"]
  /\ UNCHANGED <<flush, queueVars, answerVars, pageVars, tableVars, deleteVars>>

-----------------------------------------------------------------------------
(* delete_session_internal *)

\* The tasks of the session's runs are cancelled and waited for.
DeleteBegins ==
  /\ deleter = "idle"
  /\ deleter' = "gather"
  /\ victims' = {r \in listed : task[r] # "over"}
  /\ cancelled' = cancelled \cup victims'
  /\ late' = {r \in victims' : task[r] \in {"created", "last"}}
  /\ UNCHANGED <<task, flush, queueVars, answerVars, pageVars, tableVars>>

\* The history of the session is deleted.
DeleteWipes ==
  /\ deleter = "gather" /\ \A r \in victims : task[r] = "over"
  /\ deleter' = "wiped"
  /\ stored' = [r \in Run |-> <<>>]
  /\ UNCHANGED <<taskVars, queueVars, published, parts, pending, pageVars, tableVars,
                 victims, late>>

\* remove_queues: the session's back queues and its chat queue go, with what
\* is in them.
DeleteRemoves ==
  /\ deleter = "wiped"
  /\ deleter' = "done"
  /\ open' = {}
  /\ inbox' = <<>>
  /\ UNCHANGED <<taskVars, backq, producer, offered, sent, answerVars, pageVars,
                 tableVars, victims, late>>

-----------------------------------------------------------------------------
Consume(r) == \/ Begin(r) \/ Get(r) \/ Attached(r) \/ Saved(r) \/ Raises(r)
              \/ Cancelled(r) \/ Cleanup(r) \/ Killed(r)
Send(r)    == PutReturns(r) \/ SendingFails(r) \/ \E k \in Kind : Put(r, k)
Delete     == DeleteBegins \/ DeleteWipes \/ DeleteRemoves

Next ==
  \/ \E r \in Run, s \in Stream : Start(r, s) \/ Resume(r, s)
  \/ \E s \in Stream : Read(s) \/ Disconnect(s)
  \/ Listen
  \/ \E r \in Run : Send(r) \/ Consume(r) \/ Flush(r)
  \/ Delete

\* Every task that can go on does; pages read what they are sent; a deletion
\* that has begun goes on.  Nobody has to start, resume, leave or delete.
Fairness ==
  /\ WF_vars(Listen)
  /\ \A r \in Run : WF_vars(Send(r)) /\ WF_vars(Consume(r)) /\ WF_vars(Flush(r))
  /\ \A s \in Stream : WF_vars(Read(s))
  /\ WF_vars(DeleteWipes) /\ WF_vars(DeleteRemoves)

Spec == Init /\ [][Next]_vars /\ Fairness

-----------------------------------------------------------------------------
\* The pieces of content among the revisions from..to.
Content(r, from, to) ==
  Cardinality({i \in from .. to : published[r][i] = "content"})

\* Every variable has its type, and no queue holds more than its bound.
TypeOK ==
  /\ task \in [Run -> Suspended \cup {"none", "created", "last", "over"}]
  /\ cancelled \subseteq Run /\ open \subseteq Run /\ listed \subseteq Run
  /\ flush \in [Run -> {"none", "running", "empty", "saved", "failed"}]
  /\ offered \in [Run -> Kind]
  /\ producer \in [Run -> {"none", "sending", "blocked", "done", "failed"}]
  /\ sent \in [Run -> 0 .. MaxPayloads] /\ inbox \in Seq(Run)
  /\ running \in BOOLEAN
  /\ subs \in [Run -> SUBSET Stream]
  /\ \A r \in Run :
       /\ backq[r] \in Seq(Kind) /\ Len(backq[r]) <= BackQueueSize
       /\ published[r] \in Seq({"content", "note"})
       /\ parts[r] \in Nat /\ pending[r] \in 0 .. parts[r]
       /\ stored[r] \in Seq(1 .. parts[r])
  /\ \A s \in Stream :
       /\ stream[s].state \in {"free", "open", "over"}
       /\ stream[s].run \in Run \cup {NoRun}
       /\ stream[s].q \in Seq(Nat) /\ Len(stream[s].q) <= SubscriberQueueSize
       /\ stream[s].got \in Nat /\ stream[s].view \in Nat
  /\ deleter \in {"idle", "gather", "wiped", "done"}
  /\ victims \subseteq Run /\ late \subseteq victims

\* A page that is subscribed lacks nothing: what it was shown, snapshot or
\* payloads, is the answer up to the revision it has read, and its queue holds
\* every later revision, in order and once (chat_service.py:765-859).
SubscriberLacksNothing ==
  \A r \in Run : \A s \in subs[r] :
    /\ stream[s].run = r
    /\ stream[s].q = [i \in 1 .. Len(published[r]) - stream[s].got |-> stream[s].got + i]
    /\ stream[s].view + Content(r, stream[s].got + 1, Len(published[r])) = parts[r]

\* The history holds every piece of the answer once and in order, all of it
\* when the run is over, unless the database refused the last record or the
\* session is being deleted (chat_service.py:898-933, 1016-1031, 1044-1058).
TranscriptExact ==
  deleter = "idle" => \A r \in Run :
    /\ stored[r] = [i \in 1 .. parts[r] - pending[r] |-> i]
    /\ task[r] = "over" => (pending[r] = 0 \/ flush[r] = "failed")

\* A run that is over is in no table, its queue is closed and no page waits for
\* it, unless the cancellation came before its first step or in its last flush
\* (chat_service.py:1065-1078).
OverMeansGone ==
  \A r \in Run : task[r] = "over" /\ r \notin late =>
    /\ r \notin listed /\ r \notin open
    /\ \A s \in Stream : stream[s].run = r /\ stream[s].state = "open" => stream[s].q = <<End>>
    /\ (\A o \in Run : task[o] \in {"none", "over"} /\ o \notin late) => ~running

\* Whatever becomes of the run, its task or its session, the event that answers
\* never stays blocked on the back queue: it sends its answer, or a stage raises
\* (webchat_queue_mgr.py:48-91).
EveryAnswerIsSent == \A r \in Run : producer[r] = "sending" ~> producer[r] \in {"done", "failed"}

\* A run that deletion meets at a bad moment: see OverMeansGone, or it was
\* started during the deletion, which then took its queues away.
Stranded(r) == r \in late \/ (r \notin open /\ task[r] # "over")

\* The pipeline has failed without an "end" and the page has seen all there is:
\* nothing will ever end it but a deletion (scheduler.py:85-91).
HeartbeatsOnly(r, s) == producer[r] = "failed" /\ backq[r] = <<>> /\ stream[s].q = <<>>

\* A stream ends, unless the session is deleted at a bad moment or the pipeline
\* failed, and then it has shown what came before (chat_service.py:846-859).
EveryStreamEnds ==
  \A s \in Stream, r \in Run : (stream[s].state = "open" /\ stream[s].run = r) ~>
    (stream[s].state = "over" \/ Stranded(r) \/ HeartbeatsOnly(r, s))

=============================================================================
