------------------------------- MODULE LiveFeed -------------------------------
(***************************************************************************)
(* The global view of the dashboard: a list of the events of the selected  *)
(* window, read with GET /events, into which GET /events/stream pushes     *)
(* every change of `events`, from a change stream or, if that fails, by    *)
(* polling for later stamps.                                               *)
(*                                                                         *)
(* Ingestion writes its batches event by event, and all of a batch have    *)
(* its stamp: the fallback overlooks events, as the consumer of            *)
(* AlertPipeline does, and the module keeps account of which and why.      *)
(***************************************************************************)
EXTENDS Integers, Sequences, FiniteSets

CONSTANTS
  Quakes,     \* USGS event ids
  Windows,    \* time windows
  InWindow,   \* InWindow[w]: the events young enough for it
  FirstWindow,\* 24h
  TimeOf,     \* properties.time of each event
  Writers,    \* ingestion tasks that upsert: poll and backfill
  PageLimit,  \* limit of a fallback page (100)
  ListLimit,  \* limit of GET /events (500)
  BatchSizes, \* bound: the sizes of a batch
  MaxStores,  \* bound: batches
  MaxWire,    \* bound: frames on the wire
  MaxMoves    \* bound: windows selected and connections lost, together

ASSUME FeedAssumption ==
  /\ {PageLimit, ListLimit, MaxStores, MaxWire, MaxMoves} \subseteq Nat /\ BatchSizes \subseteq Nat
  /\ InWindow \in [Windows -> SUBSET Quakes] /\ FirstWindow \in Windows
  /\ TimeOf \in [Quakes -> Int]

VARIABLES
  stored,   \* `events`: the stamp of each event's last store, 0 before the first
  stamp,    \* the ingestion clock, one tick per batch
  batch,    \* per writer: the batch's stamp and the events still to write
  gen,      \* stream_event_changes of the view's connection: "none", "stream" or "poll"
  undelivered,  \* changes its change stream has not yielded
  page,     \* documents of its page not yielded yet, each <<event, stamp>>
  after,    \* last_seen
  sent,     \* frames on the wire
  received, \* events changed since the view connected
  window,   \* the selected window
  fetches,  \* the view's requests for the list, oldest first; the last one is `alive`
  list,     \* the list: stamp of each event's shown document, 0 when not in the list
  pushed,   \* events pushed since the list was last replaced
  listError,\* error of the last request
  cuts,     \* connections lost
  raced,     \* history: events whose last frame arrived between the answer to the last
             \*   request and its arrival
  skipped,   \* history: events that answer had no room for, unchanged since
  overlooked \* history: events the fallback has behind it

apiVars == <<stored, stamp, batch, gen, undelivered, page, after, received, overlooked>>
viewVars == <<window, fetches, list, pushed, listError, raced>>
feedVars == <<apiVars, viewVars, skipped, sent, cuts>>

Nothing == [e \in Quakes |-> 0]
Moves == Len(fetches) - 1 + cuts
NewFetch(w) == [at |-> "server", window |-> w, docs |-> Nothing]

FeedInit ==
  /\ stored = Nothing /\ stamp = 0 /\ batch = [w \in Writers |-> [at |-> 0, todo |-> {}]]
  /\ gen = "none" /\ undelivered = <<>> /\ page = {} /\ after = 0
  /\ sent = <<>> /\ received = {} /\ cuts = 0
  /\ window = FirstWindow /\ fetches = <<NewFetch(FirstWindow)>>
  /\ list = Nothing /\ pushed = {} /\ listError = FALSE
  /\ raced = {} /\ skipped = {} /\ overlooked = {}

-----------------------------------------------------------------------------
(* The api *)

\* upsert_features: the batch gets its stamp, then its events are written one by one.
StartBatch(w) ==
  /\ batch[w].todo = {} /\ stamp < MaxStores
  /\ \E S \in SUBSET Quakes :
       /\ Cardinality(S) \in BatchSizes
       /\ batch' = [batch EXCEPT ![w] = [at |-> stamp + 1, todo |-> S]]
  /\ stamp' = stamp + 1
  /\ UNCHANGED <<stored, gen, undelivered, page, after, received, overlooked, viewVars,
                 skipped, sent, cuts>>

\* The fallback has read a document that is not older: the next query asks for later ones.
ReadUpTo(at) == gen = "poll" /\ (at <= after \/ \E doc \in page : at <= doc[2])

StoreEvent(w, e) ==
  /\ e \in batch[w].todo
  /\ batch' = [batch EXCEPT ![w].todo = @ \ {e}]
  /\ stored' = [stored EXCEPT ![e] = batch[w].at]
  /\ undelivered' = IF gen = "stream" THEN Append(undelivered, e) ELSE undelivered
  /\ received' = IF gen = "none" THEN received ELSE received \cup {e}
  /\ skipped' = skipped \ {e}
  /\ overlooked' = IF ReadUpTo(batch[w].at) THEN overlooked \cup {e} ELSE overlooked \ {e}
  /\ UNCHANGED <<stamp, gen, page, after, viewVars, sent, cuts>>

\* EventSource connects, again and again: watch succeeds, or raises.
Connect ==
  /\ gen = "none"
  /\ gen' \in {"stream", "poll"}
  /\ after' = 0 /\ overlooked' = {}
  /\ UNCHANGED <<stored, stamp, batch, undelivered, page, received, viewVars, skipped, sent, cuts>>

\* The change stream yields a change, with the document as it is now.
YieldChange ==
  /\ gen = "stream" /\ undelivered # <<>> /\ Len(sent) < MaxWire
  /\ sent' = Append(sent, <<Head(undelivered), stored[Head(undelivered)]>>)
  /\ undelivered' = Tail(undelivered)
  /\ UNCHANGED <<stored, stamp, batch, gen, page, after, received, overlooked, viewVars, skipped, cuts>>

\* Mutant of StreamFails: the fallback starts from the last stamp.
StreamFailsAhead ==
  /\ gen = "stream"
  /\ gen' = "poll" /\ undelivered' = <<>> /\ after' = stamp
  /\ UNCHANGED <<stored, stamp, batch, page, received, overlooked, viewVars, skipped, sent, cuts>>

\* The change stream raises, and the fallback starts from the first stamp.
StreamFails ==
  /\ gen = "stream"
  /\ gen' = "poll" /\ undelivered' = <<>> /\ after' = 0
  /\ overlooked' = {}
  /\ UNCHANGED <<stored, stamp, batch, page, received, viewVars, skipped, sent, cuts>>

Later == {e \in Quakes : stored[e] > after}

\* find({_last_seen_at: {$gt: last_seen}}).sort(_last_seen_at).limit(PageLimit); ties
\* come in any order, and a page may end between two of them.
FirstOf(S) ==
  {T \in SUBSET S :
     /\ Cardinality(T) = IF Cardinality(S) < PageLimit THEN Cardinality(S) ELSE PageLimit
     /\ \A d \in T, e \in S \ T : stored[d] <= stored[e]}

ReadPage ==
  /\ gen = "poll" /\ page = {} /\ Later # {}
  /\ \E T \in FirstOf(Later) :
       /\ page' = {<<e, stored[e]>> : e \in T}
       /\ overlooked' = overlooked \cup {e \in Later \ T : \E d \in T : stored[d] = stored[e]}
  /\ UNCHANGED <<stored, stamp, batch, gen, undelivered, after, received, viewVars, skipped, sent, cuts>>

YieldDoc(doc) ==
  /\ doc \in page /\ (\A other \in page : doc[2] <= other[2]) /\ Len(sent) < MaxWire
  /\ sent' = Append(sent, doc)
  /\ page' = page \ {doc} /\ after' = doc[2]
  /\ UNCHANGED <<stored, stamp, batch, gen, undelivered, received, overlooked, viewVars, skipped, cuts>>

\* The connection is lost, or the stream ends: frames on the wire are lost.
Cut ==
  /\ gen # "none" /\ Moves < MaxMoves
  /\ cuts' = cuts + 1
  /\ gen' = "none" /\ undelivered' = <<>> /\ page' = {} /\ sent' = <<>> /\ received' = {}
  /\ after' = 0 /\ overlooked' = {}
  /\ UNCHANGED <<stored, stamp, batch, viewVars, skipped>>

\* list_events: find(window).sort(properties.time, -1).limit(ListLimit)
NewestOf(S) ==
  {T \in SUBSET S :
     /\ Cardinality(T) = IF Cardinality(S) < ListLimit THEN Cardinality(S) ELSE ListLimit
     /\ \A d \in T, e \in S \ T : TimeOf[d] >= TimeOf[e]}

ListEvents(k) ==
  /\ fetches[k].at = "server"
  /\ LET S == {e \in InWindow[fetches[k].window] : stored[e] # 0} IN
       \E T \in NewestOf(S) :
         /\ fetches' = [fetches EXCEPT ![k].at = "wire",
                          ![k].docs = [e \in Quakes |-> IF e \in T THEN stored[e] ELSE 0]]
         /\ IF k = Len(fetches) THEN raced' = {} /\ skipped' = S \ T
                                ELSE UNCHANGED <<raced, skipped>>
  /\ UNCHANGED <<apiVars, window, list, pushed, listError, sent, cuts>>

-----------------------------------------------------------------------------
(* GlobalView *)

Select(w) ==
  /\ w # window /\ Moves < MaxMoves
  /\ window' = w
  /\ fetches' = Append(fetches, NewFetch(w))
  /\ raced' = {} /\ skipped' = {}
  /\ UNCHANGED <<apiVars, list, pushed, listError, sent, cuts>>

Alive(k) == k = Len(fetches)

\* An answer replaces the list, if its request is the last.
TakeList(k) ==
  /\ fetches[k].at = "wire"
  /\ fetches' = [fetches EXCEPT ![k].at = "done", ![k].docs = Nothing]
  /\ IF Alive(k) THEN list' = fetches[k].docs /\ pushed' = {} /\ listError' = FALSE
                 ELSE UNCHANGED <<list, pushed, listError>>
  /\ UNCHANGED <<apiVars, window, raced, skipped, sent, cuts>>

FetchFails(k) ==
  /\ fetches[k].at # "done"
  /\ fetches' = [fetches EXCEPT ![k].at = "done", ![k].docs = Nothing]
  /\ listError' = (listError \/ Alive(k))
  /\ UNCHANGED <<apiVars, window, list, pushed, raced, skipped, sent, cuts>>

\* onSseEvent: the document replaces the one in the list, or is put into it.  That a
\* list of 1000 drops its last is left out.
TakeFrame ==
  /\ sent # <<>>
  /\ sent' = Tail(sent)
  /\ list' = [list EXCEPT ![Head(sent)[1]] = Head(sent)[2]]
  /\ pushed' = pushed \cup {Head(sent)[1]}
  /\ raced' = IF fetches[Len(fetches)].at = "wire" THEN raced \cup {Head(sent)[1]}
                                                 ELSE raced \ {Head(sent)[1]}
  /\ UNCHANGED <<apiVars, window, fetches, listError, skipped, cuts>>

FeedNext ==
  \/ \E w \in Writers : StartBatch(w) \/ \E e \in Quakes : StoreEvent(w, e)
  \/ Connect \/ YieldChange \/ StreamFails \/ ReadPage \/ Cut
  \/ \E doc \in page : YieldDoc(doc)
  \/ \E w \in Windows : Select(w)
  \/ \E k \in DOMAIN fetches : ListEvents(k) \/ TakeList(k) \/ FetchFails(k)
  \/ TakeFrame

FeedSpec == FeedInit /\ [][FeedNext]_feedVars

-----------------------------------------------------------------------------
(* Properties *)

\* Every variable has its type: no document, stamp or request is made up.
FeedTypeOK ==
  /\ {stored, list} \subseteq [Quakes -> 0..MaxStores] /\ {stamp, after} \subseteq 0..MaxStores
  /\ batch \in [Writers -> [at : 0..MaxStores, todo : SUBSET Quakes]]
  /\ gen \in {"none", "stream", "poll"}
  /\ undelivered \in Seq(Quakes) /\ page \subseteq Quakes \X (1..MaxStores)
  /\ sent \in Seq(Quakes \X (1..MaxStores))
  /\ {received, pushed, raced, skipped, overlooked} \subseteq SUBSET Quakes
  /\ window \in Windows
  /\ fetches \in Seq([at : {"server", "wire", "done"}, window : Windows,
                      docs : [Quakes -> 0..MaxStores]])
  /\ listError \in BOOLEAN /\ cuts \in 0..MaxMoves

Settled ==
  /\ fetches[Len(fetches)].at = "done" /\ ~listError
  /\ gen # "none" /\ undelivered = <<>> /\ page = {} /\ sent = <<>>
  /\ gen = "poll" => Later = {}

\* The code shows an older document of these, or none, and is not bound to do better: a
\* frame the answer overwrote (GlobalView.tsx:34), an event beyond the newest ListLimit
\* (queries.py:72), and an event the fallback overlooked (queries.py:235), because a page
\* ended inside its batch, or because it was written when the fallback had read a document
\* of its stamp or a later one.
Excused(e) == e \in raced \cup skipped \cup overlooked

Current == \A e \in received \cap InWindow[window] : Excused(e) \/ list[e] = stored[e]

\* Once everything has arrived, the list holds events of the selected window only, and
\* what was pushed since its answer, in whatever order windows were selected and answers
\* came; and an event of the window that changed while the view was connected is shown
\* as it is now, also if the change stream broke and the fallback took over, unless one
\* of the three causes above has struck this event since its last change.
FeedIsCurrent ==
  Settled => Current /\ \A e \in Quakes : list[e] # 0 => e \in InWindow[window] \cup pushed
=============================================================================
