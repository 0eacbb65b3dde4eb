------------------------------- MODULE History -------------------------------
(***************************************************************************)
(* The history of deploys and the page that shows it: the rows of          *)
(* deploy_events with their pruning (internal/store/events.go), the bus    *)
(* that publishes their changes (internal/events/bus.go), the stream and   *)
(* the list that the server offers (internal/httpapi/events.go), and one   *)
(* open Activity page (ui/src/useEvents.ts, ui/src/pages/Activity.tsx).    *)
(*                                                                         *)
(* DeployEngine says when a deploy changes its event.  Here a deploy is    *)
(* the sequence of its changes, each of which is written to the row and    *)
(* published after that.                                                   *)
(***************************************************************************)
EXTENDS Naturals, Sequences, FiniteSets

CONSTANTS
  Apps,     (* apps at the start.                                          *)
  NoApp,    (* app_id is NULL: the event's app has been deleted.           *)
  Keep,     (* ended events that each app keeps (30 in the code).          *)
  BufCap,   (* capacity of a subscriber's channel (64 in the code).        *)
  Page,     (* events per page (50 in the code).                           *)
  MaxId,    (* event ids are at most MaxId.  Bounds the model.             *)
  MaxFaults (* broken streams, failed requests, restarts.  Bounds it too.  *)

ASSUME HistoryAssumption ==
  /\ NoApp \notin Apps
  /\ Keep \in Nat \ {0}
  /\ BufCap \in Nat \ {0}
  /\ Page \in Nat \ {0}
  /\ MaxId \in Nat
  /\ MaxFaults \in Nat

VARIABLES
  apps,      (* apps that have a row.                                      *)
  rows,      (* persistent: the rows of deploy_events, by id.              *)
  newest,    (* the greatest id that an event has had.                     *)
  due,       (* changes written to a row, for which Publish comes next.    *)
  sub,       (* whether the page's EventSource is subscribed to the bus.   *)
  buf,       (* the subscriber's channel.                                  *)
  fetch,     (* the page's request to listEvents.                          *)
  list,      (* the events that the page shows, from the top.              *)
  streamed,  (* whether the stream has brought the page an event.          *)
  missed,    (* events with a change that the page will not hear of.       *)
  faults     (* faults so far.                                             *)

table == <<apps, rows, newest>>

page == <<sub, buf, fetch, list, streamed, missed>>

vars == <<table, due, page, faults>>

(***************************************************************************)
(* Types.                                                                  *)
(***************************************************************************)

Ids == 1..MaxId

(* open: pending, rolling; ended: success, failed, unknown, skipped.  The  *)
(* change from pending to rolling is left out: one change is enough for an *)
(* older and a newer copy.                                                 *)
Statuses == {"open", "ended"}

Row == [app : Apps \cup {NoApp}, status : Statuses]

(* What the page gets of a row.                                            *)
Shown == [id : Ids, status : Statuses]

(* opening is the first request; it, and "asked", have not read the rows.  *)
Fetch == [pc     : {"opening", "asked", "answered", "idle"},
          before : Ids \cup {0},
          got    : Seq(Shown),
          more   : BOOLEAN]

TypeOK ==
  /\ apps \subseteq Apps
  /\ DOMAIN rows \subseteq Ids
  /\ \A i \in DOMAIN rows : rows[i] \in Row
  /\ newest \in Ids \cup {0}
  /\ due \subseteq Shown
  /\ sub \in BOOLEAN
  /\ buf \in Seq(Shown) /\ Len(buf) <= BufCap
  /\ fetch \in Fetch /\ Len(fetch.got) <= Page
  /\ list \in Seq(Shown)
  /\ streamed \in BOOLEAN
  /\ missed \subseteq Ids
  /\ faults \in 0..MaxFaults

Init ==
  /\ apps = Apps
  /\ rows = << >>
  /\ newest = 0
  /\ due = {}
  /\ sub = FALSE
  /\ buf = << >>
  /\ fetch = [pc |-> "opening", before |-> 0, got |-> << >>, more |-> FALSE]
  /\ list = << >>
  /\ streamed = FALSE
  /\ missed = {}
  /\ faults = 0

Fault == faults < MaxFaults /\ faults' = faults + 1

(***************************************************************************)
(* The rows.                                                               *)
(***************************************************************************)

(* An INTEGER PRIMARY KEY without AUTOINCREMENT: one more than the         *)
(* greatest id in the table.                                               *)
NewId ==
  IF DOMAIN rows = {} THEN 1
  ELSE 1 + CHOOSE n \in DOMAIN rows : \A i \in DOMAIN rows : i <= n

(* An INSERT, which the foreign key of app_id refuses for a deleted app.   *)
Insert(a, status) ==
  /\ a \in apps
  /\ NewId \in Ids
  /\ rows' = [i \in DOMAIN rows \cup {NewId} |->
                IF i = NewId THEN [app |-> a, status |-> status] ELSE rows[i]]
  /\ newest' = IF NewId > newest THEN NewId ELSE newest
  /\ UNCHANGED apps

(* run and schedulePurge: CreateEvent, then Publish.                       *)
CreateEvent(a) ==
  /\ Insert(a, "open")
  /\ due' = due \cup {[id |-> NewId, status |-> "open"]}
  /\ UNCHANGED <<page, faults>>

(* recordSkip: a webhook that was looked at and ignored.  Not published.   *)
RecordSkip(a) ==
  /\ Insert(a, "ended")
  /\ UNCHANGED <<due, page, faults>>

(* finish: UpdateEvent, then Publish, once the last change is published.   *)
UpdateEvent(i) ==
  /\ i \in DOMAIN rows
  /\ rows[i].status = "open"
  /\ \A d \in due : d.id # i
  /\ rows' = [rows EXCEPT ![i].status = "ended"]
  /\ due' = due \cup {[id |-> i, status |-> "ended"]}
  /\ UNCHANGED <<apps, newest, page, faults>>

(* ON DELETE SET NULL.                                                     *)
DeleteApp(a) ==
  /\ a \in apps
  /\ apps' = apps \ {a}
  /\ rows' = [i \in DOMAIN rows |->
                IF rows[i].app = a THEN [rows[i] EXCEPT !.app = NoApp] ELSE rows[i]]
  /\ UNCHANGED <<newest, due, page, faults>>

(* ROW_NUMBER() OVER (PARTITION BY app_id ORDER BY id DESC) of an ended    *)
(* event.                                                                  *)
RowNumber(i) ==
  Cardinality({j \in DOMAIN rows :
                 j >= i /\ rows[j].app = rows[i].app /\ rows[j].status = "ended"})

(* Mutated form: what is old goes, however little is left.                 *)
PrunableByAge(i, last) == rows[i].status = "ended" /\ i <= last

(* started_at < datetime('now', -maxAge) holds of the events up to last.   *)
Prunable(i, last) ==
  /\ rows[i].status = "ended"
  /\ RowNumber(i) > Keep
  /\ i <= last

(* PruneEvents, at startup and daily.                                      *)
PruneEvents(last) ==
  /\ rows' = [i \in {i \in DOMAIN rows : ~Prunable(i, last)} |-> rows[i]]
  /\ UNCHANGED <<apps, newest, due, page, faults>>

(***************************************************************************)
(* The bus, and its subscriber.                                            *)
(***************************************************************************)

ShownIds == {list[k].id : k \in DOMAIN list}

BufIds == {buf[k].id : k \in DOMAIN buf}

(* The page does not hear of a change of event i.  It has read the rows or *)
(* will keep what the stream said of i earlier.                            *)
Miss(i) ==
  missed' = IF fetch.pc # "opening" \/ i \in ShownIds \cup BufIds
            THEN missed \cup {i} ELSE missed

(* Mutated form: an unbounded channel.                                     *)
PublishUnbounded(d) ==
  /\ d \in due
  /\ due' = due \ {d}
  /\ IF sub THEN buf' = Append(buf, d) /\ UNCHANGED missed
     ELSE Miss(d.id) /\ UNCHANGED buf
  /\ UNCHANGED <<table, sub, fetch, list, streamed, faults>>

(* Bus.Publish, which drops what a full channel does not take.             *)
Publish(d) ==
  /\ d \in due
  /\ due' = due \ {d}
  /\ IF sub /\ Len(buf) < BufCap
     THEN buf' = Append(buf, d) /\ UNCHANGED missed
     ELSE Miss(d.id) /\ UNCHANGED buf
  /\ UNCHANGED <<table, sub, fetch, list, streamed, faults>>

(* EventSource, streamEvents, Subscribe; also 3 s after the last one.      *)
Subscribe ==
  /\ ~sub
  /\ sub' = TRUE
  /\ UNCHANGED <<table, due, buf, fetch, list, streamed, missed, faults>>

(* onerror; unsubscribe, with what is in the channel.                      *)
StreamBreaks ==
  /\ Fault
  /\ sub
  /\ sub' = FALSE
  /\ buf' = << >>
  /\ missed' = missed \cup BufIds
  /\ UNCHANGED <<table, due, fetch, list, streamed>>

(***************************************************************************)
(* The page.                                                               *)
(***************************************************************************)

(* setEvents of useLiveEvents: the row is replaced in its place, or put on *)
(* top.                                                                    *)
WithStreamed(e) ==
  IF e.id \in ShownIds
  THEN [k \in DOMAIN list |-> IF list[k].id = e.id THEN e ELSE list[k]]
  ELSE <<e>> \o list

Receive ==
  /\ buf # << >>
  /\ buf' = Tail(buf)
  /\ list' = WithStreamed(Head(buf))
  /\ streamed' = TRUE
  /\ UNCHANGED <<table, due, sub, fetch, missed, faults>>

(* The entries of a at the places K, ORDER BY id DESC; equal ones keep     *)
(* their order.                                                            *)
NewestFirst(a, K) ==
  LET Rank(k) == Cardinality({j \in K : a[j].id > a[k].id \/ (a[j].id = a[k].id /\ j <= k)})
  IN [n \in 1..Cardinality(K) |-> a[CHOOSE k \in K : Rank(k) = n]]

(* ListEvents: the events before that one, at most LIMIT.                  *)
ListEvents(before) ==
  LET ids == {i \in DOMAIN rows : before > 0 => i < before}
      all == NewestFirst([i \in DOMAIN rows |-> [id |-> i, status |-> rows[i].status]], ids)
  IN SubSeq(all, 1, IF Len(all) < Page THEN Len(all) ELSE Page)

(* listEvents reads the rows.                                              *)
FetchReads ==
  /\ fetch.pc \in {"opening", "asked"}
  /\ fetch' = [fetch EXCEPT !.pc = "answered", !.before = 0,
                            !.got = ListEvents(fetch.before)]
  /\ UNCHANGED <<table, due, sub, buf, list, streamed, missed, faults>>

(* Mutated form: the fetched row wins.                                     *)
MergedOver(got) ==
  LET all == list \o got
  IN NewestFirst(all, {k \in DOMAIN all :
                         k > Len(list) \/ \A n \in DOMAIN got : got[n].id # all[k].id})

(* Mutated form: the merge does not look at the ids the list has.          *)
MergedAll(got) == NewestFirst(list \o got, DOMAIN (list \o got))

(* setEvents of useLiveEvents when the fetched events change: those that   *)
(* the list does not show are put under it, and it is sorted.              *)
Merged(got) ==
  LET all == list \o got
  IN NewestFirst(all, {k \in DOMAIN all : k <= Len(list) \/ all[k].id \notin ShownIds})

FetchArrives ==
  /\ fetch.pc = "answered"
  /\ list' = Merged(fetch.got)
  /\ fetch' = [fetch EXCEPT !.pc = "idle", !.got = << >>, !.more = Len(fetch.got) = Page]
  /\ UNCHANGED <<table, due, sub, buf, streamed, missed, faults>>

(* catch: nothing changes, a first page stays empty.                       *)
FetchFails ==
  /\ Fault
  /\ fetch.pc # "idle"
  /\ fetch' = [fetch EXCEPT !.pc = "idle", !.before = 0, !.got = << >>]
  /\ UNCHANGED <<table, due, sub, buf, list, streamed, missed>>

(* Mutated form: the page below the one below.                             *)
LoadMoreBelow ==
  /\ fetch.pc = "idle" /\ fetch.more /\ list # << >>
  /\ list[Len(list)].id > 1
  /\ fetch' = [fetch EXCEPT !.pc = "asked", !.before = list[Len(list)].id - 1]
  /\ UNCHANGED <<table, due, sub, buf, list, streamed, missed, faults>>

(* loadMore, from the last event of the list.                              *)
LoadMore ==
  /\ fetch.pc = "idle" /\ fetch.more /\ list # << >>
  /\ fetch' = [fetch EXCEPT !.pc = "asked", !.before = list[Len(list)].id]
  /\ UNCHANGED <<table, due, sub, buf, list, streamed, missed, faults>>

(***************************************************************************)
(* The process ends and starts again: the stream breaks, requests fail,    *)
(* and ReconcileStartup settles what the deploys have left, unpublished.   *)
(***************************************************************************)

Restart ==
  /\ Fault
  /\ rows' = [i \in DOMAIN rows |->
                IF rows[i].status = "open" THEN [rows[i] EXCEPT !.status = "ended"]
                ELSE rows[i]]
  /\ due' = {}
  /\ sub' = FALSE
  /\ buf' = << >>
  /\ fetch' = [fetch EXCEPT !.pc = IF @ = "answered" THEN @ ELSE "idle", !.before = 0]
  /\ missed' = missed \cup {i \in DOMAIN rows : rows[i].status = "open"}
                      \cup {d.id : d \in due} \cup BufIds
  /\ UNCHANGED <<apps, newest, list, streamed>>

(***************************************************************************)
(* Specification.                                                          *)
(***************************************************************************)

RowStep ==
  \/ \E a \in Apps : CreateEvent(a) \/ RecordSkip(a) \/ DeleteApp(a)
  \/ \E i \in Ids : UpdateEvent(i) \/ PruneEvents(i)

StreamStep == (\E d \in due : Publish(d)) \/ Subscribe \/ StreamBreaks \/ Receive

FetchStep == FetchReads \/ FetchArrives \/ FetchFails \/ LoadMore

Next == RowStep \/ StreamStep \/ FetchStep \/ Restart

Spec == Init /\ [][Next]_vars

(***************************************************************************)
(* Properties.                                                             *)
(***************************************************************************)

(* An event's id is never given to a later one, although the table has no  *)
(* AUTOINCREMENT and prunes: a page, a stream or a deploy that knows an    *)
(* event by its id never meets another one under it.                       *)
NoIdReused == [][\A i \in DOMAIN rows' \ DOMAIN rows : i > newest]_vars

(* A page that the stream has brought nothing yet has no gaps: whatever    *)
(* came and was pruned between its requests, it shows each row from the    *)
(* newest it has to the oldest it has, and to the very first when it       *)
(* offers no more.                                                         *)
PagesAreComplete ==
  ~streamed /\ list # << >> =>
    \A i \in DOMAIN rows :
      /\ i <= list[1].id
      /\ i >= list[Len(list)].id \/ (fetch.pc = "idle" /\ ~fetch.more)
      => i \in ShownIds

(* A page shows an event once, under which its row of the table is         *)
(* updated: the stream, which may be ahead of a request or behind it, and  *)
(* requests that overlap through reconnections, pruning and restarts,      *)
(* never bring it in twice.                                                *)
ShownOnce == \A m, n \in DOMAIN list : list[m].id = list[n].id => m = n

(* The stream and the requests agree in the end: when a page has heard     *)
(* every change of an event, in the order they were made, and whatever     *)
(* request it had in flight, it shows what the table says.                 *)
FeedIsCurrent ==
  \A k \in DOMAIN list :
    LET i == list[k].id IN
      /\ i \in DOMAIN rows \ missed
      /\ \A d \in due : d.id # i
      /\ \A n \in DOMAIN buf : buf[n].id # i
      => list[k].status = rows[i].status
=============================================================================
