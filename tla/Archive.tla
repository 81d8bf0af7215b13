-------------------------------- MODULE Archive --------------------------------
(***************************************************************************)
(* The two pages over the database of past runs.  /history lists the runs   *)
(* page by page while runs are added and end.  /history/[id] loads the log  *)
(* of one run, which may still be written by its PostgresWriter, and plays  *)
(* it.  They share nothing in the browser, so a behaviour shows one of      *)
(* them, chosen at the start.                                              *)
(*                                                                          *)
(* The events of a run have the seqs 0 .. Len(History) - 1.  A request that *)
(* only reads is one step, the moment its query runs; nothing else the page *)
(* does depends on when the answer comes.  MaxMoves bounds what a user      *)
(* does, MaxRuns the runs that are ever listed.                             *)
(***************************************************************************)
EXTENDS GraphView

CONSTANTS
    InitialCount, \* how many events publish_initial publishes at once
    PageLimit,    \* EVENT_PAGE_LIMIT and DEFAULT_LIST_LIMIT
    MaxRuns, MaxMoves

ASSUME ArchiveAssumption ==
    /\ PageLimit \in Nat \ {0} /\ MaxRuns \in Nat /\ MaxMoves \in Nat
    /\ InitialCount \in 1..Len(History) /\ PatientZero \in Agent /\ None \notin Nat

\* emit() numbers the events, and the clock does not go back.
ASSUME LogAssumption ==
    /\ History \in Seq(EventRecord)
    /\ \A i \in 1..Len(History) : History[i].seq = i - 1
    /\ \A i, j \in 1..Len(History) : i <= j => History[i].tick <= History[j].tick

VARIABLES
    page,     \* "replay" or "list"
    moves,
    stored,   \* experiment_events of the run: seqs
    handled,  \* how many events its writer has stored or lost
    row,      \* is_complete of the run
    player,   \* the replay page
    runs,     \* runs[n]: has the n-th run in the list ended
    list      \* the list page

dbVars == <<stored, handled, row>>
archiveVars == <<page, moves, dbVars, player, runs, list>>

----------------------------------------------------------------------------
(* The writer of the run: batch after batch, and then the row *)

Seqs(from, upto) == from..(upto - 1)

\* The next batch ends anywhere, but the initial events are queued together.
BatchEnds == IF handled = 0 THEN InitialCount..Len(History) ELSE (handled + 1)..Len(History)

WriteBatch ==
    /\ page = "replay"
    /\ \E end \in BatchEnds :
         /\ handled' = end
         /\ stored' \in {stored \cup Seqs(handled, end), stored}
    /\ UNCHANGED <<page, moves, row, player, runs, list>>

Finalize ==
    /\ page = "replay" /\ row = "null" /\ handled = Len(History)
    /\ row' = IF stored = Seqs(0, Len(History)) THEN "complete" ELSE "incomplete"
    /\ UNCHANGED <<page, moves, stored, handled, player, runs, list>>

----------------------------------------------------------------------------
(* The history API *)

Event(q) == History[q + 1]

FirstOnes(s, limit) == SubSeq(s, 1, Min({Len(s), limit}))

\* GET /{id}/events: seq > since_seq, in order, at most a page of them.
EventPage(since) ==
    FirstOnes(Only(History, {e \in Range(History) : e.seq \in stored /\ e.seq > since}), PageLimit)

\* Variant: the next page starts where this one ends.
NextSeqInclusive(events) == IF Len(events) = PageLimit THEN Last(events).seq - 1 ELSE None

\* next_seq, where the next page goes on.
NextSeq(events) == IF Len(events) = PageLimit THEN Last(events).seq ELSE None

TickZeroStored == {q \in stored : Event(q).tick = 0}

\* GET /{id}/replay-snapshot: a world built anew, and MAX(seq) WHERE sim_tick = 0.
ReplaySnapshot ==
    [experiment_id |-> "run", last_seq |-> Max(TickZeroStored), sim_tick |-> 0,
     nodes |-> [a \in Agent |->
        IF a = PatientZero
        THEN [security_state |-> "compromised", compromised_by |-> None, tick_compromised |-> 0]
        ELSE Healthy]]

----------------------------------------------------------------------------
(* loadReplayData: the record of the run, the snapshot, then page by page *)

NewPlayer ==
    [phase |-> "detail", incomplete |-> FALSE, base |-> initialGraphState,
     events |-> << >>, since |-> -1, played |-> 0, playing |-> FALSE,
     view |-> initialGraphState]

Playing == page = "replay" /\ player.phase = "ready"
Untouched == UNCHANGED <<page, dbVars, runs, list>>

GetDetail ==
    /\ page = "replay" /\ player.phase = "detail"
    /\ player' = [player EXCEPT !.phase = "snapshot", !.incomplete = (row # "complete")]
    /\ UNCHANGED moves /\ Untouched

GetSnapshot ==
    /\ page = "replay" /\ player.phase = "snapshot" /\ TickZeroStored # {}
    /\ player' = [player EXCEPT !.phase = "paging", !.since = ReplaySnapshot.last_seq,
                                !.base = reduceSnapshot(initialGraphState, ReplaySnapshot)]
    /\ UNCHANGED moves /\ Untouched

GetPage ==
    /\ page = "replay" /\ player.phase = "paging"
    /\ LET events == EventPage(player.since) next == NextSeq(events) IN
       player' = IF next = None
                 THEN [player EXCEPT !.events = @ \o events, !.phase = "ready",
                                     !.view = player.base]
                 ELSE [player EXCEPT !.events = @ \o events, !.since = next]
    /\ UNCHANGED moves /\ Untouched

\* Any of the requests fails, and the snapshot does when no tick-0 event is stored.
LoadFails ==
    /\ page = "replay" /\ player.phase \in {"detail", "snapshot", "paging"}
    /\ player' = [player EXCEPT !.phase = "error"]
    /\ UNCHANGED moves /\ Untouched

Load == GetDetail \/ GetSnapshot \/ GetPage \/ LoadFails

\* The user reloads the page, or opens it again.
OpenReplay ==
    /\ page = "replay" /\ player.phase \in {"ready", "error"} /\ moves < MaxMoves
    /\ moves' = moves + 1 /\ player' = NewPlayer
    /\ Untouched

----------------------------------------------------------------------------
(* Playback: useReplayStream, the transport and the page's effect *)

Total == Len(player.events)
Finished == Total > 0 /\ player.played >= Total

\* The effect of the page that runs after every render: at the end it pauses.
Settled(p) ==
    IF Len(p.events) > 0 /\ p.played >= Len(p.events) THEN [p EXCEPT !.playing = FALSE] ELSE p

Move == Playing /\ moves < MaxMoves /\ moves' = moves + 1

TogglePlay ==
    /\ Move /\ Total > 0 /\ ~Finished
    /\ player' = Settled([player EXCEPT !.playing = ~@])
    /\ Untouched

\* The interval: one event.
PlayOne ==
    /\ Playing /\ player.playing /\ player.played < Total
    /\ player' = Settled([player EXCEPT
                    !.view = reduceEvent(@, player.events[player.played + 1]), !.played = @ + 1])
    /\ UNCHANGED moves /\ Untouched

\* Variant: the events are folded onto the state that is shown.
SeekFromHere(p, index) ==
    [p EXCEPT !.view = foldEvents(p.view, p.events, index), !.played = index]

seek(p, index) ==
    [p EXCEPT !.view = foldEvents(p.base, p.events, index), !.played = index]

Scrub ==
    /\ Move /\ Total > 0
    /\ \E index \in 0..Total : player' = Settled(seek(player, index))
    /\ Untouched

Restart ==
    /\ Move /\ Total > 0
    /\ player' = seek([player EXCEPT !.playing = FALSE], 0)
    /\ Untouched

Replay == TogglePlay \/ PlayOne \/ Scrub \/ Restart

----------------------------------------------------------------------------
(* The list.  Runs are numbered in the order of (created_at, experiment_id). *)

\* "finished" stands for "stopped" as well, and "incomplete" is final_status IS NULL; the
\* defense filter asks for what a run never changes.
Filter == {"all", "finished", "incomplete"}
Matches(n, filter) ==
    \/ filter = "all"
    \/ filter = "finished" /\ runs[n]
    \/ filter = "incomplete" /\ ~runs[n]

NewList(filter) ==
    [filter |-> filter, items |-> << >>, cursor |-> None, phase |-> "first", selected |-> << >>,
     old |-> {n \in DOMAIN runs : Matches(n, filter)}]

NewestFirst(ns) == Only(Reverse([n \in DOMAIN runs |-> n]), ns)

\* Variant: the cursor is an offset.
PageFromOffset(filter, cursor) ==
    LET all  == NewestFirst({n \in DOMAIN runs : Matches(n, filter)})
        from == IF cursor = None THEN 0 ELSE Len(list.items)
        some == FirstOnes(SubSeq(all, from + 1, Len(all)), PageLimit)
    IN  [items |-> some, next |-> IF Len(all) > from + PageLimit THEN Last(some) ELSE None]

\* GET /api/v1/history: those before the cursor, and one more than the limit.
ListPage(filter, cursor) ==
    LET all  == NewestFirst({n \in DOMAIN runs :
                               Matches(n, filter) /\ (cursor = None \/ n < cursor)})
        some == FirstOnes(all, PageLimit)
    IN  [items |-> some, next |-> IF Len(all) > PageLimit THEN Last(some) ELSE None]

OnList == page = "list"
ListUntouched == UNCHANGED <<page, dbVars, player>>

RunCreated ==
    /\ OnList /\ Len(runs) < MaxRuns
    /\ runs' = Append(runs, FALSE)
    /\ UNCHANGED <<moves, list>> /\ ListUntouched

RunFinished ==
    /\ OnList /\ \E n \in DOMAIN runs : ~runs[n] /\ runs' = [runs EXCEPT ![n] = TRUE]
    /\ UNCHANGED <<moves, list>> /\ ListUntouched

\* The first page, or the next: the answer is put after what is there.
ListAnswers ==
    /\ OnList /\ list.phase \in {"first", "more"}
    /\ LET resp == ListPage(list.filter, list.cursor) IN
       list' = [list EXCEPT !.items = @ \o resp.items, !.cursor = resp.next, !.phase = "idle"]
    /\ UNCHANGED <<moves, runs>> /\ ListUntouched

\* An error replaces the table until the filter is changed.
ListFails ==
    /\ OnList /\ list.phase \in {"first", "more"}
    /\ list' = [list EXCEPT !.phase = "error"]
    /\ UNCHANGED <<moves, runs>> /\ ListUntouched

LoadMore ==
    /\ OnList /\ moves < MaxMoves /\ moves' = moves + 1
    /\ list.phase = "idle" /\ list.cursor # None
    /\ list' = [list EXCEPT !.phase = "more"]
    /\ UNCHANGED runs /\ ListUntouched

\* The table is mounted anew for every pair of filters, its old request ignored.
SetFilter ==
    /\ OnList /\ moves < MaxMoves /\ moves' = moves + 1
    /\ \E filter \in Filter \ {list.filter} :
         list' = [NewList(filter) EXCEPT !.selected = list.selected]
    /\ UNCHANGED runs /\ ListUntouched

\* At most two rows are selected for comparison, the third pick evicting the first.
Toggled(rows, n) ==
    IF n \in Range(rows) THEN Remove(rows, n) ELSE LastOnes(Append(rows, n), 2)

ToggleSelect ==
    /\ OnList /\ list.phase # "error" /\ moves < MaxMoves /\ moves' = moves + 1
    /\ \E n \in Range(list.items) : list' = [list EXCEPT !.selected = Toggled(@, n)]
    /\ UNCHANGED runs /\ ListUntouched

ListStep ==
    \/ RunCreated \/ RunFinished \/ ListAnswers \/ ListFails
    \/ LoadMore \/ SetFilter \/ ToggleSelect

----------------------------------------------------------------------------
ArchiveInit ==
    /\ page \in {"replay", "list"} /\ moves = 0
    /\ stored = {} /\ handled = 0 /\ row = "null"
    /\ player = NewPlayer
    /\ runs = <<TRUE, FALSE>> /\ list = NewList("all")

ArchiveNext == WriteBatch \/ Finalize \/ Load \/ OpenReplay \/ Replay \/ ListStep

ArchiveSpec == ArchiveInit /\ [][ArchiveNext]_archiveVars

----------------------------------------------------------------------------
(* Properties *)

ArchiveTypeOK ==
    /\ page \in {"replay", "list"} /\ moves \in 0..MaxMoves
    /\ stored \subseteq Seqs(0, handled) /\ handled \in 0..Len(History)
    /\ row \in {"null", "complete", "incomplete"}
    /\ player.phase \in {"detail", "snapshot", "paging", "ready", "error"}
    /\ player.played \in 0..Total /\ player.playing \in BOOLEAN
    /\ \A v \in {player.base, player.view} : Range(v.nodes) \subseteq NodeView
    /\ runs \in [DOMAIN runs -> BOOLEAN] /\ list.filter \in Filter
    /\ list.phase \in {"first", "more", "idle", "error"}
    /\ Len(list.selected) = Cardinality(Range(list.selected)) /\ Len(list.selected) <= 2

\* Wherever the user scrubs and whenever the interval fires between, the page shows
\* the world of the snapshot brought forward by the first playedCount events, each
\* once and in the order of the log: nodes, counters and incidents agree with the
\* position on the slider (useReplayStream.ts:91-114).
ReplayIsThePrefix ==
    player.phase = "ready" =>
        Shows(player.view, player.base, SubSeq(player.events, 1, player.played))

\* A replay without the warning banner holds every event after tick 0, also when the
\* page was opened while the writer was at work: is_complete is read before the log.
\* No log has an event twice or out of order.
UnmarkedReplayIsWhole ==
    /\ \A i \in 1..(Total - 1) : player.events[i].seq < player.events[i + 1].seq
    /\ player.phase = "ready" /\ ~player.incomplete =>
         player.events = Only(History, {e \in Range(History) : e.tick > 0})

\* The pages of the list join up: while runs are added at the top and end, no row is
\* there twice, the newest are first, and no run is skipped that matched when the
\* table was mounted, still matches and is not older than the last row.  Of the
\* incomplete runs, one that ends between two pages is rightly in neither.
ListSkipsNothing ==
    /\ \A i \in 1..(Len(list.items) - 1) : list.items[i] > list.items[i + 1]
    /\ list.items # << >> =>
         \A n \in list.old :
            Matches(n, list.filter) /\ n >= Last(list.items) => n \in Range(list.items)

\* "The returned `events` array never includes a tick-0 event" (loadReplayData.ts:31).
NoTickZeroEvent == \A i \in DOMAIN player.events : player.events[i].tick > 0
=============================================================================
