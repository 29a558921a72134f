--------------------------- MODULE IngestionCycles ---------------------------
(***************************************************************************)
(* Ingestion of public notices (signals/ingestion): one source, read again *)
(* and again by runs that a lock file serialises.  A run resumes or plans  *)
(* a cycle over the days since the checkpoint, less an overlap for what    *)
(* appears late, stores what it fetches and moves the checkpoint on.       *)
(*                                                                         *)
(* The source is of one of three kinds: "window" (SIMAP, BOAMP) reads its  *)
(* days in one piece; "decp" goes day by day in batches with an offset;    *)
(* "ted" goes page by page and notice by notice.  A notice is its day and  *)
(* a number; times of day are left out, and so are the status columns,     *)
(* which no run reads.  The pages of a SIMAP or BOAMP query are one look,  *)
(* and no source withdraws a notice.  The options --since, --until and     *)
(* --max-records of an operator are left out.                              *)
(***************************************************************************)
EXTENDS Integers, Sequences, FiniteSets

CONSTANTS
    LastDate,     \* bound: days of the calendar
    PerDay,       \* bound: notices of a day
    MaxNotices,   \* bound: notices that appear
    Overlap,      \* OVERLAP_DAYS, decp_overlap_days
    Lookback,     \* INITIAL_LOOKBACK_DAYS
    PageSize      \* page_size of TED, decp_batch_size

ASSUME IngestionAssumption ==
    /\ LastDate \in Nat /\ PerDay \in Nat /\ MaxNotices \in Nat
    /\ Overlap \in Nat /\ Lookback \in Nat /\ PageSize \in Nat \ {0}

Null == -1        \* SQL NULL where a number is expected

Dates == 1..LastDate
Notices == Dates \X (1..PerDay)
DateOf(n) == n[1]
Before(m, n) == m[1] < n[1] \/ (m[1] = n[1] /\ m[2] < n[2])

VARIABLES
    source,      \* the kind of the source
    today,
    visible,     \* the notices the source's API shows
    checkpoint,  \* ingestion_checkpoint: window_end and cursor
    stored,      \* notices that were processed to the end
    ingest,      \* the run, or what it left
    floor,       \* the first day of the source's first window
    due,         \* visible, from floor on, when the current cycle was planned
    promised     \* due when the last finished cycle was planned

ingestionVars == <<source, today, visible, checkpoint, stored, ingest, floor,
                   due, promised>>

NoCursor == [kind |-> "none"]
NoIngest == [pc |-> "idle", until |-> Null, previous |-> Null,
             cursor |-> NoCursor, after |-> NoCursor, batch |-> {}, broken |-> FALSE]

IngestionInit ==
    /\ source \in {"window", "decp", "ted"}
    /\ today = 1
    /\ visible = {}
    /\ checkpoint = [end |-> Null, cursor |-> NoCursor]
    /\ stored = {}
    /\ ingest = NoIngest
    /\ floor = Null
    /\ due = {} /\ promised = {}

-----------------------------------------------------------------------------
(* The public source.                                                      *)

DayPasses ==
    /\ today < LastDate
    /\ today' = today + 1
    /\ UNCHANGED <<source, visible, checkpoint, stored, ingest, floor, due, promised>>

\* A notice appears on its day or at most Overlap days later.
NoticeAppears ==
    /\ Cardinality(visible) < MaxNotices
    /\ \E n \in Notices \ visible :
          /\ DateOf(n) <= today /\ today <= DateOf(n) + Overlap
          /\ visible' = visible \union {n}
    /\ UNCHANGED <<source, today, checkpoint, stored, ingest, floor, due, promised>>

\* What a query for the days a to b finds.
Found(a, b) == {n \in visible : DateOf(n) \in a..b}

\* The place of each in a list, of which a page or a batch is a piece.
OldestFirst(rows) == [n \in rows |-> 1 + Cardinality({m \in rows : Before(m, n)})]
NewestFirst(rows) == [n \in rows |-> 1 + Cardinality({m \in rows : Before(n, m)})]

Listed(rows, place) ==
    [i \in 1..Cardinality(rows) |-> CHOOSE n \in rows : place[n] = i]

Smaller(a, b) == IF a < b THEN a ELSE b
Larger(a, b) == IF a < b THEN b ELSE a

-----------------------------------------------------------------------------
(* The start of a run: _start_persisted_run, and the plan of its cycle.    *)

\* checkpoint_window; plan_decp_cycle has the same with one lookback.
Since ==
    IF checkpoint.end # Null THEN checkpoint.end - Overlap
    ELSE today - (IF source = "decp" THEN Overlap ELSE Lookback)

\* What a fresh cycle is to bring home.  The past before the first window is
\* nobody's, and the first is planned anew as long as it does not end.
PlansFresh ==
    /\ floor' = IF checkpoint.end = Null THEN Since ELSE floor
    /\ due' = {n \in visible : DateOf(n) >= floor'}

Resumes == UNCHANGED <<floor, due>>

Begin(cursor) ==
    /\ ingest' = [NoIngest EXCEPT !.pc = "acquire", !.until = today,
                                  !.previous = checkpoint.end, !.cursor = cursor]
    /\ UNCHANGED <<source, today, visible, stored, promised>>

StartWindow ==
    /\ source = "window" /\ ingest.pc = "idle"
    /\ Begin([kind |-> "window", since |-> Since])
    /\ PlansFresh
    /\ UNCHANGED checkpoint

DecpComplete(c) == c.next > c.end

\* plan_decp_cycle
StartDecp ==
    /\ source = "decp" /\ ingest.pc = "idle"
    /\ LET kept == checkpoint.cursor
           fresh == [kind |-> "decp", end |-> today, next |-> Since,
                     offset |-> 0, total |-> Null]
           resumes == kept # NoCursor /\ (~DecpComplete(kept) \/ today <= kept.end)
           cursor == IF resumes THEN kept ELSE fresh
       IN  /\ Begin(cursor)
           /\ checkpoint' = [checkpoint EXCEPT !.cursor = cursor]
           /\ IF resumes THEN Resumes ELSE PlansFresh

\* plan_ted_cycle
StartTed ==
    /\ source = "ted" /\ ingest.pc = "idle"
    /\ LET kept == checkpoint.cursor
           fresh == [kind |-> "ted", since |-> Since, until |-> today, page |-> 1,
                     pending |-> <<>>, more |-> TRUE, complete |-> FALSE]
           resumes == kept # NoCursor /\ ~kept.complete
           cursor == IF resumes THEN kept ELSE fresh
       IN  /\ Begin(cursor)
           /\ checkpoint' = [checkpoint EXCEPT !.cursor = cursor]
           /\ IF resumes THEN Resumes ELSE PlansFresh

-----------------------------------------------------------------------------
(* A unit of work: acquired, processed, and then recorded.                 *)

Acquired(batch, broken, after) ==
    /\ ingest' = [ingest EXCEPT !.pc = "process", !.batch = batch,
                                !.broken = broken, !.after = after]
    /\ UNCHANGED <<source, today, visible, checkpoint, stored, floor, due, promised>>

\* All of it, or an AcquisitionFailure that carries a part of it.
Acquires(rows, after) ==
    \/ Acquired(rows, FALSE, after)
    \/ \E part \in SUBSET rows : part # {} /\ Acquired(part, TRUE, after)

\* SimapSource.acquire, BoampSource.acquire
AcquireWindow ==
    /\ source = "window" /\ ingest.pc = "acquire"
    /\ Acquires(Found(ingest.cursor.since, ingest.until), ingest.cursor)

\* advance_decp_batch, advance_decp_cycle
AdvanceDecpBatch(c, offset, total) ==
    IF offset = total
    THEN [c EXCEPT !.next = @ + 1, !.offset = 0, !.total = Null]
    ELSE [c EXCEPT !.offset = offset, !.total = total]

\* fetch_contract_batch: one that finds another total than it expects starts
\* the day again.  Counts before and after the page make it one look at the
\* source; where they differ the run fails.
AcquireBatch ==
    /\ source = "decp" /\ ingest.pc = "acquire" /\ ~DecpComplete(ingest.cursor)
    /\ LET c == ingest.cursor
           found == Found(c.next, c.next)
           rows == Listed(found, OldestFirst(found))
           total == Cardinality(found)
           offset == IF c.total \in {Null, total} THEN c.offset ELSE 0
           next == Smaller(offset + PageSize, total)
       IN  Acquires({rows[i] : i \in (offset + 1)..next},
                    AdvanceDecpBatch(c, next, total))

\* record_ted_search_page
RecordTedSearchPage(c, rows, total) ==
    IF rows = <<>> THEN [c EXCEPT !.more = FALSE, !.complete = TRUE]
    ELSE [c EXCEPT !.pending = rows, !.more = c.page * PageSize < total]

\* advance_ted_notice
AdvanceTedNotice(c) ==
    IF Len(c.pending) > 1 THEN [c EXCEPT !.pending = Tail(@)]
    ELSE IF c.more THEN [c EXCEPT !.page = @ + 1, !.pending = <<>>]
         ELSE [c EXCEPT !.pending = <<>>, !.complete = TRUE]

\* acquire_unit: a search page, newest first, or the next notice of the last.
AcquireUnit ==
    /\ source = "ted" /\ ingest.pc = "acquire" /\ ~ingest.cursor.complete
    /\ LET c == ingest.cursor
           found == Found(c.since, c.until)
           total == Cardinality(found)
           page == SubSeq(Listed(found, NewestFirst(found)), (c.page - 1) * PageSize + 1,
                          Smaller(c.page * PageSize, total))
       IN  IF c.pending = <<>>
           THEN Acquired({}, FALSE, RecordTedSearchPage(c, page, total))
           ELSE Acquired({Head(c.pending)}, FALSE, AdvanceTedNotice(c))

\* pipeline.process, for one publication.
ProcessNotice ==
    /\ ingest.pc = "process"
    /\ \E n \in ingest.batch :
          /\ stored' = stored \union {n}
          /\ ingest' = [ingest EXCEPT !.batch = @ \ {n}]
    /\ UNCHANGED <<source, today, visible, checkpoint, floor, due, promised>>

\* Mutant of WindowEnd: the time of the run that ends the cycle.
WindowEndOfRun(day) == Larger(ingest.previous, ingest.until)

\* decp_checkpoint_high_water, _ted_window_end
WindowEnd(day) == Larger(ingest.previous, day)

CycleOver ==
    CASE source = "window" -> TRUE
      [] source = "decp" -> DecpComplete(ingest.after)
      [] OTHER -> ingest.after.complete

NewEnd ==
    CASE source = "window" -> ingest.until
      [] source = "decp" /\ ingest.after.next # ingest.cursor.next ->
            WindowEnd(ingest.cursor.next)
      [] source = "ted" /\ CycleOver -> WindowEnd(ingest.cursor.until)
      [] OTHER -> checkpoint.end

\* advance_checkpoint or save_checkpoint_cursor, when the unit was processed.
RecordUnit ==
    /\ ingest.pc = "process" /\ ingest.batch = {} /\ ~ingest.broken
    /\ checkpoint' = [end |-> NewEnd,
                      cursor |-> IF source = "window" THEN NoCursor ELSE ingest.after]
    /\ ingest' = IF source = "window" THEN NoIngest
                 ELSE [ingest EXCEPT !.pc = "acquire", !.cursor = ingest.after,
                                     !.after = NoCursor]
    /\ promised' = IF CycleOver THEN due ELSE promised
    /\ UNCHANGED <<source, today, visible, stored, floor, due>>

\* The run ends: its cycle is over, a limit or its time is reached, a unit
\* fails or was fetched in part, it is cancelled, killed or dies.  The
\* checkpoint stays.
RunEnds ==
    /\ ingest.pc # "idle"
    /\ ingest' = NoIngest
    /\ UNCHANGED <<source, today, visible, checkpoint, stored, floor, due, promised>>

IngestionNext ==
    \/ DayPasses \/ NoticeAppears
    \/ StartWindow \/ StartDecp \/ StartTed
    \/ AcquireWindow \/ AcquireBatch \/ AcquireUnit
    \/ ProcessNotice \/ RecordUnit \/ RunEnds

IngestionSpec == IngestionInit /\ [][IngestionNext]_ingestionVars

-----------------------------------------------------------------------------
\* Once a cycle is over, every notice that was public when it was planned is
\* stored, however many runs it took, on however many days, with whatever
\* failing in between and notices appearing late under it: neither offset,
\* page nor checkpoint ever steps over one.
NothingSkipped == promised \subseteq stored
=============================================================================
