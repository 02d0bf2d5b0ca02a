---------------------------- MODULE SessionReads ----------------------------
(***************************************************************************)
(* What is read back of a session while it is being recorded: the pages of *)
(* its messages and events, the export bundle, the latency of a request    *)
(* and the tool catalog (crates/storage/src/lib.rs, crates/dashboard).     *)
(*                                                                         *)
(* The rows of messages are the frames StdioRecording's storage thread has *)
(* drained, in its order, which is not the order of their time stamps.     *)
(* Each statement of a read sees what is committed by then; between two of *)
(* them the thread inserts more, or another process deletes the session.   *)
(***************************************************************************)
EXTENDS StdioRecording, SequencesExt

CONSTANTS
  Jobs,       \* what the reader may be asked for
  PageSize,   \* rows the client asks for at a time
  MaxLimit,   \* MAX_LIMIT: rows the API returns at most
  MaxEvents,  \* bound: rows of each event table
  Deletable   \* TRUE: another process may delete the session

\* A list of a table, of one direction or any, or the export of the session.
\* A client that asked for more than the API returns would step over rows.
ASSUME SessionReadsAssumption ==
  /\ Jobs \subseteq [kind : {"list"}, of : {"messages", "security", "inject"},
                     dir : {"any", "c2s", "s2c"}] \cup [kind : {"export"}]
  /\ MaxLimit \in Nat \ {0} /\ PageSize \in 1..MaxLimit
  /\ MaxEvents \in Nat /\ Deletable \in BOOLEAN

VARIABLES
  exists,    \* the session has its row
  messages,  \* every row its thread inserted
  events,    \* the same of the two event tables
  reader     \* the reader: its job, how far it is, what it holds

readVars == <<exists, messages, events, reader>>
allVars == <<vars, readVars>>

Smaller(a, b) == IF a < b THEN a ELSE b

\* What a SELECT finds: the rows went with the session.
Committed(rows) == IF exists THEN rows ELSE <<>>

-----------------------------------------------------------------------------
(* Lists: build_where, and the statements over the three tables.           *)

Matching(rows, dir) ==
  LET upTo[n \in 0 .. Len(rows)] ==
        IF n = 0 THEN <<>>
        ELSE IF rows[n].dir = dir THEN Append(upTo[n - 1], rows[n])
        ELSE upTo[n - 1]
  IN  IF dir = "any" THEN rows ELSE upTo[Len(rows)]

\* Mutant: ORDER BY ts_ms.
Messages_ByTime(dir) == SortSeq(Matching(Committed(messages), dir), LAMBDA a, b : a.ts < b.ts)
\* ORDER BY id.
Messages(dir) == Matching(Committed(messages), dir)
SecurityEvents == Committed(events.security)
InjectEvents == Committed(events.inject)

Listed(job) == CASE job.of = "messages" -> Messages(job.dir)
                 [] job.of = "security" -> SecurityEvents
                 [] job.of = "inject"   -> InjectEvents

Limit == Smaller(PageSize, MaxLimit)
Page(rows, offset) == SubSeq(rows, offset + 1, Smaller(offset + Limit, Len(rows)))

Idle == [job |-> [kind |-> "none"], at |-> "idle", before |-> 0, total |-> 0,
         offset |-> 0, got |-> <<>>]

StartList(job) ==
  /\ reader.at = "idle" /\ job.kind = "list"
  /\ reader' = [Idle EXCEPT !.job = job, !.at = "count", !.before = Len(Listed(job))]
  /\ UNCHANGED <<vars, exists, messages, events>>

\* Mutant: the count is of the page.
CountRows_OfPage ==
  /\ reader.at = "count"
  /\ reader' = [reader EXCEPT !.at = "page", !.total = Len(Page(Listed(reader.job), reader.offset))]
  /\ UNCHANGED <<vars, exists, messages, events>>
CountRows ==
  /\ reader.at = "count"
  /\ reader' = [reader EXCEPT !.at = "page", !.total = Len(Listed(reader.job))]
  /\ UNCHANGED <<vars, exists, messages, events>>

\* The next button is there as long as the total promises more (Pagination).
CanNext == reader.offset + PageSize < reader.total

ReadPage ==
  /\ reader.at = "page"
  /\ reader' = [reader EXCEPT !.at = IF CanNext THEN "count" ELSE "done",
                              !.offset = IF CanNext THEN @ + PageSize ELSE @,
                              !.got = @ \o Page(Listed(reader.job), reader.offset)]
  /\ UNCHANGED <<vars, exists, messages, events>>

-----------------------------------------------------------------------------
(* build_export_bundle: the session row with its count, then all rows.     *)

StartExport(job) ==
  /\ reader.at = "idle" /\ job.kind = "export"
  /\ reader' = [Idle EXCEPT !.job = job, !.at = IF exists THEN "export" ELSE "missing",
                            !.before = Len(Messages("any"))]
  /\ UNCHANGED <<vars, exists, messages, events>>

ExportMessages ==
  /\ reader.at = "export"
  /\ reader' = [reader EXCEPT !.at = "done", !.got = Messages("any")]
  /\ UNCHANGED <<vars, exists, messages, events>>

-----------------------------------------------------------------------------
(* Writers.                                                                *)

\* The storage thread inserts the frame it drains; without the session's row the
\* insert is refused, and the thread goes on.
Insert ==
  /\ Drain
  /\ messages' = IF exists THEN Append(messages, Head(queue)) ELSE messages
  /\ UNCHANGED <<exists, events, reader>>

InsertEvent(table) ==
  /\ exists /\ Len(events[table]) < MaxEvents
  /\ events' = [events EXCEPT ![table] = Append(@, Len(@) + 1)]
  /\ UNCHANGED <<vars, exists, messages, reader>>

DeleteSession ==
  /\ Deletable /\ exists /\ exists' = FALSE
  /\ UNCHANGED <<vars, messages, events, reader>>

ReadsInit ==
  /\ Init /\ exists = TRUE /\ messages = <<>>
  /\ events = [security |-> <<>>, inject |-> <<>>] /\ reader = Idle

ReadsNext ==
  \/ (Pump /\ UNCHANGED readVars)
  \/ Insert \/ InsertEvent("security") \/ InsertEvent("inject") \/ DeleteSession
  \/ \E job \in Jobs : StartList(job) \/ StartExport(job)
  \/ CountRows \/ ReadPage \/ ExportMessages

ReadsSpec == ReadsInit /\ [][ReadsNext]_allVars

-----------------------------------------------------------------------------
(* Reads that pair a request with its response.                            *)

rows == Messages("any")
Requests == {j \in DOMAIN rows : Request(rows[j])}

\* The earliest of a set of rows, 0 of none.
Earliest(K) ==
  IF K = {} THEN 0
  ELSE CHOOSE k \in K : \A l \in K : rows[k].ts < rows[l].ts \/ (rows[k].ts = rows[l].ts /\ k <= l)

\* Mutant: the first frame recorded after the request.
Paired_ByRow(j) ==
  Earliest({k \in DOMAIN rows : rows[k].dir = "s2c" /\ rows[k].id = rows[j].id /\ k > j})
\* stats: the frame the latency of request j is taken to.
Paired(j) ==
  Earliest({k \in DOMAIN rows : rows[k].dir = "s2c" /\ rows[k].id = rows[j].id
                                /\ rows[k].ts >= rows[j].ts})

\* latest_tools_list_raw: the latest request, and the response it takes for the
\* catalog.
LatestRequest ==
  LET J == {j \in Requests : rows[j].method = "tools/list"}
  IN  IF J = {} THEN 0 ELSE CHOOSE j \in J : \A i \in J : i <= j
\* Mutant: stats' rule, without method IS NULL and is_error = 0.
Catalog_AsStats == IF LatestRequest = 0 THEN 0 ELSE Paired(LatestRequest)
Catalog ==
  IF LatestRequest = 0 THEN 0
  ELSE LET j == LatestRequest
       IN  Earliest({k \in DOMAIN rows : Response(rows[k]) /\ ~rows[k].err
                       /\ rows[k].id = rows[j].id /\ rows[k].ts >= rows[j].ts})

-----------------------------------------------------------------------------
(* Properties.                                                             *)

Job == reader.job
Recorded == IF Job.kind = "export" THEN messages
            ELSE IF Job.of = "messages" THEN Matching(messages, Job.dir)
            ELSE events[Job.of]

\* Pages read one after the other while the session grows, or goes away, put
\* together what was recorded: no row skipped, none twice, none out of order.
ReadsArePrefixes == reader.job.kind # "none" => IsPrefix(reader.got, Recorded)

\* Who pages until the next button is gone, or exports, has every row that was
\* there when it began, as long as the session still is.
NothingMissed ==
  reader.at = "done" /\ exists => Len(reader.got) >= reader.before

\* Who reads a session while it is recorded or deleted reads a part of it from its
\* beginning, and all of it if he reads to the end.
PagesTileTheSession == ReadsArePrefixes /\ NothingMissed

\* The bundle of a session that was found has the messages it counts ("the full
\* session", export_session).
BundleIsFull ==
  reader.at = "done" /\ Job.kind = "export" => Len(reader.got) >= reader.before

AnswerTo(j) == Earliest({k \in DOMAIN rows : rows[k].answers = rows[j].ts})

\* With ids used once a latency is that of the request's own answer, however
\* the taps of the two were ordered, and is there once both are on record: unless
\* the server has used the id for a request of its own.
LatencyIsOfTheAnswer ==
  \A j \in Requests :
    (\A k \in DOMAIN rows : rows[k].dir = "s2c" /\ rows[k].id = rows[j].id => Response(rows[k]))
    => Paired(j) = AnswerTo(j)

\* The context report reads the answer to the latest tools/list on record, and
\* none other: no error, no request of the server's, no older catalog.
CatalogIsTheLatest ==
  LatestRequest # 0 =>
    LET k == AnswerTo(LatestRequest)
    IN  Catalog = IF k # 0 /\ ~rows[k].err THEN k ELSE 0

\* The two reads that join a request with its answer join the right rows, whatever
\* order the taps were recorded in: latencies and the context report agree.
AnswersAreMatched == LatencyIsOfTheAnswer /\ CatalogIsTheLatest

\* latest_tools_list_raw: "the same request/response pairing rule stats uses".
OnePairingRule ==
  Catalog # 0 => Paired(LatestRequest) = Catalog
=============================================================================
