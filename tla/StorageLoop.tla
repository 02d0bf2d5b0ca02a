------------------------------ MODULE StorageLoop ------------------------------
(***************************************************************************)
(* What storage_loop (crates/cli/src/tap.rs) makes of the frames it        *)
(* drains: which responses it takes for the answer to a tools/list and     *)
(* hands to the fingerprint store, and which protocol version it records   *)
(* for the session.  It sees frames only in the order their taps reached   *)
(* the channel; StdioRecording and Gateway supply that order.              *)
(***************************************************************************)
EXTENDS Naturals, Sequences, FiniteSets

CONSTANTS
  Ids,         \* request ids, as parse_line turns them into text
  ChannelCap,  \* slots of the storage channel
  TrackCap     \* PendingToolsList::CAP and PendingInitialize::CAP

ASSUME StorageLoopAssumption == ChannelCap \in Nat \ {0} /\ TrackCap \in Nat \ {0}

VARIABLES
  queue,     \* the storage channel
  drained,   \* the tapped frames taken from it, in order
  tools,     \* PendingToolsList: id -> ts of the request
  inits,     \* PendingInitialize: id -> ts of the request, whose proposal it names
  pinned,    \* the frames handed to record_fingerprints that advertise tools
  source,    \* ProtocolSource
  protocol   \* the protocol columns of the session row

loopVars == <<queue, drained, tools, inits, pinned, source, protocol>>

\* A frame is stamped with a ts of its own, which also names the version an
\* initialize proposes or selects and the tools a response advertises.  answers is
\* the ts of the request a response belongs to: the proxy never sees it.
Methods == {"tools/list", "initialize", "call", "none"}
Bodies == {"tools", "version", "plain"}
Frame(dir, method, id, err, body, ts, answers) ==
  [kind |-> "tap", dir |-> dir, method |-> method, id |-> id, err |-> err,
   body |-> body, ts |-> ts, answers |-> answers]
Hint(ts) == [kind |-> "hint", ts |-> ts]

Unknown == [proposed |-> 0, negotiated |-> 0]

LoopInit ==
  /\ queue = <<>> /\ drained = <<>> /\ pinned = <<>>
  /\ tools = [i \in {} |-> 0] /\ inits = [i \in {} |-> 0]
  /\ source = "none" /\ protocol = Unknown

\* try_send: a full channel drops the message.
Send(m) == queue' = IF Len(queue) < ChannelCap THEN Append(queue, m) ELSE queue

-----------------------------------------------------------------------------
(* The two trackers.                                                       *)

Request(f) == f.dir = "c2s" /\ f.method # "none"
Response(f) == f.dir = "s2c" /\ f.method = "none"

Kept(p, I) == [i \in I |-> p[i]]

\* note_request: a new id at capacity evicts an oldest one.
Noted(p, f) ==
  LET full == f.id \notin DOMAIN p /\ Cardinality(DOMAIN p) >= TrackCap
      oldest == {o \in DOMAIN p : \A q \in DOMAIN p : p[o] <= p[q]}
      spared == IF full THEN {DOMAIN p \ {o} : o \in oldest} ELSE {DOMAIN p}
  IN {[i \in I \cup {f.id} |-> IF i = f.id THEN f.ts ELSE p[i]] : I \in spared}

\* Mutated form: any frame from the server consumes the entry of its id.
Retires_AnyS2c(m, f) == (Request(f) /\ f.method # m) \/ f.dir = "s2c"

\* A request of another method reuses the id, or a response uses it up.
Retires(m, f) == (Request(f) /\ f.method # m) \/ Response(f)

\* Mutated form: every request is taken for one of the method tracked.
Opens_Any(m, f) == Request(f)

Opens(m, f) == Request(f) /\ f.method = m

\* The tracker p of the requests of method m, once f is drained.
Tracked(p, m, f) ==
  CASE Opens(m, f) -> Noted(p, f)
    [] ~Opens(m, f) /\ Retires(m, f) -> {Kept(p, DOMAIN p \ {f.id})}
    [] OTHER -> {p}

\* A non-error response takes a tracked id.
Answers(p, f) == Response(f) /\ f.id \in DOMAIN p /\ ~f.err

\* Mutated form: the latest proposal is taken, whatever the id.
Proposed_Latest(p, f) == CHOOSE v \in {p[i] : i \in DOMAIN p} : \A i \in DOMAIN p : p[i] <= v

Proposed(p, f) == p[f.id]

-----------------------------------------------------------------------------

\* Mutated form: a hint is applied as long as no handshake has been.
HintApplies_UntilInitialize == source # "initialize"

\* apply_header_hint.
HintApplies == source = "none"

\* set_session_protocol: a plain UPDATE, whichever source the row had before; the
\* loop's own note of the source follows it.
UpdateSession(s, row) == source' = s /\ protocol' = row

\* It succeeds, or fails and leaves the source as it was.
SetProtocol(s, row) == UpdateSession(s, row) \/ UNCHANGED <<source, protocol>>

HandleTap ==
  /\ queue # <<>> /\ Head(queue).kind = "tap"
  /\ LET f == Head(queue) IN
       /\ drained' = Append(drained, f)
       /\ tools' \in Tracked(tools, "tools/list", f)
       /\ inits' \in Tracked(inits, "initialize", f)
       /\ pinned' = IF Answers(tools, f) /\ f.body = "tools" THEN Append(pinned, f) ELSE pinned
       /\ IF Answers(inits, f) /\ f.body = "version" /\ source # "initialize"
            THEN SetProtocol("initialize",
                             [proposed |-> Proposed(inits, f), negotiated |-> f.ts])
            ELSE UNCHANGED <<source, protocol>>
  /\ queue' = Tail(queue)

HandleHint ==
  /\ queue # <<>> /\ Head(queue).kind = "hint"
  /\ IF HintApplies THEN SetProtocol("header", [proposed |-> 0, negotiated |-> Head(queue).ts])
                    ELSE UNCHANGED <<source, protocol>>
  /\ queue' = Tail(queue)
  /\ UNCHANGED <<drained, tools, inits, pinned>>

-----------------------------------------------------------------------------

Tracker(p) == /\ DOMAIN p \subseteq Ids /\ Cardinality(DOMAIN p) <= TrackCap
              /\ \A i \in DOMAIN p : p[i] \in Nat

\* The channel and both trackers stay within their bounds, whatever is leaked.
TypeOK ==
  /\ Len(queue) <= ChannelCap
  /\ Tracker(tools) /\ Tracker(inits)
  /\ source \in {"none", "header", "initialize"}
  /\ source = "none" <=> protocol = Unknown
  /\ \A k \in DOMAIN pinned : \E j \in DOMAIN drained : pinned[k] = drained[j]

Asked(j, k) == drained[j].ts = drained[k].answers
Advertisement(f) == \E j \in DOMAIN drained :
  drained[j].ts = f.answers /\ drained[j].method = "tools/list"

\* Only tools/list responses are fingerprinted: an ordinary response with a
\* result.tools in it is not taken for an advertisement (PendingToolsList).
OnlyAdvertisementsPinned == \A k \in DOMAIN pinned : Advertisement(pinned[k])

\* A tool advertisement that was drained after its request is fingerprinted, unless
\* so many others were asked for in between that it was evicted.
AdvertisementsPinned ==
  \A j, k \in DOMAIN drained :
    /\ j < k /\ Asked(j, k) /\ drained[j].method = "tools/list"
    /\ drained[k].body = "tools" /\ ~drained[k].err
    => \/ \E l \in DOMAIN pinned : pinned[l] = drained[k]
       \/ Cardinality({i \in j + 1 .. k : Opens("tools/list", drained[i])}) >= TrackCap

\* What is fingerprinted is the advertisements: no other response that looks like one,
\* and each that was asked for, within the bound of the tracker.
PinsAreAdvertisements == OnlyAdvertisementsPinned /\ AdvertisementsPinned

\* storage_loop: a request "is present here by the time the matching response is
\* drained".
RequestsComeFirst ==
  \A k \in DOMAIN drained : Response(drained[k]) => \E j \in 1 .. (k - 1) : Asked(j, k)

\* The session row pairs the proposal and the selection of one handshake.
VersionsPaired ==
  source = "initialize" =>
    \E k \in DOMAIN drained : /\ drained[k].ts = protocol.negotiated
                              /\ drained[k].answers = protocol.proposed

Rank(s) == CASE s = "none" -> 0 [] s = "header" -> 1 [] s = "initialize" -> 2

\* What the session row says of the protocol is replaced by better knowledge only: a
\* late header never undoes a handshake, and each source is written once.
ProtocolOnlyImproves == [][protocol' # protocol => Rank(source') > Rank(source)]_loopVars
=============================================================================
