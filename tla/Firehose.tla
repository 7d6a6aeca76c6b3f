------------------------------ MODULE Firehose ------------------------------
(***************************************************************************)
(* The firehose sequencer of the PDS: the durable event log (repo_seq),    *)
(* the in-memory frontier, the broadcast ring, cursor replay and the       *)
(* retention sweep.                                                        *)
(*                                                                         *)
(* An event is represented by its sequence number.  The emit_lock          *)
(* serialises emissions from the moment a handler takes it until the       *)
(* handler finishes or is dropped, so one record of "the emission that     *)
(* holds the lock" stands for any number of concurrent handlers.           *)
(***************************************************************************)
EXTENDS Naturals, Sequences, FiniteSets

CONSTANTS
  Subs,         \* subscriber connections (WebSocket tasks)
  NoCursor,     \* the absent cursor of a live-only subscription
  Capacity,     \* capacity of the broadcast ring
  Batch,        \* REPLAY_BATCH: rows read per replay page
  RetainCount,  \* log_retention_count, 0 when the policy is disabled
  RetainByAge,  \* whether log_retention_secs is enabled
  MaxSeq,       \* bound: highest sequence number explored
  MaxCancels,   \* bound: handlers dropped between commit and finish
  MaxRestarts   \* bound: process restarts

ASSUME FirehoseAssumption ==
  /\ Capacity \in Nat \ {0}
  /\ Batch \in Nat \ {0}
  /\ RetainCount \in Nat
  /\ RetainByAge \in BOOLEAN
  /\ MaxSeq \in Nat
  /\ MaxCancels \in Nat
  /\ MaxRestarts \in Nat
  /\ NoCursor \notin Nat

VARIABLES
  log,         \* seqs with a committed row in repo_seq
  lastSeq,     \* Firehose.last_seq
  pruneFloor,  \* Firehose.prune_floor
  emit,        \* progress of the emission that holds emit_lock
  kind,        \* how that emission persists: "bare", "single" or "pair"
  rows,        \* the seqs it has inserted, not yet finished
  sent,        \* everything broadcast by this process, in order
  sub,         \* phase of each subscriber connection
  pos,         \* last seq the subscriber was sent (or its cursor)
  upper,       \* replay bound snapshotted by subscribe_from
  after,       \* ReplayReader.after
  first,       \* ReplayReader.first_page
  page,        \* rows of the page being classified
  present,     \* ReplayReader.cursor_present
  done,        \* ReplayReader.done
  queue,       \* replay_queue of handle_socket (drained in seq order)
  rx,          \* index in sent of the next event the receiver yields
  gc,          \* phase of the retention sweep
  gcMax,       \* MAX(seq) the sweep read
  gcMark,      \* the watermark the sweep published
  cancels,     \* handlers dropped so far
  restarts     \* restarts so far

emitVars == <<emit, kind, rows>>
subVars  == <<sub, pos, upper, after, first, page, present, done, queue, rx>>
gcVars   == <<gc, gcMax, gcMark>>
bounds   == <<cancels, restarts>>
vars     == <<log, lastSeq, pruneFloor, sent, emitVars, subVars, gcVars, bounds>>

Seqs == 1..MaxSeq

\* MAX(seq) of the durable log, 0 when it is empty.
MaxOf(S) == IF S = {} THEN 0 ELSE CHOOSE m \in S : \A x \in S : x <= m

max_seq == MaxOf(log)

EmitLockFree == emit = "free"

\* The pool has one connection; an open transaction keeps it.
ConnectionFree == emit # "staged"

-----------------------------------------------------------------------------
Init ==
  /\ log = {} /\ lastSeq = 0 /\ pruneFloor = 0
  /\ emit = "free" /\ kind = "bare" /\ rows = {}
  /\ sent = <<>>
  /\ sub = [s \in Subs |-> "off"]
  /\ pos = [s \in Subs |-> 0]
  /\ upper = [s \in Subs |-> 0]
  /\ after = [s \in Subs |-> 0]
  /\ first = [s \in Subs |-> TRUE]
  /\ page = [s \in Subs |-> {}]
  /\ present = [s \in Subs |-> FALSE]
  /\ done = [s \in Subs |-> TRUE]
  /\ queue = [s \in Subs |-> {}]
  /\ rx = [s \in Subs |-> 1]
  /\ gc = "idle" /\ gcMax = 0 /\ gcMark = 0
  /\ cancels = 0 /\ restarts = 0

-----------------------------------------------------------------------------
(* Emission: emit_commit, emit_account, emit_identity, emit_sync ("bare"), *)
(* stage_commit and stage_account ("single"), either followed by           *)
(* stage_sync ("pair").                                                    *)

\* The handler acquires emit_lock: inside emit_*, or by lock_emit ahead of
\* its own transaction.
LockEmit ==
  /\ EmitLockFree
  /\ emit' = "locked"
  /\ kind' \in {"bare", "single", "pair"}
  /\ rows' = {}
  /\ UNCHANGED <<log, lastSeq, pruneFloor, sent, subVars, gcVars, bounds>>

\* Fault: the next seq is derived from the number of rows.
SeqFromRowCount == Cardinality(log) + 1

\* insert_at_frontier: the seq its row gets, given the rows already durable;
\* on a collision it is re-derived once from MAX(seq).
insert_at_frontier ==
  IF lastSeq + 1 \notin log THEN lastSeq + 1 ELSE max_seq + 1

\* A bare emit inserts its row outside any transaction: durable at once.
InsertBare ==
  /\ emit = "locked" /\ kind = "bare"
  /\ insert_at_frontier \in Seqs
  /\ rows' = {insert_at_frontier}
  /\ log' = log \cup rows'
  /\ emit' = "durable"
  /\ UNCHANGED <<lastSeq, pruneFloor, kind, sent, subVars, gcVars, bounds>>

\* A staged emit inserts into the caller's open transaction; stage_sync
\* takes the next seq and has no healing of its own.
Stage ==
  /\ emit = "locked" /\ kind # "bare"
  /\ LET seq == insert_at_frontier
         new == IF kind = "pair" THEN {seq, seq + 1} ELSE {seq}
     IN  /\ new \subseteq Seqs
         /\ new \cap log = {}
         /\ rows' = new
  /\ emit' = "staged"
  /\ UNCHANGED <<log, lastSeq, pruneFloor, kind, sent, subVars, gcVars, bounds>>

CommitTx ==
  /\ emit = "staged"
  /\ log' = log \cup rows
  /\ emit' = "durable"
  /\ UNCHANGED <<lastSeq, pruneFloor, kind, rows, sent, subVars, gcVars, bounds>>

\* The emission ends before anything is durable; the guard is released.
EmitFails(counter) ==
  /\ emit \in {"locked", "staged"}
  /\ emit' = "free" /\ rows' = {}
  /\ lastSeq' = counter
  /\ UNCHANGED <<log, pruneFloor, kind, sent, subVars, gcVars, bounds>>

\* Fault: an emission that fails has already consumed its number.
AbortConsumesSeq == EmitFails(IF lastSeq < MaxSeq THEN lastSeq + 1 ELSE lastSeq)

\* Before anything is durable the emission may fail (validation, a database
\* error, the duplicate seq of a chained #sync) or its handler be dropped:
\* the transaction rolls back and the counter stays.
AbortEmit == EmitFails(lastSeq)

\* The handler is dropped after its row became durable and before finish.
CancelEmit ==
  /\ emit = "durable"
  /\ cancels < MaxCancels
  /\ cancels' = cancels + 1
  /\ emit' = "free" /\ rows' = {}
  /\ UNCHANGED <<log, lastSeq, pruneFloor, kind, sent, subVars, gcVars, restarts>>

\* finish (or the tail of a bare emit) stores the counter ...
AdvanceCounter ==
  /\ emit = "durable"
  /\ lastSeq' = MaxOf(rows)
  /\ emit' = "advanced"
  /\ UNCHANGED <<log, pruneFloor, kind, rows, sent, subVars, gcVars, bounds>>

\* ... then broadcasts and drops the guard.  There is no await between the
\* two: only a crash separates them.
BroadcastAs(stream) ==
  /\ emit = "advanced"
  /\ sent' = stream
  /\ emit' = "free" /\ rows' = {}
  /\ UNCHANGED <<log, lastSeq, pruneFloor, kind, subVars, gcVars, bounds>>

\* Fault: the #sync is broadcast ahead of the event it follows.
BroadcastSyncFirst ==
  BroadcastAs(IF kind = "pair" THEN Append(Append(sent, lastSeq), lastSeq - 1)
              ELSE Append(sent, lastSeq))

\* Fault: every finish is taken for a pair.
BroadcastAlwaysPair == BroadcastAs(Append(Append(sent, lastSeq - 1), lastSeq))

\* The primary event goes out before its #sync.
Broadcast ==
  BroadcastAs(IF kind = "pair" THEN Append(Append(sent, lastSeq - 1), lastSeq)
              ELSE Append(sent, lastSeq))

-----------------------------------------------------------------------------
(* Subscribers: subscribe_from, ReplayReader and handle_socket.            *)

\* What subscribe_from sets up: a receiver at the end of the broadcast and the
\* frontier as replay bound.  Without a cursor there is nothing to replay.
Attach(s, c) ==
  /\ sub[s] = "off"
  /\ c # NoCursor => c <= lastSeq
  /\ LET from == IF c = NoCursor THEN lastSeq ELSE c
     IN  /\ pos' = [pos EXCEPT ![s] = from]
         /\ after' = [after EXCEPT ![s] = from]
         /\ done' = [done EXCEPT ![s] = (from >= lastSeq)]
  /\ sub' = [sub EXCEPT ![s] = IF c = NoCursor THEN "live" ELSE "replay"]
  /\ upper' = [upper EXCEPT ![s] = lastSeq]
  /\ first' = [first EXCEPT ![s] = TRUE]
  /\ present' = [present EXCEPT ![s] = FALSE]
  /\ rx' = [rx EXCEPT ![s] = Len(sent) + 1]
  /\ UNCHANGED <<log, lastSeq, pruneFloor, sent, emitVars, page, queue, gcVars, bounds>>

\* Fault: the snapshot is taken without emit_lock.
SubscribeUnlocked(s, c) == Attach(s, c)

\* subscribe_from: receiver and frontier are taken together under emit_lock.
Subscribe(s, c) == EmitLockFree /\ Attach(s, c)

\* The first Batch rows with after < seq <= upper.
PageOf(s) ==
  LET range == {q \in log : after[s] < q /\ q <= upper[s]}
  IN  {q \in range : Cardinality({x \in range : x < q}) < Batch}

\* next_batch, first half: the page query.  The first page also projects
\* EXISTS(seq <= cursor) from the same snapshot (false when no row returns).
ReadPage(s) ==
  /\ sub[s] = "replay" /\ ~done[s] /\ queue[s] = {}
  /\ ConnectionFree
  /\ page' = [page EXCEPT ![s] = PageOf(s)]
  /\ present' = [present EXCEPT ![s] =
       IF first[s] THEN PageOf(s) # {} /\ \E q \in log : q <= after[s] ELSE @]
  /\ sub' = [sub EXCEPT ![s] = "paged"]
  /\ UNCHANGED <<log, lastSeq, pruneFloor, sent, emitVars, pos, upper, after, first,
                 done, queue, rx, gcVars, bounds>>

\* The row before q: the previous row of the page, or the reader's position.
Before(s, q) == MaxOf({after[s]} \cup {x \in page[s] : x < q})

\* A gap below q is explained by the prune floor, or, on the reader's very
\* first row, by the cursor lying below everything retained.
GapExplained(s, q) ==
  \/ Before(s, q) < pruneFloor
  \/ first[s] /\ Before(s, q) = after[s] /\ ~present[s]

LastRow(s) == MaxOf({after[s]} \cup page[s])

ShortPage(s) == Cardinality(page[s]) < Batch

PageOk(s) ==
  /\ \A q \in page[s] : q # Before(s, q) + 1 => GapExplained(s, q)
  /\ ShortPage(s) /\ LastRow(s) < upper[s] => pruneFloor > LastRow(s)

\* The classified page is queued for sending.
AcceptPage(s, last) ==
  /\ sub[s] = "paged"
  /\ PageOk(s)
  /\ after' = [after EXCEPT ![s] = LastRow(s)]
  /\ done' = [done EXCEPT ![s] = last]
  /\ queue' = [queue EXCEPT ![s] = page[s]]
  /\ page' = [page EXCEPT ![s] = {}]
  /\ first' = [first EXCEPT ![s] = FALSE]
  /\ sub' = [sub EXCEPT ![s] = "replay"]
  /\ UNCHANGED <<log, lastSeq, pruneFloor, sent, emitVars, pos, upper, present, rx,
                 gcVars, bounds>>

\* Fault: only reaching the frontier ends the replay, a pruned tail does not.
TakePageNoShort(s) == AcceptPage(s, LastRow(s) >= upper[s])

\* next_batch, second half: the floor is read after the page and every row
\* classified; a page that is short or reaches the frontier is the last one.
TakePage(s) == AcceptPage(s, LastRow(s) >= upper[s] \/ ShortPage(s))

\* The connection's task returns; the reader, queue and receiver are dropped.
HangUp(s) ==
  /\ sub' = [sub EXCEPT ![s] = "off"]
  /\ upper' = [upper EXCEPT ![s] = 0]
  /\ after' = [after EXCEPT ![s] = 0]
  /\ first' = [first EXCEPT ![s] = TRUE]
  /\ page' = [page EXCEPT ![s] = {}]
  /\ present' = [present EXCEPT ![s] = FALSE]
  /\ done' = [done EXCEPT ![s] = TRUE]
  /\ queue' = [queue EXCEPT ![s] = {}]
  /\ rx' = [rx EXCEPT ![s] = 1]
  /\ UNCHANGED <<log, lastSeq, pruneFloor, sent, emitVars, pos, gcVars, bounds>>

\* next_batch returns an error: the handler fails closed.
FailClosed(s) ==
  /\ sub[s] = "paged"
  /\ ~PageOk(s)
  /\ HangUp(s)

\* handle_socket pops the replay queue, oldest first.
SendReplayed(s) ==
  /\ sub[s] = "replay" /\ queue[s] # {}
  /\ \E q \in queue[s] :
       /\ \A x \in queue[s] : q <= x
       /\ pos' = [pos EXCEPT ![s] = q]
       /\ queue' = [queue EXCEPT ![s] = @ \ {q}]
  /\ UNCHANGED <<log, lastSeq, pruneFloor, sent, emitVars, sub, upper, after, first,
                 page, present, done, rx, gcVars, bounds>>

\* Fault: the live receiver is attached only when replay has ended.
GoLiveLateReceiver(s) ==
  /\ sub[s] = "replay" /\ done[s] /\ queue[s] = {}
  /\ sub' = [sub EXCEPT ![s] = "live"]
  /\ rx' = [rx EXCEPT ![s] = Len(sent) + 1]
  /\ UNCHANGED <<log, lastSeq, pruneFloor, sent, emitVars, pos, upper, after, first,
                 page, present, done, queue, gcVars, bounds>>

\* An empty batch ends replay and enables the live branch.
GoLive(s) ==
  /\ sub[s] = "replay" /\ done[s] /\ queue[s] = {}
  /\ sub' = [sub EXCEPT ![s] = "live"]
  /\ UNCHANGED <<log, lastSeq, pruneFloor, sent, emitVars, pos, upper, after, first,
                 page, present, done, queue, rx, gcVars, bounds>>

\* The ring kept only the newest Capacity events.
HasLagged(s) == Len(sent) + 1 - rx[s] > Capacity

\* Fault: a lagged receiver carries on from the oldest event still in the ring.
RecvIgnoringLag(s) ==
  /\ sub[s] = "live"
  /\ rx[s] <= Len(sent)
  /\ LET i == IF HasLagged(s) THEN Len(sent) + 1 - Capacity ELSE rx[s]
     IN  /\ pos' = [pos EXCEPT ![s] = sent[i]]
         /\ rx' = [rx EXCEPT ![s] = i + 1]
  /\ UNCHANGED <<log, lastSeq, pruneFloor, sent, emitVars, sub, upper, after, first,
                 page, present, done, queue, gcVars, bounds>>

RecvLive(s) ==
  /\ sub[s] = "live"
  /\ rx[s] <= Len(sent) /\ ~HasLagged(s)
  /\ pos' = [pos EXCEPT ![s] = sent[rx[s]]]
  /\ rx' = [rx EXCEPT ![s] = @ + 1]
  /\ UNCHANGED <<log, lastSeq, pruneFloor, sent, emitVars, sub, upper, after, first,
                 page, present, done, queue, gcVars, bounds>>

\* RecvError::Lagged: ConsumerTooSlow, close.
Lagged(s) == sub[s] = "live" /\ HasLagged(s) /\ HangUp(s)

\* The peer closes, a send fails or times out, a page query fails.
Disconnect(s) == sub[s] # "off" /\ HangUp(s)

-----------------------------------------------------------------------------
(* Retention sweep (firehose_gc).                                          *)

GcEnabled == RetainCount > 0 \/ RetainByAge

GcReadMax ==
  /\ gc = "idle" /\ GcEnabled /\ ConnectionFree
  /\ max_seq > 0
  /\ gcMax' = max_seq
  /\ gc' = "sized"
  /\ UNCHANGED <<log, lastSeq, pruneFloor, sent, emitVars, subVars, gcMark, bounds>>

\* Age contribution: just below the first row young enough, or everything.
\* Which rows are young enough is up to the clock.
AgeMarks ==
  IF RetainByAge THEN {q - 1 : q \in log} \cup {gcMax} ELSE {0}

CountMark == IF RetainCount > 0 /\ gcMax > RetainCount THEN gcMax - RetainCount ELSE 0

\* Fault: the row that is MAX(seq) is prunable.
WatermarkUnclamped(age) ==
  LET mark == IF age > CountMark THEN age ELSE CountMark
  IN  IF mark < gcMax THEN mark ELSE gcMax

\* The most aggressive policy wins, clamped below the row that is MAX(seq).
Watermark(age) ==
  LET mark == IF age > CountMark THEN age ELSE CountMark
  IN  IF mark < gcMax - 1 THEN mark ELSE gcMax - 1

\* The pass fixes its watermark; 0 means there is nothing to prune.
GcMarkWith(publish) ==
  /\ gc = "sized" /\ ConnectionFree
  /\ \E age \in AgeMarks :
       /\ gcMark' = Watermark(age)
       /\ gc' = IF gcMark' = 0 THEN "idle" ELSE "marked"
       /\ gcMax' = IF gcMark' = 0 THEN 0 ELSE gcMax
       /\ pruneFloor' = IF publish /\ gcMark' > pruneFloor THEN gcMark' ELSE pruneFloor
  /\ UNCHANGED <<log, lastSeq, sent, emitVars, subVars, bounds>>

\* Fault: the floor is not published ahead of the DELETE.
GcPublishNoFloor == GcMarkWith(FALSE)

\* note_pruned: the floor is published before the DELETE is issued.
GcPublish == GcMarkWith(TRUE)

\* prune_below.
GcDelete ==
  /\ gc = "marked" /\ ConnectionFree
  /\ log' = {q \in log : q > gcMark}
  /\ gc' = "idle" /\ gcMax' = 0 /\ gcMark' = 0
  /\ UNCHANGED <<lastSeq, pruneFloor, sent, emitVars, subVars, bounds>>

\* A statement of the pass fails: the pass ends where it is.
GcFail ==
  /\ gc # "idle"
  /\ gc' = "idle" /\ gcMax' = 0 /\ gcMark' = 0
  /\ UNCHANGED <<log, lastSeq, pruneFloor, sent, emitVars, subVars, bounds>>

-----------------------------------------------------------------------------
\* The process dies and boots again: an open transaction rolls back and every
\* connection closes.
Reboot(seed) ==
  /\ restarts < MaxRestarts
  /\ restarts' = restarts + 1
  /\ lastSeq' = seed
  /\ pruneFloor' = 0
  /\ sent' = <<>>
  /\ emit' = "free" /\ rows' = {}
  /\ sub' = [s \in Subs |-> "off"]
  /\ upper' = [s \in Subs |-> 0]
  /\ after' = [s \in Subs |-> 0]
  /\ first' = [s \in Subs |-> TRUE]
  /\ page' = [s \in Subs |-> {}]
  /\ present' = [s \in Subs |-> FALSE]
  /\ done' = [s \in Subs |-> TRUE]
  /\ queue' = [s \in Subs |-> {}]
  /\ rx' = [s \in Subs |-> 1]
  /\ gc' = "idle" /\ gcMax' = 0 /\ gcMark' = 0
  /\ UNCHANGED <<log, kind, pos, cancels>>

\* Fault: the counter is seeded from the number of rows.
RestartFromCount == Reboot(Cardinality(log))

\* with_capacity seeds the counter from the log.
Restart == Reboot(max_seq)

-----------------------------------------------------------------------------
Emission == InsertBare \/ Stage \/ CommitTx \/ AdvanceCounter \/ Broadcast

\* What handle_socket does by itself, without waiting for a peer or a clock.
Serve(s) ==
  \/ ReadPage(s) \/ TakePage(s) \/ FailClosed(s) \/ SendReplayed(s)
  \/ GoLive(s) \/ RecvLive(s) \/ Lagged(s)

Sweep == GcReadMax \/ GcPublish \/ GcDelete \/ GcFail

Next ==
  \/ LockEmit \/ Emission \/ AbortEmit \/ CancelEmit
  \/ \E s \in Subs, c \in 0..MaxSeq \cup {NoCursor} : Subscribe(s, c)
  \/ \E s \in Subs : Serve(s) \/ Disconnect(s)
  \/ Sweep
  \/ Restart

Spec == Init /\ [][Next]_vars

\* The socket task is driven by the runtime and each of its sends is bounded
\* by READ_TIMEOUT; a handler that holds emit_lock is driven to its end.  The
\* pool queues those who wait for its connection first come first served, so a
\* page query that finds it free again and again is served: strong fairness.
Fairness ==
  /\ \A s \in Subs : WF_vars(Serve(s)) /\ SF_vars(ReadPage(s))
  /\ WF_vars(Emission \/ AbortEmit)

FairSpec == Spec /\ Fairness
-----------------------------------------------------------------------------
(* Properties.                                                             *)

\* Types; sequence numbers never pass MaxSeq.
TypeOK ==
  /\ log \subseteq Seqs
  /\ lastSeq \in 0..MaxSeq /\ pruneFloor \in 0..MaxSeq
  /\ emit \in {"free", "locked", "staged", "durable", "advanced"}
  /\ kind \in {"bare", "single", "pair"}
  /\ rows \subseteq Seqs
  /\ sent \in Seq(Seqs)
  /\ sub \in [Subs -> {"off", "replay", "paged", "live"}]
  /\ pos \in [Subs -> 0..MaxSeq] /\ upper \in [Subs -> 0..MaxSeq]
  /\ after \in [Subs -> 0..MaxSeq]
  /\ first \in [Subs -> BOOLEAN] /\ present \in [Subs -> BOOLEAN]
  /\ done \in [Subs -> BOOLEAN]
  /\ page \in [Subs -> SUBSET Seqs] /\ queue \in [Subs -> SUBSET Seqs]
  /\ rx \in [Subs -> Nat \ {0}]
  /\ gc \in {"idle", "sized", "marked"}
  /\ gcMax \in 0..MaxSeq /\ gcMark \in 0..MaxSeq
  /\ cancels \in 0..MaxCancels /\ restarts \in 0..MaxRestarts

\* The counter never runs ahead of the log: neither a dropped handler, a
\* crash, nor a sweep leaves last_seq above MAX(seq), so what boots from
\* MAX(seq) never re-issues a number that a subscriber may hold.
DurableFrontier == lastSeq <= max_seq

\* A consumer that comes back with the last seq it was sent, to this process
\* or to the next one, is never refused as FutureCursor.
ResumeAccepted == \A s \in Subs : pos[s] <= lastSeq

\* What a connection still has to deliver, from its replay page, its queue or
\* the ring, lies strictly above what it has delivered: replay and the live
\* stream neither repeat nor reorder an event.
NoDuplicate ==
  \A s \in Subs : sub[s] # "off" =>
    /\ \A q \in queue[s] \cup page[s] : pos[s] < q
    /\ \A i \in rx[s]..Len(sent) : pos[s] < sent[i]
    /\ \A q \in queue[s] \cup page[s], i \in rx[s]..Len(sent) : q < sent[i]

\* The broadcast order is the sequence order.
SentInOrder == \A i, j \in DOMAIN sent : i < j => sent[i] < sent[j]

Skips(s, x) == sub[s] # "off" /\ pos[s] < x /\ x < pos'[s]

\* A connection never moves past a retained row that this process broadcast;
\* during replay it moves past no retained row at all.
NoBroadcastSkipped ==
  [][\A s \in Subs, x \in log :
       Skips(s, x) => sub[s] = "live" /\ \A i \in DOMAIN sent : sent[i] # x]_vars

\* "No gap": a connection never moves past a retained row.
NoGap == [][\A s \in Subs, x \in log : ~Skips(s, x)]_vars

\* A sweep leaves no hole: the retained rows are an interval.
RetainedDense == \A x, y \in log : \A q \in x..y : q \in log

\* A row is never inserted at a number the sweep already declared pruned.
NoReuse == [][\A q \in log' \ log : pruneFloor < q]_vars

\* Every page a reader classifies is explained by the rows and the floor:
\* replay never fails closed because a sweep ran beside it.
ReplayNeverFails == \A s \in Subs : sub[s] = "paged" => PageOk(s)

\* An event that was broadcast while a subscriber is connected reaches it,
\* unless the connection ends.
EventuallyDelivered ==
  \A s \in Subs, q \in Seqs :
    (sub[s] # "off" /\ \E i \in DOMAIN sent : rx[s] <= i /\ sent[i] = q)
      ~> (pos[s] >= q \/ sub[s] = "off")

Feed == INSTANCE EventFeed
          WITH Consumers <- Subs, durable <- log, frontier <- lastSeq, at <- pos,
               open <- [s \in Subs |-> sub[s] # "off"]

\* The sequencer implements the feed: numbers are announced only when the log
\* covers them, a number is not stored below what was announced, retention
\* takes the oldest, and each consumer is sent increasing numbers, whatever
\* handlers, sweeps and restarts do.
ImplementsFeed == Feed!Spec
=============================================================================
