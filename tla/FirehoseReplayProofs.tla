------------------------ MODULE FirehoseReplayProofs ------------------------
(***************************************************************************)
(* What a subscriber of the firehose is sent: for any number of            *)
(* subscribers, any ring and page size and any retention policy.  A        *)
(* connection never moves past a retained row that was broadcast, whatever *)
(* handlers are dropped.  The log has no hole, no number is issued twice   *)
(* and no replay fails because of a sweep, as long as no sweep prunes what *)
(* a dropped handler left.  When no handler is dropped that is so, and     *)
(* nothing retained is ever skipped.                                       *)
(***************************************************************************)
EXTENDS FirehoseProofs, FiniteSetTheorems

USE FirehoseAssumption DEF Seqs

-----------------------------------------------------------------------------
(* The page query.                                                         *)

\* A page holds rows of its range, the oldest ones, and all of them when short.
LEMMA PageFacts ==
  ASSUME log \subseteq Seqs, NEW s \in Subs, after[s] \in Nat, upper[s] \in Nat
  PROVE  /\ \A q \in PageOf(s) : q \in log /\ after[s] < q /\ q <= upper[s]
         /\ \A x \in log, q \in PageOf(s) : after[s] < x /\ x <= q => x \in PageOf(s)
         /\ Cardinality(PageOf(s)) < Batch =>
              \A x \in log : after[s] < x /\ x <= upper[s] => x \in PageOf(s)
<1> DEFINE R == {q \in log : after[s] < q /\ q <= upper[s]}
           Below(q) == {x \in R : x < q}
           P == {q \in R : Cardinality(Below(q)) < Batch}
<1>1. PageOf(s) = P
  BY DEF PageOf
<1>2. IsFiniteSet(Seqs)
  BY FS_Interval
<1>3. R \subseteq Nat /\ IsFiniteSet(R) /\ \A q \in R : Below(q) \subseteq R
  <2>1. R \subseteq log /\ R \subseteq Seqs /\ R \subseteq Nat
    <3>1. R \subseteq log
      OBVIOUS
    <3>2. log \subseteq Nat
      OBVIOUS
    <3> HIDE DEF R
    <3> QED BY <3>1, <3>2
  <2>2. \A q \in R : Below(q) \subseteq R
    OBVIOUS
  <2>3. IsFiniteSet(R)
    <3> HIDE DEF R
    <3> QED BY ONLY <2>1, <1>2, FS_Subset
  <2> QED BY <2>1, <2>2, <2>3
<1>4. IsFiniteSet(P)
  BY <1>3, FS_Subset
<1>5. \A q \in R : IsFiniteSet(Below(q)) /\ Cardinality(Below(q)) \in Nat
  <2> SUFFICES ASSUME NEW q \in R PROVE IsFiniteSet(Below(q)) /\ Cardinality(Below(q)) \in Nat
    OBVIOUS
  <2>1. Below(q) \subseteq R
    OBVIOUS
  <2> HIDE DEF R, Below
  <2>2. IsFiniteSet(Below(q))
    BY <2>1, <1>3, FS_Subset
  <2> QED BY <2>2, FS_CardinalityType
<1>6. ASSUME NEW x \in R, NEW q \in P, x <= q PROVE x \in P
  <2>1. Below(x) \subseteq Below(q)
    BY <1>3, <1>6
  <2>2. Cardinality(Below(x)) <= Cardinality(Below(q))
    <3>1. IsFiniteSet(Below(q))
      BY <1>5
    <3> HIDE DEF Below, P, R
    <3> QED BY <2>1, <3>1, FS_Subset
  <2>3. Cardinality(Below(q)) < Batch
    OBVIOUS
  <2>4. Cardinality(Below(x)) \in Nat /\ Cardinality(Below(q)) \in Nat
    BY <1>5
  <2>5. Cardinality(Below(x)) < Batch
    <3> HIDE DEF Below, P, R
    <3> QED BY <2>2, <2>3, <2>4
  <2> QED BY <2>5
<1>7. ASSUME Cardinality(P) < Batch PROVE R \subseteq P
  <2> SUFFICES ASSUME R \ P # {} PROVE FALSE
    OBVIOUS
  <2>1. PICK m \in R \ P : \A y \in R \ P : m <= y
    <3>1. R \ P \subseteq Nat
      BY <1>3
    <3> HIDE DEF R, P
    <3> QED BY <3>1, NatMin
  <2>2. Below(m) \subseteq P
    BY <1>3, <2>1
  <2>3. Cardinality(Below(m)) <= Cardinality(P)
    <3> HIDE DEF Below, P, R
    <3> QED BY <2>2, <1>4, FS_Subset
  <2>4. ~(Cardinality(Below(m)) < Batch)
    BY <2>1
  <2>5. Cardinality(Below(m)) \in Nat /\ Cardinality(P) \in Nat
    <3>1. Cardinality(Below(m)) \in Nat
      BY <1>5
    <3> HIDE DEF Below, P, R
    <3> QED BY <3>1, <1>4, FS_CardinalityType
  <2> HIDE DEF Below, P, R
  <2> QED BY <1>7, <2>3, <2>4, <2>5
<1>8. \A x : x \in R <=> x \in log /\ after[s] < x /\ x <= upper[s]
  OBVIOUS
<1>9. P \subseteq R
  OBVIOUS
<1>10. \A x \in log, q \in P : after[s] < x /\ x <= q => x \in R
  <2> SUFFICES ASSUME NEW x \in log, NEW q \in P, after[s] < x, x <= q PROVE x \in R
    OBVIOUS
  <2>1. q \in Nat /\ q <= upper[s] /\ x \in Nat
    <3>1. q \in R
      BY <1>9
    <3>2. log \subseteq Nat
      OBVIOUS
    <3> QED BY <3>1, <3>2
  <2>2. x <= upper[s]
    <3> HIDE DEF P, R
    <3> QED BY <2>1
  <2> QED BY <2>2
<1> HIDE DEF P, R, Below
<1> QED BY <1>1, <1>6, <1>7, <1>8, <1>9, <1>10

-----------------------------------------------------------------------------
(* Replay and the live stream leave nothing broadcast behind.              *)

\* What a connection has passed: during replay every retained row up to its
\* reader's position is sent or queued, the page holds all rows up to its
\* last, and the receiver's start is covered by the replay bound; once live,
\* what the receiver has passed was sent.
Follows(s) ==
  /\ sub[s] # "off" => rx[s] <= Len(sent) + 1
  /\ sub[s] \in {"replay", "paged"} =>
       /\ \A x \in log : pos[s] < x /\ x <= after[s] => x \in queue[s]
       /\ done[s] => \A x \in log : x <= after[s] \/ upper[s] < x
       /\ \A i \in DOMAIN sent : i < rx[s] => sent[i] <= upper[s]
  /\ sub[s] = "paged" =>
       \A x \in log : after[s] < x /\ x <= upper[s] /\ (x <= LastRow(s) \/ ShortPage(s))
                        => x \in page[s]
  /\ sub[s] = "live" =>
       \A i \in DOMAIN sent : i < rx[s] /\ sent[i] \in log => sent[i] <= pos[s]

FollowInv == \A s \in Subs : Follows(s)

\* The connection s does not take part in the step.
SameConn(s) ==
  /\ sub'[s] = sub[s] /\ pos'[s] = pos[s] /\ upper'[s] = upper[s] /\ after'[s] = after[s]
  /\ first'[s] = first[s] /\ page'[s] = page[s] /\ present'[s] = present[s]
  /\ done'[s] = done[s] /\ queue'[s] = queue[s] /\ rx'[s] = rx[s]

\* Rows are added above the counter, and the stream is only extended.
Grows ==
  /\ log' \subseteq Seqs /\ \A x \in log' \ log : lastSeq < x
  /\ sent' \in Seq(Seqs) /\ Len(sent) <= Len(sent')
  /\ \A i \in 1..Len(sent) : sent'[i] = sent[i]

\* What the rest of the process does leaves a connection's record true.
LEMMA OthersFollow ==
  ASSUME IInv, NEW s \in Subs, Follows(s), SameConn(s), Grows
  PROVE  Follows(s)'
<1> USE DEF IInv, SameConn, Grows
<1>0. /\ log \subseteq Nat /\ upper[s] \in Nat /\ after[s] \in Nat /\ pos[s] \in Nat
      /\ rx[s] \in Nat /\ lastSeq \in Nat /\ Len(sent) \in Nat /\ Len(sent') \in Nat
      /\ DOMAIN sent = 1..Len(sent) /\ DOMAIN sent' = 1..Len(sent')
      /\ sent \in Seq(Seqs)
  BY DEF TypeOK
<1>1. pos[s] <= lastSeq /\ upper[s] <= lastSeq
  BY DEF SubInv
<1>2. sub[s] \in {"replay", "paged"} => after[s] <= lastSeq
  BY <1>0, <1>1 DEF SubInv
<1>3. LastRow(s)' = LastRow(s) /\ (ShortPage(s)' <=> ShortPage(s))
  BY DEF LastRow, ShortPage
<1>4. ASSUME sub[s] # "off" PROVE rx[s] <= Len(sent') + 1
  BY <1>0, <1>4 DEF Follows
<1>5. ASSUME sub[s] \in {"replay", "paged"}
      PROVE  /\ \A x \in log' : pos[s] < x /\ x <= after[s] => x \in queue[s]
             /\ done[s] => \A x \in log' : x <= after[s] \/ upper[s] < x
  <2>1. \A x \in log' \ log : upper[s] < x /\ ~(x <= after[s])
    <3> SUFFICES ASSUME NEW x \in log' \ log PROVE upper[s] < x /\ ~(x <= after[s])
      OBVIOUS
    <3>1. lastSeq < x
      OBVIOUS
    <3>2. x \in Nat
      OBVIOUS
    <3> QED BY ONLY <1>0, <1>1, <1>2, <1>5, <3>1, <3>2
  <2> QED BY <1>5, <2>1 DEF Follows
<1>6. ASSUME sub[s] # "off", NEW i \in DOMAIN sent', i < rx[s]
      PROVE  i \in DOMAIN sent /\ sent'[i] = sent[i]
  BY <1>0, <1>6 DEF Follows
<1>7. ASSUME sub[s] = "paged", NEW x \in log', after[s] < x, x <= upper[s],
             x <= LastRow(s) \/ ShortPage(s)
      PROVE  x \in page[s]
  <2>1. x \in log
    <3>1. log' \subseteq Nat /\ \A y \in log' \ log : lastSeq < y
      OBVIOUS
    <3> QED BY ONLY <1>0, <1>1, <1>7, <3>1
  <2> QED BY <1>7, <2>1 DEF Follows
<1>8. ASSUME sub[s] = "live", NEW i \in DOMAIN sent', i < rx[s], sent'[i] \in log'
      PROVE  sent'[i] <= pos[s]
  <2>1. i \in DOMAIN sent /\ sent'[i] = sent[i] /\ sent[i] \in Nat
    BY <1>0, <1>6, <1>8
  <2>2. sent[i] <= lastSeq
    BY <2>1 DEF SentInv
  <2>3. sent[i] \in log
    BY <1>0, <1>8, <2>1, <2>2
  <2> QED BY <1>8, <2>1, <2>3 DEF Follows
<1> QED BY <1>3, <1>4, <1>5, <1>6, <1>7, <1>8 DEF Follows

\* The broadcast appends the rows of the emission, which were in flight.
LEMMA BroadcastAppends ==
  ASSUME IInv, Broadcast
  PROVE  /\ Grows /\ log' = log
         /\ \A x \in rows : \E i \in Len(sent) + 1..Len(sent') : sent'[i] = x
<1>1. PICK n \in Seqs : RowsAt(n)
  BY DEF Broadcast, BroadcastAs, IInv, EmitInv, Holding
<1>2. /\ sent \in Seq(Seqs) /\ Len(sent) \in Nat /\ rows \subseteq Seqs /\ log' = log
      /\ emit = "advanced"
  BY DEF IInv, TypeOK, Broadcast, BroadcastAs
<1>3. CASE kind = "pair"
  <2>1. PICK m \in Seqs : m = n + 1 /\ rows = {n, m} /\ sent' = Append(Append(sent, n), m)
    <3>1. rows = {n, n + 1} /\ lastSeq = n + 1
      BY <1>1, <1>2, <1>3 DEF RowsAt
    <3>2. n + 1 \in Seqs
      BY <1>2, <3>1
    <3>3. sent' = Append(Append(sent, lastSeq - 1), lastSeq) /\ lastSeq - 1 = n
      BY <1>3, <3>1 DEF Broadcast, BroadcastAs
    <3> QED BY <3>1, <3>2, <3>3
  <2> DEFINE t == Append(Append(sent, n), m)
  <2>2. /\ t \in Seq(Seqs) /\ Len(t) = Len(sent) + 2
        /\ \A i \in 1..Len(sent) : t[i] = sent[i]
        /\ t[Len(sent) + 1] = n /\ t[Len(sent) + 2] = m
    BY <1>2, AppendTwice
  <2>3. sent' = t
    BY <2>1
  <2> HIDE DEF t
  <2>4. Grows
    BY <1>2, <2>2, <2>3 DEF Grows, IInv, TypeOK
  <2>5. Len(sent) + 1 \in Len(sent) + 1..Len(sent') /\ Len(sent) + 2 \in Len(sent) + 1..Len(sent')
    BY <1>2, <2>2, <2>3
  <2> QED BY <1>2, <2>1, <2>2, <2>3, <2>4, <2>5
<1>4. CASE kind # "pair"
  <2>1. rows = {n} /\ sent' = Append(sent, n)
    BY <1>1, <1>2, <1>4 DEF RowsAt, Broadcast, BroadcastAs
  <2> DEFINE t == Append(sent, n)
  <2>2. /\ t \in Seq(Seqs) /\ Len(t) = Len(sent) + 1
        /\ \A i \in 1..Len(sent) : t[i] = sent[i]
        /\ t[Len(sent) + 1] = n
    BY <1>2, AppendOnce
  <2>3. sent' = t
    BY <2>1
  <2> HIDE DEF t
  <2>4. Grows
    BY <1>2, <2>2, <2>3 DEF Grows, IInv, TypeOK
  <2>5. Len(sent) + 1 \in Len(sent) + 1..Len(sent')
    BY <1>2, <2>2, <2>3
  <2> QED BY <1>2, <2>1, <2>2, <2>3, <2>4, <2>5
<1> QED BY <1>3, <1>4

\* Emissions.
Emits == LockEmit \/ Emission \/ AbortEmit \/ CancelEmit

\* The steps of one connection.
Conn(s) ==
  \/ \E c \in 0..MaxSeq \cup {NoCursor} : Subscribe(s, c)
  \/ Serve(s) \/ Disconnect(s)

\* An emission or a sweep leaves the connections alone, adds rows above the
\* counter and extends the stream.
LEMMA ProcessGrows ==
  ASSUME IInv, Emits \/ Sweep
  PROVE  Grows /\ \A s \in Subs : SameConn(s)
<1>0. sent \in Seq(Seqs) /\ log \subseteq Seqs /\ lastSeq \in 0..MaxSeq
  BY DEF IInv, TypeOK
<1>1. UNCHANGED subVars
  BY DEF Emits, Emission, Sweep, LockEmit, InsertBare, Stage, CommitTx, AbortEmit, EmitFails,
         CancelEmit, AdvanceCounter, Broadcast, BroadcastAs, GcReadMax, GcPublish, GcMarkWith,
         GcDelete, GcFail
<1>2. \A s \in Subs : SameConn(s)
  BY <1>1 DEF subVars, SameConn
<1>3. CASE Broadcast
  BY <1>3, BroadcastAppends, <1>2
<1>4. CASE InsertBare
  BY <1>0, <1>2, <1>4, FrontierIsFree DEF InsertBare, Grows
<1>5. CASE CommitTx
  <2>1. PICK n \in Seqs : RowsAt(n)
    BY <1>5 DEF CommitTx, IInv, EmitInv, Holding
  <2>2. rows \subseteq Seqs
    BY DEF IInv, TypeOK
  <2> QED BY <1>0, <1>2, <1>5, <2>1, <2>2 DEF CommitTx, RowsAt, Grows
<1>6. CASE LockEmit \/ Stage \/ AbortEmit \/ CancelEmit \/ AdvanceCounter \/ Sweep
  <2>1. log' \subseteq log /\ sent' = sent
    BY <1>6 DEF Sweep, LockEmit, Stage, AbortEmit, EmitFails, CancelEmit, AdvanceCounter,
                GcReadMax, GcPublish, GcMarkWith, GcDelete, GcFail
  <2> QED BY <1>0, <1>2, <2>1 DEF Grows
<1> QED BY <1>3, <1>4, <1>5, <1>6 DEF Emits, Emission

\* A connection's step is its own: the log, the stream and the other
\* connections stay.
LEMMA ConnAlone ==
  ASSUME IInv, NEW s \in Subs, Conn(s)
  PROVE  /\ UNCHANGED <<log, lastSeq, pruneFloor, sent, emitVars, gcVars>>
         /\ Grows /\ \A t \in Subs \ {s} : SameConn(t)
<1>1. UNCHANGED <<log, lastSeq, pruneFloor, sent, emitVars, gcVars>>
  BY DEF Conn, Serve, Subscribe, Attach, ReadPage, TakePage, AcceptPage, FailClosed,
         SendReplayed, GoLive, RecvLive, Lagged, Disconnect, HangUp
<1>2. Grows
  BY <1>1 DEF Grows, IInv, TypeOK
<1>3. TypeOK
  BY DEF IInv
<1>4. ASSUME NEW t \in Subs \ {s} PROVE SameConn(t)
  <2>1. CASE \E c \in 0..MaxSeq \cup {NoCursor} : Subscribe(s, c)
    BY <1>3, <1>4, <2>1 DEF Subscribe, Attach, TypeOK, SameConn
  <2>2. CASE FailClosed(s) \/ Lagged(s) \/ Disconnect(s)
    BY <1>3, <1>4, <2>2 DEF FailClosed, Lagged, Disconnect, HangUp, TypeOK, SameConn
  <2>3. CASE ReadPage(s)
    BY <1>3, <1>4, <2>3 DEF ReadPage, TypeOK, SameConn
  <2>4. CASE TakePage(s)
    BY <1>3, <1>4, <2>4 DEF TakePage, AcceptPage, TypeOK, SameConn
  <2>5. CASE SendReplayed(s)
    BY <1>3, <1>4, <2>5 DEF SendReplayed, TypeOK, SameConn
  <2>6. CASE GoLive(s) \/ RecvLive(s)
    BY <1>3, <1>4, <2>6 DEF GoLive, RecvLive, TypeOK, SameConn
  <2> QED BY <2>1, <2>2, <2>3, <2>4, <2>5, <2>6 DEF Conn, Serve
<1> QED BY <1>1, <1>2, <1>4

\* The connection that takes a step keeps its record true.
LEMMA ConnFollows ==
  ASSUME IInv, NEW s \in Subs, Follows(s), Conn(s)
  PROVE  Follows(s)'
<1>0. /\ log \subseteq Nat /\ upper[s] \in Nat /\ after[s] \in Nat /\ pos[s] \in Nat
      /\ rx[s] \in Nat /\ lastSeq \in Nat /\ Len(sent) \in Nat
      /\ DOMAIN sent = 1..Len(sent) /\ \A i \in DOMAIN sent : sent[i] \in Nat
      /\ log \subseteq Seqs /\ after[s] \in 0..MaxSeq /\ page[s] \subseteq Seqs
  BY DEF IInv, TypeOK
<1>1. TypeOK /\ SubInv /\ SentInv
  BY DEF IInv
<1>2. UNCHANGED <<log, lastSeq, sent>>
  BY ConnAlone
<1>3. ASSUME NEW c \in 0..MaxSeq \cup {NoCursor}, Subscribe(s, c)
      PROVE  Follows(s)'
  <2> DEFINE from == IF c = NoCursor THEN lastSeq ELSE c
  <2>1. /\ pos'[s] = from /\ after'[s] = from /\ upper'[s] = lastSeq
        /\ done'[s] = (from >= lastSeq) /\ rx'[s] = Len(sent) + 1
        /\ sub'[s] = IF c = NoCursor THEN "live" ELSE "replay"
    BY <1>1, <1>3 DEF Subscribe, Attach, TypeOK
  <2>2. from \in Nat /\ (sub'[s] = "live" => from = lastSeq)
    BY <1>0, <2>1
  <2> HIDE DEF from
  <2>3. sub'[s] \in {"live", "replay"}
    BY <2>1
  <2>4. \A i \in DOMAIN sent : sent[i] <= lastSeq
    BY <1>1 DEF SentInv
  <2>5. CASE sub'[s] = "live"
    BY <1>2, <2>1, <2>2, <2>4, <2>5, <1>0 DEF Follows
  <2>6. CASE sub'[s] = "replay"
    <3>1. \A x \in log : pos'[s] < x /\ x <= after'[s] => x \in queue'[s]
      BY <1>0, <2>1, <2>2
    <3>2. ASSUME done'[s], NEW x \in log PROVE x <= after'[s] \/ upper'[s] < x
      <4>1. from >= lastSeq /\ after'[s] = from /\ upper'[s] = lastSeq
        BY <2>1, <3>2
      <4>2. x \in Nat /\ from \in Nat /\ lastSeq \in Nat
        BY <1>0, <2>2
      <4> QED BY ONLY <4>1, <4>2
    <3>3. rx'[s] <= Len(sent') + 1 /\ \A i \in DOMAIN sent' : i < rx'[s] => sent'[i] <= upper'[s]
      BY <1>0, <1>2, <2>1, <2>4
    <3> QED BY <1>2, <2>6, <3>1, <3>2, <3>3 DEF Follows
  <2> QED BY <2>3, <2>5, <2>6
<1>4. CASE FailClosed(s) \/ Lagged(s) \/ Disconnect(s)
  <2>1. sub'[s] = "off"
    BY <1>1, <1>4 DEF FailClosed, Lagged, Disconnect, HangUp, TypeOK
  <2> QED BY <2>1 DEF Follows
<1>5. CASE ReadPage(s)
  <2>1. /\ sub[s] = "replay" /\ sub'[s] = "paged" /\ page'[s] = PageOf(s)
        /\ UNCHANGED <<pos, upper, after, done, queue, rx>> /\ queue[s] = {}
    BY <1>1, <1>5 DEF ReadPage, TypeOK
  <2>2. PageOf(s) \subseteq Seqs
    BY <1>0, PageFacts
  <2>3. LastRow(s)' = after[s] \/ LastRow(s)' \in PageOf(s)
    <3> DEFINE S == {after[s]} \cup PageOf(s)
    <3>1. LastRow(s)' = MaxOf(S)
      BY <2>1 DEF LastRow
    <3>2. S \subseteq 0..MaxSeq /\ S # {} /\ MaxSeq \in Nat
      BY <1>0, <2>2
    <3>3. MaxOf(S) \in S
      <4> HIDE DEF S
      <4> QED BY ONLY <3>2, MaxOfBounded, Zenon
    <3> QED BY <3>1, <3>3
  <2>4. ASSUME NEW x \in log, after[s] < x, x <= upper[s], x <= LastRow(s)' \/ ShortPage(s)'
        PROVE  x \in page'[s]
    <3>1. CASE x <= LastRow(s)'
      BY <1>0, <2>1, <2>3, <2>4, <3>1, PageFacts
    <3>2. CASE ShortPage(s)'
      BY <1>0, <2>1, <2>4, <3>2, PageFacts DEF ShortPage
    <3> QED BY <2>4, <3>1, <3>2
  <2> QED BY <1>2, <2>1, <2>4 DEF Follows
<1>6. CASE TakePage(s)
  <2>1. /\ sub[s] = "paged" /\ sub'[s] = "replay" /\ after'[s] = LastRow(s)
        /\ queue'[s] = page[s] /\ done'[s] = (LastRow(s) >= upper[s] \/ ShortPage(s))
        /\ UNCHANGED <<pos, upper, rx>> /\ queue[s] = {}
    BY <1>1, <1>6 DEF TakePage, AcceptPage, TypeOK, SubInv
  <2>2. /\ LastRow(s) \in Nat /\ after[s] <= LastRow(s) /\ LastRow(s) <= upper[s]
        /\ \A q \in page[s] : q <= LastRow(s)
    BY <1>0, <1>1, <2>1, LastRowFacts DEF SubInv
  <2>3. ASSUME NEW x \in log, pos[s] < x, x <= LastRow(s) PROVE x \in page[s]
    <3>1. ~(x <= after[s])
      BY <2>1, <2>3 DEF Follows
    <3>2. after[s] < x /\ x <= upper[s]
      BY <1>0, <2>2, <2>3, <3>1
    <3> QED BY <2>1, <2>3, <3>2 DEF Follows
  <2>4. ASSUME done'[s], NEW x \in log, ~(x <= LastRow(s)) PROVE upper[s] < x
    <3>1. CASE LastRow(s) >= upper[s]
      BY <1>0, <2>2, <2>4, <3>1
    <3>2. CASE ShortPage(s)
      BY <1>0, <2>1, <2>2, <2>4, <3>2 DEF Follows
    <3> QED BY <2>1, <2>4, <3>1, <3>2
  <2> QED BY <1>2, <2>1, <2>3, <2>4 DEF Follows
<1>7. CASE SendReplayed(s)
  <2>1. PICK q \in queue[s] : /\ \A x \in queue[s] : q <= x
                              /\ pos' = [pos EXCEPT ![s] = q]
                              /\ queue' = [queue EXCEPT ![s] = @ \ {q}]
    BY <1>7 DEF SendReplayed
  <2>2. /\ sub[s] = "replay" /\ UNCHANGED <<sub, upper, after, done, rx, page>>
        /\ pos'[s] = q /\ queue'[s] = queue[s] \ {q} /\ pos[s] < q /\ q \in Nat
    BY <1>1, <1>7, <2>1 DEF SendReplayed, TypeOK, SubInv
  <2>3. ASSUME NEW x \in log, q < x, x <= after[s] PROVE x \in queue[s] \ {q}
    BY <1>0, <2>2, <2>3 DEF Follows
  <2> QED BY <1>2, <2>2, <2>3 DEF Follows
<1>8. CASE GoLive(s)
  <2>1. /\ sub[s] = "replay" /\ sub'[s] = "live" /\ done[s] /\ queue[s] = {}
        /\ UNCHANGED <<pos, rx>>
    BY <1>1, <1>8 DEF GoLive, TypeOK
  <2>2. ASSUME NEW i \in DOMAIN sent, i < rx[s], sent[i] \in log PROVE sent[i] <= pos[s]
    <3>1. sent[i] <= upper[s]
      BY <2>1, <2>2 DEF Follows
    <3>2. sent[i] <= after[s]
      BY <1>0, <2>1, <2>2, <3>1 DEF Follows
    <3> QED BY <1>0, <2>1, <2>2, <3>2 DEF Follows
  <2> QED BY <1>2, <2>1, <2>2 DEF Follows
<1>9. CASE RecvLive(s)
  <2>1. /\ sub[s] = "live" /\ sub'[s] = "live" /\ rx[s] <= Len(sent)
        /\ pos'[s] = sent[rx[s]] /\ rx'[s] = rx[s] + 1
    BY <1>1, <1>9 DEF RecvLive, TypeOK
  <2>2. rx[s] \in DOMAIN sent /\ pos[s] < sent[rx[s]]
    <3>1. rx[s] \in Nat \ {0} /\ rx[s] \in rx[s]..Len(sent)
      BY <1>0, <1>1, <2>1 DEF TypeOK
    <3> QED BY <1>0, <1>1, <2>1, <3>1 DEF SubInv
  <2>3. ASSUME NEW i \in DOMAIN sent, i < rx[s] + 1, sent[i] \in log PROVE sent[i] <= sent[rx[s]]
    <3>1. CASE i = rx[s]
      BY <1>0, <3>1
    <3>2. CASE i # rx[s]
      <4>1. i < rx[s]
        BY <1>0, <2>3, <3>2
      <4> QED BY <1>0, <2>1, <2>2, <2>3, <4>1 DEF Follows
    <3> QED BY <3>1, <3>2
  <2> QED BY <1>0, <1>2, <2>1, <2>3 DEF Follows
<1> QED BY <1>3, <1>4, <1>5, <1>6, <1>7, <1>8, <1>9 DEF Conn, Serve

\* Every step keeps the records of all connections true.
LEMMA FollowStep == IInv /\ FollowInv /\ [Next]_vars => FollowInv'
<1> SUFFICES ASSUME IInv, FollowInv, [Next]_vars PROVE FollowInv'
  OBVIOUS
<1>1. CASE Emits \/ Sweep
  BY <1>1, ProcessGrows, OthersFollow DEF FollowInv
<1>2. ASSUME NEW s \in Subs, Conn(s) PROVE FollowInv'
  <2>1. Follows(s)'
    BY <1>2, ConnFollows DEF FollowInv
  <2>2. \A t \in Subs \ {s} : Follows(t)'
    BY <1>2, ConnAlone, OthersFollow DEF FollowInv
  <2> QED BY <2>1, <2>2 DEF FollowInv
<1>3. CASE Restart
  BY <1>3 DEF Restart, Reboot, FollowInv, Follows
<1>4. CASE UNCHANGED vars
  <2>1. Grows /\ \A s \in Subs : SameConn(s)
    BY <1>4 DEF vars, subVars, Grows, SameConn, IInv, TypeOK
  <2> QED BY <2>1, OthersFollow DEF FollowInv
<1> QED BY <1>1, <1>2, <1>3, <1>4 DEF Next, Emits, Conn

\* A connection moves by sending the next row of its queue, or the next event of
\* the ring.
LEMMA OnlySendsMove ==
  ASSUME IInv, Next, NEW s \in Subs, sub[s] # "off", pos'[s] # pos[s]
  PROVE  SendReplayed(s) \/ RecvLive(s)
<1>1. CASE Emits \/ Sweep
  BY <1>1, ProcessGrows DEF SameConn
<1>2. ASSUME NEW t \in Subs, Conn(t) PROVE SendReplayed(s) \/ RecvLive(s)
  <2>1. t = s
    BY <1>2, ConnAlone DEF SameConn
  <2>2. ~(\E c \in 0..MaxSeq \cup {NoCursor} : Subscribe(s, c))
    BY DEF Subscribe, Attach
  <2> QED BY <1>2, <2>1, <2>2 DEF Conn, Serve, ReadPage, TakePage, AcceptPage, FailClosed,
             GoLive, Lagged, Disconnect, HangUp
<1>3. CASE Restart
  BY <1>3 DEF Restart, Reboot
<1> QED BY <1>1, <1>2, <1>3 DEF Next, Emits, Conn

\* During replay no retained row is passed over: the queue holds them all.
LEMMA ReplaySkipsNothing ==
  ASSUME IInv, NEW s \in Subs, Follows(s), SendReplayed(s), NEW x \in log
  PROVE  ~Skips(s, x)
<1>1. PICK q \in queue[s] : (\A y \in queue[s] : q <= y) /\ pos' = [pos EXCEPT ![s] = q]
  BY DEF SendReplayed
<1>2. /\ sub[s] = "replay" /\ pos'[s] = q /\ q <= after[s]
      /\ q \in Nat /\ x \in Nat /\ after[s] \in Nat
  BY <1>1 DEF SendReplayed, IInv, TypeOK, SubInv
<1> SUFFICES ASSUME pos[s] < x, x < q PROVE FALSE
  BY <1>2 DEF Skips
<1>3. x \in queue[s]
  BY <1>2 DEF Follows
<1> QED BY <1>1, <1>2, <1>3

\* The records of the connections hold throughout.
LEMMA FollowInductive == Spec => [](IInv /\ FollowInv)
<1>1. Init => FollowInv
  BY DEF Init, FollowInv, Follows
<1> QED BY <1>1, InitIInv, NextIInv, FollowStep, PTL DEF Spec

\* A connection never moves past a retained row that this process broadcast, and
\* during replay past no retained row: whatever handlers are dropped between
\* commit and finish, and whatever the sweep deletes meanwhile.
THEOREM NothingBroadcastSkipped == Spec => NoBroadcastSkipped
<1> DEFINE P == \A s \in Subs, x \in log :
                  Skips(s, x) => sub[s] = "live" /\ \A i \in DOMAIN sent : sent[i] # x
<1>1. IInv /\ FollowInv /\ [Next]_vars => [P]_vars
  <2> SUFFICES ASSUME IInv, FollowInv, Next, NEW s \in Subs, NEW x \in log, Skips(s, x)
               PROVE  sub[s] = "live" /\ \A i \in DOMAIN sent : sent[i] # x
    OBVIOUS
  <2>1. sub[s] # "off" /\ pos'[s] # pos[s] /\ Follows(s) /\ pos[s] < x /\ x < pos'[s]
    <3>1. pos[s] \in Nat /\ x \in Nat
      BY DEF IInv, TypeOK
    <3>2. sub[s] # "off" /\ pos[s] < x /\ x < pos'[s]
      BY DEF Skips
    <3> QED BY <3>1, <3>2 DEF FollowInv
  <2>2. RecvLive(s)
    BY <2>1, OnlySendsMove, ReplaySkipsNothing
  <2>3. /\ sub[s] = "live" /\ rx[s] <= Len(sent) /\ pos'[s] = sent[rx[s]]
        /\ rx[s] \in DOMAIN sent /\ x \in Nat /\ pos[s] \in Nat
        /\ DOMAIN sent \subseteq Nat /\ \A i \in DOMAIN sent : sent[i] \in Nat
    BY <2>2 DEF RecvLive, IInv, TypeOK
  <2>4. ASSUME NEW i \in DOMAIN sent, sent[i] = x PROVE FALSE
    <3>1. CASE i < rx[s]
      BY <2>1, <2>3, <2>4, <3>1 DEF Follows
    <3>2. CASE rx[s] < i
      BY <2>1, <2>3, <2>4, <3>2 DEF IInv, SentInv, SentInOrder
    <3>3. CASE i = rx[s]
      BY <2>1, <2>3, <2>4, <3>3
    <3> QED BY <2>3, <3>1, <3>2, <3>3
  <2> QED BY <2>3, <2>4
<1> QED BY <1>1, FollowInductive, PTL DEF Spec, NoBroadcastSkipped

-----------------------------------------------------------------------------
(* Dropped handlers and the sweep.                                         *)

\* How far the counter is, or is about to be advanced.
Top == IF emit = "durable" THEN MaxOf(rows) ELSE lastSeq

\* No handler is dropped between its commit and finish.
NoDrop == [][~CancelEmit]_vars

\* Of the rows that a dropped handler leaves above the counter none is pruned: a
\* sweep prunes no row that the counter will not pass, and no handler is dropped
\* whose rows are pruned.
OrphansUnpruned ==
  [][/\ GcPublish => gcMark' <= Top
     /\ CancelEmit => pruneFloor <= lastSeq]_vars

\* Each number of the range is retained or was declared pruned.
Explained(a, b) == \A n \in Seqs : a < n /\ n <= b => n \in log \/ n <= pruneFloor

\* The log is an interval that an emission continues, also after the rows that
\* dropped handlers left above the counter; the floor stays below what the
\* counter reaches.
OrphanInv ==
  /\ RetainedDense
  /\ emit = "staged" => rows = {max_seq + 1} \/ rows = {max_seq + 1, max_seq + 2}
  /\ emit = "durable" => MaxOf(rows) = max_seq
  /\ Explained(lastSeq, max_seq)
  /\ lastSeq = 0 \/ lastSeq \in log \/ lastSeq <= pruneFloor
  /\ pruneFloor <= Top
  /\ gc = "marked" => gcMark <= pruneFloor

\* MAX(seq) is the row that no row exceeds.
LEMMA MaxIs ==
  ASSUME NEW S, S \subseteq 0..MaxSeq, NEW m \in S, \A x \in S : x <= m
  PROVE  MaxOf(S) = m
<1>1. MaxSeq \in Nat /\ S \subseteq 0..MaxSeq /\ S # {}
  OBVIOUS
<1>2. MaxOf(S) \in S /\ \A x \in S : x <= MaxOf(S)
  BY ONLY <1>1, MaxOfBounded, Zenon
<1>3. m \in Nat /\ MaxOf(S) \in Nat
  <2>1. S \subseteq Nat
    OBVIOUS
  <2> QED BY ONLY <1>2, <2>1, m \in S
<1>4. m <= MaxOf(S) /\ MaxOf(S) <= m
  BY <1>2
<1> QED BY ONLY <1>3, <1>4

\* The rows an emission adds continue the log.
LEMMA Continues ==
  ASSUME log \subseteq Seqs, RetainedDense,
         NEW New, New \subseteq Seqs,
         New = {max_seq + 1} \/ New = {max_seq + 1, max_seq + 2},
         log' = log \cup New
  PROVE  max_seq' = MaxOf(New) /\ max_seq < max_seq' /\ max_seq' \in Nat /\ RetainedDense'
<1>0. log \subseteq Nat /\ max_seq \in Nat
  BY MaxSeqFacts
<1>1. (\A q \in log : q <= max_seq) /\ (log # {} => max_seq \in log)
  BY MaxSeqFacts
<1>2. PICK m \in New : (\A x \in New : x <= m) /\ (m = max_seq + 1 \/ m = max_seq + 2)
                       /\ (m = max_seq + 2 => max_seq + 1 \in New)
  BY <1>0
<1>3. MaxOf(New) = m
  <2>1. New \subseteq 0..MaxSeq
    OBVIOUS
  <2> QED BY <1>2, <2>1, MaxIs
<1>4. max_seq' = m
  <2>1. \A x \in log \cup New : x <= m
    BY <1>0, <1>1, <1>2
  <2>2. log \cup New \subseteq 0..MaxSeq /\ m \in log \cup New
    OBVIOUS
  <2>3. MaxOf(log \cup New) = m
    BY ONLY <2>1, <2>2, MaxIs
  <2> QED BY <2>3 DEF max_seq
<1>5. RetainedDense'
  <2> SUFFICES ASSUME NEW x \in log \cup New, NEW y \in log \cup New, NEW q \in x..y
               PROVE  q \in log \cup New
    BY DEF RetainedDense
  <2>1. x \in Nat /\ y \in Nat /\ q \in Nat /\ x <= q /\ q <= y
    OBVIOUS
  <2>2. CASE q <= max_seq
    <3>1. x \in log
      BY <1>0, <2>1, <2>2
    <3>2. max_seq \in log /\ q \in x..max_seq
      BY <1>0, <1>1, <2>1, <2>2, <3>1
    <3> QED BY <3>1, <3>2 DEF RetainedDense
  <2>3. CASE max_seq < q
    <3>1. y \in New
      BY <1>0, <1>1, <2>1, <2>3
    <3>2. q <= m
      BY <1>2, <2>1, <3>1
    <3>3. q = max_seq + 1 \/ (q = max_seq + 2 /\ m = q)
      BY <1>0, <1>2, <2>1, <2>3, <3>2
    <3> QED BY <1>2, <3>3
  <2> QED BY <1>0, <2>1, <2>2, <2>3
<1> QED BY <1>0, <1>2, <1>3, <1>4, <1>5

\* DELETE leaves the last row, and no hole.
LEMMA DeleteKeepsMax ==
  ASSUME IInv, RetainedDense, GcDelete
  PROVE  /\ log' = {q \in log : q > gcMark} /\ gc = "marked" /\ gc' = "idle"
         /\ UNCHANGED <<lastSeq, pruneFloor, emitVars>> /\ emit # "staged"
         /\ max_seq' = max_seq /\ RetainedDense'
<1>0. log \subseteq Seqs /\ gcMark \in Nat
  BY DEF IInv, TypeOK
<1>1. /\ gc = "marked" /\ log' = {q \in log : q > gcMark} /\ gc' = "idle"
      /\ UNCHANGED <<lastSeq, pruneFloor, emitVars>> /\ emit # "staged"
  BY DEF GcDelete, ConnectionFree
<1>2. max_seq' = max_seq
  <2>1. PICK q \in log : gcMark < q
    BY <1>1 DEF IInv, LogInv
  <2>2. max_seq \in log /\ q <= max_seq /\ \A x \in log : x <= max_seq
    BY <1>0, <2>1, MaxSeqFacts
  <2>3. max_seq > gcMark
    BY <1>0, <2>1, <2>2
  <2>4. max_seq \in log' /\ log' \subseteq 0..MaxSeq /\ \A x \in log' : x <= max_seq
    <3>1. log \subseteq 0..MaxSeq
      BY <1>0
    <3> QED BY <1>1, <2>2, <2>3, <3>1
  <2>5. PICK m \in log' : m = max_seq
    BY <2>4
  <2>6. MaxOf(log') = m
    BY <2>4, <2>5, MaxIs
  <2> QED BY <2>5, <2>6 DEF max_seq
<1>3. RetainedDense'
  <2> SUFFICES ASSUME NEW x \in log', NEW y \in log', NEW q \in x..y PROVE q \in log'
    BY DEF RetainedDense
  <2>1. x \in log /\ y \in log /\ x > gcMark
    BY <1>1
  <2>2. q \in log /\ q > gcMark
    BY <1>0, <2>1 DEF RetainedDense
  <2> QED BY <1>1, <2>2
<1> QED BY <1>1, <1>2, <1>3

\* insert_at_frontier continues the log: from the counter, or past the rows that
\* dropped handlers left above it.
LEMMA FrontierContinues ==
  ASSUME IInv, OrphanInv, emit # "durable"
  PROVE  insert_at_frontier = max_seq + 1
<1>0. /\ log \subseteq Seqs /\ lastSeq \in 0..MaxSeq /\ max_seq \in 0..MaxSeq
      /\ pruneFloor \in 0..MaxSeq
  BY MaxSeqFacts DEF IInv, TypeOK
<1>1. CASE lastSeq + 1 \in log
  BY <1>1 DEF insert_at_frontier
<1>2. CASE lastSeq + 1 \notin log
  <2>1. lastSeq <= max_seq
    BY <1>0, MaxSeqFacts DEF IInv, LogInv
  <2>2. ASSUME lastSeq < max_seq PROVE FALSE
    <3>1. lastSeq + 1 \in Seqs /\ lastSeq < lastSeq + 1 /\ lastSeq + 1 <= max_seq
      BY <1>0, <2>2
    <3>2. lastSeq + 1 <= pruneFloor
      BY <1>2, <3>1 DEF OrphanInv, Explained
    <3>3. pruneFloor <= lastSeq
      BY DEF OrphanInv, Top
    <3> QED BY <1>0, <3>2, <3>3
  <2>3. lastSeq = max_seq
    BY <1>0, <2>1, <2>2
  <2> QED BY <1>2, <2>3 DEF insert_at_frontier
<1> QED BY <1>1, <1>2

\* Every step that prunes no orphan keeps the log in order.
LEMMA OrphanStep ==
  ASSUME IInv, OrphanInv, [Next]_vars,
         GcPublish => gcMark' <= Top, CancelEmit => pruneFloor <= lastSeq
  PROVE  OrphanInv'
<1>0. /\ log \subseteq Seqs /\ lastSeq \in 0..MaxSeq /\ rows \subseteq Seqs
      /\ pruneFloor \in 0..MaxSeq /\ gcMark \in Nat /\ max_seq \in 0..MaxSeq
  BY MaxSeqFacts DEF IInv, TypeOK
<1>h. /\ RetainedDense /\ Explained(lastSeq, max_seq) /\ pruneFloor <= Top
      /\ lastSeq = 0 \/ lastSeq \in log \/ lastSeq <= pruneFloor
      /\ gc = "marked" => gcMark <= pruneFloor
  BY DEF OrphanInv
<1>m. (max_seq = 0 \/ max_seq \in log) /\ lastSeq <= max_seq
  <2>1. log = {} => max_seq = 0
    BY DEF max_seq, MaxOf
  <2> QED BY <1>0, <2>1, MaxSeqFacts DEF IInv, LogInv
\* Rows become durable.
<1>1. ASSUME emit # "durable", NEW New, New \subseteq Seqs,
             New = {max_seq + 1} \/ New = {max_seq + 1, max_seq + 2},
             log' = log \cup New, rows' = New, emit' = "durable",
             UNCHANGED <<lastSeq, pruneFloor, gcVars>>
      PROVE  OrphanInv'
  <2>1. max_seq' = MaxOf(New) /\ max_seq < max_seq' /\ max_seq' \in Nat /\ RetainedDense'
    BY <1>0, <1>1, <1>h, Continues
  <2>2. \A q \in Seqs : max_seq < q /\ q <= max_seq' => q \in New
    <3>1. max_seq' \in New
      <4>1. New \subseteq 0..MaxSeq /\ New # {} /\ MaxSeq \in Nat
        BY <1>1
      <4>2. MaxOf(New) \in New
        BY ONLY <4>1, MaxOfBounded, Zenon
      <4> QED BY <2>1, <4>2
    <3> QED BY <1>0, <1>1, <3>1
  <2>3. Explained(lastSeq, max_seq)'
    <3> SUFFICES ASSUME NEW q \in Seqs, lastSeq < q, q <= max_seq'
                 PROVE  q \in log' \/ q <= pruneFloor
      BY <1>1 DEF Explained
    <3>1. CASE q <= max_seq
      BY <1>1, <1>h, <3>1 DEF Explained
    <3>2. CASE max_seq < q
      BY <1>1, <2>2, <3>2
    <3> QED BY <1>0, <3>1, <3>2
  <2>4. Top' = max_seq' /\ pruneFloor <= max_seq'
    BY <1>0, <1>1, <1>h, <1>m, <2>1 DEF Top
  <2> QED BY <1>1, <1>h, <2>1, <2>3, <2>4 DEF OrphanInv, gcVars
<1>2. CASE InsertBare
  <2>1. insert_at_frontier = max_seq + 1
    BY <1>2, FrontierContinues DEF InsertBare
  <2>2. /\ emit # "durable" /\ rows' = {max_seq + 1} /\ rows' \subseteq Seqs
        /\ log' = log \cup rows' /\ emit' = "durable" /\ UNCHANGED <<lastSeq, pruneFloor, gcVars>>
    BY <1>2, <2>1 DEF InsertBare
  <2> QED BY <1>1, <2>2
<1>3. CASE CommitTx
  <2>1. /\ emit = "staged" /\ log' = log \cup rows /\ rows' = rows /\ emit' = "durable"
        /\ UNCHANGED <<lastSeq, pruneFloor, gcVars>>
    BY <1>3 DEF CommitTx
  <2>2. rows = {max_seq + 1} \/ rows = {max_seq + 1, max_seq + 2}
    BY <2>1 DEF OrphanInv
  <2> QED BY <1>0, <1>1, <2>1, <2>2
\* The log and the floor stay.
<1>4. ASSUME UNCHANGED <<log, lastSeq, pruneFloor>>, pruneFloor <= Top',
             UNCHANGED <<gc, gcMark>> \/ gc' # "marked",
             emit' = "staged" => rows' = {max_seq + 1} \/ rows' = {max_seq + 1, max_seq + 2},
             emit' = "durable" => MaxOf(rows') = max_seq
      PROVE  OrphanInv'
  <2>1. max_seq' = max_seq
    BY <1>4 DEF max_seq
  <2> QED BY <1>4, <1>h, <2>1 DEF OrphanInv, RetainedDense, Explained
<1>5. CASE Stage
  <2>1. insert_at_frontier = max_seq + 1
    BY <1>5, FrontierContinues DEF Stage
  <2>2. /\ emit = "locked" /\ emit' = "staged" /\ UNCHANGED <<log, lastSeq, pruneFloor, gcVars>>
        /\ rows' = {max_seq + 1} \/ rows' = {max_seq + 1, max_seq + 1 + 1}
    BY <1>5, <2>1 DEF Stage
  <2>3. Top' = Top
    BY <2>2 DEF Top
  <2> QED BY <1>0, <1>4, <1>h, <2>2, <2>3 DEF gcVars
<1>6. CASE LockEmit \/ AbortEmit \/ Broadcast \/ CancelEmit
  <2>1. emit' \in {"free", "locked"} /\ UNCHANGED <<log, lastSeq, pruneFloor, gcVars>>
    BY <1>6 DEF LockEmit, AbortEmit, EmitFails, EmitLockFree, Broadcast, BroadcastAs, CancelEmit
  <2>2. Top' = lastSeq
    BY <2>1 DEF Top
  <2>3. pruneFloor <= lastSeq
    <3>1. CASE CancelEmit
      BY <3>1
    <3>2. CASE LockEmit \/ AbortEmit \/ Broadcast
      <4>1. emit # "durable"
        BY <3>2 DEF LockEmit, AbortEmit, EmitFails, EmitLockFree, Broadcast, BroadcastAs
      <4> QED BY <1>h, <4>1 DEF Top
    <3> QED BY <1>6, <3>1, <3>2
  <2> QED BY <1>4, <2>1, <2>2, <2>3 DEF gcVars
<1>7. CASE AdvanceCounter
  <2>1. /\ emit = "durable" /\ emit' = "advanced" /\ lastSeq' = MaxOf(rows)
        /\ UNCHANGED <<log, pruneFloor, gcVars>>
    BY <1>7 DEF AdvanceCounter
  <2>2. max_seq' = max_seq /\ lastSeq' = max_seq /\ Top' = Top
    BY <2>1 DEF max_seq, Top, OrphanInv
  <2>3. Explained(lastSeq, max_seq)'
    BY <1>0, <2>2 DEF Explained
  <2> QED BY <1>h, <1>m, <2>1, <2>2, <2>3 DEF OrphanInv, RetainedDense, gcVars
<1>8. CASE GcReadMax \/ GcFail
  <2>1. UNCHANGED <<log, lastSeq, pruneFloor, emitVars>> /\ gc' # "marked"
    BY <1>8 DEF GcReadMax, GcFail
  <2>2. Top' = Top
    BY <2>1 DEF Top, emitVars
  <2> QED BY <1>4, <1>h, <2>1, <2>2 DEF OrphanInv, emitVars
<1>9. CASE GcPublish
  <2>1. gcMark' \in Nat
    <3>1. PICK age \in AgeMarks : gcMark' = Watermark(age)
      BY <1>9 DEF GcPublish, GcMarkWith
    <3>2. age \in Nat
      BY <1>0, <3>1 DEF AgeMarks, IInv, TypeOK
    <3>3. gcMax > 0 /\ gcMax \in 0..MaxSeq
      BY <1>9 DEF GcPublish, GcMarkWith, IInv, TypeOK, LogInv
    <3> QED BY <3>1, <3>2, <3>3, WatermarkBelowMax
  <2>2. /\ UNCHANGED <<log, lastSeq, emitVars>> /\ emit # "staged"
        /\ pruneFloor' = IF gcMark' > pruneFloor THEN gcMark' ELSE pruneFloor
    BY <1>9 DEF GcPublish, GcMarkWith, ConnectionFree
  <2>3. max_seq' = max_seq /\ Top' = Top
    BY <2>2 DEF max_seq, Top, emitVars
  <2>4. pruneFloor' <= Top' /\ gcMark' <= pruneFloor' /\ pruneFloor <= pruneFloor'
    BY <1>0, <1>9, <1>h, <2>1, <2>2, <2>3
  <2>5. Explained(lastSeq, max_seq)'
    <3> SUFFICES ASSUME NEW q \in Seqs, lastSeq < q, q <= max_seq
                 PROVE  q \in log \/ q <= pruneFloor'
      BY <2>2, <2>3 DEF Explained
    <3>1. q \in log \/ q <= pruneFloor
      BY <1>h DEF Explained
    <3> QED BY <1>0, <2>1, <2>2, <2>4, <3>1
  <2>6. lastSeq' = 0 \/ lastSeq' \in log' \/ lastSeq' <= pruneFloor'
    BY <1>0, <1>h, <2>1, <2>2, <2>4
  <2> QED BY <1>h, <2>2, <2>3, <2>4, <2>5, <2>6 DEF OrphanInv, RetainedDense, emitVars
<1>10. CASE GcDelete
  <2>1. /\ log' = {q \in log : q > gcMark} /\ gc = "marked" /\ gc' = "idle"
        /\ UNCHANGED <<lastSeq, pruneFloor, emitVars>> /\ emit # "staged"
        /\ max_seq' = max_seq /\ RetainedDense'
    BY <1>10, <1>h, DeleteKeepsMax
  <2>2. gcMark <= pruneFloor /\ Top' = Top
    BY <1>h, <2>1 DEF Top, emitVars
  <2>3. \A q \in log : q \in log' \/ q <= pruneFloor
    BY <1>0, <2>1, <2>2
  <2>4. Explained(lastSeq, max_seq)'
    BY <1>h, <2>1, <2>3 DEF Explained
  <2> QED BY <1>h, <2>1, <2>2, <2>3, <2>4 DEF OrphanInv, emitVars
<1>11. CASE Restart
  <2>1. /\ lastSeq' = max_seq /\ pruneFloor' = 0 /\ emit' = "free" /\ gc' = "idle" /\ log' = log
    BY <1>11 DEF Restart, Reboot
  <2>2. max_seq' = max_seq /\ Top' = max_seq
    BY <2>1 DEF max_seq, Top
  <2>3. Explained(lastSeq, max_seq)'
    BY <1>0, <2>1, <2>2 DEF Explained
  <2> QED BY <1>0, <1>h, <1>m, <2>1, <2>2, <2>3 DEF OrphanInv, RetainedDense
<1>12. CASE UNCHANGED vars \/ \E s \in Subs : Conn(s)
  <2>1. UNCHANGED <<log, lastSeq, pruneFloor, emitVars, gcVars>>
    BY <1>12, ConnAlone DEF vars
  <2>2. Top' = Top
    BY <2>1 DEF Top, emitVars
  <2> QED BY <1>4, <1>h, <2>1, <2>2 DEF OrphanInv, emitVars, gcVars
<1> QED BY <1>2, <1>3, <1>5, <1>6, <1>7, <1>8, <1>9, <1>10, <1>11, <1>12
        DEF Next, Emission, Sweep, Conn

-----------------------------------------------------------------------------
(* Replay and the sweep: what is missing from a page was pruned.           *)

\* A reader's range ends at a row that is retained or declared pruned, so does
\* everything past its first page, and the page it holds classifies.
ReaderOk(s) ==
  /\ sub[s] \in {"replay", "paged"} /\ ~done[s] =>
       /\ upper[s] \in log \/ upper[s] <= pruneFloor
       /\ ~first[s] => Explained(after[s], upper[s])
       /\ sub[s] = "paged" /\ page[s] # {} => Explained(LastRow(s), upper[s])
  /\ sub[s] = "paged" => ~done[s] /\ PageOk(s)

ReaderInv == \A s \in Subs : ReaderOk(s)

\* The floor rises ahead of what is deleted.
FloorLeads ==
  /\ pruneFloor' \in Nat /\ pruneFloor <= pruneFloor'
  /\ \A x \in log \ log' : x <= pruneFloor'

\* Emissions and sweeps raise the floor before they delete.
LEMMA ProcessFloor ==
  ASSUME IInv, OrphanInv, Emits \/ Sweep
  PROVE  FloorLeads
<1>0. pruneFloor \in Nat /\ log \subseteq Nat /\ gcMark \in Nat /\ gcMax \in 0..MaxSeq
  BY DEF IInv, TypeOK
<1>1. CASE Emits \/ GcReadMax \/ GcFail
  <2>1. log \subseteq log' /\ pruneFloor' = pruneFloor
    BY <1>1 DEF Emits, Emission, LockEmit, InsertBare, Stage, CommitTx, AbortEmit, EmitFails,
         CancelEmit, AdvanceCounter, Broadcast, BroadcastAs, GcReadMax, GcFail
  <2> QED BY <1>0, <2>1 DEF FloorLeads
<1>2. CASE GcPublish
  <2>1. PICK age \in AgeMarks : gcMark' = Watermark(age)
    BY <1>2 DEF GcPublish, GcMarkWith
  <2>2. gcMark' \in Nat
    <3>1. age \in Nat
      BY <1>0, <2>1 DEF AgeMarks, IInv, TypeOK
    <3>2. gcMax > 0
      BY <1>2 DEF GcPublish, GcMarkWith, IInv, LogInv
    <3> QED BY <1>0, <2>1, <3>1, <3>2, WatermarkBelowMax
  <2>3. log' = log /\ pruneFloor' = IF gcMark' > pruneFloor THEN gcMark' ELSE pruneFloor
    BY <1>2 DEF GcPublish, GcMarkWith
  <2> QED BY <1>0, <2>2, <2>3 DEF FloorLeads
<1>3. CASE GcDelete
  <2>1. log' = {q \in log : q > gcMark} /\ pruneFloor' = pruneFloor /\ gcMark <= pruneFloor
    BY <1>3 DEF GcDelete, OrphanInv
  <2> QED BY <1>0, <2>1 DEF FloorLeads
<1> QED BY <1>1, <1>2, <1>3 DEF Sweep

\* What the rest of the process does leaves a reader's page explained.
LEMMA OthersReader ==
  ASSUME IInv, NEW s \in Subs, ReaderOk(s), SameConn(s), FloorLeads
  PROVE  ReaderOk(s)'
<1> USE DEF SameConn, FloorLeads
<1>0. pruneFloor \in Nat /\ upper[s] \in Nat /\ after[s] \in 0..MaxSeq /\ page[s] \subseteq Seqs
  BY DEF IInv, TypeOK
<1>1. /\ LastRow(s)' = LastRow(s) /\ (ShortPage(s)' <=> ShortPage(s))
      /\ \A q : Before(s, q)' = Before(s, q)
  BY DEF LastRow, ShortPage, Before
<1>2. ASSUME NEW a, NEW b, Explained(a, b)
      PROVE  \A n \in Seqs : a < n /\ n <= b => n \in log' \/ n <= pruneFloor'
  BY <1>0, <1>2 DEF Explained
<1>3. ASSUME PageOk(s) PROVE PageOk(s)'
  <2>1. LastRow(s) \in Nat
    BY <1>0, LastRowFacts
  <2>2. \A q \in page[s] : Before(s, q) \in Nat
    <3> SUFFICES ASSUME NEW q \in page[s] PROVE Before(s, q) \in Nat
      OBVIOUS
    <3> DEFINE S == {after[s]} \cup {x \in page[s] : x < q}
    <3>1. S \subseteq 0..MaxSeq /\ MaxSeq \in Nat
      BY <1>0
    <3>2. MaxOf(S) \in 0..MaxSeq
      <4> HIDE DEF S
      <4> QED BY ONLY <3>1, MaxOfBounded, Zenon
    <3> QED BY <3>2 DEF Before
  <2>3. \A q \in page[s] : GapExplained(s, q) => GapExplained(s, q)'
    BY <1>0, <1>1, <2>2 DEF GapExplained
  <2>4. ShortPage(s) /\ LastRow(s) < upper[s] => pruneFloor' > LastRow(s)
    BY <1>0, <1>3, <2>1 DEF PageOk
  <2> QED BY <1>1, <1>3, <2>3, <2>4 DEF PageOk
<1>4. upper[s] \in log \/ upper[s] <= pruneFloor => upper[s] \in log' \/ upper[s] <= pruneFloor'
  BY <1>0
<1> QED BY <1>1, <1>2, <1>3, <1>4 DEF ReaderOk, Explained

\* The page a reader has just read classifies: rows of a page are consecutive,
\* and what is missing before or after them was pruned.
LEMMA FreshPageOk ==
  ASSUME IInv, OrphanInv, NEW s \in Subs, ReaderOk(s), ReadPage(s)
  PROVE  PageOk(s)' /\ (page'[s] # {} => Explained(LastRow(s), upper[s])')
<1> DEFINE P == PageOf(s)
           a == after[s]
           b == upper[s]
<1>0. /\ log \subseteq Seqs /\ log \subseteq Nat /\ a \in 0..MaxSeq /\ a \in Nat /\ b \in 0..MaxSeq
      /\ b \in Nat /\ pruneFloor \in Nat
  BY DEF IInv, TypeOK
<1>b. log \subseteq 0..MaxSeq
  BY <1>0
<1>1. /\ sub[s] = "replay" /\ ~done[s] /\ page'[s] = P
      /\ present'[s] = IF first[s] THEN P # {} /\ \E q \in log : q <= a ELSE present[s]
      /\ UNCHANGED <<log, pruneFloor, after, upper, first>>
  BY DEF ReadPage, IInv, TypeOK
<1>2. /\ b \in log \/ b <= pruneFloor
      /\ ~first[s] => Explained(a, b)
  BY <1>1 DEF ReaderOk
<1>3. /\ \A q \in P : q \in log /\ a < q /\ q <= b
      /\ \A x \in log, q \in P : a < x /\ x <= q => x \in P
      /\ Cardinality(P) < Batch => \A x \in log : a < x /\ x <= b => x \in P
  BY <1>0, PageFacts
<1>4. \A x, y \in log : \A q \in x..y : q \in log
  BY DEF OrphanInv, RetainedDense
<1> DEFINE last == MaxOf({a} \cup P)
<1>5. /\ last \in Nat /\ a <= last /\ \A q \in P : q <= last
      /\ P # {} => last \in P
  <2> DEFINE S == {a} \cup P
  <2>1. S \subseteq 0..MaxSeq /\ S # {} /\ MaxSeq \in Nat
    BY <1>0, <1>b, <1>3
  <2>2. MaxOf(S) \in S /\ MaxOf(S) \in 0..MaxSeq /\ \A x \in S : x <= MaxOf(S)
    <3> HIDE DEF S
    <3> QED BY ONLY <2>1, MaxOfBounded, Zenon
  <2>3. last \in Nat /\ a <= last /\ \A q \in P : q <= last
    BY <2>2
  <2>4. ASSUME NEW q \in P PROVE last \in P
    <3>1. q <= last /\ a < q /\ q \in Nat
      BY <1>0, <1>3, <2>3
    <3>2. last # a
      <4> HIDE DEF last, a
      <4> QED BY <1>0, <2>3, <3>1
    <3> QED BY <2>2, <3>2
  <2> QED BY <2>3, <2>4
<1>6. LastRow(s)' = last /\ (ShortPage(s)' <=> Cardinality(P) < Batch)
  BY <1>1 DEF LastRow, ShortPage
<1>7. \A q : Before(s, q)' = MaxOf({a} \cup {x \in P : x < q})
  BY <1>1 DEF Before
<1>8. ASSUME NEW q \in P, q # Before(s, q)' + 1 PROVE GapExplained(s, q)'
  <2>0. q \in Nat /\ q \in log /\ a < q /\ q <= b
    BY <1>0, <1>3
  <2> DEFINE S == {a} \cup {x \in P : x < q}
  <2>1. S \subseteq 0..MaxSeq
    BY <1>0, <1>b, <1>3
  <2>2. Before(s, q)' = MaxOf(S)
    BY <1>7
  <2>3. ASSUME NEW x \in P, x < q PROVE FALSE
    <3>1. x \in Nat /\ x \in log /\ a < x
      BY <1>0, <1>3
    <3>2. q - 1 \in x..q /\ q - 1 \in Nat
      BY <2>0, <2>3, <3>1
    <3>3. q - 1 \in log
      BY <1>4, <2>0, <3>1, <3>2
    <3>4. a < q - 1 /\ q - 1 <= q
      BY <1>0, <2>0, <3>1, <3>2
    <3>5. q - 1 \in P
      BY <1>3, <3>3, <3>4
    <3>6. q - 1 \in S
      BY <2>0, <3>5
    <3>7. \A y \in S : y <= q - 1
      <4> SUFFICES ASSUME NEW y \in S PROVE y <= q - 1
        OBVIOUS
      <4>1. y \in Nat /\ y < q
        BY <1>0, <1>3, <2>0
      <4> QED BY <2>0, <4>1
    <3>8. MaxOf(S) = q - 1
      <4> HIDE DEF S
      <4> QED BY <2>1, <3>6, <3>7, MaxIs
    <3> HIDE DEF S
    <3> QED BY <1>8, <2>0, <2>2, <3>8
  <2>4. MaxOf(S) = a
    <3>1. S = {a}
      BY <2>3
    <3>2. \A x \in {a} : x <= a
      BY <1>0
    <3> HIDE DEF S, a
    <3> QED BY <2>1, <3>1, <3>2, MaxIs
  <2>5. a + 1 < q /\ a + 1 \in Nat
    <3> HIDE DEF S, a, P
    <3> QED BY <1>0, <1>8, <2>0, <2>2, <2>4
  <2>6. a + 1 \notin log
    <3> SUFFICES ASSUME a + 1 \in log PROVE FALSE
      OBVIOUS
    <3>1. a < a + 1 /\ a + 1 <= q
      BY <1>0, <2>0, <2>5
    <3>2. a + 1 \in P
      BY <1>3, <3>1
    <3> QED BY <2>3, <2>5, <3>2
  <2>7. CASE ~first[s]
    <3>1. a + 1 \in Seqs /\ a < a + 1 /\ a + 1 <= b
      BY <1>0, <2>0, <2>5
    <3>2. a + 1 <= pruneFloor
      BY <1>2, <2>6, <2>7, <3>1 DEF Explained
    <3>3. a < pruneFloor
      BY <1>0, <3>2
    <3> QED BY <1>1, <2>2, <2>4, <3>3 DEF GapExplained
  <2>8. CASE first[s]
    <3>1. \A x \in log : ~(x <= a)
      <4> SUFFICES ASSUME NEW x \in log, x <= a PROVE FALSE
        OBVIOUS
      <4>1. x \in Nat
        BY <1>0
      <4>2. a + 1 \in x..q
        BY <1>0, <2>0, <2>5, <4>1
      <4> QED BY <1>4, <2>0, <2>6, <4>2
    <3>2. ~present'[s]
      BY <1>1, <2>8, <3>1
    <3> QED BY <1>1, <2>2, <2>4, <2>8, <3>2 DEF GapExplained
  <2> QED BY <2>7, <2>8
<1>9. ASSUME Cardinality(P) < Batch, last < b PROVE pruneFloor > last
  <2>1. b \notin log
    <3> SUFFICES ASSUME b \in log PROVE FALSE
      OBVIOUS
    <3>1. a < b /\ b <= b
      <4> HIDE DEF last, a, b
      <4> QED BY <1>0, <1>5, <1>9
    <3>2. b \in P
      BY <1>3, <1>9, <3>1
    <3>3. b <= last
      BY <1>5, <3>2
    <3> HIDE DEF last, a, b
    <3> QED BY <1>0, <1>5, <1>9, <3>3
  <2> HIDE DEF last, b
  <2> QED BY <1>0, <1>2, <1>5, <1>9, <2>1
<1>10. PageOk(s)'
  <2>1. \A q \in page'[s] : q # Before(s, q)' + 1 => GapExplained(s, q)'
    BY <1>1, <1>8
  <2>2. ShortPage(s)' /\ LastRow(s)' < upper'[s] => pruneFloor' > LastRow(s)'
    BY <1>1, <1>6, <1>9
  <2> QED BY <2>1, <2>2 DEF PageOk
<1>11. ASSUME P # {}, NEW n \in Seqs, last < n, n <= b
       PROVE  n \in log \/ n <= pruneFloor
  <2>1. last \in log
    BY <1>3, <1>5, <1>11
  <2>2. CASE b \in log
    <3>1. n \in last..b
      <4> HIDE DEF last, b
      <4> QED BY <1>0, <1>5, <1>11
    <3> QED BY <1>4, <2>1, <2>2, <3>1
  <2>3. CASE b <= pruneFloor
    <3> HIDE DEF last, b
    <3> QED BY <1>0, <1>11, <2>3
  <2> QED BY <1>2, <2>2, <2>3
<1>12. page'[s] # {} => Explained(LastRow(s), upper[s])'
  BY <1>1, <1>6, <1>11 DEF Explained
<1> QED BY <1>10, <1>12

\* The connection that takes a step keeps its reader in order.
LEMMA ConnReader ==
  ASSUME IInv, OrphanInv, NEW s \in Subs, ReaderOk(s), Conn(s)
  PROVE  ReaderOk(s)'
<1>0. TypeOK /\ UNCHANGED <<log, lastSeq, pruneFloor>>
  BY ConnAlone DEF IInv
<1>1. ASSUME NEW c \in 0..MaxSeq \cup {NoCursor}, Subscribe(s, c)
      PROVE  ReaderOk(s)'
  <2> DEFINE from == IF c = NoCursor THEN lastSeq ELSE c
  <2>1. /\ sub'[s] \in {"live", "replay"} /\ upper'[s] = lastSeq /\ first'[s]
        /\ done'[s] = (from >= lastSeq) /\ emit = "free"
    BY <1>0, <1>1 DEF Subscribe, EmitLockFree, Attach, TypeOK
  <2>2. from \in Nat /\ lastSeq \in Nat
    BY <1>0 DEF TypeOK
  <2> HIDE DEF from
  <2>3. ASSUME ~done'[s] PROVE lastSeq \in log \/ lastSeq <= pruneFloor
    <3>1. lastSeq > 0
      <4>1. ~(from >= lastSeq)
        BY <2>1, <2>3
      <4> QED BY ONLY <2>2, <4>1
    <3> QED BY <2>2, <3>1 DEF OrphanInv
  <2> QED BY <1>0, <2>1, <2>3 DEF ReaderOk
<1>2. CASE FailClosed(s) \/ Lagged(s) \/ Disconnect(s)
  <2>1. sub'[s] = "off"
    BY <1>0, <1>2 DEF FailClosed, Lagged, Disconnect, HangUp, TypeOK
  <2> QED BY <2>1 DEF ReaderOk
<1>3. CASE ReadPage(s)
  <2>1. /\ sub[s] = "replay" /\ sub'[s] = "paged" /\ ~done[s]
        /\ UNCHANGED <<upper, after, done, first>>
    BY <1>0, <1>3 DEF ReadPage, TypeOK
  <2>2. PageOk(s)' /\ (page'[s] # {} => Explained(LastRow(s), upper[s])')
    BY <1>3, FreshPageOk
  <2> QED BY <1>0, <2>1, <2>2 DEF ReaderOk, Explained
<1>4. CASE TakePage(s)
  <2>1. /\ sub[s] = "paged" /\ sub'[s] = "replay" /\ after'[s] = LastRow(s)
        /\ done'[s] = (LastRow(s) >= upper[s] \/ ShortPage(s)) /\ upper' = upper
    BY <1>0, <1>4 DEF TakePage, AcceptPage, TypeOK
  <2>2. ~done[s]
    BY <2>1 DEF ReaderOk
  <2>3. ASSUME ~done'[s] PROVE page[s] # {}
    <3>1. Cardinality({}) = 0
      BY FS_EmptySet
    <3>2. ~(Cardinality(page[s]) < Batch)
      BY <2>1, <2>3 DEF ShortPage
    <3>3. 0 < Batch
      BY FirehoseAssumption
    <3> QED BY <3>1, <3>2, <3>3
  <2> QED BY <1>0, <2>1, <2>2, <2>3 DEF ReaderOk, Explained
<1>5. CASE SendReplayed(s)
  <2>1. sub[s] = "replay" /\ UNCHANGED <<sub, upper, after, done, first>>
    BY <1>5 DEF SendReplayed
  <2> QED BY <1>0, <2>1 DEF ReaderOk, Explained
<1>6. CASE GoLive(s) \/ RecvLive(s)
  <2>1. sub'[s] = "live"
    BY <1>0, <1>6 DEF GoLive, RecvLive, TypeOK
  <2> QED BY <2>1 DEF ReaderOk
<1> QED BY <1>1, <1>2, <1>3, <1>4, <1>5, <1>6 DEF Conn, Serve

\* Every step keeps every reader in order.
LEMMA ReaderStep == IInv /\ OrphanInv /\ ReaderInv /\ [Next]_vars => ReaderInv'
<1> SUFFICES ASSUME IInv, OrphanInv, ReaderInv, [Next]_vars PROVE ReaderInv'
  OBVIOUS
<1>1. CASE Emits \/ Sweep
  BY <1>1, ProcessGrows, ProcessFloor, OthersReader DEF ReaderInv
<1>2. ASSUME NEW s \in Subs, Conn(s) PROVE ReaderInv'
  <2>1. ReaderOk(s)'
    BY <1>2, ConnReader DEF ReaderInv
  <2>2. FloorLeads
    BY <1>2, ConnAlone DEF FloorLeads, IInv, TypeOK
  <2>3. \A t \in Subs \ {s} : ReaderOk(t)'
    BY <1>2, <2>2, ConnAlone, OthersReader DEF ReaderInv
  <2> QED BY <2>1, <2>3 DEF ReaderInv
<1>3. CASE Restart
  BY <1>3 DEF Restart, Reboot, ReaderInv, ReaderOk
<1>4. CASE UNCHANGED vars
  <2>1. FloorLeads /\ \A s \in Subs : SameConn(s)
    BY <1>4 DEF vars, subVars, FloorLeads, SameConn, IInv, TypeOK
  <2> QED BY <2>1, OthersReader DEF ReaderInv
<1> QED BY <1>1, <1>2, <1>3, <1>4 DEF Next, Emits, Conn

-----------------------------------------------------------------------------
(* Replay and the ring together cover the log.                             *)

\* The row is about to be broadcast, or is where the receiver will read it.
Pending(s, x) ==
  \/ emit \in {"durable", "advanced"} /\ x \in rows
  \/ \E i \in rx[s]..Len(sent) : sent[i] = x

\* Rows beyond the replay bound, and for a live connection beyond its position,
\* are still to come.
RingOk(s) ==
  /\ sub[s] \in {"replay", "paged"} => \A x \in log : upper[s] < x => Pending(s, x)
  /\ sub[s] = "live" => \A x \in log : pos[s] < x => Pending(s, x)

RingInv == \A s \in Subs : RingOk(s)

\* What is still to come for a connection is so after a step of the process.
LEMMA OthersRing ==
  ASSUME IInv, NEW s \in Subs, Follows(s), RingOk(s), Emits \/ Sweep, ~CancelEmit
  PROVE  RingOk(s)'
<1>0. SameConn(s) /\ TypeOK /\ Grows
  BY ProcessGrows DEF IInv
<1> SUFFICES ASSUME NEW x \in log', sub[s] # "off",
                    x \in log => Pending(s, x)
             PROVE  Pending(s, x)'
  BY <1>0 DEF RingOk, SameConn
<1>1. CASE InsertBare \/ CommitTx
  <2>1. /\ emit \notin {"durable", "advanced"} /\ emit' = "durable" /\ log' = log \cup rows'
        /\ sent' = sent
    BY <1>1 DEF InsertBare, CommitTx
  <2> QED BY <1>0, <2>1 DEF Pending, SameConn
<1>2. CASE LockEmit \/ Stage \/ AbortEmit
  <2>1. emit \notin {"durable", "advanced"} /\ log' = log /\ sent' = sent
    BY <1>2 DEF LockEmit, EmitLockFree, Stage, AbortEmit, EmitFails
  <2> QED BY <1>0, <2>1 DEF Pending, SameConn
<1>3. CASE AdvanceCounter
  BY <1>0, <1>3 DEF AdvanceCounter, Pending, SameConn
<1>4. CASE Broadcast
  <2>1. /\ log' = log
        /\ \A y \in rows : \E i \in Len(sent) + 1..Len(sent') : sent'[i] = y
    BY <1>4, BroadcastAppends
  <2>2. rx[s] <= Len(sent) + 1 /\ rx[s] \in Nat \ {0} /\ Len(sent) \in Nat /\ Len(sent') \in Nat
    BY <1>0 DEF Follows, TypeOK, Grows
  <2>3. \E i \in rx[s]..Len(sent') : sent'[i] = x
    <3>1. CASE x \in rows
      <4>1. PICK i \in Len(sent) + 1..Len(sent') : sent'[i] = x
        BY <2>1, <3>1
      <4>2. i \in rx[s]..Len(sent')
        BY <2>2
      <4> QED BY <4>1, <4>2
    <3>2. CASE x \notin rows
      <4>1. PICK i \in rx[s]..Len(sent) : sent[i] = x
        BY <2>1, <3>2 DEF Pending
      <4>2. i \in 1..Len(sent) /\ i \in rx[s]..Len(sent')
        BY <1>0, <2>2 DEF Grows
      <4>3. sent'[i] = x
        BY <1>0, <4>1, <4>2 DEF Grows
      <4> QED BY <4>2, <4>3
    <3> QED BY <3>1, <3>2
  <2> QED BY <1>0, <2>3 DEF Pending, SameConn
<1>5. CASE CancelEmit
  BY <1>5
<1>6. CASE Sweep
  <2>1. log' \subseteq log /\ UNCHANGED <<emitVars, sent>>
    BY <1>6 DEF Sweep, GcReadMax, GcPublish, GcMarkWith, GcDelete, GcFail
  <2> QED BY <1>0, <2>1 DEF Pending, SameConn, emitVars
<1> QED BY <1>1, <1>2, <1>3, <1>4, <1>5, <1>6 DEF Emits, Emission

\* What is still to come is not disturbed when nothing but connections move.
LEMMA QuietRing ==
  ASSUME NEW s \in Subs, RingOk(s), SameConn(s), UNCHANGED <<log, sent, emitVars>>
  PROVE  RingOk(s)'
BY DEF RingOk, Pending, SameConn, emitVars

\* The connection that takes a step knows what is still to come.
LEMMA ConnRing ==
  ASSUME IInv, max_seq = Top, NEW s \in Subs, Follows(s), RingOk(s), Conn(s)
  PROVE  RingOk(s)'
<1>0. TypeOK /\ UNCHANGED <<log, lastSeq, sent, emitVars>>
  BY ConnAlone DEF IInv
<1>n. /\ log \subseteq Nat /\ rx[s] \in Nat \ {0} /\ Len(sent) \in Nat /\ lastSeq \in Nat
      /\ after[s] \in Nat /\ pos[s] \in Nat /\ upper[s] \in Nat
  BY <1>0 DEF TypeOK
<1>1. ASSUME NEW c \in 0..MaxSeq \cup {NoCursor}, Subscribe(s, c)
      PROVE  RingOk(s)'
  <2>1. /\ sub'[s] = (IF c = NoCursor THEN "live" ELSE "replay") /\ upper'[s] = lastSeq
        /\ pos'[s] = (IF c = NoCursor THEN lastSeq ELSE c) /\ emit = "free"
    BY <1>0, <1>1 DEF Subscribe, EmitLockFree, Attach, TypeOK
  <2>2. \A x \in log : ~(lastSeq < x)
    <3>1. max_seq = lastSeq
      BY <2>1 DEF Top
    <3>2. \A x \in log : x <= lastSeq
      BY <1>0, <3>1, MaxSeqFacts DEF TypeOK
    <3> QED BY <1>n, <3>2
  <2>3. CASE c = NoCursor
    BY <1>0, <2>1, <2>2, <2>3 DEF RingOk
  <2>4. CASE c # NoCursor
    BY <1>0, <2>1, <2>2, <2>4 DEF RingOk
  <2> QED BY <2>3, <2>4
<1>2. CASE FailClosed(s) \/ Lagged(s) \/ Disconnect(s)
  <2>1. sub'[s] = "off"
    BY <1>0, <1>2 DEF FailClosed, Lagged, Disconnect, HangUp, TypeOK
  <2> QED BY <2>1 DEF RingOk
<1>3. CASE ReadPage(s) \/ TakePage(s) \/ SendReplayed(s)
  <2>1. /\ sub[s] \in {"replay", "paged"} /\ sub'[s] \in {"replay", "paged"}
        /\ UNCHANGED <<upper, rx>>
    BY <1>0, <1>3 DEF ReadPage, TakePage, AcceptPage, SendReplayed, TypeOK
  <2> QED BY <1>0, <2>1 DEF RingOk, Pending, emitVars
<1>4. CASE GoLive(s)
  <2>1. /\ sub[s] = "replay" /\ sub'[s] = "live" /\ done[s] /\ queue[s] = {}
        /\ UNCHANGED <<pos, rx>>
    BY <1>0, <1>4 DEF GoLive, TypeOK
  <2>2. ASSUME NEW x \in log, pos[s] < x PROVE upper[s] < x
    BY <1>n, <2>1, <2>2 DEF Follows
  <2> QED BY <1>0, <2>1, <2>2 DEF RingOk, Pending, emitVars
<1>5. CASE RecvLive(s)
  <2>1. /\ sub[s] = "live" /\ sub'[s] = "live" /\ rx[s] <= Len(sent)
        /\ pos'[s] = sent[rx[s]] /\ rx'[s] = rx[s] + 1
    BY <1>0, <1>5 DEF RecvLive, TypeOK
  <2>2. rx[s] \in rx[s]..Len(sent) /\ pos[s] < sent[rx[s]] /\ sent[rx[s]] \in Nat
    <3>1. rx[s] \in rx[s]..Len(sent) /\ rx[s] \in DOMAIN sent
      BY <1>0, <1>n, <2>1 DEF TypeOK
    <3>2. sent[rx[s]] \in Nat
      BY <1>0, <3>1 DEF TypeOK
    <3>3. pos[s] < sent[rx[s]]
      BY <1>0, <2>1, <3>1 DEF IInv, SubInv
    <3> QED BY <3>1, <3>2, <3>3
  <2>3. ASSUME NEW x \in log, sent[rx[s]] < x PROVE Pending(s, x)'
    <3>1. pos[s] < x
      BY <1>n, <2>2, <2>3
    <3>2. Pending(s, x)
      BY <2>1, <3>1 DEF RingOk
    <3>3. ASSUME NEW i \in rx[s]..Len(sent), sent[i] = x PROVE i \in rx[s] + 1..Len(sent)
      <4>1. i # rx[s]
        BY <1>n, <2>2, <2>3, <3>3
      <4> QED BY <1>n, <4>1
    <3> QED BY <1>0, <2>1, <3>2, <3>3 DEF Pending, emitVars
  <2> QED BY <1>0, <2>1, <2>3 DEF RingOk
<1> QED BY <1>1, <1>2, <1>3, <1>4, <1>5 DEF Conn, Serve

\* Every step keeps account of what is still to come.
LEMMA RingStep ==
  ASSUME IInv, max_seq = Top, FollowInv, RingInv, [Next]_vars, ~CancelEmit
  PROVE  RingInv'
<1>1. CASE Emits \/ Sweep
  BY <1>1, OthersRing DEF RingInv, FollowInv
<1>2. ASSUME NEW s \in Subs, Conn(s) PROVE RingInv'
  <2>1. RingOk(s)'
    BY <1>2, ConnRing DEF RingInv, FollowInv
  <2>2. \A t \in Subs \ {s} : RingOk(t)'
    BY <1>2, ConnAlone, QuietRing DEF RingInv
  <2> QED BY <2>1, <2>2 DEF RingInv
<1>3. CASE Restart
  BY <1>3 DEF Restart, Reboot, RingInv, RingOk
<1>4. CASE UNCHANGED vars
  <2>1. UNCHANGED <<log, sent, emitVars>> /\ \A s \in Subs : SameConn(s)
    BY <1>4 DEF vars, subVars, SameConn
  <2> QED BY <2>1, QuietRing DEF RingInv
<1> QED BY <1>1, <1>2, <1>3, <1>4 DEF Next, Emits, Conn

-----------------------------------------------------------------------------
(* Results, for runs in which no sweep prunes what a dropped handler left.  *)

ReplayAll == IInv /\ OrphanInv /\ ReaderInv

\* Initially the log is empty and nobody is connected.
LEMMA InitReplay == Init => ReplayAll
<1> SUFFICES ASSUME Init PROVE ReplayAll
  OBVIOUS
<1>1. max_seq = 0
  BY DEF Init, max_seq, MaxOf
<1>2. Explained(lastSeq, max_seq)
  BY <1>1 DEF Init, Explained
<1>3. OrphanInv
  BY <1>1, <1>2 DEF Init, OrphanInv, Top, RetainedDense
<1>4. ReaderInv
  BY DEF Init, ReaderInv, ReaderOk
<1> QED BY <1>3, <1>4, InitIInv DEF ReplayAll

\* The log and the readers stay in order.
LEMMA ReplayInductive == Spec /\ OrphansUnpruned => []ReplayAll
<1> DEFINE Heeds == /\ GcPublish => gcMark' <= Top
                    /\ CancelEmit => pruneFloor <= lastSeq
<1>1. ReplayAll /\ [Next]_vars /\ [Heeds]_vars => ReplayAll'
  <2> SUFFICES ASSUME ReplayAll, [Next]_vars, [Heeds]_vars PROVE ReplayAll'
    OBVIOUS
  <2>1. IInv' /\ ReaderInv'
    BY NextIInv, ReaderStep DEF ReplayAll
  <2>2. Heeds
    <3>1. CASE UNCHANGED vars
      <4>1. ~CancelEmit
        BY <3>1 DEF CancelEmit, vars, bounds, ReplayAll, IInv, TypeOK
      <4>2. ~GcPublish
        BY <3>1 DEF GcPublish, GcMarkWith, vars, gcVars
      <4> QED BY <4>1, <4>2
    <3> QED BY <3>1
  <2>3. OrphanInv'
    BY <2>2, OrphanStep DEF ReplayAll
  <2> QED BY <2>1, <2>3 DEF ReplayAll
<1> QED BY <1>1, InitReplay, PTL DEF Spec, OrphansUnpruned

\* prune_below leaves no hole, and neither do aborted emissions, restarts or
\* dropped handlers: the retained rows are an interval, unless a sweep prunes
\* rows that a dropped handler left above the counter.
THEOREM LogStaysDense == Spec /\ OrphansUnpruned => []RetainedDense
<1>1. ReplayAll => RetainedDense
  BY DEF ReplayAll, OrphanInv
<1> QED BY <1>1, ReplayInductive, PTL

\* next_batch never fails closed because of a sweep: note_pruned publishes the
\* floor before the DELETE, and the floor is read after the page.  Rows that
\* dropped handlers left are replayed like any other.
THEOREM SweepNeverFailsReplay == Spec /\ OrphansUnpruned => []ReplayNeverFails
<1>1. ReplayAll => ReplayNeverFails
  BY DEF ReplayAll, ReaderInv, ReaderOk, ReplayNeverFails
<1> QED BY <1>1, ReplayInductive, PTL

\* No row is inserted at or below the floor: insert_at_frontier continues from
\* the counter or past the rows above it, which the watermark has not reached.
THEOREM PrunedNeverReused == Spec /\ OrphansUnpruned => NoReuse
<1>1. ReplayAll /\ [Next]_vars => [\A q \in log' \ log : pruneFloor < q]_vars
  <2> SUFFICES ASSUME ReplayAll, Next, NEW q \in log' \ log PROVE pruneFloor < q
    OBVIOUS
  <2> USE DEF ReplayAll
  <2>1. InsertBare \/ CommitTx
    <3>1. CASE Restart
      BY <3>1 DEF Restart, Reboot
    <3>2. CASE \E s \in Subs : Conn(s)
      BY <3>2, ConnAlone
    <3>3. CASE LockEmit \/ Stage \/ AbortEmit \/ CancelEmit \/ AdvanceCounter \/ Broadcast \/ Sweep
      BY <3>3 DEF Sweep, LockEmit, Stage, AbortEmit, EmitFails, CancelEmit, AdvanceCounter,
                Broadcast, BroadcastAs, GcReadMax, GcPublish, GcMarkWith, GcDelete, GcFail
    <3> QED BY <3>1, <3>2, <3>3 DEF Next, Emission, Conn
  <2>2. lastSeq < q /\ log' \subseteq Nat
    BY <2>1, ProcessGrows DEF Emits, Emission, Grows
  <2>3. pruneFloor <= lastSeq
    BY <2>1 DEF InsertBare, CommitTx, OrphanInv, Top
  <2>4. pruneFloor \in Nat /\ lastSeq \in Nat /\ q \in Nat
    BY <2>2 DEF IInv, TypeOK
  <2> QED BY <2>2, <2>3, <2>4
<1> QED BY <1>1, ReplayInductive, PTL DEF Spec, NoReuse

-----------------------------------------------------------------------------
(* Results, for runs in which no handler is dropped after its commit: the  *)
(* counter is MAX(seq) but for the rows of the emission that is finishing. *)

SettledInv ==
  /\ max_seq = Top
  /\ gc = "sized" => gcMax <= max_seq

\* The clamp on MAX(seq) is one on the counter then.
LEMMA SettledHeeds ==
  ASSUME IInv, SettledInv, GcPublish
  PROVE  gcMark' <= Top
<1>1. PICK age \in AgeMarks : gcMark' = Watermark(age)
  BY DEF GcPublish, GcMarkWith
<1>2. /\ gc = "sized" /\ gcMax > 0 /\ gcMax \in 0..MaxSeq /\ log \subseteq Seqs
      /\ max_seq \in 0..MaxSeq
  BY MaxSeqFacts DEF GcPublish, GcMarkWith, IInv, TypeOK, LogInv
<1>3. age \in Nat
  BY <1>1, <1>2 DEF AgeMarks
<1>4. gcMark' \in Nat /\ gcMark' < gcMax
  BY <1>1, <1>2, <1>3, WatermarkBelowMax
<1> QED BY <1>2, <1>4 DEF SettledInv

\* Every step leaves the counter at MAX(seq), or about to get there.
LEMMA SettledStep ==
  ASSUME IInv, OrphanInv, OrphanInv', SettledInv, [Next]_vars, ~CancelEmit
  PROVE  SettledInv'
<1>0. log \subseteq Seqs /\ max_seq \in 0..MaxSeq /\ gcMax \in 0..MaxSeq
  BY MaxSeqFacts DEF IInv, TypeOK
<1>1. CASE InsertBare \/ CommitTx
  <2>1. emit # "durable" /\ emit' = "durable" /\ UNCHANGED gcVars
    BY <1>1 DEF InsertBare, CommitTx
  <2>2. max_seq' = Top'
    BY <2>1 DEF OrphanInv, Top
  <2>3. max_seq' \in 0..MaxSeq /\ \A q \in log' : q <= max_seq'
    <3>1. MaxSeq \in Nat /\ log' \subseteq 0..MaxSeq
      BY NextIInv DEF IInv, TypeOK
    <3> QED BY ONLY <3>1, MaxOfBounded, Zenon DEF max_seq
  <2>4. max_seq <= max_seq'
    <3>1. log \subseteq log'
      BY <1>1 DEF InsertBare, CommitTx
    <3>2. log = {} => max_seq = 0
      BY DEF max_seq, MaxOf
    <3> QED BY <1>0, <2>3, <3>1, <3>2, MaxSeqFacts
  <2> QED BY <1>0, <2>1, <2>2, <2>3, <2>4 DEF SettledInv, gcVars
<1>2. CASE Stage \/ LockEmit \/ AbortEmit \/ Broadcast
  <2>1. /\ emit # "durable" /\ emit' # "durable" /\ UNCHANGED <<log, lastSeq, gcVars>>
    BY <1>2 DEF Stage, LockEmit, EmitLockFree, AbortEmit, EmitFails, Broadcast, BroadcastAs
  <2> QED BY <2>1 DEF SettledInv, Top, max_seq, gcVars
<1>3. CASE AdvanceCounter
  <2>1. /\ emit = "durable" /\ emit' = "advanced" /\ lastSeq' = MaxOf(rows)
        /\ UNCHANGED <<log, gcVars>>
    BY <1>3 DEF AdvanceCounter
  <2> QED BY <2>1 DEF SettledInv, Top, max_seq, gcVars
<1>4. CASE GcReadMax \/ GcFail \/ GcPublish
  <2>1. /\ UNCHANGED <<log, lastSeq, emitVars>>
        /\ gc' = "sized" => gcMax' = max_seq
    BY <1>4 DEF GcReadMax, GcFail, GcPublish, GcMarkWith
  <2>2. max_seq' = max_seq /\ Top' = Top
    BY <2>1 DEF max_seq, Top, emitVars
  <2> QED BY <1>0, <2>1, <2>2 DEF SettledInv
<1>5. CASE GcDelete
  <2>1. gc' = "idle" /\ UNCHANGED <<lastSeq, emitVars>> /\ max_seq' = max_seq
    BY <1>5, DeleteKeepsMax DEF OrphanInv
  <2>2. Top' = Top
    BY <2>1 DEF Top, emitVars
  <2> QED BY <2>1, <2>2 DEF SettledInv
<1>6. CASE Restart
  BY <1>6 DEF Restart, Reboot, SettledInv, Top, max_seq
<1>7. CASE UNCHANGED vars \/ \E s \in Subs : Conn(s)
  <2>1. UNCHANGED <<log, lastSeq, emitVars, gcVars>>
    BY <1>7, ConnAlone DEF vars
  <2> QED BY <2>1 DEF SettledInv, Top, max_seq, emitVars, gcVars
<1> QED BY <1>1, <1>2, <1>3, <1>4, <1>5, <1>6, <1>7 DEF Next, Emission, Sweep, Conn

SettledAll == IInv /\ OrphanInv /\ SettledInv /\ FollowInv /\ RingInv

\* The invariants hold throughout.
LEMMA SettledInductive == Spec /\ NoDrop => []SettledAll
<1>1. Init => SettledAll
  <2> SUFFICES ASSUME Init PROVE SettledAll
    OBVIOUS
  <2>1. max_seq = 0
    BY DEF Init, max_seq, MaxOf
  <2>2. SettledInv /\ FollowInv /\ RingInv
    BY <2>1 DEF Init, SettledInv, Top, FollowInv, Follows, RingInv, RingOk
  <2> QED BY <2>2, InitReplay DEF ReplayAll, SettledAll
<1>2. SettledAll /\ [Next]_vars /\ [~CancelEmit]_vars => SettledAll'
  <2> SUFFICES ASSUME SettledAll, [Next]_vars, [~CancelEmit]_vars PROVE SettledAll'
    OBVIOUS
  <2> USE DEF SettledAll
  <2>1. ~CancelEmit
    BY DEF CancelEmit, vars, bounds, IInv, TypeOK
  <2>2. OrphanInv'
    BY <2>1, OrphanStep, SettledHeeds
  <2>3. SettledInv'
    BY <2>1, <2>2, SettledStep
  <2>4. RingInv'
    BY <2>1, RingStep DEF SettledInv
  <2> QED BY <2>2, <2>3, <2>4, NextIInv, FollowStep
<1> QED BY <1>1, <1>2, PTL DEF Spec, NoDrop

\* The sweep's clamp on MAX(seq) is enough when no handler is dropped between its
\* commit and finish: the results above hold of every such run.
THEOREM ClampSuffices == Spec /\ NoDrop => OrphansUnpruned
<1> DEFINE Heeds == /\ GcPublish => gcMark' <= Top
                    /\ CancelEmit => pruneFloor <= lastSeq
<1>1. SettledAll /\ [~CancelEmit]_vars => [Heeds]_vars
  BY SettledHeeds DEF SettledAll
<1> QED BY <1>1, SettledInductive, PTL DEF NoDrop, OrphansUnpruned

\* A connection never moves past a retained row: replay hands over to the ring
\* without a gap, and a receiver that lags is closed before it skips.
THEOREM NothingSkipped == Spec /\ NoDrop => NoGap
<1>1. SettledAll /\ [Next]_vars => [\A s \in Subs, x \in log : ~Skips(s, x)]_vars
  <2> SUFFICES ASSUME SettledAll, Next, NEW s \in Subs, NEW x \in log, Skips(s, x) PROVE FALSE
    OBVIOUS
  <2>0. IInv /\ Follows(s) /\ RingOk(s)
    BY DEF SettledAll, FollowInv, RingInv
  <2>1. sub[s] # "off" /\ pos'[s] # pos[s] /\ pos[s] < x /\ x < pos'[s]
    <3>1. pos[s] \in Nat /\ x \in Nat
      BY <2>0 DEF IInv, TypeOK
    <3>2. sub[s] # "off" /\ pos[s] < x /\ x < pos'[s]
      BY DEF Skips
    <3> QED BY <3>1, <3>2
  <2>2. RecvLive(s)
    BY <2>0, <2>1, OnlySendsMove, ReplaySkipsNothing
  <2>3. /\ sub[s] = "live" /\ rx[s] <= Len(sent) /\ pos'[s] = sent[rx[s]]
        /\ rx[s] \in DOMAIN sent /\ x \in Nat /\ rx[s] \in Nat /\ Len(sent) \in Nat
        /\ DOMAIN sent = 1..Len(sent) /\ \A i \in DOMAIN sent : sent[i] \in Nat
    BY <2>0, <2>2 DEF RecvLive, IInv, TypeOK
  <2>4. Pending(s, x)
    BY <2>1, <2>3, <2>0 DEF RingOk
  <2>5. CASE emit \in {"durable", "advanced"} /\ x \in rows
    <3>1. PICK n \in Seqs : RowsAt(n)
      BY <2>0, <2>5 DEF IInv, EmitInv, Holding
    <3>2. sent[rx[s]] < n /\ n <= x
      BY <2>3, <2>5, <3>1 DEF RowsAt
    <3> QED BY <2>1, <2>3, <3>2
  <2>6. ASSUME NEW i \in rx[s]..Len(sent), sent[i] = x PROVE FALSE
    <3>1. CASE i = rx[s]
      BY <2>1, <2>3, <2>6, <3>1
    <3>2. CASE rx[s] < i
      <4>1. i \in DOMAIN sent
        BY <2>3
      <4>2. sent[rx[s]] < sent[i]
        BY <2>0, <2>3, <3>2, <4>1 DEF IInv, SentInv, SentInOrder
      <4> QED BY <2>1, <2>3, <2>6, <4>1, <4>2
    <3> QED BY <2>3, <3>1, <3>2
  <2> QED BY <2>4, <2>5, <2>6 DEF Pending
<1> QED BY <1>1, SettledInductive, PTL DEF Spec, NoGap
=============================================================================
