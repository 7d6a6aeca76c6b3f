--------------------------- MODULE FirehoseProofs ---------------------------
(***************************************************************************)
(* Proofs about Firehose: for any number of subscribers, any ring and page *)
(* size, any retention policy, and any number of dropped handlers and      *)
(* restarts, the frontier stays durable, a consumer may always resume, and *)
(* delivery neither repeats nor reorders.                                  *)
(***************************************************************************)
EXTENDS Firehose, TLAPS, WellFoundedInduction, SequenceTheorems

-----------------------------------------------------------------------------
(* The inductive invariant.                                                *)

Holding == emit \in {"staged", "durable", "advanced"}

\* The rows of the emission in flight are one seq, or one and its successor;
\* they lie above everything broadcast, delivered or promised to a replay.
RowsAt(n) ==
  /\ rows = IF kind = "pair" THEN {n, n + 1} ELSE {n}
  /\ emit # "advanced" => lastSeq < n
  /\ emit = "advanced" => lastSeq = IF kind = "pair" THEN n + 1 ELSE n
  /\ \A i \in DOMAIN sent : sent[i] < n
  /\ \A s \in Subs : pos[s] < n /\ upper[s] < n

EmitInv ==
  /\ Holding => \E n \in Seqs : RowsAt(n)
  /\ emit = "durable" => \E q \in log : \A r \in rows : r <= q

\* Some retained row reaches the counter, and survives the pending DELETE.
LogInv ==
  /\ lastSeq = 0 \/ \E q \in log : lastSeq <= q
  /\ gc = "sized" => gcMax > 0 /\ \E q \in log : gcMax <= q
  /\ gc = "marked" => \E q \in log : gcMark < q

SentInv == SentInOrder /\ \A i \in DOMAIN sent : sent[i] <= lastSeq

SubInv ==
  \A s \in Subs :
    /\ pos[s] <= lastSeq /\ upper[s] <= lastSeq
    /\ sub[s] # "paged" => page[s] = {}
    /\ sub[s] # "replay" => queue[s] = {}
    /\ sub[s] \in {"replay", "paged"} =>
         /\ pos[s] <= after[s] /\ after[s] <= upper[s]
         /\ \A q \in queue[s] : pos[s] < q /\ q <= after[s]
         /\ \A q \in page[s] : after[s] < q /\ q <= upper[s]
    /\ sub[s] # "off" =>
         \A i \in rx[s]..Len(sent) : upper[s] < sent[i] /\ pos[s] < sent[i]

IInv == TypeOK /\ EmitInv /\ LogInv /\ SentInv /\ SubInv

\* A set of naturals has a least member.
LEMMA NatMin ==
  ASSUME NEW T, T \subseteq Nat, T # {}
  PROVE  \E x \in T : \A y \in T : x <= y
<1> DEFINE R == OpToRel(<, Nat)
<1>1. \E x \in T : \A y \in T : ~ (<<y, x>> \in R)
  <2>1. IsWellFoundedOn(R, Nat)
    BY NatLessThanWellFounded
  <2> HIDE DEF R
  <2> QED BY <2>1, WFMin
<1>2. ASSUME NEW x \in Nat, NEW y \in Nat, ~ (<<y, x>> \in R)
      PROVE  x <= y
  BY <1>2 DEF OpToRel
<1> HIDE DEF R
<1> QED BY <1>1, <1>2

\* MaxOf, which models MAX(seq), is the maximum of a bounded set and 0 of none.
LEMMA MaxOfBounded ==
  ASSUME NEW n \in Nat, NEW S, S \subseteq 0..n
  PROVE  /\ MaxOf(S) \in 0..n
         /\ \A x \in S : x <= MaxOf(S)
         /\ S # {} => MaxOf(S) \in S
<1>1. CASE S = {}
  BY <1>1 DEF MaxOf
<1>2. CASE S # {}
  <2> DEFINE T == {n - x : x \in S}
  <2>0. \A x \in S : x \in Nat /\ x <= n /\ n - x \in Nat /\ n - x \in T
    OBVIOUS
  <2>1. T \subseteq Nat /\ T # {}
    BY <1>2, <2>0
  <2>2. PICK t \in T : \A y \in T : t <= y
    <3> HIDE DEF T
    <3> QED BY <2>1, NatMin
  <2>3. PICK m \in S : t = n - m
    OBVIOUS
  <2>4. \A x \in S : x <= m
    <3> SUFFICES ASSUME NEW x \in S PROVE x <= m
      OBVIOUS
    <3>1. n - m <= n - x
      BY <2>0, <2>2, <2>3
    <3> QED BY <2>0, <3>1
  <2> QED BY <1>2, <2>3, <2>4 DEF MaxOf
<1> QED BY <1>1, <1>2


USE FirehoseAssumption DEF Seqs

\* Broadcasting an event extends the stream by it.
LEMMA AppendOnce ==
  ASSUME NEW S, NEW seq \in Seq(S), NEW a \in S
  PROVE  /\ Append(seq, a) \in Seq(S)
         /\ Len(Append(seq, a)) = Len(seq) + 1
         /\ \A i \in 1..Len(seq) : Append(seq, a)[i] = seq[i]
         /\ Append(seq, a)[Len(seq) + 1] = a
<1>1. PICK u \in Seq(S) : u = Append(seq, a)
  BY AppendProperties
<1>2. /\ Len(u) = Len(seq) + 1 /\ u[Len(seq) + 1] = a
      /\ \A i \in 1..Len(seq) : u[i] = seq[i]
  BY ONLY <1>1, AppendProperties, Zenon
<1> QED BY ONLY <1>1, <1>2

\* Broadcasting an event and its #sync extends the stream by the two, in that
\* order.
LEMMA AppendTwice ==
  ASSUME NEW S, NEW seq \in Seq(S), NEW a \in S, NEW b \in S
  PROVE  /\ Append(Append(seq, a), b) \in Seq(S)
         /\ Len(Append(Append(seq, a), b)) = Len(seq) + 2
         /\ \A i \in 1..Len(seq) : Append(Append(seq, a), b)[i] = seq[i]
         /\ Append(Append(seq, a), b)[Len(seq) + 1] = a
         /\ Append(Append(seq, a), b)[Len(seq) + 2] = b
<1>1. PICK u \in Seq(S) : u = Append(seq, a)
  BY AppendProperties
<1>2. /\ Len(u) = Len(seq) + 1 /\ u[Len(seq) + 1] = a
      /\ \A i \in 1..Len(seq) : u[i] = seq[i]
  BY ONLY <1>1, AppendProperties, Zenon
<1>3. PICK t \in Seq(S) : t = Append(u, b)
  BY AppendProperties
<1>4. /\ Len(t) = Len(u) + 1 /\ t[Len(u) + 1] = b
      /\ \A i \in 1..Len(u) : t[i] = u[i]
  BY ONLY <1>3, AppendProperties, Zenon
<1>5. Len(seq) \in Nat
  OBVIOUS
<1>6. /\ t \in Seq(S) /\ Len(t) = Len(seq) + 2
      /\ \A i \in 1..Len(seq) : t[i] = seq[i]
      /\ t[Len(seq) + 1] = a /\ t[Len(seq) + 2] = b
  BY ONLY <1>2, <1>4, <1>5, t \in Seq(S)
<1> QED BY ONLY <1>1, <1>3, <1>6

\* MAX(seq) is an upper bound of the log, and a row of it unless it is empty.
LEMMA MaxSeqFacts ==
  ASSUME log \subseteq Seqs
  PROVE  /\ max_seq \in 0..MaxSeq
         /\ \A q \in log : q <= max_seq
         /\ log # {} => max_seq \in log
<1>1. MaxSeq \in Nat /\ log \subseteq 0..MaxSeq
  OBVIOUS
<1> QED BY ONLY <1>1, MaxOfBounded, Zenon DEF max_seq

\* The seq an insert gets is new and above the counter.
LEMMA FrontierIsFree ==
  ASSUME log \subseteq Seqs, lastSeq \in 0..MaxSeq
  PROVE  /\ insert_at_frontier \in Nat
         /\ lastSeq < insert_at_frontier
         /\ insert_at_frontier \notin log
BY MaxSeqFacts DEF insert_at_frontier

\* A page moves the reader's position forward, to its last row.
LEMMA LastRowFacts ==
  ASSUME NEW s \in Subs, after[s] \in 0..MaxSeq, page[s] \subseteq Seqs
  PROVE  /\ LastRow(s) \in 0..MaxSeq
         /\ after[s] <= LastRow(s)
         /\ \A q \in page[s] : q <= LastRow(s)
         /\ LastRow(s) = after[s] \/ LastRow(s) \in page[s]
<1> DEFINE S == {after[s]} \cup page[s]
<1>1. S \subseteq 0..MaxSeq /\ S # {}
  OBVIOUS
<1>2. LastRow(s) \in S /\ \A x \in S : x <= LastRow(s)
  <2> HIDE DEF S
  <2>1. LastRow(s) = MaxOf(S)
    BY DEF LastRow, S
  <2>2. MaxSeq \in Nat
    OBVIOUS
  <2> QED BY ONLY <1>1, <2>1, <2>2, MaxOfBounded, Zenon
<1> QED BY <1>1, <1>2

\* The clamp keeps the watermark below the MAX(seq) the sweep read.
LEMMA WatermarkBelowMax ==
  ASSUME NEW age \in Nat, gcMax \in 0..MaxSeq, gcMax > 0
  PROVE  Watermark(age) \in Nat /\ Watermark(age) < gcMax
BY DEF Watermark, CountMark

\* An empty log satisfies the invariant.
LEMMA InitIInv == Init => IInv
<1> SUFFICES ASSUME Init PROVE IInv
  OBVIOUS
<1> USE DEF Init
<1>1. TypeOK
  BY DEF TypeOK
<1>2. EmitInv /\ LogInv
  BY DEF EmitInv, LogInv, Holding
<1>3. SentInv
  BY DEF SentInv, SentInOrder
<1>4. SubInv
  BY DEF SubInv
<1> QED BY <1>1, <1>2, <1>3, <1>4 DEF IInv

\* Every step of an emission, a connection, the sweep and a restart keeps the
\* invariant.
LEMMA NextIInv == IInv /\ [Next]_vars => IInv'
<1> SUFFICES ASSUME IInv, [Next]_vars PROVE IInv'
  OBVIOUS
<1> USE DEF IInv
<1>1. ASSUME LockEmit PROVE IInv'
  <2>1. TypeOK'
    BY <1>1 DEF LockEmit, TypeOK, emitVars, subVars, gcVars, bounds
  <2>2. EmitInv'
    BY <1>1 DEF LockEmit, TypeOK, EmitInv, Holding, RowsAt, emitVars, subVars, gcVars, bounds
  <2>3. LogInv'
    BY <1>1 DEF LockEmit, TypeOK, LogInv, emitVars, subVars, gcVars, bounds
  <2>4. SentInv'
    BY <1>1 DEF LockEmit, TypeOK, SentInv, SentInOrder, emitVars, subVars, gcVars, bounds
  <2>5. SubInv'
    BY <1>1 DEF LockEmit, TypeOK, SubInv, emitVars, subVars, gcVars, bounds
  <2> QED BY <2>1, <2>2, <2>3, <2>4, <2>5
<1>2. ASSUME InsertBare PROVE IInv'
  <2>1. TypeOK'
    BY <1>2 DEF InsertBare, TypeOK, emitVars, subVars, gcVars, bounds
  <2>2. EmitInv'
    <3>0. PICK n \in Seqs : n = insert_at_frontier
      BY <1>2 DEF InsertBare
    <3>1. lastSeq < n
      BY <3>0, FrontierIsFree DEF TypeOK
    <3>2. rows' = {n} /\ n \in log' /\ emit' = "durable" /\ kind = "bare"
          /\ UNCHANGED <<kind, lastSeq, sent, pos, upper>>
      BY <1>2, <3>0 DEF InsertBare, subVars
    <3>3. RowsAt(n)'
      BY <3>1, <3>2 DEF RowsAt, TypeOK, SentInv, SubInv
    <3> QED BY <3>1, <3>2, <3>3 DEF EmitInv, TypeOK
  <2>3. LogInv'
    BY <1>2 DEF InsertBare, TypeOK, LogInv, emitVars, subVars, gcVars, bounds
  <2>4. SentInv'
    BY <1>2 DEF InsertBare, TypeOK, SentInv, SentInOrder, emitVars, subVars, gcVars, bounds
  <2>5. SubInv'
    BY <1>2 DEF InsertBare, TypeOK, SubInv, emitVars, subVars, gcVars, bounds
  <2> QED BY <2>1, <2>2, <2>3, <2>4, <2>5
<1>3. ASSUME Stage PROVE IInv'
  <2>1. TypeOK'
    BY <1>3 DEF Stage, TypeOK, emitVars, subVars, gcVars, bounds
  <2>2. EmitInv'
    <3>0. PICK n \in Nat : n = insert_at_frontier
      BY FrontierIsFree DEF TypeOK
    <3>1. lastSeq < n
      BY <3>0, FrontierIsFree DEF TypeOK
    <3>2. rows' = (IF kind = "pair" THEN {n, n + 1} ELSE {n}) /\ rows' \subseteq Seqs
          /\ emit' = "staged" /\ UNCHANGED <<kind, lastSeq, sent, pos, upper>>
      BY <1>3, <3>0 DEF Stage, subVars
    <3>3. n \in Seqs
      BY <3>2
    <3>4. RowsAt(n)'
      BY <3>1, <3>2 DEF RowsAt, TypeOK, SentInv, SubInv
    <3> QED BY <3>2, <3>3, <3>4 DEF EmitInv
  <2>3. LogInv'
    BY <1>3 DEF Stage, TypeOK, LogInv, emitVars, subVars, gcVars, bounds
  <2>4. SentInv'
    BY <1>3 DEF Stage, TypeOK, SentInv, SentInOrder, emitVars, subVars, gcVars, bounds
  <2>5. SubInv'
    BY <1>3 DEF Stage, TypeOK, SubInv, emitVars, subVars, gcVars, bounds
  <2> QED BY <2>1, <2>2, <2>3, <2>4, <2>5
<1>4. ASSUME CommitTx PROVE IInv'
  <2>1. TypeOK'
    BY <1>4 DEF CommitTx, TypeOK, emitVars, subVars, gcVars, bounds
  <2>2. EmitInv'
    <3>1. PICK n \in Seqs : RowsAt(n)
      BY <1>4 DEF CommitTx, EmitInv, Holding
    <3>2. RowsAt(n)'
      BY <1>4, <3>1 DEF CommitTx, RowsAt, subVars
    <3>3. \E q \in log' : \A r \in rows' : r <= q
      <4>1. CASE kind = "pair"
        BY <1>4, <3>1, <4>1 DEF CommitTx, RowsAt
      <4>2. CASE kind # "pair"
        BY <1>4, <3>1, <4>2 DEF CommitTx, RowsAt
      <4> QED BY <4>1, <4>2
    <3> QED BY <3>2, <3>3 DEF EmitInv
  <2>3. LogInv'
    BY <1>4 DEF CommitTx, TypeOK, LogInv, emitVars, subVars, gcVars, bounds
  <2>4. SentInv'
    BY <1>4 DEF CommitTx, TypeOK, SentInv, SentInOrder, emitVars, subVars, gcVars, bounds
  <2>5. SubInv'
    BY <1>4 DEF CommitTx, TypeOK, SubInv, emitVars, subVars, gcVars, bounds
  <2> QED BY <2>1, <2>2, <2>3, <2>4, <2>5
<1>5. ASSUME AbortEmit PROVE IInv'
  <2>1. TypeOK'
    BY <1>5 DEF AbortEmit, EmitFails, TypeOK, emitVars, subVars, gcVars, bounds
  <2>2. EmitInv'
    BY <1>5 DEF AbortEmit, EmitFails, TypeOK, EmitInv, Holding, RowsAt, emitVars, subVars,
       gcVars, bounds
  <2>3. LogInv'
    BY <1>5 DEF AbortEmit, EmitFails, TypeOK, LogInv, emitVars, subVars, gcVars, bounds
  <2>4. SentInv'
    BY <1>5 DEF AbortEmit, EmitFails, TypeOK, SentInv, SentInOrder, emitVars, subVars, gcVars,
       bounds
  <2>5. SubInv'
    BY <1>5 DEF AbortEmit, EmitFails, TypeOK, SubInv, emitVars, subVars, gcVars, bounds
  <2> QED BY <2>1, <2>2, <2>3, <2>4, <2>5
<1>6. ASSUME CancelEmit PROVE IInv'
  <2>1. TypeOK'
    BY <1>6 DEF CancelEmit, TypeOK, emitVars, subVars, gcVars, bounds
  <2>2. EmitInv'
    BY <1>6 DEF CancelEmit, TypeOK, EmitInv, Holding, RowsAt, emitVars, subVars, gcVars, bounds
  <2>3. LogInv'
    BY <1>6 DEF CancelEmit, TypeOK, LogInv, emitVars, subVars, gcVars, bounds
  <2>4. SentInv'
    BY <1>6 DEF CancelEmit, TypeOK, SentInv, SentInOrder, emitVars, subVars, gcVars, bounds
  <2>5. SubInv'
    BY <1>6 DEF CancelEmit, TypeOK, SubInv, emitVars, subVars, gcVars, bounds
  <2> QED BY <2>1, <2>2, <2>3, <2>4, <2>5
<1>7. ASSUME AdvanceCounter PROVE IInv'
  <2> USE <1>7 DEF AdvanceCounter, emitVars, subVars, gcVars, bounds
  <2>a. PICK n \in Seqs : RowsAt(n)
    BY DEF EmitInv, Holding
  <2>b. lastSeq < n /\ lastSeq' = IF kind = "pair" THEN n + 1 ELSE n
    <3>1. rows \subseteq Seqs /\ n \in rows
      BY <2>a DEF RowsAt, TypeOK
    <3>2. MaxSeq \in Nat /\ rows \subseteq 0..MaxSeq /\ rows # {}
      BY <3>1
    <3>3. MaxOf(rows) \in rows /\ \A x \in rows : x <= MaxOf(rows)
      BY ONLY <3>2, MaxOfBounded, Zenon
    <3> QED BY <2>a, <3>3 DEF RowsAt
  <2>c. lastSeq' \in rows /\ lastSeq' \in 0..MaxSeq
    <3>1. lastSeq' \in rows
      BY <2>a, <2>b DEF RowsAt
    <3>2. rows \subseteq Seqs
      BY DEF TypeOK
    <3> QED BY <3>1, <3>2
  <2>1. TypeOK'
    BY <2>c DEF TypeOK
  <2>2. EmitInv'
    <3>1. RowsAt(n)'
      BY <2>a, <2>b DEF RowsAt
    <3> QED BY <3>1 DEF EmitInv
  <2>3. LogInv'
    BY <2>c DEF TypeOK, LogInv, EmitInv
  <2>d. lastSeq <= lastSeq'
    BY <2>b DEF TypeOK
  <2>4. SentInv'
    BY <2>c, <2>d DEF TypeOK, SentInv, SentInOrder
  <2>5. SubInv'
    BY <2>c, <2>d DEF TypeOK, SubInv
  <2> QED BY <2>1, <2>2, <2>3, <2>4, <2>5
<1>8. ASSUME Broadcast PROVE IInv'
  <2> USE <1>8 DEF Broadcast, BroadcastAs, emitVars, subVars, gcVars, bounds
  <2>a. PICK n \in Seqs : RowsAt(n)
    BY DEF EmitInv, Holding
  <2>b. /\ Len(sent) \in Nat /\ DOMAIN sent = 1..Len(sent)
        /\ \A i \in 1..Len(sent) : sent[i] \in Seqs /\ sent[i] < n
    BY <2>a DEF TypeOK, RowsAt
  <2>c. /\ sent' \in Seq(Seqs) /\ Len(sent') \in Nat
        /\ Len(sent) <= Len(sent')
        /\ \A i \in 1..Len(sent) : sent'[i] = sent[i]
        /\ \A i \in 1..Len(sent') : i > Len(sent) => n <= sent'[i] /\ sent'[i] <= lastSeq
        /\ \A i, j \in 1..Len(sent') : Len(sent) < i /\ i < j => sent'[i] < sent'[j]
    <3>1. CASE kind = "pair"
      <4>1. lastSeq = n + 1 /\ lastSeq \in Seqs /\ sent' = Append(Append(sent, n), n + 1)
        <5>1. lastSeq = n + 1 /\ rows = {n, n + 1}
          BY <2>a, <3>1 DEF RowsAt
        <5>2. rows \subseteq Seqs
          BY DEF TypeOK
        <5> QED BY <3>1, <5>1, <5>2
      <4>2. sent \in Seq(Seqs) /\ n + 1 \in Seqs
        BY <4>1 DEF TypeOK
      <4>3. PICK m \in Seqs : m = n + 1
        BY <4>2
      <4>4. sent' = Append(Append(sent, n), m)
        BY <4>1, <4>3
      <4>5. /\ sent' \in Seq(Seqs) /\ Len(sent') = Len(sent) + 2
            /\ \A i \in 1..Len(sent) : sent'[i] = sent[i]
            /\ sent'[Len(sent) + 1] = n /\ sent'[Len(sent) + 2] = m
        <5> DEFINE t == Append(Append(sent, n), m)
        <5>1. /\ t \in Seq(Seqs) /\ Len(t) = Len(sent) + 2
              /\ \A i \in 1..Len(sent) : t[i] = sent[i]
              /\ t[Len(sent) + 1] = n /\ t[Len(sent) + 2] = m
          BY <4>2, AppendTwice
        <5>2. sent' = t
          BY <4>4
        <5> HIDE DEF t
        <5> QED BY ONLY <5>1, <5>2
      <4> QED BY ONLY <2>b, <4>1, <4>3, <4>5, n \in Nat
    <3>2. CASE kind # "pair"
      <4>1. lastSeq = n /\ sent' = Append(sent, n) /\ sent \in Seq(Seqs)
        BY <2>a, <3>2 DEF RowsAt, TypeOK
      <4>2. /\ sent' \in Seq(Seqs) /\ Len(sent') = Len(sent) + 1 /\ sent'[Len(sent) + 1] = n
            /\ \A i \in 1..Len(sent) : sent'[i] = sent[i]
        <5> DEFINE t == Append(sent, n)
        <5>1. /\ t \in Seq(Seqs) /\ Len(t) = Len(sent) + 1
              /\ \A i \in 1..Len(sent) : t[i] = sent[i]
              /\ t[Len(sent) + 1] = n
          BY <4>1, AppendOnce
        <5>2. sent' = t
          BY <4>1
        <5> HIDE DEF t
        <5> QED BY ONLY <5>1, <5>2
      <4> QED BY ONLY <2>b, <4>1, <4>2, n \in Nat
    <3> QED BY <3>1, <3>2
  <2>d. DOMAIN sent' = 1..Len(sent')
    BY <2>c
  <2>1. TypeOK'
    BY <2>c DEF TypeOK
  <2>2. EmitInv'
    BY DEF EmitInv, Holding
  <2>3. LogInv'
    BY DEF LogInv
  <2>4. SentInv'
    <3>1. \A i \in DOMAIN sent' : sent'[i] <= lastSeq
      BY <2>b, <2>c, <2>d DEF SentInv, TypeOK
    <3>2. ASSUME NEW i \in DOMAIN sent', NEW j \in DOMAIN sent', i < j
          PROVE  sent'[i] < sent'[j]
      <4>1. CASE j <= Len(sent)
        BY <2>b, <2>c, <2>d, <3>2, <4>1 DEF SentInv, SentInOrder
      <4>2. CASE i <= Len(sent) /\ Len(sent) < j
        BY <2>b, <2>c, <2>d, <4>2 DEF TypeOK
      <4>3. CASE Len(sent) < i
        BY <2>c, <2>d, <3>2, <4>3
      <4> QED BY <2>b, <2>d, <3>2, <4>1, <4>2, <4>3
    <3> QED BY <3>1, <3>2 DEF SentInv, SentInOrder
  <2>5. SubInv'
    <3>1. ASSUME NEW s \in Subs, sub[s] # "off", NEW i \in rx[s]..Len(sent')
          PROVE  upper[s] < sent'[i] /\ pos[s] < sent'[i]
      <4>0. rx[s] \in Nat \ {0} /\ pos[s] \in Nat /\ upper[s] \in Nat
        BY DEF TypeOK
      <4>1. CASE i <= Len(sent)
        BY <2>b, <2>c, <3>1, <4>0, <4>1 DEF SubInv
      <4>2. CASE Len(sent) < i
        BY <2>a, <2>b, <2>c, <4>0, <4>2 DEF RowsAt
      <4> QED BY <2>b, <2>c, <4>0, <4>1, <4>2
    <3> QED BY <3>1 DEF SubInv
  <2> QED BY <2>1, <2>2, <2>3, <2>4, <2>5
<1>9. ASSUME NEW s \in Subs, NEW c \in 0..MaxSeq \cup {NoCursor}, Subscribe(s, c) PROVE IInv'
  <2>1. TypeOK'
    BY <1>9 DEF Subscribe, Attach, TypeOK, emitVars, subVars, gcVars, bounds
  <2>2. EmitInv'
    BY <1>9 DEF Subscribe, Attach, EmitLockFree, EmitInv, Holding, emitVars
  <2>3. LogInv'
    BY <1>9 DEF Subscribe, Attach, TypeOK, LogInv, emitVars, subVars, gcVars, bounds
  <2>4. SentInv'
    BY <1>9 DEF Subscribe, Attach, TypeOK, SentInv, SentInOrder, emitVars, subVars, gcVars, bounds
  <2>5. SubInv'
    BY <1>9 DEF Subscribe, Attach, TypeOK, SubInv, emitVars, subVars, gcVars, bounds
  <2> QED BY <2>1, <2>2, <2>3, <2>4, <2>5
<1>10. ASSUME NEW s \in Subs, ReadPage(s) PROVE IInv'
  <2>1. TypeOK'
    <3>1. PageOf(s) \subseteq Seqs
      BY DEF PageOf, TypeOK
    <3>2. (PageOf(s) # {} /\ \E q \in log : q <= after[s]) \in BOOLEAN
      OBVIOUS
    <3> QED BY <1>10, <3>1, <3>2 DEF ReadPage, TypeOK, emitVars, subVars, gcVars, bounds
  <2>2. EmitInv'
    BY <1>10 DEF ReadPage, TypeOK, EmitInv, Holding, RowsAt, emitVars, subVars, gcVars, bounds
  <2>3. LogInv'
    BY <1>10 DEF ReadPage, TypeOK, LogInv, emitVars, subVars, gcVars, bounds
  <2>4. SentInv'
    BY <1>10 DEF ReadPage, TypeOK, SentInv, SentInOrder, emitVars, subVars, gcVars, bounds
  <2>5. SubInv'
    <3>1. \A q \in PageOf(s) : after[s] < q /\ q <= upper[s]
      BY DEF PageOf
    <3> QED BY <1>10, <3>1 DEF ReadPage, TypeOK, SubInv, emitVars, subVars, gcVars, bounds
  <2> QED BY <2>1, <2>2, <2>3, <2>4, <2>5
<1>11. ASSUME NEW s \in Subs, TakePage(s) PROVE IInv'
  <2>1. TypeOK'
    <3>1. LastRow(s) \in 0..MaxSeq
      BY LastRowFacts DEF TypeOK
    <3>2. (LastRow(s) >= upper[s] \/ ShortPage(s)) \in BOOLEAN
      BY DEF ShortPage
    <3> QED BY <1>11, <3>1, <3>2 DEF TakePage, AcceptPage, TypeOK, emitVars, subVars, gcVars, bounds
  <2>2. EmitInv'
    BY <1>11 DEF TakePage, AcceptPage, TypeOK, EmitInv, Holding, RowsAt, emitVars, subVars,
       gcVars, bounds
  <2>3. LogInv'
    BY <1>11 DEF TakePage, AcceptPage, TypeOK, LogInv, emitVars, subVars, gcVars, bounds
  <2>4. SentInv'
    BY <1>11 DEF TakePage, AcceptPage, TypeOK, SentInv, SentInOrder, emitVars, subVars, gcVars,
       bounds
  <2>5. SubInv'
    <3>1. after[s] \in 0..MaxSeq /\ page[s] \subseteq Seqs
      BY DEF TypeOK
    <3>2. LastRow(s) \in 0..MaxSeq /\ after[s] <= LastRow(s)
          /\ (\A q \in page[s] : q <= LastRow(s))
          /\ (LastRow(s) = after[s] \/ LastRow(s) \in page[s])
      BY <3>1, LastRowFacts
    <3> QED BY <1>11, <3>1, <3>2 DEF TakePage, AcceptPage, TypeOK, SubInv, emitVars, subVars,
               gcVars, bounds
  <2> QED BY <2>1, <2>2, <2>3, <2>4, <2>5
<1>12. ASSUME NEW s \in Subs, FailClosed(s) PROVE IInv'
  <2>1. TypeOK'
    BY <1>12 DEF FailClosed, HangUp, TypeOK, emitVars, subVars, gcVars, bounds
  <2>2. EmitInv'
    <3>1. ASSUME NEW n \in Seqs, RowsAt(n) PROVE RowsAt(n)'
      BY <1>12, <3>1 DEF FailClosed, HangUp, RowsAt, TypeOK, emitVars
    <3> QED BY <1>12, <3>1 DEF FailClosed, HangUp, EmitInv, Holding, emitVars
  <2>3. LogInv'
    BY <1>12 DEF FailClosed, HangUp, TypeOK, LogInv, emitVars, subVars, gcVars, bounds
  <2>4. SentInv'
    BY <1>12 DEF FailClosed, HangUp, TypeOK, SentInv, SentInOrder, emitVars, subVars, gcVars, bounds
  <2>5. SubInv'
    BY <1>12 DEF FailClosed, HangUp, TypeOK, SubInv, emitVars, subVars, gcVars, bounds
  <2> QED BY <2>1, <2>2, <2>3, <2>4, <2>5
<1>13. ASSUME NEW s \in Subs, SendReplayed(s) PROVE IInv'
  <2>1. TypeOK'
    BY <1>13 DEF SendReplayed, TypeOK, emitVars, subVars, gcVars, bounds
  <2>2. EmitInv'
    <3>1. ASSUME NEW n \in Seqs, RowsAt(n) PROVE RowsAt(n)'
      <4>1. \A q \in queue[s] : q < n
        BY <1>13, <3>1 DEF SendReplayed, RowsAt, SubInv, TypeOK
      <4> QED BY <1>13, <3>1, <4>1 DEF SendReplayed, RowsAt, TypeOK, emitVars
    <3> QED BY <1>13, <3>1 DEF SendReplayed, EmitInv, Holding, emitVars
  <2>3. LogInv'
    BY <1>13 DEF SendReplayed, TypeOK, LogInv, emitVars, subVars, gcVars, bounds
  <2>4. SentInv'
    BY <1>13 DEF SendReplayed, TypeOK, SentInv, SentInOrder, emitVars, subVars, gcVars, bounds
  <2>5. SubInv'
    BY <1>13 DEF SendReplayed, TypeOK, SubInv, emitVars, subVars, gcVars, bounds
  <2> QED BY <2>1, <2>2, <2>3, <2>4, <2>5
<1>14. ASSUME NEW s \in Subs, GoLive(s) PROVE IInv'
  <2>1. TypeOK'
    BY <1>14 DEF GoLive, TypeOK, emitVars, subVars, gcVars, bounds
  <2>2. EmitInv'
    BY <1>14 DEF GoLive, TypeOK, EmitInv, Holding, RowsAt, emitVars, subVars, gcVars, bounds
  <2>3. LogInv'
    BY <1>14 DEF GoLive, TypeOK, LogInv, emitVars, subVars, gcVars, bounds
  <2>4. SentInv'
    BY <1>14 DEF GoLive, TypeOK, SentInv, SentInOrder, emitVars, subVars, gcVars, bounds
  <2>5. SubInv'
    BY <1>14 DEF GoLive, TypeOK, SubInv, emitVars, subVars, gcVars, bounds
  <2> QED BY <2>1, <2>2, <2>3, <2>4, <2>5
<1>15. ASSUME NEW s \in Subs, RecvLive(s) PROVE IInv'
  <2> DEFINE q == sent[rx[s]]
  <2>a. /\ Len(sent) \in Nat /\ DOMAIN sent = 1..Len(sent)
        /\ \A i \in 1..Len(sent) : sent[i] \in Seqs
        /\ rx[s] \in 1..Len(sent)
    BY <1>15 DEF RecvLive, TypeOK
  <2>b. q \in Seqs /\ q <= lastSeq
    BY <2>a DEF SentInv
  <2>c. /\ pos' = [pos EXCEPT ![s] = q] /\ rx' = [rx EXCEPT ![s] = @ + 1] /\ sub[s] = "live"
        /\ UNCHANGED <<log, lastSeq, pruneFloor, sent, emit, kind, rows, sub, upper, after,
                       first, page, present, done, queue, gc, gcMax, gcMark, cancels, restarts>>
    BY <1>15 DEF RecvLive, emitVars, gcVars, bounds
  <2>d. \A i \in (rx[s] + 1)..Len(sent) : q < sent[i]
    BY <2>a DEF SentInv, SentInOrder
  <2>e. \A n \in Seqs : RowsAt(n) => q < n
    BY <2>a DEF RowsAt
  <2> HIDE DEF q
  <2>1. TypeOK'
    BY <2>b, <2>c DEF TypeOK
  <2>2. EmitInv'
    <3>1. ASSUME NEW n \in Seqs, RowsAt(n) PROVE RowsAt(n)'
      BY <2>c, <2>e, <3>1 DEF RowsAt, TypeOK
    <3> QED BY <2>c, <3>1 DEF EmitInv, Holding
  <2>3. LogInv'
    BY <2>c DEF LogInv
  <2>4. SentInv'
    BY <2>c DEF SentInv, SentInOrder
  <2>5. SubInv'
    <3>1. ASSUME NEW t \in Subs, t # s PROVE pos'[t] = pos[t] /\ rx'[t] = rx[t]
      BY <2>c, <3>1 DEF TypeOK
    <3>2. pos'[s] = q /\ rx'[s] = rx[s] + 1
      BY <2>c DEF TypeOK
    <3>3. \A i \in (rx[s] + 1)..Len(sent) : upper[s] < sent[i]
      BY <2>a, <2>c DEF SubInv
    <3> QED BY <2>a, <2>b, <2>c, <2>d, <3>1, <3>2, <3>3 DEF SubInv
  <2> QED BY <2>1, <2>2, <2>3, <2>4, <2>5
<1>16. ASSUME NEW s \in Subs, Lagged(s) PROVE IInv'
  <2>1. TypeOK'
    BY <1>16 DEF Lagged, HangUp, TypeOK, emitVars, subVars, gcVars, bounds
  <2>2. EmitInv'
    <3>1. ASSUME NEW n \in Seqs, RowsAt(n) PROVE RowsAt(n)'
      BY <1>16, <3>1 DEF Lagged, HangUp, RowsAt, TypeOK, emitVars
    <3> QED BY <1>16, <3>1 DEF Lagged, HangUp, EmitInv, Holding, emitVars
  <2>3. LogInv'
    BY <1>16 DEF Lagged, HangUp, TypeOK, LogInv, emitVars, subVars, gcVars, bounds
  <2>4. SentInv'
    BY <1>16 DEF Lagged, HangUp, TypeOK, SentInv, SentInOrder, emitVars, subVars, gcVars, bounds
  <2>5. SubInv'
    BY <1>16 DEF Lagged, HangUp, TypeOK, SubInv, emitVars, subVars, gcVars, bounds
  <2> QED BY <2>1, <2>2, <2>3, <2>4, <2>5
<1>17. ASSUME NEW s \in Subs, Disconnect(s) PROVE IInv'
  <2>1. TypeOK'
    BY <1>17 DEF Disconnect, HangUp, TypeOK, emitVars, subVars, gcVars, bounds
  <2>2. EmitInv'
    <3>1. ASSUME NEW n \in Seqs, RowsAt(n) PROVE RowsAt(n)'
      BY <1>17, <3>1 DEF Disconnect, HangUp, RowsAt, TypeOK, emitVars
    <3> QED BY <1>17, <3>1 DEF Disconnect, HangUp, EmitInv, Holding, emitVars
  <2>3. LogInv'
    BY <1>17 DEF Disconnect, HangUp, TypeOK, LogInv, emitVars, subVars, gcVars, bounds
  <2>4. SentInv'
    BY <1>17 DEF Disconnect, HangUp, TypeOK, SentInv, SentInOrder, emitVars, subVars, gcVars, bounds
  <2>5. SubInv'
    BY <1>17 DEF Disconnect, HangUp, TypeOK, SubInv, emitVars, subVars, gcVars, bounds
  <2> QED BY <2>1, <2>2, <2>3, <2>4, <2>5
<1>18. ASSUME GcReadMax PROVE IInv'
  <2>1. TypeOK'
    BY <1>18, MaxSeqFacts DEF GcReadMax, TypeOK, emitVars, subVars, gcVars, bounds
  <2>2. EmitInv'
    BY <1>18 DEF GcReadMax, TypeOK, EmitInv, Holding, RowsAt, emitVars, subVars, gcVars, bounds
  <2>3. LogInv'
    <3>1. max_seq \in log
      BY <1>18, MaxSeqFacts DEF GcReadMax, TypeOK, max_seq, MaxOf
    <3> QED BY <1>18, <3>1 DEF GcReadMax, LogInv, TypeOK
  <2>4. SentInv'
    BY <1>18 DEF GcReadMax, TypeOK, SentInv, SentInOrder, emitVars, subVars, gcVars, bounds
  <2>5. SubInv'
    BY <1>18 DEF GcReadMax, TypeOK, SubInv, emitVars, subVars, gcVars, bounds
  <2> QED BY <2>1, <2>2, <2>3, <2>4, <2>5
<1>19. ASSUME GcPublish PROVE IInv'
  <2>a. gcMark' \in Nat /\ gcMark' < gcMax
    <3>1. PICK age \in AgeMarks : gcMark' = Watermark(age)
      BY <1>19 DEF GcPublish, GcMarkWith
    <3>2. age \in Nat
      BY <3>1 DEF AgeMarks, TypeOK
    <3>3. gcMax \in 0..MaxSeq /\ gcMax > 0
      BY <1>19 DEF GcPublish, GcMarkWith, LogInv, TypeOK
    <3> QED BY <3>1, <3>2, <3>3, WatermarkBelowMax
  <2>1. TypeOK'
    <3>1. gcMark' \in 0..MaxSeq
      BY <1>19, <2>a DEF TypeOK
    <3> QED BY <1>19, <3>1 DEF GcPublish, GcMarkWith, TypeOK, emitVars, subVars, gcVars, bounds
  <2>2. EmitInv'
    BY <1>19 DEF GcPublish, GcMarkWith, TypeOK, EmitInv, Holding, RowsAt, emitVars, subVars,
       gcVars, bounds
  <2>3. LogInv'
    BY <1>19, <2>a DEF GcPublish, GcMarkWith, LogInv, TypeOK
  <2>4. SentInv'
    BY <1>19 DEF GcPublish, GcMarkWith, TypeOK, SentInv, SentInOrder, emitVars, subVars, gcVars,
       bounds
  <2>5. SubInv'
    BY <1>19 DEF GcPublish, GcMarkWith, TypeOK, SubInv, emitVars, subVars, gcVars, bounds
  <2> QED BY <2>1, <2>2, <2>3, <2>4, <2>5
<1>20. ASSUME GcDelete PROVE IInv'
  <2>1. TypeOK'
    <3>1. log' \subseteq Seqs
      BY <1>20 DEF GcDelete, TypeOK
    <3> QED BY <1>20, <3>1 DEF GcDelete, TypeOK, emitVars, subVars, gcVars, bounds
  <2>2. EmitInv'
    <3>1. ASSUME NEW n \in Seqs, RowsAt(n) PROVE RowsAt(n)'
      BY <1>20, <3>1 DEF GcDelete, RowsAt, subVars, emitVars
    <3>2. ASSUME emit = "durable" PROVE \E q \in log' : \A r \in rows : r <= q
      <4>1. PICK q \in log : \A r \in rows : r <= q
        BY <3>2 DEF EmitInv
      <4>2. PICK top \in log : gcMark < top
        BY <1>20 DEF GcDelete, LogInv
      <4>3. CASE q > gcMark
        BY <1>20, <4>1, <4>3 DEF GcDelete
      <4>4. CASE q <= gcMark
        BY <1>20, <4>1, <4>2, <4>4 DEF GcDelete, TypeOK
      <4> QED BY <4>3, <4>4 DEF TypeOK
    <3> QED BY <1>20, <3>1, <3>2 DEF GcDelete, EmitInv, Holding, emitVars
  <2>3. LogInv'
    BY <1>20 DEF GcDelete, TypeOK, LogInv, emitVars, subVars, gcVars, bounds
  <2>4. SentInv'
    BY <1>20 DEF GcDelete, TypeOK, SentInv, SentInOrder, emitVars, subVars, gcVars, bounds
  <2>5. SubInv'
    BY <1>20 DEF GcDelete, TypeOK, SubInv, emitVars, subVars, gcVars, bounds
  <2> QED BY <2>1, <2>2, <2>3, <2>4, <2>5
<1>21. ASSUME GcFail PROVE IInv'
  <2>1. TypeOK'
    BY <1>21 DEF GcFail, TypeOK, emitVars, subVars, gcVars, bounds
  <2>2. EmitInv'
    BY <1>21 DEF GcFail, TypeOK, EmitInv, Holding, RowsAt, emitVars, subVars, gcVars, bounds
  <2>3. LogInv'
    BY <1>21 DEF GcFail, TypeOK, LogInv, emitVars, subVars, gcVars, bounds
  <2>4. SentInv'
    BY <1>21 DEF GcFail, TypeOK, SentInv, SentInOrder, emitVars, subVars, gcVars, bounds
  <2>5. SubInv'
    BY <1>21 DEF GcFail, TypeOK, SubInv, emitVars, subVars, gcVars, bounds
  <2> QED BY <2>1, <2>2, <2>3, <2>4, <2>5
<1>22. ASSUME Restart PROVE IInv'
  <2>1. TypeOK'
    BY <1>22, MaxSeqFacts DEF Restart, Reboot, TypeOK
  <2>2. EmitInv'
    BY <1>22 DEF Restart, Reboot, TypeOK, EmitInv, Holding, RowsAt, emitVars, subVars, gcVars,
       bounds
  <2>3. LogInv'
    BY <1>22, MaxSeqFacts DEF Restart, Reboot, LogInv, TypeOK, max_seq, MaxOf
  <2>4. SentInv'
    BY <1>22 DEF Restart, Reboot, TypeOK, SentInv, SentInOrder, emitVars, subVars, gcVars, bounds
  <2>5. SubInv'
    <3>1. lastSeq <= max_seq /\ max_seq \in Nat
      BY MaxSeqFacts DEF LogInv, TypeOK
    <3> QED BY <1>22, <3>1 DEF Restart, Reboot, SubInv, TypeOK
  <2> QED BY <2>1, <2>2, <2>3, <2>4, <2>5
<1>23. CASE UNCHANGED vars
  BY <1>23 DEF vars, emitVars, subVars, gcVars, bounds, TypeOK, EmitInv, Holding, RowsAt,
     LogInv, SentInv, SentInOrder, SubInv
<1> QED
  BY <1>1, <1>2, <1>3, <1>4, <1>5, <1>6, <1>7, <1>8, <1>9, <1>10, <1>11, <1>12, <1>13, <1>14,
     <1>15, <1>16, <1>17, <1>18, <1>19, <1>20, <1>21, <1>22, <1>23 DEF Next, Emission, Serve, Sweep

\* The inductive invariant holds throughout.
LEMMA Inductive == Spec => []IInv
<1>1. QED BY InitIInv, NextIInv, PTL DEF Spec

-----------------------------------------------------------------------------
(* Results.                                                                *)

\* Every variable of the sequencer keeps its type.
THEOREM TypeCorrect == Spec => []TypeOK
<1>1. IInv => TypeOK
  BY DEF IInv
<1> QED BY <1>1, Inductive, PTL

\* Firehose.last_seq never exceeds MAX(seq): a handler dropped between commit
\* and finish, a sweep and a restart all leave the counter durable.
THEOREM FrontierIsDurable == Spec => []DurableFrontier
<1>1. IInv => DurableFrontier
  BY MaxSeqFacts DEF IInv, TypeOK, LogInv, DurableFrontier
<1> QED BY <1>1, Inductive, PTL

\* subscribe_from accepts every cursor a consumer was given, across restarts.
THEOREM ResumeIsAccepted == Spec => []ResumeAccepted
<1>1. IInv => ResumeAccepted
  BY DEF IInv, SubInv, ResumeAccepted
<1> QED BY <1>1, Inductive, PTL

\* handle_socket delivers in strictly increasing seq order: nothing still
\* queued, paged or buffered is at or below what was sent.
THEOREM DeliveryIsStrict == Spec => [](NoDuplicate /\ SentInOrder)
<1>1. ASSUME IInv PROVE NoDuplicate
  <2>1. ASSUME NEW s \in Subs, sub[s] # "off"
        PROVE  /\ \A q \in queue[s] \cup page[s] : pos[s] < q /\ q <= upper[s]
               /\ \A i \in rx[s]..Len(sent) : upper[s] < sent[i] /\ pos[s] < sent[i]
    <3>1. pos[s] \in Nat /\ after[s] \in Nat /\ upper[s] \in Nat
          /\ queue[s] \subseteq Nat /\ page[s] \subseteq Nat
      BY <1>1 DEF IInv, TypeOK
    <3>2. sub[s] \in {"replay", "paged", "live"}
      BY <1>1, <2>1 DEF IInv, TypeOK
    <3> QED BY <1>1, <2>1, <3>1, <3>2 DEF IInv, SubInv
  <2>2. ASSUME NEW s \in Subs, NEW i \in rx[s]..Len(sent)
        PROVE  sent[i] \in Nat
    BY <1>1 DEF IInv, TypeOK
  <2>3. \A s \in Subs : upper[s] \in Nat /\ queue[s] \subseteq Nat /\ page[s] \subseteq Nat
    BY <1>1 DEF IInv, TypeOK
  <2> QED BY <2>1, <2>2, <2>3 DEF NoDuplicate
<1>2. IInv => SentInOrder
  BY DEF IInv, SentInv
<1> QED BY <1>1, <1>2, Inductive, PTL

\* The broadcast order is the sequence order, a #sync after the event it follows.
THEOREM BroadcastIsOrdered == Spec => []SentInOrder
<1>1. IInv => SentInOrder
  BY DEF IInv, SentInv
<1> QED BY <1>1, Inductive, PTL

-----------------------------------------------------------------------------
(* Refinement: every step of the sequencer is a step of the feed, or none. *)

\* What the feed calls covered is the first part of LogInv.
LEMMA CoveredByLog == LogInv => Feed!Covered
BY DEF LogInv, Feed!Covered

\* Steps that leave the log, the counter, the positions and the connections
\* alone are invisible in the feed.
LEMMA InvisibleStep ==
  ASSUME UNCHANGED <<log, lastSeq, pos>>,
         [s \in Subs |-> sub[s] # "off"]' = [s \in Subs |-> sub[s] # "off"]
  PROVE  [Feed!Next]_(Feed!feedVars)
BY DEF Feed!feedVars

\* A step of one connection that keeps it open and sends nothing.
LEMMA StillOpen ==
  ASSUME TypeOK, NEW s \in Subs, NEW phase, phase # "off", sub[s] # "off",
         sub' = [sub EXCEPT ![s] = phase]
  PROVE  [x \in Subs |-> sub[x] # "off"]' = [x \in Subs |-> sub[x] # "off"]
BY DEF TypeOK

\* HangUp, of a connection that failed, lagged or was closed, is Close.
LEMMA HangUpCloses ==
  ASSUME TypeOK, NEW s \in Subs, HangUp(s)
  PROVE  Feed!Close(s)
<1>1. sub' = [sub EXCEPT ![s] = "off"] /\ UNCHANGED <<log, lastSeq, pos>>
  BY DEF HangUp
<1>2. [x \in Subs |-> sub[x] # "off"]' = [[x \in Subs |-> sub[x] # "off"] EXCEPT ![s] = FALSE]
  BY <1>1 DEF TypeOK
<1> QED BY <1>1, <1>2 DEF Feed!Close

\* A send of the next number, from the replay queue or the ring, is Deliver.
LEMMA SendDelivers ==
  ASSUME TypeOK, NEW s \in Subs, NEW q \in Nat, pos' = [pos EXCEPT ![s] = q],
         sub[s] # "off", pos[s] < q, q <= lastSeq, UNCHANGED <<log, lastSeq, sub>>
  PROVE  Feed!Deliver(s)
<1>1. pos'[s] = q
  BY DEF TypeOK
<1>2. [x \in Subs |-> sub[x] # "off"][s] = TRUE
  OBVIOUS
<1> QED BY <1>1, <1>2 DEF Feed!Deliver

\* Under the invariant each step of the sequencer is a step of the feed.
LEMMA StepRefines == IInv /\ IInv' /\ [Next]_vars => [Feed!Next]_(Feed!feedVars)
<1> SUFFICES ASSUME IInv, IInv', [Next]_vars PROVE [Feed!Next]_(Feed!feedVars)
  OBVIOUS
<1>0. TypeOK /\ LogInv /\ SentInv /\ SubInv /\ LogInv' /\ Feed!Covered'
  BY CoveredByLog, PTL DEF IInv
<1>1. CASE LockEmit \/ Stage \/ AbortEmit \/ CancelEmit \/ Broadcast
           \/ GcReadMax \/ GcPublish \/ GcFail
  <2>1. UNCHANGED <<log, lastSeq, pos, sub>>
    BY <1>1 DEF LockEmit, Stage, AbortEmit, EmitFails, CancelEmit, Broadcast, BroadcastAs,
       GcReadMax, GcPublish, GcMarkWith, GcFail, subVars
  <2> QED BY <2>1, InvisibleStep
<1>2. CASE InsertBare \/ CommitTx
  <2>1. UNCHANGED <<lastSeq, pos, sub>> /\ log \subseteq log'
    BY <1>2 DEF InsertBare, CommitTx, subVars
  <2>2. \A q \in log' \ log : lastSeq < q
    <3>1. CASE InsertBare
      BY <1>0, <3>1, FrontierIsFree DEF InsertBare, TypeOK
    <3>2. CASE CommitTx
      <4>1. PICK n \in Seqs : RowsAt(n)
        BY <3>2 DEF CommitTx, IInv, EmitInv, Holding
      <4> QED BY <1>0, <3>2, <4>1 DEF CommitTx, RowsAt, TypeOK
    <3> QED BY <1>2, <3>1, <3>2
  <2>3. Feed!Record
    BY <2>1, <2>2 DEF Feed!Record
  <2> QED BY <2>3 DEF Feed!Next
<1>3. CASE AdvanceCounter
  <2>1. UNCHANGED <<log, pos, sub>> /\ emit' = "advanced"
    BY <1>3 DEF AdvanceCounter, subVars
  <2>2. lastSeq <= lastSeq'
    <3>1. PICK n \in Seqs : RowsAt(n)
      BY <1>3 DEF AdvanceCounter, IInv, EmitInv, Holding
    <3>2. lastSeq < n /\ n \in rows /\ rows \subseteq Seqs
      BY <1>0, <1>3, <3>1 DEF AdvanceCounter, RowsAt, TypeOK
    <3>3. MaxSeq \in Nat /\ rows \subseteq 0..MaxSeq
      BY <3>2
    <3>4. n <= MaxOf(rows) /\ MaxOf(rows) \in 0..MaxSeq
      BY ONLY <3>2, <3>3, MaxOfBounded, Zenon
    <3> QED BY <1>0, <1>3, <3>2, <3>4 DEF AdvanceCounter, TypeOK
  <2>3. Feed!Announce
    BY <1>0, <2>1, <2>2 DEF Feed!Announce
  <2> QED BY <2>3 DEF Feed!Next
<1>4. ASSUME NEW s \in Subs, NEW c \in 0..MaxSeq \cup {NoCursor}, Subscribe(s, c)
      PROVE  [Feed!Next]_(Feed!feedVars)
  <2> DEFINE from == IF c = NoCursor THEN lastSeq ELSE c
  <2>1. /\ sub[s] = "off" /\ pos' = [pos EXCEPT ![s] = from] /\ from <= lastSeq
        /\ sub' = [sub EXCEPT ![s] = IF c = NoCursor THEN "live" ELSE "replay"]
        /\ UNCHANGED <<log, lastSeq>>
    BY <1>0, <1>4 DEF Subscribe, Attach, TypeOK
  <2>2. pos' = [pos EXCEPT ![s] = pos'[s]] /\ pos'[s] <= lastSeq
    BY <1>0, <2>1 DEF TypeOK
  <2>3. [x \in Subs |-> sub[x] # "off"]' = [[x \in Subs |-> sub[x] # "off"] EXCEPT ![s] = TRUE]
    BY <1>0, <2>1 DEF TypeOK
  <2>4. Feed!Connect(s)
    BY <2>1, <2>2, <2>3 DEF Feed!Connect
  <2> QED BY <2>4 DEF Feed!Next
<1>5. ASSUME NEW s \in Subs, ReadPage(s) \/ TakePage(s) \/ GoLive(s)
      PROVE  [Feed!Next]_(Feed!feedVars)
  <2>1. UNCHANGED <<log, lastSeq, pos>> /\ sub[s] # "off"
    BY <1>5 DEF ReadPage, TakePage, AcceptPage, GoLive
  <2>2. \E phase \in {"paged", "replay", "live"} : sub' = [sub EXCEPT ![s] = phase]
    BY <1>5 DEF ReadPage, TakePage, AcceptPage, GoLive
  <2>3. [x \in Subs |-> sub[x] # "off"]' = [x \in Subs |-> sub[x] # "off"]
    BY <1>0, <2>1, <2>2, StillOpen
  <2> QED BY <2>1, <2>3, InvisibleStep
<1>6. ASSUME NEW s \in Subs, FailClosed(s) \/ Lagged(s) \/ Disconnect(s)
      PROVE  [Feed!Next]_(Feed!feedVars)
  <2>1. HangUp(s)
    BY <1>6 DEF FailClosed, Lagged, Disconnect
  <2> QED BY <1>0, <2>1, HangUpCloses DEF Feed!Next
<1>7. ASSUME NEW s \in Subs, SendReplayed(s)
      PROVE  [Feed!Next]_(Feed!feedVars)
  <2>1. PICK q \in queue[s] : pos' = [pos EXCEPT ![s] = q]
    BY <1>7 DEF SendReplayed
  <2>2. sub[s] = "replay" /\ UNCHANGED <<log, lastSeq, sub>>
    BY <1>7 DEF SendReplayed
  <2>3. q \in Nat /\ pos[s] < q /\ q <= lastSeq
    BY <1>0, <2>1, <2>2 DEF TypeOK, SubInv
  <2>4. Feed!Deliver(s)
    BY <1>0, <2>1, <2>2, <2>3, SendDelivers
  <2> QED BY <2>4 DEF Feed!Next
<1>8. ASSUME NEW s \in Subs, RecvLive(s)
      PROVE  [Feed!Next]_(Feed!feedVars)
  <2>1. /\ sub[s] = "live" /\ rx[s] \in Nat \ {0} /\ rx[s] <= Len(sent)
        /\ pos' = [pos EXCEPT ![s] = sent[rx[s]]] /\ UNCHANGED <<log, lastSeq, sub>>
    BY <1>0, <1>8 DEF RecvLive, TypeOK
  <2>2. rx[s] \in rx[s]..Len(sent) /\ rx[s] \in DOMAIN sent /\ sent[rx[s]] \in Nat
    BY <1>0, <2>1 DEF TypeOK
  <2>3. pos[s] < sent[rx[s]] /\ sent[rx[s]] <= lastSeq
    BY <1>0, <2>1, <2>2 DEF SubInv, SentInv
  <2>4. Feed!Deliver(s)
    BY <1>0, <2>1, <2>2, <2>3, SendDelivers
  <2> QED BY <2>4 DEF Feed!Next
<1>9. CASE GcDelete
  <2>1. UNCHANGED <<lastSeq, pos, sub>> /\ log' = {q \in log : q > gcMark}
    BY <1>9 DEF GcDelete, subVars
  <2>2. \A x \in log \ log', q \in log' : x < q
    BY <1>0, <2>1 DEF TypeOK
  <2>3. Feed!Trim
    BY <1>0, <2>1, <2>2 DEF Feed!Trim
  <2> QED BY <2>3 DEF Feed!Next
<1>10. CASE Restart
  <2>1. UNCHANGED <<log, pos>> /\ sub' = [s \in Subs |-> "off"] /\ lastSeq' = max_seq
    BY <1>10 DEF Restart, Reboot
  <2>2. lastSeq <= lastSeq'
    BY <1>0, <2>1, MaxSeqFacts DEF TypeOK, LogInv
  <2>3. [s \in Subs |-> sub[s] # "off"]' = [s \in Subs |-> FALSE]
    BY <2>1
  <2>4. Feed!Restart
    BY <1>0, <2>1, <2>2, <2>3 DEF Feed!Restart
  <2> QED BY <2>4 DEF Feed!Next
<1>11. CASE UNCHANGED vars
  <2>1. UNCHANGED <<log, lastSeq, pos, sub>>
    BY <1>11 DEF vars, subVars
  <2> QED BY <2>1, InvisibleStep
<1> QED
  BY <1>1, <1>2, <1>3, <1>4, <1>5, <1>6, <1>7, <1>8, <1>9, <1>10, <1>11
     DEF Next, Emission, Serve, Sweep

\* The sequencer, with its lock, transactions, pages and ring, implements the
\* feed its consumers are promised.
THEOREM SequencerImplementsFeed == Spec => ImplementsFeed
<1>1. Init => Feed!Init
  BY DEF Init, Feed!Init
<1> QED BY <1>1, Inductive, StepRefines, PTL DEF Spec, ImplementsFeed, Feed!Spec

=============================================================================
