----------------------------- MODULE BatcherProofs -----------------------------
(***************************************************************************)
(* The batcher loses nothing without a mishap, and it implements the        *)
(* archive.                                                                 *)
(***************************************************************************)
EXTENDS Batcher, SequenceTheorems, TLAPS

(* The type invariant holds initially and is kept by every step. *)
LEMMA InitTypeOK == Init => TypeOK
<1> SUFFICES ASSUME Init PROVE TypeOK
  OBVIOUS
<1>1. <<>> \in Seq(Docs) /\ Len(<<>>) = 0
  BY EmptySeq
<1>2. 0 < BatchSize /\ 0 <= BatchSize /\ 0 <= ChanSize /\ Arrivals \in Seq(Docs)
  BY BatcherAssumption DEF BatcherAssumption
<1> QED  BY <1>1, <1>2 DEF Init, TypeOK

(* The first documents of a batch. *)
LEMMA PrefixType ==
  ASSUME NEW s \in Seq(Docs), NEW n \in 0..Len(s)
  PROVE  SubSeq(s, 1, n) \in Seq(Docs)
BY SubSeqProperties, ElementOfSeq, LenProperties

(* A prefix of its first part is a prefix of a concatenation. *)
LEMMA ConcatPrefix ==
  ASSUME NEW s \in Seq(Docs), NEW t \in Seq(Docs), NEW n \in 0..Len(s)
  PROVE  SubSeq(s \o t, 1, n) = SubSeq(s, 1, n)
<1> DEFINE u == SubSeq(s \o t, 1, n)
           v == SubSeq(s, 1, n)
<1>1. /\ s \o t \in Seq(Docs)
      /\ Len(s \o t) = Len(s) + Len(t)
      /\ Len(s) \in Nat /\ Len(t) \in Nat
      /\ \A i \in 1..Len(s) : (s \o t)[i] = s[i]
  BY ConcatProperties, LenProperties
<1>2. u \in Seq(Docs) /\ Len(u) = n /\ \A i \in 1..n : u[i] = s[i]
  <2>1. \A i \in 1..n : (s \o t)[i] \in Docs
    BY <1>1, ElementOfSeq
  <2> QED  BY <1>1, <2>1, SubSeqProperties
<1>3. v \in Seq(Docs) /\ Len(v) = n /\ \A i \in 1..n : v[i] = s[i]
  <2>1. \A i \in 1..n : s[i] \in Docs
    BY <1>1, ElementOfSeq
  <2> QED  BY <1>1, <2>1, SubSeqProperties
<1> HIDE DEF u, v
<1>4. u = v
  BY <1>2, <1>3, SeqEqual
<1> QED  BY <1>4 DEF u, v

(* What remains of a concatenation behind its first part. *)
LEMMA ConcatRest ==
  ASSUME NEW s \in Seq(Docs), NEW t \in Seq(Docs)
  PROVE  SubSeq(s \o t, Len(s) + 1, Len(s \o t)) = t
<1> DEFINE u == SubSeq(s \o t, Len(s) + 1, Len(s \o t))
<1>1. /\ s \o t \in Seq(Docs)
      /\ Len(s \o t) = Len(s) + Len(t)
      /\ Len(s) \in Nat /\ Len(t) \in Nat
      /\ \A i \in 1..Len(t) : (s \o t)[Len(s) + i] = t[i]
  BY ConcatProperties, LenProperties
<1>2. u \in Seq(Docs) /\ Len(u) = Len(t) /\ \A i \in 1..Len(t) : u[i] = t[i]
  <2>1. \A i \in (Len(s) + 1)..Len(s \o t) : (s \o t)[i] \in Docs
    BY <1>1, ElementOfSeq
  <2> QED  BY <1>1, <2>1, SubSeqProperties
<1> HIDE DEF u
<1>3. u = t
  BY <1>2, SeqEqual
<1> QED  BY <1>3 DEF u

(* What Buffer does to the documents and the buffer. *)
LEMMA BufferType ==
  ASSUME TypeOK, documents = <<>>, NEW d \in Docs, Buffer(d)
  PROVE  /\ data' \in Seq(Docs) /\ Len(data') < BatchSize
         /\ documents' \in Seq(Docs) /\ Len(documents') <= BatchSize
         /\ documents' \o data' = Append(data, d)
<1> DEFINE buffered == Append(data, d)
<1>1. data \in Seq(Docs) /\ Len(data) \in Nat /\ Len(data) < BatchSize /\ BatchSize \in Nat \ {0}
  BY LenProperties, BatcherAssumption DEF BatcherAssumption, TypeOK
<1>2. <<>> \in Seq(Docs) /\ Len(<<>>) = 0
  BY EmptySeq
<1>3. buffered \in Seq(Docs) /\ Len(buffered) = Len(data) + 1
  BY <1>1, AppendProperties
<1>4. buffered \o <<>> = buffered /\ <<>> \o buffered = buffered
  BY <1>3, ConcatEmptySeq
<1> HIDE DEF buffered
<1>5. CASE Len(data) + 1 >= BatchSize
  <2>1. documents' = buffered /\ data' = <<>>
    BY <1>5 DEF Buffer, buffered
  <2> QED  BY <1>1, <1>2, <1>3, <1>4, <1>5, <2>1 DEF buffered
<1>6. CASE ~(Len(data) + 1 >= BatchSize)
  <2>1. documents' = <<>> /\ data' = buffered
    BY <1>6 DEF Buffer, buffered
  <2> QED  BY <1>1, <1>2, <1>3, <1>4, <1>6, <2>1 DEF buffered
<1> QED  BY <1>5, <1>6

(* The n documents that an insert has written by the time it ends. *)
LEMMA InsertFirstType ==
  ASSUME TypeOK, NEW n \in 0..Len(documents), InsertFirst(n)
  PROVE  collection' \in Seq(Docs)
<1>1. documents \in Seq(Docs) /\ collection \in Seq(Docs)
  BY DEF TypeOK
<1>2. SubSeq(documents, 1, n) \in Seq(Docs)
  BY <1>1, PrefixType
<1> QED  BY <1>1, <1>2, ConcatProperties DEF InsertFirst

LEMMA NextTypeOK == TypeOK /\ [Next]_vars => TypeOK'
<1> SUFFICES ASSUME TypeOK, [Next]_vars PROVE TypeOK'
  OBVIOUS
<1> USE DEF TypeOK, storeVars, historyVars
<1>a. /\ <<>> \in Seq(Docs) /\ Len(<<>>) = 0
      /\ BatchSize \in Nat \ {0} /\ ChanSize \in Nat /\ 0 < BatchSize /\ 0 <= ChanSize
  BY EmptySeq, BatcherAssumption DEF BatcherAssumption
<1>b. Len(dbchan) \in Nat /\ Len(data) \in Nat /\ Len(documents) \in Nat
  BY LenProperties
<1>1. ASSUME NEW c \in Senders, Receive(c) PROVE TypeOK'
  <2>1. Head(arrivals) \in Docs /\ Tail(arrivals) \in Seq(Docs)
    BY <1>1, HeadTailProperties DEF Receive
  <2> QED  BY <1>1, <2>1 DEF Receive
<1>2. ASSUME NEW c \in Senders, Send(c) PROVE TypeOK'
  <2>1. sending[c] \in Docs
    BY <1>2 DEF Send
  <2>2. /\ Append(dbchan, sending[c]) \in Seq(Docs)
        /\ Len(Append(dbchan, sending[c])) = Len(dbchan) + 1
        /\ Append(accepted, sending[c]) \in Seq(Docs)
    BY <2>1, AppendProperties
  <2> QED  BY <1>2, <1>a, <1>b, <2>1, <2>2 DEF Send
<1>3. CASE Tick
  BY <1>3 DEF Tick
<1>4. CASE OnTick
  <2>1. /\ data' \in Seq(Docs) /\ Len(data') < BatchSize
        /\ documents' \in Seq(Docs) /\ Len(documents') <= BatchSize
    BY <1>4, <1>a, <1>b DEF OnTick
  <2> QED  BY <1>4, <2>1 DEF OnTick
<1>5. CASE OnResult
  <2>1. Head(dbchan) \in Docs /\ Tail(dbchan) \in Seq(Docs) /\ Len(Tail(dbchan)) = Len(dbchan) - 1
    BY <1>5, HeadTailProperties DEF OnResult
  <2>2. documents = <<>> /\ Buffer(Head(dbchan))
    BY <1>5 DEF OnResult, Selecting
  <2>3. /\ data' \in Seq(Docs) /\ Len(data') < BatchSize
        /\ documents' \in Seq(Docs) /\ Len(documents') <= BatchSize
    BY <2>1, <2>2, BufferType
  <2> QED  BY <1>5, <1>a, <1>b, <2>1, <2>3 DEF OnResult
<1>6. CASE Insert
  <2>1. collection \o documents \in Seq(Docs)
    BY ConcatProperties
  <2> QED  BY <1>6, <1>a, <2>1 DEF Insert
<1>7. CASE InsertFails
  <2>1. collection' \in Seq(Docs)
    BY <1>7, InsertFirstType DEF InsertFails
  <2> QED  BY <1>7, <1>a, <2>1 DEF InsertFails
<1>8. CASE MongoChanges
  BY <1>8 DEF MongoChanges
<1>9. CASE SchedulerDies
  <2>1. collection' \in Seq(Docs)
    BY <1>9, InsertFirstType DEF SchedulerDies
  <2>2. sending' \in [Senders -> Docs \cup {NoDoc}]
    BY <1>9 DEF SchedulerDies
  <2>3. /\ dbchan' \in Seq(Docs) /\ Len(dbchan') <= ChanSize
        /\ data' \in Seq(Docs) /\ Len(data') < BatchSize
        /\ documents' \in Seq(Docs) /\ Len(documents') <= BatchSize
    BY <1>9, <1>a DEF SchedulerDies
  <2> QED  BY <1>9, <2>1, <2>2, <2>3 DEF SchedulerDies
<1>10. CASE UNCHANGED vars
  BY <1>10 DEF vars
<1> QED
  BY <1>1, <1>2, <1>3, <1>4, <1>5, <1>6, <1>7, <1>8, <1>9, <1>10 DEF Next, BatchInsert

(***************************************************************************)
(* The buffer never reaches the size at which it is flushed, no batch is    *)
(* larger than that, and dbchan keeps to its capacity.                      *)
(***************************************************************************)
THEOREM BatcherTypeCorrect == Spec => []TypeOK
<1> QED  BY InitTypeOK, NextTypeOK, PTL DEF Spec
-------------------------------------------------------------------------------

LEMMA PendingType ==
  ASSUME TypeOK
  PROVE  /\ Pending \in Seq(Docs)
         /\ Pending = documents \o (data \o dbchan)
         /\ data \o dbchan \in Seq(Docs)
BY ConcatProperties, ConcatAssociative DEF TypeOK, Pending

(* A page that is handed over comes last. *)
LEMMA SendAppends ==
  ASSUME TypeOK, NEW c \in Senders, Send(c)
  PROVE  sending[c] \in Docs /\ Pending' = Append(Pending, sending[c])
<1>1. sending[c] \in Docs
  BY DEF TypeOK, Send
<1>2. /\ documents \o data \in Seq(Docs) /\ dbchan \in Seq(Docs)
      /\ <<sending[c]>> \in Seq(Docs)
  BY <1>1, ConcatProperties DEF TypeOK
<1>3. Append(dbchan, sending[c]) = dbchan \o <<sending[c]>>
  BY <1>1, <1>2, AppendIsConcat
<1>4. Pending' = (documents \o data) \o (dbchan \o <<sending[c]>>)
  BY <1>3 DEF Send, Pending
<1>5. @ = Pending \o <<sending[c]>>
  BY <1>2, ConcatAssociative DEF Pending
<1>6. @ = Append(Pending, sending[c])
  BY <1>1, PendingType, AppendIsConcat
<1> QED  BY <1>1, <1>4, <1>5, <1>6

(* A sequence is its head and its tail. *)
LEMMA HeadThenTail ==
  ASSUME NEW s \in Seq(Docs), s # <<>>
  PROVE  s = <<Head(s)>> \o Tail(s)
<1> DEFINE t == <<Head(s)>> \o Tail(s)
<1>1. /\ <<Head(s)>> \in Seq(Docs) /\ Len(<<Head(s)>>) = 1 /\ <<Head(s)>>[1] = s[1]
      /\ Tail(s) \in Seq(Docs) /\ Len(Tail(s)) = Len(s) - 1 /\ Len(s) \in Nat \ {0}
      /\ \A i \in 1..Len(Tail(s)) : Tail(s)[i] = s[i + 1]
  BY HeadTailProperties, EmptySeq
<1>2. t \in Seq(Docs) /\ Len(t) = Len(s) /\ \A i \in 1..Len(s) : t[i] = s[i]
  BY <1>1, ConcatProperties
<1> HIDE DEF t
<1>3. s = t
  BY <1>2, SeqEqual
<1> QED  BY <1>3 DEF t

(* Inside the batcher a result only moves up. *)
LEMMA MovesKeepPending ==
  ASSUME TypeOK, OnTick \/ OnResult
  PROVE  Pending' = Pending /\ UNCHANGED <<collection, accepted, mishap>>
<1> USE DEF TypeOK
<1>1. documents = <<>> /\ UNCHANGED <<collection, accepted, mishap>>
  BY DEF OnTick, OnResult, Selecting, storeVars, historyVars
<1>2. documents \o data = data
  BY <1>1, ConcatEmptySeq
<1>3. CASE OnTick
  <2>1. documents' \o data' = data /\ dbchan' = dbchan
    BY <1>3, ConcatEmptySeq DEF OnTick
  <2> QED  BY <1>1, <1>2, <2>1 DEF Pending
<1>4. CASE OnResult
  <2> DEFINE d == Head(dbchan)
  <2>1. /\ d \in Docs /\ Tail(dbchan) \in Seq(Docs) /\ dbchan # <<>>
        /\ dbchan' = Tail(dbchan) /\ Buffer(d)
    BY <1>4, HeadTailProperties DEF OnResult
  <2>2. dbchan = <<d>> \o Tail(dbchan)
    BY <2>1, HeadThenTail
  <2>3. documents' \o data' = data \o <<d>>
    BY <1>1, <2>1, BufferType, AppendIsConcat
  <2> HIDE DEF d
  <2>4. data \in Seq(Docs) /\ <<d>> \in Seq(Docs) /\ Tail(dbchan) \in Seq(Docs)
    BY <2>1
  <2> HIDE DEF TypeOK
  <2>5. (data \o <<d>>) \o Tail(dbchan) = data \o (<<d>> \o Tail(dbchan))
    BY ONLY <2>4, ConcatAssociative
  <2>6. Pending' = (data \o <<d>>) \o Tail(dbchan)
    BY <2>1, <2>3 DEF Pending
  <2>7. Pending = data \o dbchan
    BY <1>2 DEF Pending
  <2> QED  BY <1>1, <2>2, <2>5, <2>6, <2>7
<1> QED  BY <1>3, <1>4

(* When an insert ends, the batch leaves and its first k pages are stored. *)
LEMMA InsertLeaves ==
  ASSUME TypeOK, documents # <<>>, documents' = <<>>, UNCHANGED <<data, dbchan>>,
         NEW k \in 0..Len(documents), InsertFirst(k)
  PROVE  /\ Len(documents) \in 1..BatchSize /\ Len(documents) <= Len(Pending)
         /\ A!Leave(Len(documents), k)
<1>1. /\ documents \in Seq(Docs) /\ data \in Seq(Docs) /\ dbchan \in Seq(Docs)
      /\ Len(documents) \in Nat \ {0} /\ Len(documents) <= BatchSize /\ BatchSize \in Nat
  BY EmptySeq, BatcherAssumption DEF BatcherAssumption, TypeOK
<1>2. /\ data \o dbchan \in Seq(Docs)
      /\ Pending = documents \o (data \o dbchan)
  BY PendingType
<1>3. Len(Pending) = Len(documents) + Len(data \o dbchan) /\ Len(data \o dbchan) \in Nat
  BY <1>1, <1>2, ConcatProperties, LenProperties
<1>4. Pending' = SubSeq(Pending, Len(documents) + 1, Len(Pending))
  <2>1. Pending' = data \o dbchan
    <3>1. Pending' = (<<>> \o data) \o dbchan
      BY DEF Pending
    <3> QED  BY <1>1, <3>1, ConcatEmptySeq
  <2> QED  BY <1>1, <1>2, <2>1, ConcatRest
<1>5. collection' = collection \o SubSeq(Pending, 1, k)
  BY <1>1, <1>2, ConcatPrefix DEF InsertFirst
<1> QED  BY <1>1, <1>3, <1>4, <1>5 DEF A!Leave

(* An insert that succeeds has written the whole batch. *)
LEMMA InsertAll ==
  ASSUME TypeOK, Insert
  PROVE  InsertFirst(Len(documents)) /\ Len(documents) \in 0..Len(documents)
BY SubSeqFull, LenProperties DEF TypeOK, Insert, InsertFirst
-------------------------------------------------------------------------------
LEMMA InitNothingLost == Init => NothingLost
BY ConcatEmptySeq, EmptySeq DEF Init, NothingLost, Pending

LEMMA NextNothingLost == TypeOK /\ NothingLost /\ [Next]_vars => NothingLost'
<1> SUFFICES ASSUME TypeOK, NothingLost, [Next]_vars, ~mishap' PROVE accepted' = collection' \o Pending'
  BY DEF NothingLost
<1>a. ASSUME UNCHANGED <<documents, data, dbchan, collection, accepted, mishap>>
      PROVE  accepted' = collection' \o Pending'
  BY <1>a DEF NothingLost, Pending
<1>1. ASSUME NEW c \in Senders, Receive(c) PROVE accepted' = collection' \o Pending'
  BY <1>1, <1>a DEF Receive, storeVars, historyVars
<1>2. ASSUME NEW c \in Senders, Send(c) PROVE accepted' = collection' \o Pending'
  <2> DEFINE d == sending[c]
             after == Append(Pending, d)
  <2>1. d \in Docs /\ Pending' = after
    BY <1>2, SendAppends
  <2>2. /\ accepted = collection \o Pending
        /\ accepted' = Append(accepted, d) /\ collection' = collection
    BY <1>2 DEF Send, NothingLost, storeVars
  <2>3. /\ accepted \in Seq(Docs) /\ collection \in Seq(Docs)
        /\ Pending \in Seq(Docs) /\ <<d>> \in Seq(Docs)
    BY <2>1, PendingType DEF TypeOK
  <2> HIDE DEF d
  <2>4. after = Pending \o <<d>> /\ Append(accepted, d) = accepted \o <<d>>
    BY <2>1, <2>3, AppendIsConcat
  <2>5. (collection \o Pending) \o <<d>> = collection \o (Pending \o <<d>>)
    BY ONLY <2>3, ConcatAssociative
  <2> HIDE DEF after
  <2> QED  BY <2>1, <2>2, <2>4, <2>5
<1>3. CASE Tick
  BY <1>3, <1>a DEF Tick, storeVars, historyVars
<1>4. CASE OnTick \/ OnResult
  BY <1>4, MovesKeepPending DEF NothingLost
<1>5. CASE Insert
  <2>1. /\ documents \in Seq(Docs) /\ collection \in Seq(Docs) /\ data \o dbchan \in Seq(Docs)
        /\ data \in Seq(Docs) /\ dbchan \in Seq(Docs)
    BY PendingType DEF TypeOK
  <2>2. accepted = collection \o (documents \o (data \o dbchan))
    BY <1>5, PendingType DEF Insert, historyVars, NothingLost
  <2>3. collection' = collection \o documents /\ accepted' = accepted
        /\ documents' = <<>> /\ data' = data /\ dbchan' = dbchan
    BY <1>5 DEF Insert, historyVars
  <2>4. Pending' = data \o dbchan
    BY <2>1, <2>3, ConcatEmptySeq DEF Pending
  <2>5. (collection \o documents) \o (data \o dbchan) = collection \o (documents \o (data \o dbchan))
    BY ONLY <2>1, ConcatAssociative
  <2> QED  BY <2>2, <2>3, <2>4, <2>5
<1>6. CASE InsertFails
  BY <1>6 DEF InsertFails
<1>7. CASE MongoChanges
  BY <1>7, <1>a DEF MongoChanges, storeVars, historyVars
<1>8. CASE SchedulerDies
  BY <1>8 DEF SchedulerDies
<1>9. CASE UNCHANGED vars
  BY <1>9, <1>a DEF vars, storeVars, historyVars
<1> QED
  BY <1>1, <1>2, <1>3, <1>4, <1>5, <1>6, <1>7, <1>8, <1>9 DEF Next, BatchInsert

(***************************************************************************)
(* Without a failed insert or a crash no page is lost, repeated or passed   *)
(* by another on its way through dbchan, the buffer and the batches.        *)
(***************************************************************************)
THEOREM BatcherLosesNothing == Spec => []NothingLost
<1>1. Init => TypeOK /\ NothingLost
  BY InitTypeOK, InitNothingLost
<1>2. TypeOK /\ NothingLost /\ [Next]_vars => (TypeOK /\ NothingLost)'
  BY NextTypeOK, NextNothingLost
<1> QED  BY <1>1, <1>2, PTL DEF Spec
-------------------------------------------------------------------------------
LEMMA InitArchive == Init => A!Init
BY ConcatEmptySeq, EmptySeq DEF Init, A!Init, Pending

LEMMA NextArchive == TypeOK /\ [Next]_vars => [A!Next]_(A!archiveVars)
<1> SUFFICES ASSUME TypeOK, [Next]_vars PROVE [A!Next]_(A!archiveVars)
  OBVIOUS
<1> USE DEF A!archiveVars
<1>a. ASSUME UNCHANGED <<documents, data, dbchan, collection, mishap>>
      PROVE  UNCHANGED A!archiveVars
  BY <1>a DEF Pending
<1>1. ASSUME NEW c \in Senders, Receive(c) PROVE UNCHANGED A!archiveVars
  BY <1>1, <1>a DEF Receive, storeVars, historyVars
<1>2. ASSUME NEW c \in Senders, Send(c) PROVE A!Accept
  BY <1>2, SendAppends DEF Send, A!Accept, storeVars
<1>3. CASE Tick
  BY <1>3, <1>a DEF Tick, storeVars, historyVars
<1>4. CASE OnTick \/ OnResult
  BY <1>4, MovesKeepPending
<1>5. CASE Insert
  <2>1. documents # <<>> /\ documents' = <<>> /\ UNCHANGED <<data, dbchan, mishap>>
    BY <1>5 DEF Insert, historyVars
  <2>2. A!Leave(Len(documents), Len(documents))
        /\ Len(documents) \in 1..BatchSize /\ Len(documents) <= Len(Pending)
    BY <1>5, <2>1, InsertAll, InsertLeaves
  <2> QED  BY <2>1, <2>2 DEF A!Next, A!Commit
<1>6. CASE InsertFails
  <2>1. PICK k \in 0..Len(documents) : InsertFirst(k)
    BY <1>6 DEF InsertFails
  <2>2. documents # <<>> /\ documents' = <<>> /\ UNCHANGED <<data, dbchan>> /\ mishap' = TRUE
    BY <1>6 DEF InsertFails
  <2>3. A!Leave(Len(documents), k)
        /\ Len(documents) \in 1..BatchSize /\ Len(documents) <= Len(Pending)
    BY <2>1, <2>2, InsertLeaves
  <2> QED  BY <2>2, <2>3 DEF A!Next, A!Fail
<1>7. CASE MongoChanges
  BY <1>7, <1>a DEF MongoChanges, storeVars, historyVars
<1>8. CASE SchedulerDies
  <2>1. PICK k \in 0..Len(documents) : InsertFirst(k)
    BY <1>8 DEF SchedulerDies
  <2>2. /\ documents \in Seq(Docs) /\ data \o dbchan \in Seq(Docs) /\ Pending \in Seq(Docs)
        /\ Pending = documents \o (data \o dbchan)
        /\ Len(documents) \in Nat /\ Len(documents) <= BatchSize /\ BatchSize \in Nat
    BY PendingType, LenProperties, BatcherAssumption DEF BatcherAssumption, TypeOK
  <2>3. Len(Pending) = Len(documents) + Len(data \o dbchan)
        /\ Len(data \o dbchan) \in Nat /\ Len(Pending) \in Nat
    BY <2>2, ConcatProperties, LenProperties
  <2>4. Pending' = <<>>
    <3>1. Pending' = (<<>> \o <<>>) \o <<>>
      BY <1>8 DEF SchedulerDies, Pending
    <3> QED  BY <3>1, EmptySeq, ConcatEmptySeq
  <2>5. Pending' = SubSeq(Pending, Len(Pending) + 1, Len(Pending))
    BY <2>3, <2>4, SubSeqEmpty
  <2>6. collection' = collection \o SubSeq(Pending, 1, k)
    BY <2>1, <2>2, ConcatPrefix DEF InsertFirst
  <2>7. k \in 0..BatchSize /\ k <= Len(Pending) /\ mishap' = TRUE
    BY <1>8, <2>2, <2>3 DEF SchedulerDies
  <2> QED  BY <2>5, <2>6, <2>7 DEF A!Next, A!Crash, A!Leave
<1>9. CASE UNCHANGED vars
  BY <1>9, <1>a DEF vars, storeVars, historyVars
<1> QED
  BY <1>1, <1>2, <1>3, <1>4, <1>5, <1>6, <1>7, <1>8, <1>9 DEF Next, BatchInsert, A!Next

(***************************************************************************)
(* Channel, buffer and batch are one queue: for every capacity, batch size  *)
(* and number of consumers, pages leave from its front, in batches of at    *)
(* most BatchSize, and only a mishap keeps one out of the collection.       *)
(***************************************************************************)
THEOREM BatcherImplementsArchive == Spec => ImplementsArchive
<1>1. Spec => []TypeOK
  BY BatcherTypeCorrect
<1> QED  BY <1>1, InitArchive, NextArchive, PTL DEF Spec, ImplementsArchive, A!Spec
===============================================================================
