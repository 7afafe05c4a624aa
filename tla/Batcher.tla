-------------------------------- MODULE Batcher --------------------------------
(***************************************************************************)
(* The way of a result from the consumers of the scheduler through dbchan   *)
(* and the batcher goroutine to MongoDB.  The consumers block when dbchan   *)
(* is full, and the batcher takes nothing from it while it inserts.         *)
(***************************************************************************)
EXTENDS Integers, Sequences

CONSTANTS
  Docs,      \* pages, as bodies of result messages
  Arrivals,  \* the results that the broker delivers, in order
  Senders,   \* the result consumers
  ChanSize,  \* capacity of dbchan
  BatchSize,
  NoDoc      \* a consumer that is not handing anything over

ASSUME BatcherAssumption ==
  /\ Arrivals \in Seq(Docs)
  /\ ChanSize \in Nat
  /\ BatchSize \in Nat \ {0}
  /\ NoDoc \notin Docs

VARIABLES
  arrivals,   \* the results that no consumer has received yet
  sending,    \* sending[c]: what c is putting into dbchan
  dbchan,
  tick,       \* a tick waits in ticker.C
  data,       \* b.data
  documents,  \* the batch that is being inserted
  mongo,      \* MongoDB answers
  collection, \* the documents of crawled_urls
  accepted,   \* history: the pages that went into dbchan
  mishap      \* history: an insert has failed, or the scheduler has crashed

storeVars == <<mongo, collection>>
historyVars == <<accepted, mishap>>
vars == <<arrivals, sending, dbchan, tick, data, documents, storeVars, historyVars>>

TypeOK ==
  /\ arrivals \in Seq(Docs)
  /\ sending \in [Senders -> Docs \cup {NoDoc}]
  /\ dbchan \in Seq(Docs) /\ Len(dbchan) <= ChanSize
  /\ tick \in BOOLEAN
  /\ data \in Seq(Docs) /\ Len(data) < BatchSize
  /\ documents \in Seq(Docs) /\ Len(documents) <= BatchSize
  /\ mongo \in BOOLEAN
  /\ collection \in Seq(Docs)
  /\ accepted \in Seq(Docs)
  /\ mishap \in BOOLEAN

Init ==
  /\ arrivals = Arrivals
  /\ sending = [c \in Senders |-> NoDoc]
  /\ dbchan = <<>>
  /\ tick = FALSE
  /\ data = <<>>
  /\ documents = <<>>
  /\ mongo = TRUE
  /\ collection = <<>>
  /\ accepted = <<>>
  /\ mishap = FALSE
-------------------------------------------------------------------------------
(* A consumer receives a result and enters processResult. *)
Receive(c) ==
  /\ sending[c] = NoDoc
  /\ arrivals # <<>>
  /\ sending' = [sending EXCEPT ![c] = Head(arrivals)]
  /\ arrivals' = Tail(arrivals)
  /\ UNCHANGED <<dbchan, tick, data, documents, storeVars, historyVars>>

(* dbchan <- body, as soon as there is room. *)
Send(c) ==
  /\ sending[c] # NoDoc
  /\ Len(dbchan) < ChanSize
  /\ dbchan' = Append(dbchan, sending[c])
  /\ accepted' = Append(accepted, sending[c])
  /\ sending' = [sending EXCEPT ![c] = NoDoc]
  /\ UNCHANGED <<arrivals, tick, data, documents, storeVars, mishap>>

(* The ticker fires.  Its channel holds one tick; more are dropped. *)
Tick ==
  /\ ~tick
  /\ tick' = TRUE
  /\ UNCHANGED <<arrivals, sending, dbchan, data, documents, storeVars, historyVars>>

(* The batcher waits in its select. *)
Selecting == documents = <<>>

(* Mutant: the tick does not empty the buffer. *)
CopyOnTick ==
  /\ Selecting
  /\ tick
  /\ tick' = FALSE
  /\ documents' = data
  /\ UNCHANGED <<arrivals, sending, dbchan, data, storeVars, historyVars>>

(* Mutant: the ticker's case does nothing. *)
IgnoreTick ==
  /\ Selecting
  /\ tick
  /\ tick' = FALSE
  /\ UNCHANGED <<arrivals, sending, dbchan, data, documents, storeVars, historyVars>>

(* case <-ticker.C: whatever is buffered is inserted. *)
OnTick ==
  /\ Selecting
  /\ tick
  /\ tick' = FALSE
  /\ documents' = data
  /\ data' = <<>>
  /\ UNCHANGED <<arrivals, sending, dbchan, storeVars, historyVars>>

(* Mutant: the result that fills the buffer is not part of the batch. *)
FlushBeforeAppend(d) ==
  IF Len(data) + 1 >= BatchSize
    THEN documents' = data /\ data' = <<>>
    ELSE data' = Append(data, d) /\ UNCHANGED documents

(* Mutant: a full buffer is flushed one result too late. *)
FlushBeyondSize(d) ==
  IF Len(data) + 1 > BatchSize
    THEN documents' = Append(data, d) /\ data' = <<>>
    ELSE data' = Append(data, d) /\ UNCHANGED documents

(* The buffer takes a result in; a full one becomes the batch. *)
Buffer(d) ==
  IF Len(data) + 1 >= BatchSize
    THEN documents' = Append(data, d) /\ data' = <<>>
    ELSE data' = Append(data, d) /\ UNCHANGED documents

(* case val := <-dbchan *)
OnResult ==
  /\ Selecting
  /\ dbchan # <<>>
  /\ Buffer(Head(dbchan))
  /\ dbchan' = Tail(dbchan)
  /\ UNCHANGED <<arrivals, sending, tick, storeVars, historyVars>>

(* InsertMany returns nil. *)
Insert ==
  /\ documents # <<>>
  /\ mongo
  /\ collection' = collection \o documents
  /\ documents' = <<>>
  /\ UNCHANGED <<arrivals, sending, dbchan, tick, data, mongo, historyVars>>

(* InsertMany inserts the first n documents of its batch. *)
InsertFirst(n) == collection' = collection \o SubSeq(documents, 1, n)

(* Mutant: without a timeout, InsertMany waits for MongoDB. *)
InsertRejected ==
  /\ documents # <<>>
  /\ mongo
  /\ \E n \in 0..Len(documents) : InsertFirst(n)
  /\ documents' = <<>>
  /\ mishap' = TRUE
  /\ UNCHANGED <<arrivals, sending, dbchan, tick, data, mongo, accepted>>

(* InsertMany returns an error, at the latest after 2 seconds; it is logged. *)
InsertFails ==
  /\ documents # <<>>
  /\ \E n \in 0..Len(documents) : InsertFirst(n)
  /\ documents' = <<>>
  /\ mishap' = TRUE
  /\ UNCHANGED <<arrivals, sending, dbchan, tick, data, mongo, accepted>>

(* MongoDB stops to answer, or answers again. *)
MongoChanges ==
  /\ mongo' = ~mongo
  /\ UNCHANGED <<arrivals, sending, dbchan, tick, data, documents, collection, historyVars>>

(* The scheduler dies and restarts; what it held is gone. *)
SchedulerDies ==
  /\ sending' = [c \in Senders |-> NoDoc]
  /\ dbchan' = <<>>
  /\ tick' = FALSE
  /\ data' = <<>>
  /\ \E n \in 0..Len(documents) : InsertFirst(n)
  /\ documents' = <<>>
  /\ mishap' = TRUE
  /\ UNCHANGED <<arrivals, mongo, accepted>>

BatchInsert == OnTick \/ OnResult \/ Insert \/ InsertFails

Next ==
  \/ \E c \in Senders : Receive(c) \/ Send(c)
  \/ Tick
  \/ BatchInsert
  \/ MongoChanges
  \/ SchedulerDies

Spec == Init /\ [][Next]_vars

(***************************************************************************)
(* The goroutines run and the ticker fires.  A select picks one of its ready*)
(* cases at random, so that ticks do not keep results away for ever.        *)
(* MongoDB need not ever answer.                                            *)
(***************************************************************************)
FairSpec ==
  /\ Spec
  /\ \A c \in Senders : WF_vars(Send(c))
  /\ WF_vars(Tick)
  /\ WF_vars(BatchInsert)
  /\ SF_vars(OnResult)
-------------------------------------------------------------------------------
(* The pages that were handed over and not yet written, oldest first. *)
Pending == documents \o data \o dbchan

A == INSTANCE Archive WITH pending <- Pending, stored <- collection

(***************************************************************************)
(* The channel, the buffer, the batch and the two ways to flush behave like *)
(* one queue that is emptied from its front.                                *)
(***************************************************************************)
ImplementsArchive == A!Spec

(***************************************************************************)
(* Without a failed insert or a crash every page that was handed over is    *)
(* stored or pending, once, in the order of the handover.                   *)
(***************************************************************************)
NothingLost == ~mishap => accepted = collection \o Pending

(***************************************************************************)
(* No consumer is blocked on dbchan for ever, not even if MongoDB never     *)
(* answers again.                                                           *)
(***************************************************************************)
SendersProceed == \A c \in Senders : sending[c] # NoDoc ~> sending[c] = NoDoc

Waits(d) == \E i \in 1..Len(Pending) : Pending[i] = d

(***************************************************************************)
(* Every page that is handed over leaves for MongoDB, also when too few     *)
(* follow to fill a batch and when MongoDB has stopped to answer before.    *)
(***************************************************************************)
PagesFlushed == \A d \in Docs : Waits(d) ~> ~Waits(d)
===============================================================================
