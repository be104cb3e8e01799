------------------------------ MODULE ElasticSink ------------------------------
(***************************************************************************)
(* The Elasticsearch sink (internal/sink/elastic/elastic.go): validators   *)
(* write to its buffered channel, one goroutine collects the results into  *)
(* a batch and sends the batch when it is full, when the ticker fires, and *)
(* when the agent stops.  A batch is tried a few times and then given up.  *)
(*                                                                         *)
(* A result is named by its position in `accepted`, the results sent to    *)
(* the channel; the channel holds those after the first `taken`.  What     *)
(* matters of a result is [key, fits]: the policy, the entity and the day  *)
(* that upsert mode makes its id from, and whether the index can hold it.  *)
(* The index (external) is a function from document ids to results.        *)
(***************************************************************************)
EXTENDS Integers, Sequences, FiniteSets, FiniteSetsExt

CONSTANTS
    Keys,         \* the policy, entity and day of results
    Modes,        \* InsertionMode: "insert" or "upsert"
    ChanSize,     \* resultChanSize
    BatchSize,    \* batchSize
    Retries,      \* retries
    MaxResults    \* bound on the results of the whole run

ASSUME ElasticAssumption ==
    /\ Modes \subseteq {"insert", "upsert"}
    /\ ChanSize \in Nat \ {0} /\ BatchSize \in Nat \ {0} /\ Retries \in Nat \ {0}
    /\ MaxResults \in Nat

VARIABLES
    mode,        \* the insertion mode of the configuration
    ctxDone,     \* the context of the manager is cancelled
    accepted,    \* the results sent to the channel
    taken,       \* how many of them Start received
    batch,       \* policyValidationsBatch
    tick,        \* the ticker's channel holds a tick
    pc,          \* what Start is doing
    attempt,     \* the i of writeBatch
    index,       \* the Elasticsearch index
    flushed,     \* the results of batches that writeBatch returned from
    givenUp      \* those of them it returned from without success

vars == <<mode, ctxDone, accepted, taken, batch, tick, pc, attempt, index, flushed, givenUp>>

Results == [key : Keys, fits : BOOLEAN]

Init ==
    /\ mode \in Modes
    /\ ctxDone = FALSE
    /\ accepted = << >>
    /\ taken = 0
    /\ batch = << >>
    /\ tick = FALSE
    /\ pc = "select"
    /\ attempt = 0
    /\ index = << >>
    /\ flushed = {}
    /\ givenUp = {}

\* One send of Write; it waits for room in the channel.
Write ==
    /\ Len(accepted) < MaxResults
    /\ Len(accepted) - taken < ChanSize
    /\ \E result \in Results : accepted' = Append(accepted, result)
    /\ UNCHANGED <<mode, ctxDone, taken, batch, tick, pc, attempt, index, flushed, givenUp>>

Shutdown ==
    /\ ~ctxDone
    /\ ctxDone' = TRUE
    /\ UNCHANGED <<mode, accepted, taken, batch, tick, pc, attempt, index, flushed, givenUp>>

\* time.Ticker drops a tick that nobody has taken.
Tick ==
    /\ ~tick
    /\ tick' = TRUE
    /\ UNCHANGED <<mode, ctxDone, accepted, taken, batch, pc, attempt, index, flushed, givenUp>>
-----------------------------------------------------------------------------
(***************************************************************************)
(* Start: the three cases of the select.  A pc of "full" or "tick" is a    *)
(* call of writeBatch from those cases, "last" the one made on the way     *)
(* out.                                                                    *)
(***************************************************************************)
Receive ==
    /\ pc = "select"
    /\ taken < Len(accepted)
    /\ taken' = taken + 1
    /\ batch' = Append(batch, taken')
    /\ pc' = IF Len(batch') = BatchSize THEN "full" ELSE "select"
    /\ UNCHANGED <<mode, ctxDone, accepted, tick, attempt, index, flushed, givenUp>>

\* Plausible bug: only full batches are written.
Expire_Ignored ==
    /\ pc = "select"
    /\ tick
    /\ tick' = FALSE
    /\ pc' = IF Len(batch) >= BatchSize THEN "tick" ELSE "select"
    /\ UNCHANGED <<mode, ctxDone, accepted, taken, batch, attempt, index, flushed, givenUp>>

Expire ==
    /\ pc = "select"
    /\ tick
    /\ tick' = FALSE
    /\ pc' = IF Len(batch) > 0 THEN "tick" ELSE "select"
    /\ UNCHANGED <<mode, ctxDone, accepted, taken, batch, attempt, index, flushed, givenUp>>

\* Plausible bug: the batch is forgotten on the way out.
Finish_NoFlush ==
    /\ pc = "select"
    /\ ctxDone
    /\ pc' = "stopped"
    /\ UNCHANGED <<mode, ctxDone, accepted, taken, batch, tick, attempt, index, flushed, givenUp>>

Finish ==
    /\ pc = "select"
    /\ ctxDone
    /\ pc' = IF Len(batch) > 0 THEN "last" ELSE "stopped"
    /\ UNCHANGED <<mode, ctxDone, accepted, taken, batch, tick, attempt, index, flushed, givenUp>>

Writing == pc \in {"full", "tick", "last"}

Members(seq) == {seq[j] : j \in DOMAIN seq}

\* The id that createIndexBody gives a document.
DocID(i) == IF mode = "upsert" THEN accepted[i].key ELSE i

\* Plausible bug: the body is put together back to front.
Wins_First(positions) == Min(positions)

\* Of several documents with one id a bulk request leaves the last.
Wins(positions) == Max(positions)

\* What a bulk request that Elasticsearch carries out does: it stores the
\* documents that fit, in the order of the body.
Applied ==
    LET Positions(d) == {j \in DOMAIN batch : accepted[batch[j]].fits /\ DocID(batch[j]) = d}
        ids == {DocID(i) : i \in {i \in Members(batch) : accepted[i].fits}}
    IN [d \in ids \cup DOMAIN index |->
           IF d \in ids THEN batch[Wins(Positions(d))] ELSE index[d]]

\* Plausible bug: the batch is not cleared.
Return_NoClear ==
    /\ flushed' = flushed \cup Members(batch)
    /\ batch' = batch
    /\ pc' = IF pc = "last" THEN "stopped" ELSE "select"
    /\ attempt' = 0

(***************************************************************************)
(* writeBatch returned: Start clears the batch (or leaves it, with all the *)
(* rest, when it returns).                                                 *)
(***************************************************************************)
Return ==
    /\ flushed' = flushed \cup Members(batch)
    /\ batch' = IF pc = "last" THEN batch ELSE << >>
    /\ pc' = IF pc = "last" THEN "stopped" ELSE "select"
    /\ attempt' = 0

\* The answer has status 200, also when documents of the batch did not fit.
BulkSucceeds ==
    /\ Writing
    /\ attempt < Retries
    /\ index' = Applied
    /\ Return
    /\ UNCHANGED <<mode, ctxDone, accepted, taken, tick, givenUp>>

\* Plausible bug: the attempts start over instead of running out.
BulkFails_Forever ==
    /\ Writing
    /\ attempt < Retries
    /\ index' \in {index, Applied}
    /\ attempt' = (attempt + 1) % Retries
    /\ UNCHANGED <<mode, ctxDone, accepted, taken, batch, tick, pc, flushed, givenUp>>

(***************************************************************************)
(* The body cannot be made, the request fails, or its answer is lost: then *)
(* the request may have been carried out.                                  *)
(***************************************************************************)
BulkFails ==
    /\ Writing
    /\ attempt < Retries
    /\ index' \in {index, Applied}
    /\ attempt' = attempt + 1
    /\ UNCHANGED <<mode, ctxDone, accepted, taken, batch, tick, pc, flushed, givenUp>>

GiveUp ==
    /\ Writing
    /\ attempt = Retries
    /\ givenUp' = givenUp \cup Members(batch)
    /\ Return
    /\ UNCHANGED <<mode, ctxDone, accepted, taken, tick, index>>
-----------------------------------------------------------------------------
WriteBatch == BulkSucceeds \/ BulkFails \/ GiveUp

Start == Receive \/ Expire \/ Finish \/ WriteBatch

Next == Write \/ Shutdown \/ Tick \/ Start

(***************************************************************************)
(* The goroutine of Start runs when it can; a Go select chooses at random  *)
(* among its ready cases, so it does not pass over one for ever; the       *)
(* ticker fires again and again.                                           *)
(***************************************************************************)
Fairness ==
    /\ WF_vars(WriteBatch)
    /\ WF_vars(Tick)
    /\ SF_vars(Receive)
    /\ SF_vars(Expire)
    /\ SF_vars(Finish)

Spec == Init /\ [][Next]_vars

FairSpec == Spec /\ Fairness
-----------------------------------------------------------------------------
TypeOK ==
    /\ mode \in Modes
    /\ ctxDone \in BOOLEAN
    /\ accepted \in Seq(Results)
    /\ taken \in 0..Len(accepted)
    /\ batch \in Seq(Nat \ {0})
    /\ tick \in BOOLEAN
    /\ pc \in {"select", "full", "tick", "last", "stopped"}
    /\ attempt \in 0..Retries
    /\ \A d \in DOMAIN index : index[d] \in Nat \ {0}
    /\ flushed \subseteq Nat \ {0}
    /\ givenUp \subseteq flushed

(***************************************************************************)
(* The batch is what was received since the last one was written, in       *)
(* order, and never more than its capacity (the test for a full batch is   *)
(* an equality: a batch that grew past it would grow for ever).  With the  *)
(* types of all variables.                                                 *)
(***************************************************************************)
BatchOK ==
    /\ TypeOK
    /\ Len(batch) <= BatchSize
    /\ pc = "select" => Len(batch) < BatchSize
    /\ pc # "stopped" => batch = [j \in 1..(taken - Cardinality(flushed)) |->
                                     Cardinality(flushed) + j]

(***************************************************************************)
(* A result that writeBatch is done with, and has not given up, is in the  *)
(* index if the index can hold it, or a newer result of the same id is; it *)
(* is not replaced by an older one, in one request or by a retry.          *)
(***************************************************************************)
Stored ==
    \A i \in flushed \ givenUp :
        accepted[i].fits => DocID(i) \in DOMAIN index /\ index[DocID(i)] >= i

(***************************************************************************)
(* Retries do not multiply documents: a result that was stored by an       *)
(* attempt whose answer was lost is stored once.                           *)
(***************************************************************************)
NoDuplicates ==
    \A d, e \in DOMAIN index : index[d] = index[e] => d = e

\* Both: the index holds what was written, once, and nothing older for it.
Indexed == Stored /\ NoDuplicates

(***************************************************************************)
(* A result does not wait for the batch to fill: as long as the agent is   *)
(* not told to stop, every accepted result is written or given up.         *)
(***************************************************************************)
EventuallyFlushed ==
    \A i \in 1..MaxResults : i <= Len(accepted) ~> (ctxDone \/ i \in flushed)

(***************************************************************************)
(* Start returns once the context is cancelled, whatever Elasticsearch     *)
(* answers.                                                                *)
(***************************************************************************)
StopsOnShutdown == ctxDone ~> pc = "stopped"

(***************************************************************************)
(* The sink keeps to what validators and main.go rely on (SinkSpec): its   *)
(* worker, too, is through with all it took when it ends.                  *)
(***************************************************************************)
Contract ==
    INSTANCE SinkSpec WITH
        sent <- Len(accepted),
        handled <- Cardinality(flushed),
        worker <- IF pc = "stopped" THEN "ended" ELSE "working"

ImplementsSink == Contract!Spec
=============================================================================
