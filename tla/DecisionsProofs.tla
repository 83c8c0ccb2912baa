--------------------------- MODULE DecisionsProofs ---------------------------
(***************************************************************************)
(* Proofs about Decisions for any numbers of CCUs and documents.  The      *)
(* handlers take the steps of LinkedLog, so what LinkedLogProofs shows     *)
(* holds of their logs.                                                    *)
(***************************************************************************)
EXTENDS Decisions, LinkedLogProofs

LEMMA HandlersTakeLogSteps == [HandlersNext]_allVars => [Next]_vars
  <1> SUFFICES ASSUME [HandlersNext]_allVars PROVE [Next]_vars
    OBVIOUS
  <1>1. ASSUME NEW u \in CCUs, NEW d \in Docs, WritePatientData(u, d) PROVE Next
    BY <1>1 DEF WritePatientData, Next
  <1>2. ASSUME NEW u \in CCUs, NEW r \in {"plain", "full"}, BeginDecision(u, r) PROVE Next
    <2>1. PICK l \in Logs : BeginRead(u, l)
      BY <1>2 DEF BeginDecision, Logs
    <2>2. QED
      BY <2>1 DEF Next
  <1>3. ASSUME NEW u \in CCUs, HandlerStep(u) PROVE [Next]_vars
    <2>1. CASE UploadStep(u) \/ UploadDone(u) \/ Fetch(u) \/ Aggregate(u) \/ Retrieve(u)
      BY <2>1 DEF UploadStep, UploadDone, Fetch, Aggregate, Retrieve, Next, Step, Fault
    <2>2. CASE BeginLight(u)
      BY <2>2 DEF BeginLight, Logs, Next
    <2>3. CASE ExecuteMethod(u) \/ ExecuteMethodWithAggregation(u) \/ LightError(u)
      BY <2>3 DEF ExecuteMethod, ExecuteMethodWithAggregation, LightError
    <2>4. QED
      BY <1>3, <2>1, <2>2, <2>3 DEF HandlerStep
  <1>4. ASSUME NEW u \in CCUs, ReadError(u) \/ ProcessEnds(u) PROVE [Next]_vars
    BY <1>4 DEF ReadError, ProcessEnds, Next, Fault
  <1>5. ASSUME NEW c \in inflight, Publication(c) PROVE Next
    BY <1>5 DEF Publication, Next
  <1>6. CASE UNCHANGED allVars
    BY <1>6 DEF allVars
  <1>7. QED
    BY <1>1, <1>2, <1>3, <1>4, <1>5, <1>6 DEF HandlersNext

(* WritePatientDataHandler and the decision handlers use the logs as       *)
(* LinkedLog says: everything proved of its behaviours holds of theirs.    *)
THEOREM HandlersImplementLog == HandlersSpec => Spec
  <1>1. HandlersInit => Init
    BY DEF HandlersInit
  <1>2. QED
    BY <1>1, HandlersTakeLogSteps, PTL DEF HandlersSpec, Spec

-----------------------------------------------------------------------------
(* Types.                                                                  *)

LEMMA ResultType == ASSUME TypeOK, NEW u \in CCUs PROVE result[u] \in Seq(Docs)
  BY DEF TypeOK

LEMMA NextTypes ==
    ASSUME IInv, HandlersTypeOK, [HandlersNext]_allVars
    PROVE  HandlersTypeOK'
  <1>1. TypeOK'
    BY HandlersTakeLogSteps, NextIInv DEF IInv
  <1> DEFINE Types == /\ request \in [CCUs -> Requests]
                      /\ aggregated \in [CCUs -> Seq(Docs)]
                      /\ decided \in [CCUs -> Seq(Docs)]
                      /\ before \in [CCUs -> SUBSET Docs]
                      /\ alone \in [CCUs -> BOOLEAN]
                      /\ failed \in BOOLEAN
  <1>2. ASSUME NEW u \in CCUs, Return(u), failed' = failed \/ failed' = TRUE PROVE Types'
    <2>1. "none" \in Requests /\ <<>> \in Seq(Docs) /\ {} \in SUBSET Docs
      BY DEF Requests
    <2>2. failed' \in BOOLEAN
      BY <1>2 DEF HandlersTypeOK
    <2>3. QED
      BY <1>2, <2>1, <2>2 DEF HandlersTypeOK, Return
  <1>3. ASSUME NEW u \in CCUs, NEW d \in Docs, WritePatientData(u, d) PROVE Types'
    BY <1>3 DEF HandlersTypeOK, WritePatientData, Requests
  <1>4. ASSUME NEW u \in CCUs, NEW r \in {"plain", "full"}, BeginDecision(u, r) PROVE Types'
    <2>1. Stored(u) \in SUBSET Docs
      BY DEF Stored
    <2>2. QED
      BY <1>4, <2>1 DEF HandlersTypeOK, BeginDecision, Requests
  <1>5. ASSUME NEW u \in CCUs, UploadDone(u) PROVE Types'
    <2>1. failed' = failed \/ failed' = TRUE
      BY <1>5 DEF UploadDone
    <2>2. CASE log[u] = "light"
      BY <1>5, <1>2, <2>1, <2>2 DEF UploadDone
    <2>3. CASE log[u] # "light"
      BY <1>5, <2>1, <2>3 DEF UploadDone, HandlersTypeOK
    <2>4. QED
      BY <2>2, <2>3
  <1>6. ASSUME NEW u \in CCUs, Aggregate(u) PROVE Types'
    BY <1>6, <1>1, ResultType DEF HandlersTypeOK, Aggregate, Requests
  <1>7. ASSUME NEW u \in CCUs, Retrieve(u) PROVE Types'
    BY <1>7, <1>1, ResultType DEF HandlersTypeOK, Retrieve, Requests
  <1>8. ASSUME NEW u \in CCUs, \/ ExecuteMethod(u) \/ ExecuteMethodWithAggregation(u)
                               \/ LightError(u) \/ ReadError(u) \/ ProcessEnds(u)
        PROVE Types'
    BY <1>8, <1>2 DEF ExecuteMethod, ExecuteMethodWithAggregation, LightError, ReadError, ProcessEnds
  <1>9. ASSUME UNCHANGED <<request, aggregated, decided, before, alone>>,
               failed' = failed \/ failed' = TRUE
        PROVE  Types'
    BY <1>9 DEF HandlersTypeOK
  <1>10. ASSUME NEW c \in inflight, Publication(c) PROVE Types'
    BY <1>9, <1>10 DEF Publication
  <1>11. ASSUME NEW u \in CCUs, UploadStep(u) \/ Fetch(u) \/ BeginLight(u) PROVE Types'
    BY <1>9, <1>11 DEF UploadStep, Fetch, BeginLight, handlerVars
  <1>12. ASSUME UNCHANGED allVars PROVE Types'
    <2>1. UNCHANGED handlerVars
      BY <1>12 DEF allVars
    <2>2. QED
      BY <1>9, <2>1 DEF handlerVars
  <1> HIDE DEF Types
  <1>13. Types'
    BY <1>3, <1>4, <1>5, <1>6, <1>7, <1>8, <1>10, <1>11, <1>12 DEF HandlersNext, HandlerStep
  <1>14. QED
    BY <1>1, <1>13 DEF Types, HandlersTypeOK

LEMMA InitTypes == HandlersInit => HandlersTypeOK
  <1> SUFFICES ASSUME HandlersInit PROVE HandlersTypeOK
    OBVIOUS
  <1>1. TypeOK
    BY InitIInv DEF HandlersInit, IInv
  <1>2. "none" \in Requests /\ <<>> \in Seq(Docs) /\ {} \in SUBSET Docs
    BY DEF Requests
  <1>3. QED
    BY <1>1, <1>2 DEF HandlersInit, HandlersTypeOK

(* The handlers keep the types of Decisions.                               *)
THEOREM HandlersTypeCorrect == HandlersSpec => []HandlersTypeOK
  <1>1. HandlersSpec => []IInv
    BY HandlersImplementLog, Invariance, PTL
  <1>2. QED
    BY <1>1, InitTypes, NextTypes, PTL DEF HandlersSpec

-----------------------------------------------------------------------------
(* What a reader of an orderly log has read.                               *)

(* Identifiers grow along the chain of the published blocks of a log, and  *)
(* none of them is left out of it.                                         *)
InOrder ==
    \A l \in Logs : \A c \in PublishedIn(l) :
        /\ c <= head[l]
        /\ \A d \in PublishedIn(l) : d < c => d <= blocks[c].prev

(* The results hold what it has passed and can decrypt.                    *)
Gathered ==
    \A u \in CCUs : pc[u] = "fetch" => \A d \in PublishedIn(log[u]) :
        cid[u] < d /\ d <= start[u] /\ blocks[d].seed = SeedOf[u]
            => blocks[d].doc \in Range(result[u])

(* Only the end of a publication changes what is published.                *)
LEMMA PublicationOnly ==
    ASSUME IInv, [Next]_vars, ~\E c \in inflight : PublishDone(c)
    PROVE  UNCHANGED <<head, published>>
  BY DEF Next, Step, Fault, BeginWrite, SkipUpload, ResolvePrev, ResolvePrevError, AddBatch,
     AddBatchError, StartPublish, PublishError, PublishReturns, BeginRead, FetchBatch,
     FetchError, FinishRead, Crash, vars, ipfsVars, histVars

LEMMA StepInOrder ==
    ASSUME IInv, Serial, InOrder, [Next]_vars
    PROVE  InOrder'
  <1>1. ASSUME NEW c \in inflight, PublishDone(c) PROVE InOrder'
    <2>1. PICK k \in Logs : k = blocks[c].log
      BY BlockFacts DEF IInv, Known
    <2>2. head' = [head EXCEPT ![k] = c] /\ blocks' = blocks /\ published' = published \cup {c}
      BY <1>1, <2>1 DEF PublishDone
    <2>3. head'[k] = c /\ \A l \in Logs : l # k => head'[l] = head[l]
      BY <2>2 DEF IInv, TypeOK
    <2>4. \A l \in Logs : PublishedIn(l)' = IF l = k THEN PublishedIn(l) \cup {c} ELSE PublishedIn(l)
      BY <2>1, <2>2 DEF PublishedIn
    <2>5. blocks[c].prev = head[k] /\ c \in Nat /\ c # NoCid /\ head[k] \in Nat /\ c \in Cids
      BY <2>1 DEF Serial, IInv, Known, Cids, NoCid, TypeOK
    <2>6. head[k] < c
      BY <2>5 DEF IInv, WellLinked, NoCid
    <2>7. \A d \in PublishedIn(k) : d \in Nat /\ d <= head[k]
      BY DEF InOrder, PublishedIn, IInv, Known, Cids
    <2>8. QED
      BY <2>2, <2>3, <2>4, <2>5, <2>6, <2>7 DEF InOrder
  <1>2. CASE ~\E c \in inflight : PublishDone(c)
    <2>1. UNCHANGED <<head, published>>
      BY <1>2, PublicationOnly
    <2>2. \A c \in published : blocks'[c] = blocks[c]
      BY LogGrows DEF IInv, Known
    <2>3. QED
      BY <2>1, <2>2 DEF InOrder, PublishedIn
  <1>3. QED
    BY <1>1, <1>2

LEMMA RangeAppend ==
    ASSUME NEW S, NEW s \in Seq(S), NEW e \in S
    PROVE  Range(Append(s, e)) = Range(s) \cup {e}
  <1>1. /\ DOMAIN s = 1..Len(s) /\ Len(s) \in Nat
        /\ DOMAIN Append(s, e) = 1..(Len(s) + 1)
        /\ \A i \in 1..Len(s) : Append(s, e)[i] = s[i]
        /\ Append(s, e)[Len(s) + 1] = e
    OBVIOUS
  <1>2. 1..(Len(s) + 1) = 1..Len(s) \cup {Len(s) + 1}
    BY <1>1
  <1> DEFINE t == Append(s, e)
  <1> HIDE DEF t
  <1>3. DOMAIN t = DOMAIN s \cup {Len(s) + 1} /\ t[Len(s) + 1] = e /\ \A i \in DOMAIN s : t[i] = s[i]
    BY <1>1, <1>2 DEF t
  <1>4. Range(t) = Range(s) \cup {e}
    BY <1>3 DEF Range
  <1>5. QED
    BY <1>4 DEF t

(* FetchBatch passes no published block by.                                *)
LEMMA FetchGathers ==
    ASSUME IInv, InOrder, OnLog, Gathered, NEW v \in CCUs, FetchBatch(v),
           NEW d \in PublishedIn(log[v]), cid'[v] < d, d <= start[v], blocks[d].seed = SeedOf[v]
    PROVE  blocks[d].doc \in Range(result'[v])
  <1> DEFINE c == cid[v]
  <1>1. /\ pc[v] = "fetch" /\ c # NoCid
        /\ cid'[v] = blocks[c].prev
        /\ result'[v] = IF blocks[c].seed = SeedOf[v] THEN Append(result[v], blocks[c].doc)
                        ELSE result[v]
    BY DEF IInv, TypeOK, FetchBatch
  <1>2. c \in PublishedIn(log[v]) /\ log[v] \in Logs
    BY <1>1 DEF OnLog, IInv, TypeOK
  <1>3. c \in Cids /\ d \in Cids /\ c \in Nat /\ d \in Nat
    BY <1>2 DEF PublishedIn, IInv, Known, Cids
  <1>4. result[v] \in Seq(Docs) /\ blocks[c].doc \in Docs /\ blocks[c].prev \in Nat
    BY <1>3, BlockFacts DEF IInv, TypeOK
  <1>5. Range(result[v]) \subseteq Range(result'[v])
    BY <1>1, <1>4, RangeAppend
  <1>6. CASE c < d
    BY <1>1, <1>5, <1>6 DEF Gathered
  <1>7. CASE c = d
    BY <1>1, <1>4, <1>7, RangeAppend
  <1>8. CASE d < c
    BY <1>1, <1>2, <1>3, <1>4, <1>8 DEF InOrder
  <1>9. QED
    BY <1>3, <1>6, <1>7, <1>8

(* What is published while v reads is newer than what it started from.     *)
LEMMA NewIsLater ==
    ASSUME IInv, Serial, InOrder, OnLog, [Next]_vars, NEW v \in CCUs, pc[v] = "fetch",
           NEW d \in PublishedIn(log[v])', d <= start[v], log'[v] = log[v]
    PROVE  d \in PublishedIn(log[v]) /\ blocks'[d] = blocks[d]
  <1>1. log[v] \in Logs /\ start[v] \in PublishedIn(log[v]) /\ start[v] <= head[log[v]]
    BY DEF IInv, TypeOK, OnLog, InOrder
  <1>2. CASE \E c \in inflight : PublishDone(c)
    <2>1. PICK c \in inflight : PublishDone(c)
      BY <1>2
    <2>2. blocks' = blocks /\ published' = published \cup {c} /\ c \in Cids
      BY <2>1 DEF PublishDone, IInv, Known
    <2>3. CASE blocks[c].log = log[v]
      <3>1. blocks[c].prev = head[log[v]]
        BY <2>3 DEF Serial
      <3>2. c \in Nat /\ start[v] \in Nat /\ head[log[v]] \in Nat
        BY <1>1, <2>2 DEF IInv, TypeOK, Cids
      <3>3. head[log[v]] < c
        BY <2>2, <3>1, <3>2 DEF IInv, WellLinked, NoCid, Cids
      <3>4. d # c
        BY <1>1, <3>2, <3>3
      <3>5. QED
        BY <2>2, <3>4 DEF PublishedIn
    <2>4. CASE blocks[c].log # log[v]
      BY <2>2, <2>4 DEF PublishedIn
    <2>5. QED
      BY <2>3, <2>4
  <1>3. CASE ~\E c \in inflight : PublishDone(c)
    <2>1. published' = published
      BY <1>3, PublicationOnly
    <2>2. \A c \in published : blocks'[c] = blocks[c]
      BY LogGrows DEF IInv, Known
    <2>3. QED
      BY <2>1, <2>2 DEF PublishedIn
  <1>4. QED
    BY <1>2, <1>3

LEMMA StepGathered ==
    ASSUME IInv, Serial, InOrder, OnLog, Gathered, [Next]_vars
    PROVE  Gathered'
  <1> SUFFICES ASSUME NEW v \in CCUs, pc'[v] = "fetch", NEW d \in PublishedIn(log[v])',
                      cid'[v] < d, d <= start'[v], blocks'[d].seed = SeedOf[v]
               PROVE  blocks'[d].doc \in Range(result'[v])
    BY DEF Gathered
  <1>1. CASE \E l \in Logs : BeginRead(v, l)
    <2>1. cid'[v] = start'[v] /\ start'[v] \in Nat
      BY <1>1 DEF IInv, TypeOK, BeginRead
    <2>2. d \in Nat
      BY NextIInv DEF PublishedIn, IInv, Known, Cids
    <2>3. QED
      BY <2>1, <2>2
  <1>2. CASE FetchBatch(v)
    <2>1. pc[v] = "fetch" /\ log'[v] = log[v] /\ start'[v] = start[v]
      BY <1>2 DEF FetchBatch
    <2>2. d \in PublishedIn(log[v]) /\ blocks'[d] = blocks[d]
      BY <2>1, NewIsLater
    <2>3. QED
      BY <1>2, <2>1, <2>2, FetchGathers
  <1>3. CASE /\ pc[v] = "fetch" /\ log'[v] = log[v] /\ cid'[v] = cid[v]
             /\ start'[v] = start[v] /\ result'[v] = result[v]
    <2>1. d \in PublishedIn(log[v]) /\ blocks'[d] = blocks[d]
      BY <1>3, NewIsLater
    <2>2. QED
      BY <1>3, <2>1 DEF Gathered
  <1>4. QED
    BY <1>1, <1>2, <1>3, ReaderSteps

-----------------------------------------------------------------------------
(* What a decision is made from.                                           *)

(* What was in both logs when the request of u began still is.             *)
Kept == \A u \in CCUs : before[u] \subseteq Stored(u)

(* What the request of u must find is in the version of the log it reads.  *)
Covered ==
    \A u \in CCUs : pc[u] = "fetch" => \A d \in before[u] : \E b \in PublishedIn(log[u]) :
        b <= start[u] /\ blocks[b].doc = d /\ blocks[b].seed = SeedOf[u]

(* What was found is handed on.                                            *)
Carried ==
    \A u \in CCUs :
        /\ request[u] \in {"light", "decideWithAggr"} => before[u] \subseteq Range(aggregated[u])
        /\ request[u] \in {"decide", "decideWithAggr"} => before[u] \subseteq Range(decided[u])

(* The request of v goes on, ends or begins.                               *)
LEMMA BeforeSteps ==
    ASSUME HandlersTypeOK, [HandlersNext]_allVars, NEW v \in CCUs
    PROVE  \/ before'[v] = before[v]
           \/ before'[v] = {}
           \/ pc[v] = "idle" /\ before'[v] = Stored(v)
  <1>1. ASSUME NEW u \in CCUs, Return(u) PROVE before'[v] \in {before[v], {}}
    BY <1>1 DEF HandlersTypeOK, Return
  <1>2. ASSUME NEW u \in CCUs, NEW r \in {"plain", "full"}, BeginDecision(u, r)
        PROVE  before'[v] = before[v] \/ (pc[v] = "idle" /\ before'[v] = Stored(v))
    BY <1>2 DEF HandlersTypeOK, BeginDecision, BeginRead
  <1>3. ASSUME NEW u \in CCUs, UploadDone(u) PROVE before'[v] \in {before[v], {}}
    BY <1>1, <1>3 DEF UploadDone
  <1>4. ASSUME NEW u \in CCUs, HandlerStep(u) PROVE before'[v] \in {before[v], {}}
    BY <1>1, <1>3, <1>4 DEF HandlerStep, UploadStep, Fetch, Aggregate, BeginLight, Retrieve,
       ExecuteMethod, ExecuteMethodWithAggregation, LightError, handlerVars
  <1>5. CASE UNCHANGED allVars
    BY <1>5 DEF allVars, handlerVars
  <1>6. QED
    BY <1>1, <1>2, <1>4, <1>5 DEF HandlersNext, WritePatientData, ReadError, ProcessEnds, Publication

LEMMA StoredGrows ==
    ASSUME IInv, [Next]_vars, NEW v \in CCUs
    PROVE  Stored(v) \subseteq Stored(v)'
  <1>1. published \subseteq published' /\ \A c \in published : blocks'[c] = blocks[c]
    BY LogGrows DEF IInv, Known
  <1>2. QED
    BY <1>1 DEF Stored

LEMMA StepKept ==
    ASSUME IInv, HandlersTypeOK, Kept, [HandlersNext]_allVars
    PROVE  Kept'
  <1> SUFFICES ASSUME NEW v \in CCUs PROVE before'[v] \subseteq Stored(v)'
    BY DEF Kept, Stored
  <1>1. Stored(v) \subseteq Stored(v)'
    BY HandlersTakeLogSteps, StoredGrows
  <1>2. QED
    BY <1>1, BeforeSteps DEF Kept

LEMMA StepCovered ==
    ASSUME IInv, HandlersTypeOK, InOrder, Kept, Kept', Covered, [HandlersNext]_allVars
    PROVE  Covered'
  <1> SUFFICES ASSUME NEW v \in CCUs, pc'[v] = "fetch", NEW d \in before'[v]
               PROVE  \E b \in PublishedIn(log[v])' :
                        b <= start'[v] /\ blocks'[b].doc = d /\ blocks'[b].seed = SeedOf[v]
    BY DEF Covered
  <1>1. [Next]_vars
    BY HandlersTakeLogSteps
  <1>2. CASE \E l \in Logs : BeginRead(v, l)
    <2>1. PICK l \in Logs : BeginRead(v, l)
      BY <1>2
    <2>2. log'[v] = l /\ start'[v] = head[l] /\ UNCHANGED <<blocks, published>>
      BY <2>1 DEF IInv, TypeOK, BeginRead, ipfsVars, histVars
    <2>3. d \in Stored(v)'
      BY DEF Kept
    <2>4. PICK b \in published : blocks[b].log = l /\ blocks[b].doc = d /\ blocks[b].seed = SeedOf[v]
      BY <2>2, <2>3 DEF Stored
    <2>5. b \in PublishedIn(l) /\ b <= head[l]
      BY <2>4 DEF PublishedIn, InOrder
    <2>6. QED
      BY <2>2, <2>4, <2>5 DEF PublishedIn
  <1>3. CASE FetchBatch(v) \/ (pc[v] = "fetch" /\ log'[v] = log[v] /\ start'[v] = start[v])
    <2>1. pc[v] = "fetch" /\ log'[v] = log[v] /\ start'[v] = start[v] /\ log[v] \in Logs
      BY <1>3 DEF IInv, TypeOK, FetchBatch
    <2>2. d \in before[v]
      BY <2>1, BeforeSteps
    <2>3. PICK b \in PublishedIn(log[v]) :
             b <= start[v] /\ blocks[b].doc = d /\ blocks[b].seed = SeedOf[v]
      BY <2>1, <2>2 DEF Covered
    <2>4. b \in PublishedIn(log[v])' /\ blocks'[b] = blocks[b]
      BY <1>1, <2>1, LogGrows DEF PublishedIn, IInv, Known
    <2>5. QED
      BY <2>1, <2>3, <2>4
  <1>4. QED
    BY <1>1, <1>2, <1>3, ReaderSteps

(* What DecryptLinkedLog returns has what it must find.                    *)
LEMMA ReadFinds ==
    ASSUME IInv, Gathered, Covered, NEW u \in CCUs, FinishRead(u)
    PROVE  before[u] \subseteq Range(result[u])
  <1> SUFFICES ASSUME NEW d \in before[u] PROVE d \in Range(result[u])
    OBVIOUS
  <1>1. pc[u] = "fetch" /\ cid[u] = 0
    BY DEF FinishRead, NoCid
  <1>2. PICK b \in PublishedIn(log[u]) :
           b <= start[u] /\ blocks[b].doc = d /\ blocks[b].seed = SeedOf[u]
    BY <1>1 DEF Covered
  <1>3. 0 < b
    BY <1>2 DEF PublishedIn, IInv, Known, Cids
  <1>4. QED
    BY <1>1, <1>2, <1>3 DEF Gathered

(* The request of v ends, begins, or goes on, with or without its reads    *)
(* being used.                                                             *)
LEMMA RequestSteps ==
    ASSUME HandlersTypeOK, [HandlersNext]_allVars, NEW v \in CCUs
    PROVE  \/ request'[v] \in {"none", "write"}
           \/ \E r \in {"plain", "full"} : BeginDecision(v, r)
           \/ /\ request[v] \notin {"none", "write"}
              /\ alone'[v] => alone[v]
              /\ \/ Aggregate(v)
                 \/ Retrieve(v)
                 \/ /\ request'[v] = request[v] /\ before'[v] = before[v]
                    /\ aggregated'[v] = aggregated[v] /\ decided'[v] = decided[v]
  <1> DEFINE Over == request'[v] \in {"none", "write"}
             Same == /\ request'[v] = request[v] /\ before'[v] = before[v]
                     /\ aggregated'[v] = aggregated[v] /\ decided'[v] = decided[v]
                     /\ alone'[v] => alone[v]
             Used == Aggregate(v) \/ Retrieve(v)
  <1>1. ASSUME NEW u \in CCUs, Return(u) PROVE Same \/ Over
    BY <1>1 DEF HandlersTypeOK, Return
  <1>2. ASSUME NEW u \in CCUs, NEW d \in Docs, WritePatientData(u, d) PROVE Same \/ Over
    BY <1>2 DEF HandlersTypeOK, WritePatientData
  <1>3. ASSUME NEW u \in CCUs, NEW r \in {"plain", "full"}, BeginDecision(u, r), u # v PROVE Same
    BY <1>3 DEF HandlersTypeOK, BeginDecision
  <1>4. ASSUME NEW u \in CCUs, Aggregate(u) \/ Retrieve(u), u # v PROVE Same
    BY <1>4 DEF HandlersTypeOK, Aggregate, Retrieve
  <1>5. ASSUME NEW u \in CCUs, UploadDone(u) PROVE Same \/ Over
    BY <1>1, <1>5 DEF UploadDone
  <1>6. ASSUME NEW u \in CCUs, UploadStep(u) \/ Fetch(u) \/ BeginLight(u) PROVE Same
    BY <1>6 DEF UploadStep, Fetch, BeginLight, handlerVars
  <1>7. ASSUME UNCHANGED allVars \/ \E c \in inflight : Publication(c) PROVE Same
    BY <1>7 DEF allVars, handlerVars, Publication
  <1>8. Used => request[v] \notin {"none", "write"} /\ alone'[v] = alone[v]
    BY DEF Aggregate, Retrieve
  <1>9. Same => Over \/ (request[v] \notin {"none", "write"} /\ (alone'[v] => alone[v]))
    OBVIOUS
  <1> HIDE DEF Used
  <1>10. ASSUME NEW u \in CCUs, HandlerStep(u) PROVE Same \/ Over \/ Used
    BY <1>1, <1>4, <1>5, <1>6, <1>10 DEF HandlerStep, ExecuteMethod, ExecuteMethodWithAggregation,
       LightError, Used
  <1>11. Same \/ Over \/ Used \/ \E r \in {"plain", "full"} : BeginDecision(v, r)
    BY <1>1, <1>2, <1>3, <1>7, <1>10 DEF HandlersNext, ReadError, ProcessEnds
  <1>12. QED
    BY <1>8, <1>9, <1>11 DEF Used

LEMMA StepCarried ==
    ASSUME IInv, HandlersTypeOK, Gathered, Covered, Carried, [HandlersNext]_allVars
    PROVE  Carried'
  <1> SUFFICES ASSUME NEW v \in CCUs
               PROVE  /\ request'[v] \in {"light", "decideWithAggr"}
                            => before'[v] \subseteq Range(aggregated'[v])
                      /\ request'[v] \in {"decide", "decideWithAggr"}
                            => before'[v] \subseteq Range(decided'[v])
    BY DEF Carried
  <1>1. CASE request'[v] \in {"none", "write"}
    BY <1>1
  <1>2. CASE \E r \in {"plain", "full"} : BeginDecision(v, r)
    BY <1>2 DEF HandlersTypeOK, BeginDecision
  <1>3. CASE /\ request'[v] = request[v] /\ before'[v] = before[v]
             /\ aggregated'[v] = aggregated[v] /\ decided'[v] = decided[v]
    BY <1>3 DEF Carried
  <1>4. CASE Aggregate(v)
    <2>1. before[v] \subseteq Range(result[v])
      BY <1>4, ReadFinds DEF Aggregate
    <2>2. QED
      BY <1>4, <2>1 DEF HandlersTypeOK, Aggregate
  <1>5. CASE Retrieve(v)
    <2>1. before[v] \subseteq Range(result[v])
      BY <1>5, ReadFinds DEF Retrieve
    <2>2. request[v] = "light" => request'[v] = "decideWithAggr"
      BY <1>5 DEF HandlersTypeOK, Retrieve
    <2>3. request[v] = "plain" => request'[v] = "decide"
      BY <1>5 DEF HandlersTypeOK, Retrieve
    <2>4. request[v] \in {"plain", "light"} /\ before'[v] = before[v] /\ decided'[v] = result[v]
          /\ aggregated'[v] = aggregated[v]
      BY <1>5 DEF HandlersTypeOK, Retrieve
    <2>5. QED
      BY <2>1, <2>2, <2>3, <2>4 DEF Carried
  <1>6. QED
    BY <1>1, <1>2, <1>3, <1>4, <1>5, RequestSteps

(* What holds of handlers as long as the logs are orderly.                 *)
Orderly == Serial /\ InOrder /\ Gathered /\ Covered /\ Carried

HandlersInv ==
    /\ IInv /\ HandlersTypeOK /\ OnLog /\ Kept
    /\ orderly => Orderly

LEMMA InitHandlersInv == HandlersInit => HandlersInv
  <1> SUFFICES ASSUME HandlersInit PROVE HandlersInv
    OBVIOUS
  <1>1. Init /\ IInv
    BY InitIInv DEF HandlersInit
  <1>2. OnLog /\ Serial /\ Gathered /\ Covered
    BY <1>1 DEF Init, OnLog, Serial, Writing, Gathered, Covered
  <1>3. InOrder
    BY <1>1 DEF Init, InOrder, PublishedIn
  <1>4. Kept /\ Carried
    BY DEF HandlersInit, Kept, Carried
  <1>5. QED
    BY <1>1, <1>2, <1>3, <1>4, InitTypes DEF HandlersInv, Orderly

LEMMA StepHandlersInv == HandlersInv /\ [HandlersNext]_allVars => HandlersInv'
  <1> SUFFICES ASSUME HandlersInv, [HandlersNext]_allVars PROVE HandlersInv'
    OBVIOUS
  <1>1. [Next]_vars /\ IInv' /\ OnLog'
    BY HandlersTakeLogSteps, NextIInv, StepOnLog DEF HandlersInv
  <1>2. HandlersTypeOK' /\ Kept'
    BY NextTypes, StepKept DEF HandlersInv
  <1>3. ASSUME orderly' PROVE Orderly'
    <2>1. Orderly
      BY <1>1, <1>3, OrderlyBefore DEF HandlersInv
    <2>2. Serial' /\ InOrder' /\ Gathered'
      BY <1>1, <1>3, <2>1, NextSerial, StepInOrder, StepGathered DEF HandlersInv, Orderly
    <2>3. Covered' /\ Carried'
      BY <1>2, <2>1, StepCovered, StepCarried DEF HandlersInv, Orderly
    <2>4. QED
      BY <2>2, <2>3 DEF Orderly
  <1>4. QED
    BY <1>1, <1>2, <1>3 DEF HandlersInv

(* What RetrieveStructSliceLinkedLog gives a decision handler contains all *)
(* that was in both logs when its request began, for any number of CCUs    *)
(* and documents, as long as writes came one at a time and in time.        *)
THEOREM DecisionsUseStored == HandlersSpec => []StoredIsUsed
  <1>1. HandlersInv => StoredIsUsed
    BY DEF HandlersInv, Orderly, Carried, StoredIsUsed
  <1>2. QED
    BY <1>1, InitHandlersInv, StepHandlersInv, PTL DEF HandlersSpec
-----------------------------------------------------------------------------
(* The two reads of PatientPrioritizationWithAggr.                         *)

(* Where the handler of u stands when it does what request[u] says.        *)
Stage(u) ==
    /\ Writing(u) <=> request[u] = "write"
    /\ pc[u] = "idle" => log[u] = "main"
    /\ request[u] \in {"none", "decide", "decideWithAggr"} => pc[u] = "idle"
    /\ request[u] = "write" => pc[u] \in {"resolve", "add", "publish", "wait"}
    /\ request[u] = "plain" => pc[u] = "fetch" /\ log[u] = "light"
    /\ request[u] = "full" => pc[u] = "fetch" /\ log[u] = "main"
    /\ request[u] = "light" => pc[u] = "idle" \/ (pc[u] = "fetch" /\ log[u] = "light")

Stages == \A u \in CCUs : Stage(u)

LEMMA StepStages ==
    ASSUME IInv, HandlersTypeOK, Stages, [HandlersNext]_allVars
    PROVE  Stages'
  <1> DEFINE Others(u) == \A v \in CCUs : v # u =>
                 /\ request'[v] = request[v] /\ pc'[v] = pc[v]
                 /\ log'[v] = log[v] /\ doc'[v] = doc[v]
  <1>1. ASSUME NEW u \in CCUs, Others(u), Stage(u)' PROVE Stages'
    BY <1>1 DEF Stages, Stage, Writing
  <1>2. ASSUME UNCHANGED <<request, pc, log, doc>> PROVE Stages'
    BY <1>2 DEF Stages, Stage, Writing
  <1>3. ASSUME NEW u \in CCUs, Return(u), Leave(u) PROVE Stages'
    <2>1. Others(u)
      BY <1>3 DEF HandlersTypeOK, TypeOK, Return, Leave
    <2>2. Stage(u)'
      BY <1>3 DEF HandlersTypeOK, TypeOK, Return, Leave, Stage, Writing
    <2>3. QED
      BY <1>1, <2>1, <2>2
  <1>4. ASSUME NEW u \in CCUs, Return(u), pc[u] = "idle", request[u] # "write",
               UNCHANGED <<pc, log, doc>>
        PROVE  Stages'
    <2>1. Others(u)
      BY <1>4 DEF HandlersTypeOK, Return
    <2>2. Stage(u)'
      BY <1>4 DEF HandlersTypeOK, Return, Stages, Stage, Writing
    <2>3. QED
      BY <1>1, <2>1, <2>2
  <1>5. ASSUME NEW u \in CCUs, NEW d \in Docs, WritePatientData(u, d) PROVE Stages'
    <2>1. Others(u)
      BY <1>5 DEF HandlersTypeOK, TypeOK, WritePatientData, BeginWrite
    <2>2. Stage(u)'
      BY <1>5, DocAssumption DEF HandlersTypeOK, TypeOK, WritePatientData, BeginWrite, Stage, Writing
    <2>3. QED
      BY <1>1, <2>1, <2>2
  <1>6. ASSUME NEW u \in CCUs, NEW r \in {"plain", "full"}, BeginDecision(u, r) PROVE Stages'
    <2>1. Others(u)
      BY <1>6 DEF HandlersTypeOK, TypeOK, BeginDecision, BeginRead
    <2>2. Stage(u)'
      BY <1>6 DEF HandlersTypeOK, TypeOK, BeginDecision, BeginRead, Stages, Stage, Writing
    <2>3. QED
      BY <1>1, <2>1, <2>2
  <1>7. ASSUME NEW u \in CCUs, UploadStep(u) PROVE Stages'
    <2>1. pc[u] \in {"resolve", "add", "publish"} /\ pc'[u] \in {"add", "publish", "wait"}
          /\ UNCHANGED <<request, log, doc>>
      BY <1>7 DEF HandlersTypeOK, TypeOK, UploadStep, handlerVars, ResolvePrev, ResolvePrevError,
         AddBatch, StartPublish
    <2>2. Others(u)
      BY <1>7, <2>1 DEF HandlersTypeOK, TypeOK, UploadStep, ResolvePrev, ResolvePrevError,
         AddBatch, StartPublish
    <2>3. Stage(u)'
      BY <2>1 DEF HandlersTypeOK, Requests, Stages, Stage, Writing
    <2>4. QED
      BY <1>1, <2>2, <2>3
  <1>8. ASSUME NEW u \in CCUs, UploadDone(u) PROVE Stages'
    <2>1. pc[u] \in {"resolve", "add", "wait"} /\ UploadReturns(u)
      BY <1>8 DEF UploadDone, PublishReturns, SkipUpload, AddBatchError
    <2>2. CASE log[u] = "light"
      BY <1>3, <1>8, <2>1, <2>2 DEF UploadDone, UploadReturns
    <2>3. CASE log[u] # "light"
      <3>1. /\ pc' = [pc EXCEPT ![u] = "resolve"] /\ log' = [log EXCEPT ![u] = "light"]
            /\ doc' = doc /\ request' = request
        BY <1>8, <2>1, <2>3 DEF UploadDone, UploadReturns
      <3>2. Others(u) /\ pc'[u] = "resolve"
        BY <3>1 DEF HandlersTypeOK, TypeOK
      <3>3. Stage(u)'
        BY <2>1, <3>1, <3>2 DEF HandlersTypeOK, Requests, Stages, Stage, Writing
      <3>4. QED
        BY <1>1, <3>2, <3>3
    <2>4. QED
      BY <2>2, <2>3
  <1>9. ASSUME NEW u \in CCUs, Fetch(u) PROVE Stages'
    BY <1>2, <1>9 DEF Fetch, FetchBatch, handlerVars
  <1>10. ASSUME NEW u \in CCUs, Aggregate(u) PROVE Stages'
    <2>1. Others(u)
      BY <1>10 DEF HandlersTypeOK, TypeOK, Aggregate, FinishRead, Leave
    <2>2. Stage(u)'
      BY <1>10 DEF HandlersTypeOK, TypeOK, Aggregate, FinishRead, Leave, Stage, Writing
    <2>3. QED
      BY <1>1, <2>1, <2>2
  <1>11. ASSUME NEW u \in CCUs, BeginLight(u) PROVE Stages'
    <2>1. Others(u)
      BY <1>11 DEF HandlersTypeOK, TypeOK, BeginLight, BeginRead, handlerVars
    <2>2. Stage(u)'
      BY <1>11 DEF HandlersTypeOK, TypeOK, BeginLight, BeginRead, handlerVars, Stages, Stage, Writing
    <2>3. QED
      BY <1>1, <2>1, <2>2
  <1>12. ASSUME NEW u \in CCUs, Retrieve(u) PROVE Stages'
    <2>1. Others(u)
      BY <1>12 DEF HandlersTypeOK, TypeOK, Retrieve, FinishRead, Leave
    <2>2. Stage(u)'
      BY <1>12 DEF HandlersTypeOK, TypeOK, Retrieve, FinishRead, Leave, Stage, Writing
    <2>3. QED
      BY <1>1, <2>1, <2>2
  <1>13. ASSUME NEW u \in CCUs, LightError(u) \/ ExecuteMethod(u) \/ ExecuteMethodWithAggregation(u)
         PROVE  Stages'
    BY <1>4, <1>13 DEF LightError, ExecuteMethod, ExecuteMethodWithAggregation, Stages, Stage,
       vars, ccuVars
  <1>14. ASSUME NEW u \in CCUs, ReadError(u) PROVE Stages'
    BY <1>3, <1>14 DEF ReadError, FetchError
  <1>15. ASSUME NEW u \in CCUs, ProcessEnds(u) PROVE Stages'
    <2>1. CASE pc[u] = "idle"
      <3>1. request[u] # "write"
        BY <2>1 DEF Stages, Stage
      <3>2. QED
        BY <1>4, <1>15, <2>1, <3>1 DEF ProcessEnds, vars, ccuVars
    <2>2. CASE pc[u] # "idle"
      BY <1>3, <1>15, <2>2 DEF ProcessEnds, Crash
    <2>3. QED
      BY <2>1, <2>2
  <1>16. ASSUME NEW c \in inflight, Publication(c) PROVE Stages'
    BY <1>2, <1>16 DEF Publication, PublishDone, PublishError, ccuVars
  <1>17. CASE UNCHANGED allVars
    BY <1>2, <1>17 DEF allVars, vars, ccuVars, handlerVars
  <1>18. QED
    BY <1>5, <1>6, <1>7, <1>8, <1>9, <1>10, <1>11, <1>12, <1>13, <1>14, <1>15, <1>16, <1>17
       DEF HandlersNext, HandlerStep

(* No write is under way while a decision is alone.                        *)
NoWriters ==
    \A u, v \in CCUs : alone[u] /\ request[u] \notin {"none", "write"} => request[v] # "write"

(* Only WritePatientDataHandler makes a request a write.                   *)
LEMMA WriteBegins ==
    ASSUME HandlersTypeOK, [HandlersNext]_allVars, NEW v \in CCUs, request'[v] = "write"
    PROVE  request[v] = "write" \/ \E d \in Docs : WritePatientData(v, d)
  <1>1. ASSUME NEW u \in CCUs, Return(u) PROVE request[v] = "write"
    BY <1>1 DEF HandlersTypeOK, Return
  <1>2. ASSUME NEW u \in CCUs, NEW d \in Docs, WritePatientData(u, d), u # v PROVE request[v] = "write"
    BY <1>2 DEF HandlersTypeOK, WritePatientData
  <1>3. ASSUME NEW u \in CCUs, NEW r \in {"plain", "full"}, BeginDecision(u, r)
        PROVE  request[v] = "write"
    BY <1>3 DEF HandlersTypeOK, BeginDecision
  <1>4. ASSUME NEW u \in CCUs, Aggregate(u) \/ Retrieve(u) PROVE request[v] = "write"
    BY <1>4 DEF HandlersTypeOK, Aggregate, Retrieve
  <1>5. ASSUME NEW u \in CCUs, UploadDone(u) PROVE request[v] = "write"
    BY <1>1, <1>5 DEF UploadDone
  <1>6. ASSUME NEW u \in CCUs, HandlerStep(u) PROVE request[v] = "write"
    BY <1>1, <1>4, <1>5, <1>6 DEF HandlerStep, UploadStep, Fetch, BeginLight, ExecuteMethod,
       ExecuteMethodWithAggregation, LightError, handlerVars
  <1>7. CASE UNCHANGED allVars \/ \E c \in inflight : Publication(c)
    BY <1>7 DEF allVars, handlerVars, Publication
  <1>8. QED
    BY <1>1, <1>2, <1>3, <1>6, <1>7 DEF HandlersNext, ReadError, ProcessEnds

LEMMA StepNoWriters ==
    ASSUME HandlersTypeOK, NoWriters, [HandlersNext]_allVars
    PROVE  NoWriters'
  <1> SUFFICES ASSUME NEW u \in CCUs, NEW v \in CCUs,
                      alone'[u], request'[u] \notin {"none", "write"}, request'[v] = "write"
               PROVE  FALSE
    BY DEF NoWriters
  <1>1. CASE \E d \in Docs : WritePatientData(v, d)
    <2>1. request'[u] = request[u] /\ (alone'[u] => request[u] \in {"none", "write"})
      BY <1>1 DEF HandlersTypeOK, WritePatientData
    <2>2. QED
      BY <2>1
  <1>2. CASE request[v] = "write" /\ \E r \in {"plain", "full"} : BeginDecision(u, r)
    BY <1>2 DEF HandlersTypeOK, BeginDecision
  <1>3. CASE request[v] = "write" /\ request[u] \notin {"none", "write"} /\ (alone'[u] => alone[u])
    BY <1>3 DEF NoWriters
  <1>4. QED
    BY <1>1, <1>2, <1>3, RequestSteps, WriteBegins

(* Who publishes has added the batch of its document.                      *)
Batched ==
    \A u \in CCUs : pc[u] \in {"publish", "wait"} =>
        /\ blocks[cid[u]].log = log[u] /\ blocks[cid[u]].doc = doc[u]
        /\ blocks[cid[u]].seed = SeedOf[u]

LEMMA PublisherSteps ==
    ASSUME IInv, [Next]_vars, NEW v \in CCUs, pc'[v] \in {"publish", "wait"}
    PROVE  \/ AddBatch(v)
           \/ /\ pc[v] \in {"publish", "wait"}
              /\ log'[v] = log[v] /\ doc'[v] = doc[v] /\ cid'[v] = cid[v]
  <1> DEFINE Same == /\ pc[v] \in {"publish", "wait"}
                     /\ log'[v] = log[v] /\ doc'[v] = doc[v] /\ cid'[v] = cid[v]
  <1>1. ASSUME NEW u \in CCUs, UploadReturns(u) \/ Leave(u) PROVE Same
    BY <1>1 DEF IInv, TypeOK, UploadReturns, Leave
  <1>2. ASSUME NEW u \in CCUs, NEW d \in Docs, BeginWrite(u, d) PROVE Same
    BY <1>2 DEF IInv, TypeOK, BeginWrite
  <1>3. ASSUME NEW u \in CCUs, NEW l \in Logs, BeginRead(u, l) PROVE Same
    BY <1>3 DEF IInv, TypeOK, BeginRead
  <1>4. ASSUME NEW u \in CCUs, ResolvePrev(u) \/ ResolvePrevError(u) \/ StartPublish(u) \/ FetchBatch(u)
        PROVE  Same
    BY <1>4 DEF IInv, TypeOK, ResolvePrev, ResolvePrevError, StartPublish, FetchBatch
  <1>5. ASSUME NEW u \in CCUs, AddBatch(u), u # v PROVE Same
    BY <1>5 DEF IInv, TypeOK, AddBatch
  <1>6. ASSUME UNCHANGED ccuVars PROVE Same
    BY <1>6 DEF ccuVars
  <1> HIDE DEF Same
  <1>7. ASSUME NEW u \in CCUs, Step(u) PROVE Same \/ AddBatch(v)
    BY <1>1, <1>4, <1>5, <1>7 DEF Step, PublishReturns, FinishRead
  <1>8. ASSUME NEW u \in CCUs, Fault(u) PROVE Same
    BY <1>1, <1>4, <1>8 DEF Fault, SkipUpload, AddBatchError, FetchError, Crash
  <1>9. Same \/ AddBatch(v)
    BY <1>2, <1>3, <1>6, <1>7, <1>8 DEF Next, PublishDone, PublishError, vars
  <1>10. QED
    BY <1>9 DEF Same

LEMMA StepBatched ==
    ASSUME IInv, Batched, [Next]_vars
    PROVE  Batched'
  <1> SUFFICES ASSUME NEW v \in CCUs, pc'[v] \in {"publish", "wait"}
               PROVE  /\ blocks'[cid'[v]].log = log'[v] /\ blocks'[cid'[v]].doc = doc'[v]
                      /\ blocks'[cid'[v]].seed = SeedOf[v]
    BY DEF Batched
  <1>1. CASE AddBatch(v)
    <2>1. cid'[v] = Len(blocks) + 1 /\ log' = log /\ doc' = doc
      BY <1>1 DEF IInv, TypeOK, AddBatch
    <2>2. blocks'[Len(blocks) + 1] =
             [log |-> log[v], prev |-> prev[v], doc |-> doc[v], seed |-> SeedOf[v]]
      BY <1>1 DEF IInv, TypeOK, AddBatch
    <2>3. QED
      BY <2>1, <2>2
  <1>2. CASE /\ pc[v] \in {"publish", "wait"}
             /\ log'[v] = log[v] /\ doc'[v] = doc[v] /\ cid'[v] = cid[v]
    BY <1>2, LogGrows DEF IInv, Known, Batched
  <1>3. QED
    BY <1>1, <1>2, PublisherSteps

(* The write of w has published its full records and not its light ones.   *)
Halfway(w) ==
    /\ Writing(w)
    /\ (log[w] = "main") <=> (pc[w] = "wait" /\ cid[w] \notin inflight)

(* What u can decrypt of the document of w.                                *)
Written(w, u) == IF SeedOf[w] = SeedOf[u] THEN <<doc[w]>> ELSE <<>>

(* The two logs have the same documents, but for a write that is halfway.  *)
Level ==
    \A u \in CCUs :
        /\ (\A w \in CCUs : ~Halfway(w)) => Readable[head["main"]][u] = Readable[head["light"]][u]
        /\ \A w \in CCUs : Halfway(w) =>
              Readable[head["main"]][u] = Written(w, u) \o Readable[head["light"]][u]

(* Without failures only the end of a publication makes a write halfway or *)
(* more than that.                                                         *)
LEMMA HalfwayKept ==
    ASSUME IInv, HandlersTypeOK, Serial, Stages, [HandlersNext]_allVars, orderly', ~failed',
           ~\E c \in inflight : Publication(c), NEW w \in CCUs
    PROVE  /\ Halfway(w)' <=> Halfway(w)
           /\ Halfway(w) => doc'[w] = doc[w]
  <1> DEFINE Kept1 == (Halfway(w)' <=> Halfway(w)) /\ (Halfway(w) => doc'[w] = doc[w])
  <1>1. ASSUME doc'[w] = doc[w], log'[w] = log[w], pc'[w] = pc[w], cid'[w] = cid[w],
               inflight' = inflight
        PROVE  Kept1
    BY <1>1 DEF Halfway, Writing
  <1>2. ASSUME ~Writing(w), ~Writing(w)' PROVE Kept1
    BY <1>2 DEF Halfway
  <1>3. Writing(w) => pc[w] \in {"resolve", "add", "publish", "wait"}
    BY DEF Stages, Stage
  <1>4. ASSUME NEW u \in CCUs, NEW d \in Docs, WritePatientData(u, d) PROVE Kept1
    <2>1. /\ pc[u] = "idle" /\ doc' = [doc EXCEPT ![u] = d] /\ pc' = [pc EXCEPT ![u] = "resolve"]
          /\ UNCHANGED <<inflight, log, cid>>
      BY <1>4 DEF WritePatientData, BeginWrite, ipfsVars
    <2>2. CASE u = w
      <3>1. ~Halfway(w)
        BY <1>3, <2>1, <2>2 DEF Halfway
      <3>2. log'[w] = "main" /\ pc'[w] = "resolve"
        BY <2>1, <2>2 DEF Stages, Stage, IInv, TypeOK
      <3>3. QED
        BY <3>1, <3>2 DEF Halfway
    <2>3. CASE u # w
      BY <1>1, <2>1, <2>3 DEF IInv, TypeOK
    <2>4. QED
      BY <2>2, <2>3
  <1>5. ASSUME NEW u \in CCUs, pc[u] \in {"idle", "fetch"}, inflight' = inflight,
               doc'[u] \in {doc[u], NoDoc},
               \A v \in CCUs : v # u => doc'[v] = doc[v] /\ log'[v] = log[v] /\ pc'[v] = pc[v]
                                        /\ cid'[v] = cid[v]
        PROVE  Kept1
    <2>1. CASE u = w
      <3>1. ~Writing(w)
        BY <1>3, <1>5, <2>1
      <3>2. ~Writing(w)'
        BY <1>5, <2>1, <3>1 DEF Writing
      <3>3. QED
        BY <1>2, <3>1, <3>2
    <2>2. CASE u # w
      BY <1>1, <1>5, <2>2
    <2>3. QED
      BY <2>1, <2>2
  <1>6. ASSUME NEW u \in CCUs, UploadStep(u) PROVE Kept1
    <2>1. /\ pc[u] \in {"resolve", "add", "publish"} /\ pc' [u] \in {"add", "publish", "wait"}
          /\ pc'[u] = "wait" => cid'[u] \in inflight'
          /\ doc' = doc /\ log' = log
          /\ \A v \in CCUs : v # u => pc'[v] = pc[v]
      BY <1>6 DEF UploadStep, ResolvePrev, ResolvePrevError, AddBatch, StartPublish, IInv, TypeOK,
         ipfsVars
    <2>2. CASE u = w
      BY <2>1, <2>2 DEF Halfway, Writing
    <2>3. CASE u # w
      <3>1. pc[w] \notin {"resolve", "add", "publish", "wait"}
        BY <2>1, <2>3, OneWriter
      <3>2. QED
        BY <1>2, <1>3, <2>1, <3>1 DEF Writing
    <2>4. QED
      BY <2>2, <2>3
  <1>7. ASSUME NEW u \in CCUs, UploadDone(u) PROVE Kept1
    <2>1. PublishReturns(u)
      BY <1>7 DEF UploadDone
    <2>2. pc[u] = "wait" /\ cid[u] \notin inflight /\ inflight' = inflight /\ UploadReturns(u)
      BY <2>1 DEF PublishReturns, Serial, ipfsVars
    <2>3. CASE u = w
      <3>1. CASE log[w] = "light"
        BY <2>2, <2>3, <3>1 DEF UploadReturns, Leave, Halfway, Writing, IInv, TypeOK
      <3>2. CASE log[w] # "light"
        BY <2>2, <2>3, <3>2 DEF UploadReturns, Halfway, Writing, IInv, TypeOK
      <3>3. QED
        BY <3>1, <3>2
    <2>4. CASE u # w
      BY <1>1, <2>2, <2>4 DEF UploadReturns, Leave, IInv, TypeOK
    <2>5. QED
      BY <2>3, <2>4
  <1>8. ASSUME NEW u \in CCUs, Leave(u), pc[u] \in {"idle", "fetch"}, UNCHANGED ipfsVars PROVE Kept1
    BY <1>5, <1>8 DEF Leave, IInv, TypeOK, ipfsVars
  <1>9. ASSUME NEW u \in CCUs, NEW l \in Logs, BeginRead(u, l) PROVE Kept1
    BY <1>5, <1>9 DEF BeginRead, IInv, TypeOK, ipfsVars
  <1>10. ASSUME NEW u \in CCUs, FetchBatch(u) PROVE Kept1
    BY <1>5, <1>10 DEF FetchBatch, IInv, TypeOK, ipfsVars
  <1>11. ASSUME UNCHANGED vars PROVE Kept1
    BY <1>1, <1>11 DEF vars, ccuVars, ipfsVars
  <1>12. ASSUME NEW u \in CCUs, ReadError(u) \/ ProcessEnds(u) PROVE Kept1
    <2>1. CASE ReadError(u)
      BY <1>8, <2>1 DEF ReadError, FetchError
    <2>2. CASE Crash(u)
      <3>1. ~Writing(u)
        BY <2>2 DEF Crash
      <3>2. pc[u] \in {"idle", "fetch"}
        BY <3>1, OneWriter DEF IInv, TypeOK, Points
      <3>3. QED
        BY <1>8, <2>2, <3>2 DEF Crash
    <2>3. QED
      BY <1>11, <1>12, <2>1, <2>2 DEF ProcessEnds
  <1>13. ASSUME NEW u \in CCUs, HandlerStep(u) PROVE Kept1
    <2>1. CASE Aggregate(u) \/ Retrieve(u)
      BY <1>8, <2>1 DEF Aggregate, Retrieve, FinishRead
    <2>2. CASE Fetch(u) \/ BeginLight(u)
      BY <1>9, <1>10, <2>2 DEF Fetch, BeginLight, Logs
    <2>3. QED
      BY <1>6, <1>7, <1>11, <1>13, <2>1, <2>2 DEF HandlerStep, LightError, ExecuteMethod,
         ExecuteMethodWithAggregation
  <1>14. ASSUME NEW u \in CCUs, NEW r \in {"plain", "full"}, BeginDecision(u, r) PROVE Kept1
    BY <1>9, <1>14 DEF BeginDecision, Logs
  <1> HIDE DEF Kept1
  <1>15. Kept1
    BY <1>4, <1>11, <1>12, <1>13, <1>14 DEF HandlersNext, allVars
  <1>16. QED
    BY <1>15 DEF Kept1

(* The versions of the log that there were stay as they are.               *)
LEMMA HeadsReadable ==
    ASSUME IInv, OneWalk, [Next]_vars
    PROVE  /\ \A c \in Cids \cup {NoCid} : Readable'[c] = Readable[c]
           /\ \A l \in Logs : Readable'[head[l]] = Readable[head[l]]
  <1>1. 0..Len(blocks) = Cids \cup {NoCid}
    BY DEF IInv, TypeOK, Cids, NoCid
  <1>2. \A l \in Logs : head[l] \in Cids \cup {NoCid}
    BY DEF IInv, WellLinked
  <1>3. QED
    BY <1>1, <1>2, NextOneWalk

(* Handlers change the heads by publications only.                         *)
LEMMA HandlersPublish ==
    ASSUME [HandlersNext]_allVars, ~\E c \in inflight : Publication(c)
    PROVE  head' = head
  BY DEF HandlersNext, HandlerStep, WritePatientData, BeginDecision, UploadStep, UploadDone, Fetch,
     Aggregate, BeginLight, Retrieve, LightError, ExecuteMethod, ExecuteMethodWithAggregation,
     ReadError, ProcessEnds, allVars, vars, ipfsVars, BeginWrite, SkipUpload, ResolvePrev,
     ResolvePrevError, AddBatch, AddBatchError, StartPublish, PublishReturns, BeginRead, FetchBatch,
     FetchError, FinishRead, Crash

LEMMA StepLevel ==
    ASSUME IInv, HandlersTypeOK, OneWalk, Serial, Stages, Batched, Level, [HandlersNext]_allVars,
           orderly', ~failed'
    PROVE  Level'
  <1>1. [Next]_vars
    BY HandlersTakeLogSteps
  <1>2. /\ \A c \in Cids : Readable'[c] = Readable[c]
        /\ Readable'[head["main"]] = Readable[head["main"]]
        /\ Readable'[head["light"]] = Readable[head["light"]]
    BY <1>1, HeadsReadable DEF Logs
  <1>3. CASE ~\E c \in inflight : Publication(c)
    <2>1. head' = head
      BY <1>3, HandlersPublish
    <2>3. \A w \in CCUs : (Halfway(w)' <=> Halfway(w)) /\ (Halfway(w) => doc'[w] = doc[w])
      BY <1>3, HalfwayKept
    <2>4. ASSUME NEW u \in CCUs
          PROVE  /\ (\A w \in CCUs : ~Halfway(w)')
                       => Readable'[head'["main"]][u] = Readable'[head'["light"]][u]
                 /\ \A w \in CCUs : Halfway(w)' =>
                       Readable'[head'["main"]][u] = Written(w, u)' \o Readable'[head'["light"]][u]
      <3>1. \A w \in CCUs : Halfway(w) => Written(w, u)' = Written(w, u)
        BY <2>3 DEF Written
      <3>2. Readable'[head'["main"]][u] = Readable[head["main"]][u]
            /\ Readable'[head'["light"]][u] = Readable[head["light"]][u]
        BY <1>2, <2>1
      <3>3. QED
        BY <2>3, <3>1, <3>2 DEF Level
    <2>5. QED
      BY <2>4 DEF Level
  <1>4. ASSUME NEW c \in inflight, Publication(c) PROVE Level'
    <2>1. PublishDone(c)
      BY <1>4 DEF Publication
    <2>2. PICK w \in CCUs : pc[w] = "wait" /\ cid[w] = c
      BY DEF Serial
    <2>3. /\ Writing(w) /\ \A v \in CCUs : v # w => ~Writing(v)
          /\ c \in Cids /\ blocks[c].log = log[w] /\ blocks[c].doc = doc[w]
          /\ blocks[c].seed = SeedOf[w] /\ blocks[c].prev = head[log[w]] /\ log[w] \in Logs
      <3>1. Writing(w) /\ \A v \in CCUs : v # w => ~Writing(v)
        BY <2>2, OneWriter DEF Serial
      <3>2. c \in Cids /\ log[w] \in Logs
        BY DEF IInv, TypeOK, Known
      <3>3. blocks[c].log = log[w] /\ blocks[c].doc = doc[w] /\ blocks[c].seed = SeedOf[w]
        BY <2>2 DEF Batched
      <3>4. blocks[c].prev = head[log[w]]
        BY <3>3 DEF Serial
      <3>5. QED
        BY <3>1, <3>2, <3>3, <3>4
    <2>4. /\ inflight' = inflight \ {c} /\ head' = [head EXCEPT ![log[w]] = c]
          /\ UNCHANGED <<doc, pc, log, cid>>
      BY <2>1, <2>3 DEF PublishDone, ccuVars
    <2>5. \A v \in CCUs : v # w => ~Halfway(v) /\ ~Halfway(v)'
      BY <2>3, <2>4 DEF Halfway, Writing
    <2>6. Halfway(w) <=> log[w] = "light"
      BY <2>2, <2>3 DEF Halfway, Logs
    <2>7. Halfway(w)' <=> log[w] = "main"
      BY <2>2, <2>3, <2>4 DEF Halfway, Writing, Logs
    <2>8. ASSUME NEW u \in CCUs
          PROVE  /\ (\A v \in CCUs : ~Halfway(v)')
                       => Readable'[head'["main"]][u] = Readable'[head'["light"]][u]
                 /\ \A v \in CCUs : Halfway(v)' =>
                       Readable'[head'["main"]][u] = Written(v, u)' \o Readable'[head'["light"]][u]
      <3>1. Readable[c][u] = Own(u, c) \o Readable[head[log[w]]][u]
        BY <2>3, ReadableEquation
      <3>2. Own(u, c) = Written(w, u) /\ Written(w, u)' = Written(w, u)
        BY <2>3, <2>4 DEF Own, Written
      <3>3. CASE log[w] = "main"
        <4>1. head'["main"] = c /\ head'["light"] = head["light"]
          BY <2>4, <3>3 DEF IInv, TypeOK, Logs
        <4>2. Readable[head["main"]][u] = Readable[head["light"]][u]
          BY <2>5, <2>6, <3>3 DEF Level
        <4>3. Readable'[c][u] = Written(w, u)' \o Readable'[head["light"]][u]
          BY <1>2, <2>3, <3>1, <3>2, <3>3, <4>2
        <4>4. QED
          BY <2>5, <2>7, <3>3, <4>1, <4>3
      <3>4. CASE log[w] = "light"
        <4>1. head'["light"] = c /\ head'["main"] = head["main"]
          BY <2>4, <3>4 DEF IInv, TypeOK, Logs
        <4>2. Readable[head["main"]][u] = Written(w, u) \o Readable[head["light"]][u]
          BY <2>6, <3>4 DEF Level
        <4>3. Readable'[c][u] = Readable'[head["main"]][u]
          BY <1>2, <2>3, <3>1, <3>2, <3>4, <4>2
        <4>4. QED
          BY <2>5, <2>7, <3>4, <4>1, <4>3
      <3>5. QED
        BY <2>3, <3>3, <3>4 DEF Logs
    <2>9. QED
      BY <2>8 DEF Level
  <1>5. QED
    BY <1>3, <1>4

(* A decision that is alone works with the newest version of each log.     *)
Newest ==
    \A u \in CCUs : alone[u] =>
        /\ request[u] = "full" => start[u] = head["main"]
        /\ request[u] \in {"light", "decideWithAggr"} => aggregated[u] = Readable[head["main"]][u]
        /\ request[u] = "light" /\ pc[u] = "fetch" => start[u] = head["light"]
        /\ request[u] = "decideWithAggr" => decided[u] = Readable[head["light"]][u]

(* Nothing is published while a decision is alone.                         *)
LEMMA AloneQuiet ==
    ASSUME IInv, Serial, Stages, NoWriters, [Next]_vars, NEW v \in CCUs,
           alone[v], request[v] \notin {"none", "write"}
    PROVE  head' = head
  <1>1. \A w \in CCUs : pc[w] # "wait"
    BY OneWriter DEF NoWriters, Stages, Stage
  <1>2. inflight = {}
    BY <1>1 DEF Serial
  <1>3. QED
    BY <1>2, PublicationOnly

LEMMA WholeRead ==
    ASSUME IInv, OneWalk, ReadIsSnapshot, NEW v \in CCUs, FinishRead(v)
    PROVE  result[v] = Readable[start[v]][v]
  <1>1. result[v] \o Readable[NoCid][v] = Readable[start[v]][v]
    BY DEF FinishRead, ReadIsSnapshot
  <1>2. Readable[NoCid][v] = <<>> /\ result[v] \in Seq(Docs)
    BY ReadableEquation DEF IInv, TypeOK
  <1>3. QED
    BY <1>1, <1>2, ConcatEmptySeq

LEMMA StepNewest ==
    ASSUME IInv, HandlersTypeOK, OneWalk, ReadIsSnapshot, Serial, Stages, Stages', NoWriters, Newest,
           [HandlersNext]_allVars
    PROVE  Newest'
  <1> SUFFICES ASSUME NEW v \in CCUs, alone'[v]
               PROVE  /\ request'[v] = "full" => start'[v] = head'["main"]
                      /\ request'[v] \in {"light", "decideWithAggr"}
                            => aggregated'[v] = Readable'[head'["main"]][v]
                      /\ request'[v] = "light" /\ pc'[v] = "fetch" => start'[v] = head'["light"]
                      /\ request'[v] = "decideWithAggr"
                            => decided'[v] = Readable'[head'["light"]][v]
    BY DEF Newest
  <1>1. [Next]_vars
    BY HandlersTakeLogSteps
  <1>2. CASE request'[v] \in {"none", "write"}
    BY <1>2
  <1>3. ASSUME NEW r \in {"plain", "full"}, BeginDecision(v, r)
        PROVE  request'[v] = r /\ (r = "full" => start'[v] = head'["main"])
    BY <1>3 DEF HandlersTypeOK, TypeOK, BeginDecision, BeginRead, ipfsVars
  <1>4. ASSUME request[v] \notin {"none", "write"}, alone[v]
        PROVE  head' = head /\ \A l \in Logs : Readable'[head'[l]] = Readable[head[l]]
    BY <1>1, <1>4, AloneQuiet, HeadsReadable
  <1>5. CASE request[v] \notin {"none", "write"} /\ alone[v] /\ Aggregate(v)
    <2>1. request[v] = "full" /\ request'[v] = "light" /\ aggregated'[v] = result[v]
          /\ pc'[v] = "idle" /\ FinishRead(v)
      BY <1>5 DEF HandlersTypeOK, TypeOK, Aggregate, FinishRead, Leave
    <2>2. aggregated'[v] = Readable[head["main"]][v]
      BY <1>5, <2>1, WholeRead DEF Newest
    <2>3. QED
      BY <1>4, <1>5, <2>1, <2>2 DEF Logs
  <1>6. CASE request[v] \notin {"none", "write"} /\ alone[v] /\ Retrieve(v)
    <2>1. /\ request[v] \in {"plain", "light"} /\ decided'[v] = result[v]
          /\ request'[v] = IF request[v] = "plain" THEN "decide" ELSE "decideWithAggr"
          /\ aggregated'[v] = aggregated[v] /\ FinishRead(v) /\ pc[v] = "fetch"
      BY <1>6 DEF HandlersTypeOK, Retrieve, FinishRead
    <2>2. request[v] = "light" => /\ decided'[v] = Readable[head["light"]][v]
                                  /\ aggregated[v] = Readable[head["main"]][v]
      BY <1>6, <2>1, WholeRead DEF Newest
    <2>3. QED
      BY <1>4, <1>6, <2>1, <2>2 DEF Logs
  <1>7. CASE /\ request[v] \notin {"none", "write"} /\ alone[v]
             /\ request'[v] = request[v] /\ before'[v] = before[v]
             /\ aggregated'[v] = aggregated[v] /\ decided'[v] = decided[v]
    <2>1. ASSUME pc'[v] = "fetch"
          PROVE  \/ pc[v] = "idle" /\ start'[v] = head[log'[v]]
                 \/ pc[v] = "fetch" /\ start'[v] = start[v]
      BY <1>1, <2>1, ReaderSteps DEF IInv, TypeOK, BeginRead, FetchBatch
    <2>2. request[v] = "full" => start'[v] = head["main"]
      BY <1>7, <2>1 DEF Stages, Stage, Newest
    <2>3. request[v] = "light" /\ pc'[v] = "fetch" => start'[v] = head["light"]
      BY <1>7, <2>1 DEF Stages, Stage, Newest
    <2>4. QED
      BY <1>4, <1>7, <2>2, <2>3 DEF Newest, Logs
  <1>8. QED
    BY <1>2, <1>3, <1>5, <1>6, <1>7, RequestSteps

(* What holds of both reads as long as writes are orderly and succeed.     *)
PairsInv ==
    /\ Stages /\ NoWriters /\ Batched
    /\ orderly /\ ~failed => Level /\ Newest

LEMMA InitPairsInv == HandlersInit => PairsInv
  <1> SUFFICES ASSUME HandlersInit PROVE PairsInv
    OBVIOUS
  <1>1. Stages /\ NoWriters /\ Batched /\ Newest
    BY DEF HandlersInit, Init, Stages, Stage, Writing, NoWriters, Batched, Newest
  <1>2. Level
    BY DEF HandlersInit, Init, Level, Halfway, Writing, Logs
  <1>3. QED
    BY <1>1, <1>2 DEF PairsInv

(* Failures are for ever, too.                                             *)
LEMMA FailedBefore == [HandlersNext]_allVars /\ ~failed' => ~failed
  BY DEF HandlersNext, HandlerStep, WritePatientData, BeginDecision, UploadStep, UploadDone, Fetch,
     Aggregate, BeginLight, Retrieve, LightError, ExecuteMethod, ExecuteMethodWithAggregation,
     ReadError, ProcessEnds, Publication, handlerVars, allVars

LEMMA StepPairsInv ==
    HandlersInv /\ ReadersInv /\ PairsInv /\ [HandlersNext]_allVars => PairsInv'
  <1> SUFFICES ASSUME HandlersInv, ReadersInv, PairsInv, [HandlersNext]_allVars PROVE PairsInv'
    OBVIOUS
  <1>1. [Next]_vars
    BY HandlersTakeLogSteps
  <1>2. Stages' /\ NoWriters' /\ Batched'
    BY <1>1, StepStages, StepNoWriters, StepBatched DEF HandlersInv, PairsInv
  <1>3. ASSUME orderly', ~failed' PROVE Level' /\ Newest'
    <2>1. orderly /\ ~failed /\ Serial
      BY <1>1, <1>3, OrderlyBefore, FailedBefore DEF HandlersInv, Orderly
    <2>2. QED
      BY <1>2, <1>3, <2>1, StepLevel, StepNewest DEF HandlersInv, ReadersInv, PairsInv
  <1>4. QED
    BY <1>2, <1>3 DEF PairsInv

(* PatientPrioritizationWithAggrHandler decides on the documents it        *)
(* aggregated, in their order, for any numbers of CCUs, documents and      *)
(* seeds, as long as writes came one at a time, in time and without        *)
(* failures, and none was under way meanwhile.                             *)
THEOREM ReadsAgree == HandlersSpec => []SameDocuments
  <1>1. HandlersSpec => []HandlersInv
    BY InitHandlersInv, StepHandlersInv, PTL DEF HandlersSpec
  <1>2. HandlersSpec => []ReadersInv
    BY HandlersImplementLog, ReadersInvariance, PTL
  <1>3. HandlersSpec => []PairsInv
    BY <1>1, <1>2, InitPairsInv, StepPairsInv, PTL DEF HandlersSpec
  <1>4. PairsInv => SameDocuments
    <2> SUFFICES ASSUME PairsInv, orderly, ~failed, NEW u \in CCUs,
                        request[u] = "decideWithAggr", alone[u]
                 PROVE  aggregated[u] = decided[u]
      BY DEF SameDocuments
    <2>1. \A w \in CCUs : ~Halfway(w)
      BY DEF PairsInv, NoWriters, Stages, Stage, Halfway
    <2>2. QED
      BY <2>1 DEF PairsInv, Level, Newest
  <1>5. QED
    BY <1>3, <1>4, PTL
=============================================================================
