--------------------------- MODULE LinkedLogProofs ---------------------------
(***************************************************************************)
(* Proofs about LinkedLog for any numbers of CCUs and documents.           *)
(***************************************************************************)
EXTENDS LinkedLog, SequenceTheorems, TLAPS

(* What the identifiers held by IPNS, goroutines and handlers name.        *)
Known ==
    /\ inflight \subseteq Cids /\ published \subseteq Cids
    /\ \A u \in CCUs : pc[u] \in {"resolve", "add", "publish", "wait"} => doc[u] \in Docs
    /\ \A u \in CCUs : pc[u] = "add" /\ prev[u] # NoCid =>
          /\ prev[u] \in published
          /\ blocks[prev[u]].log = log[u]
    /\ \A u \in CCUs : pc[u] \in {"publish", "wait"} => cid[u] \in Cids
    /\ \A u \in CCUs : pc[u] = "fetch" => cid[u] \in Cids \cup {NoCid}

(* A block is published once: it is being published by nobody twice, and   *)
(* not after it was published.                                             *)
Once ==
    /\ inflight \cap published = {}
    /\ \A u \in CCUs : pc[u] = "publish" => cid[u] \notin inflight \cup published
    /\ \A u, v \in CCUs :
          pc[u] = "publish" /\ pc[v] = "publish" /\ cid[u] = cid[v] => u = v

(* A log that was published to has a first block, and a head.              *)
Rooted ==
    \A l \in Logs :
        /\ head[l] = NoCid => PublishedIn(l) = {}
        /\ PublishedIn(l) # {} => \E r \in PublishedIn(l) : blocks[r].prev = NoCid

IInv == TypeOK /\ Known /\ WellLinked /\ Once /\ Rooted /\ NoLossWithoutFork
LEMMA InitIInv == Init => IInv
  <1> SUFFICES ASSUME Init PROVE IInv
    OBVIOUS
  <1>1. TypeOK
    BY DEF Init, TypeOK, Logs, Points, NoCid
  <1>2. Known /\ Once
    BY DEF Init, Known, Once
  <1>3. PublishedIn("main") = {} /\ PublishedIn("light") = {}
    BY DEF Init, PublishedIn
  <1>4. WellLinked /\ Rooted /\ NoLossWithoutFork
    BY <1>3 DEF Init, WellLinked, Rooted, NoLossWithoutFork, Cids, Logs, PublishedIn
  <1>5. QED
    BY <1>1, <1>2, <1>4 DEF IInv

-----------------------------------------------------------------------------
(* Steps of a handler that touch neither IPFS nor IPNS.                    *)

LEMMA QuietIInv ==
    ASSUME IInv, TypeOK', Known', Once', UNCHANGED <<ipfsVars, published>>
    PROVE  IInv'
  BY DEF IInv, WellLinked, Rooted, NoLossWithoutFork, Forked, PublishedIn, Cids, ipfsVars

(* The handler of u goes to a point where it holds no block.               *)
LEMMA LetGoIInv ==
    ASSUME IInv, NEW u \in CCUs, NEW p \in {"idle", "resolve"},
           pc' = [pc EXCEPT ![u] = p],
           p = "resolve" => doc'[u] \in Docs,
           \A v \in CCUs : v # u =>
               doc'[v] = doc[v] /\ log'[v] = log[v] /\ prev'[v] = prev[v] /\ cid'[v] = cid[v],
           TypeOK', UNCHANGED <<ipfsVars, published>>
    PROVE  IInv'
  <1>1. pc'[u] = p /\ \A v \in CCUs : v # u => pc'[v] = pc[v]
    BY DEF IInv, TypeOK
  <1>2. Known'
    BY <1>1 DEF IInv, Known, Cids, ipfsVars
  <1>3. Once'
    BY <1>1 DEF IInv, Once, ipfsVars
  <1>4. QED
    BY <1>2, <1>3, QuietIInv

LEMMA LeaveIInv ==
    ASSUME IInv, NEW u \in CCUs, Leave(u), orderly' \in BOOLEAN,
           UNCHANGED <<ipfsVars, begun, published>>
    PROVE  IInv'
  <1>1. TypeOK'
    BY DEF IInv, TypeOK, Leave, ipfsVars, Points, Logs, NoCid
  <1>2. QED
    BY <1>1, LetGoIInv DEF IInv, TypeOK, Leave

LEMMA UploadReturnsIInv ==
    ASSUME IInv, NEW u \in CCUs, pc[u] \in {"resolve", "add", "wait"},
           UploadReturns(u), UNCHANGED <<ipfsVars, histVars>>
    PROVE  IInv'
  <1>1. CASE Leave(u)
    BY <1>1, LeaveIInv DEF IInv, TypeOK, histVars
  <1>2. CASE ~Leave(u)
    <2>1. /\ pc' = [pc EXCEPT ![u] = "resolve"]
          /\ log' = [log EXCEPT ![u] = "light"]
          /\ prev' = [prev EXCEPT ![u] = NoCid]
          /\ cid' = [cid EXCEPT ![u] = NoCid]
          /\ slow' = [slow EXCEPT ![u] = FALSE]
          /\ UNCHANGED <<doc, start, result>>
      BY <1>2 DEF UploadReturns
    <2>2. TypeOK'
      BY <2>1 DEF IInv, TypeOK, ipfsVars, histVars, Points, Logs, NoCid
    <2>3. doc'[u] \in Docs
      BY <2>1 DEF IInv, Known
    <2>4. QED
      BY <2>1, <2>2, <2>3, LetGoIInv DEF IInv, TypeOK, histVars
  <1>3. QED
    BY <1>1, <1>2

LEMMA BeginWriteIInv ==
    ASSUME IInv, NEW u \in CCUs, NEW d \in Docs, BeginWrite(u, d)
    PROVE  IInv'
  <1>1. TypeOK'
    BY DEF IInv, TypeOK, BeginWrite, ipfsVars, Points
  <1>2. QED
    BY <1>1, LetGoIInv DEF IInv, TypeOK, BeginWrite

LEMMA ResolveIInv ==
    ASSUME IInv, NEW u \in CCUs, ResolvePrev(u) \/ ResolvePrevError(u)
    PROVE  IInv'
  <1>1. /\ pc[u] = "resolve" /\ pc' = [pc EXCEPT ![u] = "add"]
        /\ \E c \in {head[log[u]], NoCid} : prev' = [prev EXCEPT ![u] = c]
        /\ UNCHANGED <<ipfsVars, log, doc, cid, slow, start, result, begun, published>>
    BY DEF IInv, TypeOK, ResolvePrev, ResolvePrevError, histVars
  <1>o. orderly' \in BOOLEAN
    BY DEF IInv, TypeOK, ResolvePrev, ResolvePrevError
  <1>2. PICK c \in {head[log[u]], NoCid} : prev' = [prev EXCEPT ![u] = c]
    BY <1>1
  <1>3. c \in Nat /\ log[u] \in Logs /\ (c # NoCid => c = head[log[u]])
    BY DEF IInv, TypeOK, NoCid
  <1>4. c # NoCid => c \in published /\ blocks[c].log = log[u]
    BY <1>3 DEF IInv, WellLinked
  <1>5. TypeOK'
    BY <1>1, <1>o, <1>2, <1>3 DEF IInv, TypeOK, ipfsVars, Points
  <1>6. /\ pc'[u] = "add" /\ prev'[u] = c
        /\ \A v \in CCUs : v # u => pc'[v] = pc[v] /\ prev'[v] = prev[v]
    BY <1>1, <1>2 DEF IInv, TypeOK
  <1>7. Known'
    BY <1>1, <1>4, <1>6 DEF IInv, Known, Cids, ipfsVars
  <1>8. Once'
    BY <1>1, <1>6 DEF IInv, Once, ipfsVars
  <1>9. QED
    BY <1>1, <1>5, <1>7, <1>8, QuietIInv

LEMMA BeginReadIInv ==
    ASSUME IInv, NEW u \in CCUs, NEW l \in Logs, BeginRead(u, l)
    PROVE  IInv'
  <1>1. head[l] \in Cids /\ head[l] \in Nat
    BY DEF IInv, TypeOK, WellLinked, BeginRead
  <1>2. TypeOK'
    BY <1>1 DEF IInv, TypeOK, BeginRead, ipfsVars, histVars, Points
  <1>3. /\ pc'[u] = "fetch" /\ cid'[u] = head[l]
        /\ \A v \in CCUs : v # u => pc'[v] = pc[v] /\ cid'[v] = cid[v] /\ log'[v] = log[v]
    BY DEF IInv, TypeOK, BeginRead
  <1>4. Known'
    BY <1>1, <1>3 DEF IInv, Known, BeginRead, Cids, ipfsVars, histVars
  <1>5. Once'
    BY <1>3 DEF IInv, Once, BeginRead, ipfsVars, histVars
  <1>6. QED
    BY <1>2, <1>4, <1>5, QuietIInv DEF BeginRead, histVars

LEMMA BlockFacts ==
    ASSUME TypeOK, NEW c \in Cids
    PROVE  /\ blocks[c] \in Batch
           /\ blocks[c].log \in Logs /\ blocks[c].prev \in Nat /\ blocks[c].doc \in Docs
  <1>1. blocks[c] \in Batch
    BY DEF TypeOK, Cids
  <1>2. QED
    BY <1>1 DEF Batch

LEMMA FetchBatchIInv ==
    ASSUME IInv, NEW u \in CCUs, FetchBatch(u)
    PROVE  IInv'
  <1> DEFINE b == blocks[cid[u]]
  <1>1. cid[u] \in Cids
    BY DEF IInv, Known, FetchBatch
  <1>2. b.prev \in Nat /\ b.doc \in Docs /\ b.prev \in Cids \cup {NoCid}
    BY <1>1, BlockFacts DEF IInv, Known, WellLinked
  <1>3. cid' = [cid EXCEPT ![u] = b.prev]
    BY DEF FetchBatch
  <1>4. result' \in [CCUs -> Seq(Docs)]
    BY <1>2 DEF IInv, TypeOK, FetchBatch
  <1> HIDE DEF b
  <1>5. TypeOK'
    BY <1>2, <1>3, <1>4 DEF IInv, TypeOK, FetchBatch, ipfsVars, histVars
  <1>6. cid'[u] = b.prev /\ \A v \in CCUs : v # u => cid'[v] = cid[v]
    BY <1>3 DEF IInv, TypeOK
  <1>7. Known'
    BY <1>2, <1>6 DEF IInv, Known, FetchBatch, Cids, ipfsVars, histVars
  <1>8. Once'
    BY <1>6 DEF IInv, Once, FetchBatch, ipfsVars, histVars
  <1>9. QED
    BY <1>5, <1>7, <1>8, QuietIInv DEF FetchBatch, histVars

-----------------------------------------------------------------------------
(* Steps on IPFS and IPNS.                                                 *)

LEMMA AddBatchFacts ==
    ASSUME IInv, NEW u \in CCUs, AddBatch(u)
    PROVE  /\ blocks' \in Seq(Batch)
           /\ Len(blocks) \in Nat /\ Len(blocks') = Len(blocks) + 1
           /\ Cids' = Cids \cup {Len(blocks) + 1} /\ Len(blocks) + 1 \notin Cids
           /\ \A c \in Cids : blocks'[c] = blocks[c]
           /\ blocks'[Len(blocks) + 1].log = log[u]
           /\ blocks'[Len(blocks) + 1].prev = prev[u]
  <1> DEFINE b == [log |-> log[u], prev |-> prev[u], doc |-> doc[u], seed |-> SeedOf[u]]
  <1>1. b \in Batch /\ b.log = log[u] /\ b.prev = prev[u]
    BY SeedAssumption DEF IInv, TypeOK, Known, AddBatch, Batch
  <1>2. blocks \in Seq(Batch) /\ blocks' = Append(blocks, b)
    BY DEF IInv, TypeOK, AddBatch
  <1> HIDE DEF b
  <1>3. /\ blocks' \in Seq(Batch)
        /\ Len(blocks) \in Nat /\ Len(blocks') = Len(blocks) + 1
        /\ blocks'[Len(blocks) + 1] = b
        /\ \A c \in 1..Len(blocks) : blocks'[c] = blocks[c]
    BY <1>1, <1>2
  <1>4. QED
    BY <1>1, <1>3 DEF Cids

(* What the published blocks of a log are does not change while blocks are *)
(* only added.                                                             *)
LEMMA SamePublished ==
    ASSUME IInv, published' = published, \A c \in Cids : blocks'[c] = blocks[c]
    PROVE  \A l \in Logs : PublishedIn(l)' = PublishedIn(l)
  BY DEF IInv, Known, PublishedIn

LEMMA AddBatchIInv ==
    ASSUME IInv, NEW u \in CCUs, AddBatch(u)
    PROVE  IInv'
  <1> DEFINE n == Len(blocks) + 1
  <1>1. /\ blocks' \in Seq(Batch) /\ n \in Nat
        /\ Cids' = Cids \cup {n} /\ n \notin Cids
        /\ \A c \in Cids : blocks'[c] = blocks[c] /\ c < n
        /\ blocks'[n].log = log[u] /\ blocks'[n].prev = prev[u]
    BY AddBatchFacts DEF Cids
  <1>2. /\ pc[u] = "add" /\ pc' = [pc EXCEPT ![u] = "publish"]
        /\ cid' = [cid EXCEPT ![u] = n]
        /\ UNCHANGED <<head, inflight, log, doc, prev, slow, start, result, begun, published, orderly>>
    BY DEF AddBatch, histVars
  <1> HIDE DEF n
  <1>3. TypeOK'
    BY <1>1, <1>2 DEF IInv, TypeOK, Points
  <1>4. /\ pc'[u] = "publish" /\ cid'[u] = n
        /\ \A v \in CCUs : v # u => pc'[v] = pc[v] /\ cid'[v] = cid[v]
    BY <1>2 DEF IInv, TypeOK
  <1>5. Known'
    BY <1>1, <1>2, <1>4 DEF IInv, Known
  <1>6. Once'
    BY <1>1, <1>2, <1>4 DEF IInv, Known, Once
  <1>7. WellLinked'
    <2>1. ASSUME NEW c \in Cids', blocks'[c].prev # NoCid
          PROVE  /\ blocks'[c].prev < c
                 /\ blocks'[c].prev \in published'
                 /\ blocks'[blocks'[c].prev].log = blocks'[c].log
      <3>1. CASE c = n
        <4>1. blocks'[c].prev = prev[u] /\ blocks'[c].log = log[u]
          BY <1>1, <3>1
        <4>2. prev[u] \in published /\ prev[u] \in Cids /\ blocks[prev[u]].log = log[u]
          BY <1>2, <2>1, <4>1 DEF IInv, Known
        <4>3. QED
          BY <1>1, <1>2, <3>1, <4>1, <4>2
      <3>2. CASE c \in Cids
        BY <1>1, <1>2, <2>1, <3>2 DEF IInv, Known, WellLinked
      <3>3. QED
        BY <1>1, <3>1, <3>2
    <2>2. ASSUME NEW l \in Logs, head[l] # NoCid
          PROVE  head[l] \in Cids' \cap published' /\ blocks'[head[l]].log = l
      BY <1>1, <1>2, <2>2 DEF IInv, WellLinked
    <2>3. QED
      BY <1>2, <2>1, <2>2 DEF WellLinked
  <1>8. \A l \in Logs : PublishedIn(l)' = PublishedIn(l)
    BY <1>1, <1>2, SamePublished
  <1>9. \A l \in Logs : \A c \in PublishedIn(l) : blocks'[c] = blocks[c]
    BY <1>1 DEF IInv, Known, PublishedIn
  <1>10. Rooted' /\ NoLossWithoutFork'
    BY <1>2, <1>8, <1>9 DEF IInv, Rooted, NoLossWithoutFork, Forked
  <1>11. QED
    BY <1>3, <1>5, <1>6, <1>7, <1>10 DEF IInv

(* A publication starts, or ends without success.                          *)
LEMMA StartPublishIInv ==
    ASSUME IInv, NEW u \in CCUs, StartPublish(u)
    PROVE  IInv'
  <1>1. /\ pc[u] = "publish" /\ pc' = [pc EXCEPT ![u] = "wait"]
        /\ inflight' = inflight \cup {cid[u]}
        /\ slow' \in [CCUs -> BOOLEAN] /\ orderly' \in BOOLEAN
        /\ UNCHANGED <<blocks, head, log, doc, prev, cid, start, result, begun, published>>
    BY LatencyAssumption DEF IInv, TypeOK, StartPublish, histVars
  <1>2. pc'[u] = "wait" /\ \A v \in CCUs : v # u => pc'[v] = pc[v]
    BY <1>1 DEF IInv, TypeOK
  <1>3. TypeOK'
    BY <1>1 DEF IInv, TypeOK, Points
  <1>4. Known'
    BY <1>1, <1>2 DEF IInv, Known, Cids
  <1>o. Once'
    <2>1. ASSUME NEW v \in CCUs, pc'[v] = "publish"
          PROVE  v # u /\ pc[v] = "publish" /\ cid[v] \notin inflight \cup published /\ cid[v] # cid[u]
      BY <1>1, <1>2, <2>1 DEF IInv, Once
    <2>2. inflight' \cap published' = {}
      BY <1>1 DEF IInv, Once
    <2>3. QED
      BY <1>1, <2>1, <2>2 DEF IInv, Once
  <1>5. WellLinked' /\ Rooted' /\ NoLossWithoutFork'
    BY <1>1 DEF IInv, WellLinked, Rooted, NoLossWithoutFork, Forked, PublishedIn, Cids
  <1>6. QED
    BY <1>3, <1>4, <1>o, <1>5 DEF IInv

LEMMA PublishErrorIInv ==
    ASSUME IInv, NEW c \in inflight, PublishError(c)
    PROVE  IInv'
  <1>1. TypeOK'
    BY DEF IInv, TypeOK, PublishError, ccuVars, histVars
  <1>2. Known' /\ Once'
    BY DEF IInv, Known, Once, PublishError, ccuVars, histVars, Cids
  <1>3. WellLinked' /\ Rooted' /\ NoLossWithoutFork'
    BY DEF IInv, WellLinked, Rooted, NoLossWithoutFork, Forked, PublishedIn, Cids,
       PublishError, histVars
  <1>4. QED
    BY <1>1, <1>2, <1>3 DEF IInv

(* The heart of the argument.  Block c becomes the head of log k.  Had its *)
(* predecessor not been the head, another published block would already    *)
(* have followed it, and the log would be forked now.                      *)
LEMMA PublishDoneIInv ==
    ASSUME IInv, NEW c \in inflight, PublishDone(c)
    PROVE  IInv'
  <1>k. PICK k \in Logs : k = blocks[c].log
    BY BlockFacts DEF IInv, Known
  <1>1. /\ inflight' = inflight \ {c} /\ published' = published \cup {c}
        /\ head' = [head EXCEPT ![k] = c]
        /\ UNCHANGED <<blocks, ccuVars, begun, orderly>>
    BY <1>k DEF PublishDone
  <1>2. c \in Cids /\ c \notin published /\ c \in Nat /\ c # NoCid
    BY DEF IInv, TypeOK, Known, Once, Cids, NoCid
  <1>3. head'[k] = c /\ \A l \in Logs : l # k => head'[l] = head[l]
    BY <1>1, <1>2 DEF IInv, TypeOK
  <1>4. TypeOK'
    BY <1>1, <1>2 DEF IInv, TypeOK, ccuVars
  <1>5. Known'
    BY <1>1, <1>2 DEF IInv, Known, ccuVars, Cids
  <1>6. Once'
    BY <1>1 DEF IInv, Once, ccuVars
  <1>7. WellLinked'
    BY <1>k, <1>1, <1>2, <1>3 DEF IInv, WellLinked, Cids
  <1>8. /\ PublishedIn(k)' = PublishedIn(k) \cup {c} /\ c \notin PublishedIn(k)
        /\ \A l \in Logs : l # k => PublishedIn(l)' = PublishedIn(l)
    BY <1>k, <1>1, <1>2 DEF PublishedIn
  <1>9. blocks[c].prev = NoCid \/ blocks[c].prev \in PublishedIn(k)
    BY <1>k, <1>2 DEF IInv, WellLinked, PublishedIn
  <1>10. Rooted'
    <2>1. \E r \in PublishedIn(k)' : blocks[r].prev = NoCid
      <3>1. CASE blocks[c].prev = NoCid
        BY <1>8, <3>1
      <3>2. CASE blocks[c].prev \in PublishedIn(k)
        <4>1. PublishedIn(k) # {}
          BY <3>2
        <4>2. PICK r \in PublishedIn(k) : blocks[r].prev = NoCid
          BY <1>2, <4>1 DEF IInv, Rooted
        <4>3. QED
          BY <1>8, <4>2
      <3>3. QED
        BY <1>9, <3>1, <3>2
    <2>2. ASSUME NEW l \in Logs
          PROVE  /\ head'[l] = NoCid => PublishedIn(l)' = {}
                 /\ PublishedIn(l)' # {} => \E r \in PublishedIn(l)' : blocks'[r].prev = NoCid
      <3>1. CASE l = k
        BY <1>1, <1>2, <1>3, <2>1, <3>1
      <3>2. CASE l # k
        BY <1>1, <1>3, <1>8, <3>2 DEF IInv, Rooted
      <3>3. QED
        BY <3>1, <3>2
    <2>3. QED
      BY <2>2 DEF Rooted
  <1>11. NoLossWithoutFork'
    <2>1. ASSUME NEW l \in Logs, l # k, ~Forked(l)', NEW d \in PublishedIn(l)'
          PROVE  d = head'[l] \/ \E e \in PublishedIn(l)' : blocks'[e].prev = d
      BY <1>1, <1>3, <1>8, <2>1 DEF IInv, NoLossWithoutFork, Forked
    <2>2. ASSUME ~Forked(k)', NEW d \in PublishedIn(k)'
          PROVE  d = head'[k] \/ \E e \in PublishedIn(k)' : blocks'[e].prev = d
      <3>1. \A x, y \in PublishedIn(k) \cup {c} : blocks[x].prev = blocks[y].prev => x = y
        BY <1>1, <1>8, <2>2 DEF Forked
      <3>2. ~Forked(k)
        BY <3>1 DEF Forked
      <3>3. \A x \in PublishedIn(k) : x = head[k] \/ \E e \in PublishedIn(k) : blocks[e].prev = x
        BY <1>2, <3>2 DEF IInv, NoLossWithoutFork
      <3>4. ASSUME PublishedIn(k) # {} PROVE blocks[c].prev = head[k]
        <4>1. CASE blocks[c].prev = NoCid
          <5>1. PICK r \in PublishedIn(k) : blocks[r].prev = NoCid
            BY <1>2, <3>4 DEF IInv, Rooted
          <5>2. QED
            BY <1>8, <3>1, <4>1, <5>1
        <4>2. CASE blocks[c].prev \in PublishedIn(k)
          BY <1>8, <3>1, <3>3, <4>2
        <4>3. QED
          BY <1>9, <4>1, <4>2
      <3>5. CASE d = c
        BY <1>3, <3>5
      <3>6. CASE d \in PublishedIn(k)
        BY <1>1, <1>8, <3>3, <3>4, <3>6
      <3>7. QED
        BY <1>8, <3>5, <3>6
    <2>3. ASSUME NEW l \in Logs, ~Forked(l)', NEW d \in PublishedIn(l)'
          PROVE  d = head'[l] \/ \E e \in PublishedIn(l)' : blocks'[e].prev = d
      BY <2>1, <2>2, <2>3
    <2>4. QED
      BY <2>3 DEF NoLossWithoutFork
  <1>12. QED
    BY <1>4, <1>5, <1>6, <1>7, <1>10, <1>11 DEF IInv

LEMMA StutterIInv ==
    ASSUME IInv, UNCHANGED vars
    PROVE  IInv'
  <1>1. TypeOK' /\ Known' /\ Once'
    BY DEF IInv, TypeOK, Known, Once, Cids, vars, ipfsVars, ccuVars, histVars
  <1>2. QED
    BY <1>1, QuietIInv DEF vars, histVars

LEMMA NextIInv == IInv /\ [Next]_vars => IInv'
  <1> SUFFICES ASSUME IInv, [Next]_vars PROVE IInv'
    OBVIOUS
  <1>1. ASSUME NEW u \in CCUs, Step(u) PROVE IInv'
    <2>1. CASE PublishReturns(u)
      BY <2>1, UploadReturnsIInv DEF PublishReturns
    <2>2. CASE FinishRead(u)
      BY <2>2, LeaveIInv DEF IInv, TypeOK, FinishRead, histVars
    <2>3. QED
      BY <1>1, <2>1, <2>2, ResolveIInv, AddBatchIInv, StartPublishIInv, FetchBatchIInv DEF Step
  <1>2. ASSUME NEW u \in CCUs, Fault(u) PROVE IInv'
    <2>1. CASE SkipUpload(u) \/ AddBatchError(u)
      BY <2>1, UploadReturnsIInv DEF SkipUpload, AddBatchError
    <2>2. CASE FetchError(u) \/ Crash(u)
      BY <2>2, LeaveIInv DEF IInv, TypeOK, FetchError, Crash, histVars
    <2>3. QED
      BY <1>2, <2>1, <2>2, ResolveIInv DEF Fault
  <1>3. QED
    BY <1>1, <1>2, BeginWriteIInv, BeginReadIInv, PublishDoneIInv, PublishErrorIInv,
       StutterIInv DEF Next

(* Whatever races and fails, the inductive invariant holds.                *)
THEOREM Invariance == Spec => []IInv
  BY InitIInv, NextIInv, PTL DEF Spec

(* The handlers keep the types of LinkedLog.                               *)
THEOREM TypeCorrect == Spec => []TypeOK
  <1>1. IInv => TypeOK
    BY DEF IInv
  <1>2. QED
    BY <1>1, Invariance, PTL

(* EncryptAndUploadLinkedBytes only ever chains a batch to an older,       *)
(* published batch of the same log.                                        *)
THEOREM Structure == Spec => []WellLinked
  <1>1. IInv => WellLinked
    BY DEF IInv
  <1>2. QED
    BY <1>1, Invariance, PTL

(* For any number of CCUs and whatever the order in which UploadToIPNS's   *)
(* goroutines end, a published batch is lost only in a log that forked.    *)
THEOREM LossNeedsFork == Spec => []NoLossWithoutFork
  <1>1. IInv => NoLossWithoutFork
    BY DEF IInv
  <1>2. QED
    BY <1>1, Invariance, PTL

-----------------------------------------------------------------------------
(* When the logs only grow at their end.                                   *)

(* An orderly write is a critical section: from the resolution to the end  *)
(* of the publication nothing else changes the head it resolved.           *)
Serial ==
    /\ \A u, v \in CCUs : Writing(u) /\ Writing(v) => u = v
    /\ \A u \in CCUs : slow[u] = FALSE
    /\ \A c \in inflight : \E u \in CCUs : pc[u] = "wait" /\ cid[u] = c
    /\ \A c \in inflight : blocks[c].prev = head[blocks[c].log]
    /\ \A u \in CCUs : pc[u] = "add" => prev[u] = head[log[u]]
    /\ \A u \in CCUs : pc[u] = "publish" =>
          blocks[cid[u]].prev = head[log[u]] /\ blocks[cid[u]].log = log[u]

(* Disorder is for ever.                                                   *)
LEMMA OrderlyBefore ==
    ASSUME IInv, [Next]_vars, orderly'
    PROVE  orderly
  BY DEF IInv, TypeOK, Next, Step, Fault, BeginWrite, SkipUpload, ResolvePrev, ResolvePrevError,
     AddBatch, AddBatchError, StartPublish, PublishDone, PublishError, PublishReturns, BeginRead,
     FetchBatch, FetchError, FinishRead, Crash, vars, histVars

(* Who is on the way to a publication writes, and nobody else does.        *)
LEMMA OneWriter ==
    ASSUME IInv, Serial, NEW u \in CCUs, pc[u] \in {"resolve", "add", "publish", "wait"}
    PROVE  /\ Writing(u)
           /\ \A v \in CCUs : v # u => pc[v] \notin {"resolve", "add", "publish", "wait"}
  BY DocAssumption DEF IInv, Known, Serial, Writing

(* A write that is not waiting for a publication leaves none under way.    *)
LEMMA NoneInflight ==
    ASSUME IInv, Serial, NEW u \in CCUs, pc[u] \in {"resolve", "add", "publish", "wait"},
           pc[u] # "wait" \/ cid[u] \notin inflight
    PROVE  inflight = {}
  <1>1. \A v \in CCUs : pc[v] = "wait" => v = u
    BY OneWriter
  <1>2. QED
    BY <1>1 DEF Serial

(* The handler of u begins or ends an upload.                              *)
LEMMA EnterSerial ==
    ASSUME IInv, Serial, NEW u \in CCUs, inflight = {},
           \A v, w \in CCUs : Writing(v)' /\ Writing(w)' => v = w,
           \E p \in {"idle", "resolve"} : pc' = [pc EXCEPT ![u] = p],
           slow'[u] = FALSE,
           \A v \in CCUs : v # u =>
               slow'[v] = slow[v] /\ log'[v] = log[v] /\ prev'[v] = prev[v] /\ cid'[v] = cid[v],
           UNCHANGED ipfsVars
    PROVE  Serial'
  <1>1. pc'[u] \in {"idle", "resolve"} /\ \A v \in CCUs : v # u => pc'[v] = pc[v]
    BY DEF IInv, TypeOK
  <1>2. QED
    BY <1>1 DEF Serial, ipfsVars

LEMMA UploadReturnsSerial ==
    ASSUME IInv, Serial, NEW u \in CCUs, inflight = {}, UploadReturns(u), UNCHANGED ipfsVars
    PROVE  Serial'
  <1>1. /\ \E p \in {"idle", "resolve"} : pc' = [pc EXCEPT ![u] = p]
        /\ slow'[u] = FALSE
        /\ \A v \in CCUs : v # u =>
              slow'[v] = slow[v] /\ log'[v] = log[v] /\ prev'[v] = prev[v] /\ cid'[v] = cid[v]
    BY DEF IInv, TypeOK, UploadReturns, Leave
  <1>2. \A v \in CCUs : Writing(v)' => Writing(v)
    BY DEF IInv, TypeOK, UploadReturns, Leave, Writing
  <1>3. QED
    BY <1>1, <1>2, EnterSerial DEF Serial

(* The handler of u, which does not write, goes on or away.                *)
LEMMA ReaderSerial ==
    ASSUME IInv, Serial, NEW u \in CCUs, pc[u] \in {"idle", "fetch"},
           \E p \in {"idle", "fetch"} : pc' = [pc EXCEPT ![u] = p],
           doc'[u] \in {doc[u], NoDoc}, slow'[u] = FALSE,
           \A v \in CCUs : v # u =>
               /\ doc'[v] = doc[v] /\ slow'[v] = slow[v] /\ log'[v] = log[v]
               /\ prev'[v] = prev[v] /\ cid'[v] = cid[v],
           UNCHANGED ipfsVars
    PROVE  Serial'
  <1>1. pc'[u] \in {"idle", "fetch"} /\ \A v \in CCUs : v # u => pc'[v] = pc[v]
    BY DEF IInv, TypeOK
  <1>2. \A v \in CCUs : Writing(v)' => Writing(v)
    BY DEF Writing
  <1>3. \A v, w \in CCUs : Writing(v)' /\ Writing(w)' => v = w
    BY <1>2 DEF Serial
  <1>4. \A c \in inflight' : \E v \in CCUs : pc'[v] = "wait" /\ cid'[v] = c
    BY <1>1 DEF Serial, ipfsVars
  <1>5. QED
    BY <1>1, <1>3, <1>4 DEF Serial, ipfsVars

LEMMA BeginWriteSerial ==
    ASSUME IInv, Serial, orderly', NEW u \in CCUs, NEW d \in Docs, BeginWrite(u, d)
    PROVE  Serial'
  <1>1. \A v \in CCUs : ~Writing(v)
    BY DEF BeginWrite
  <1>2. inflight = {}
    BY <1>1, OneWriter DEF Serial
  <1>3. \A v \in CCUs : v # u => doc'[v] = doc[v]
    BY DEF IInv, TypeOK, BeginWrite
  <1>4. \A v, w \in CCUs : Writing(v)' /\ Writing(w)' => v = w
    BY <1>1, <1>3 DEF Writing
  <1>5. QED
    BY <1>2, <1>4, EnterSerial DEF BeginWrite, Serial

LEMMA ResolvePrevSerial ==
    ASSUME IInv, Serial, orderly', NEW u \in CCUs, ResolvePrev(u)
    PROVE  Serial'
  <1>1. /\ pc[u] = "resolve" /\ pc' = [pc EXCEPT ![u] = "add"]
        /\ prev' = [prev EXCEPT ![u] = head[log[u]]]
        /\ UNCHANGED <<ipfsVars, log, doc, cid, slow>>
    BY DEF ResolvePrev
  <1>2. inflight = {}
    BY <1>1, NoneInflight
  <1>3. /\ pc'[u] = "add" /\ prev'[u] = head[log[u]]
        /\ \A v \in CCUs : v # u => pc'[v] = pc[v] /\ prev'[v] = prev[v]
    BY <1>1 DEF IInv, TypeOK
  <1>4. \A v \in CCUs : Writing(v)' = Writing(v)
    BY <1>1 DEF Writing
  <1>5. QED
    BY <1>1, <1>2, <1>3, <1>4 DEF Serial, ipfsVars

LEMMA AddBatchSerial ==
    ASSUME IInv, Serial, NEW u \in CCUs, AddBatch(u)
    PROVE  Serial'
  <1>1. /\ pc[u] = "add" /\ pc' = [pc EXCEPT ![u] = "publish"]
        /\ cid' = [cid EXCEPT ![u] = Len(blocks) + 1]
        /\ UNCHANGED <<head, inflight, log, doc, prev, slow>>
    BY DEF AddBatch
  <1>2. inflight = {} /\ \A v \in CCUs : v # u => pc[v] # "publish"
    BY <1>1, NoneInflight, OneWriter
  <1>3. /\ pc'[u] = "publish" /\ cid'[u] = Len(blocks) + 1
        /\ \A v \in CCUs : v # u => pc'[v] = pc[v]
    BY <1>1 DEF IInv, TypeOK
  <1>4. blocks'[cid'[u]].log = log[u] /\ blocks'[cid'[u]].prev = head[log[u]]
    BY <1>1, <1>3, AddBatchFacts DEF Serial
  <1>5. \A v \in CCUs : Writing(v)' = Writing(v)
    BY <1>1 DEF Writing
  <1>6. QED
    BY <1>1, <1>2, <1>3, <1>4, <1>5 DEF Serial

LEMMA StartPublishSerial ==
    ASSUME IInv, Serial, orderly', NEW u \in CCUs, StartPublish(u)
    PROVE  Serial'
  <1>1. /\ pc[u] = "publish" /\ pc' = [pc EXCEPT ![u] = "wait"]
        /\ inflight' = inflight \cup {cid[u]}
        /\ UNCHANGED <<blocks, head, log, doc, prev, cid>>
    BY DEF StartPublish
  <1>2. inflight' = {cid[u]} /\ \A v \in CCUs : v # u => pc[v] # "publish"
    BY <1>1, NoneInflight, OneWriter
  <1>3. slow'[u] = FALSE /\ \A v \in CCUs : v # u => slow'[v] = slow[v]
    <2>1. PICK us \in PublishUs : /\ slow' = [slow EXCEPT ![u] = us >= PublishTimeout]
                                  /\ orderly' = (orderly /\ us < PublishTimeout)
      BY DEF StartPublish
    <2>2. us \in Nat /\ us < PublishTimeout
      BY <2>1, LatencyAssumption
    <2>3. (us >= PublishTimeout) = FALSE
      BY <2>2 DEF PublishTimeout
    <2>4. QED
      BY <2>1, <2>3 DEF IInv, TypeOK
  <1>4. pc'[u] = "wait" /\ \A v \in CCUs : v # u => pc'[v] = pc[v]
    BY <1>1 DEF IInv, TypeOK
  <1>5. \A v \in CCUs : Writing(v)' = Writing(v)
    BY <1>1 DEF Writing
  <1>6. QED
    BY <1>1, <1>2, <1>3, <1>4, <1>5 DEF Serial

LEMMA PublishEndsSerial ==
    ASSUME IInv, Serial, NEW c \in inflight, PublishDone(c) \/ PublishError(c)
    PROVE  Serial'
  <1>1. PICK u \in CCUs : pc[u] = "wait" /\ cid[u] = c
    BY DEF Serial
  <1>2. \A v \in CCUs : v # u => pc[v] \notin {"resolve", "add", "publish", "wait"}
    BY <1>1, OneWriter
  <1>3. inflight' = {} /\ UNCHANGED <<blocks, ccuVars>>
    BY <1>1, <1>2 DEF PublishDone, PublishError, Serial
  <1>4. \A v \in CCUs : pc'[v] \notin {"add", "publish"}
    BY <1>1, <1>2, <1>3 DEF ccuVars
  <1>5. \A v \in CCUs : Writing(v)' = Writing(v)
    BY <1>3 DEF Writing, ccuVars
  <1>6. QED
    BY <1>3, <1>4, <1>5 DEF Serial, ccuVars

LEMMA CrashSerial ==
    ASSUME IInv, Serial, orderly', NEW u \in CCUs, Crash(u)
    PROVE  Serial'
  <1>1. ~Writing(u)
    BY DEF Crash
  <1>2. pc[u] \in {"idle", "fetch"}
    BY <1>1, OneWriter DEF IInv, TypeOK, Points
  <1>3. QED
    BY <1>2, ReaderSerial DEF IInv, TypeOK, Crash, Leave

LEMMA NextSerial ==
    ASSUME IInv, Serial, orderly', [Next]_vars
    PROVE  Serial'
  <1>1. ASSUME NEW u \in CCUs, NEW l \in Logs, BeginRead(u, l) PROVE Serial'
    BY <1>1, ReaderSerial DEF IInv, TypeOK, BeginRead, Serial
  <1>2. ASSUME NEW u \in CCUs, PublishReturns(u) PROVE Serial'
    <2>1. inflight = {}
      BY <1>2, NoneInflight DEF PublishReturns, Serial
    <2>2. QED
      BY <1>2, <2>1, UploadReturnsSerial DEF PublishReturns
  <1>3. ASSUME NEW u \in CCUs, FetchBatch(u) PROVE Serial'
    <2>1. UNCHANGED <<pc, doc, slow, log, prev, ipfsVars>> /\ \A v \in CCUs : v # u => cid'[v] = cid[v]
      BY <1>3 DEF IInv, TypeOK, FetchBatch
    <2>2. pc[u] = "fetch" /\ pc' = [pc EXCEPT ![u] = "fetch"]
      BY <1>3, <2>1 DEF IInv, TypeOK, FetchBatch
    <2>3. slow'[u] = FALSE
      BY <2>1 DEF Serial
    <2>4. QED
      BY <2>1, <2>2, <2>3, ReaderSerial
  <1>4. ASSUME NEW u \in CCUs, SkipUpload(u) \/ AddBatchError(u) PROVE Serial'
    <2>1. inflight = {}
      BY <1>4, NoneInflight DEF SkipUpload, AddBatchError
    <2>2. QED
      BY <1>4, <2>1, UploadReturnsSerial DEF SkipUpload, AddBatchError
  <1>5. ASSUME NEW u \in CCUs, FinishRead(u) \/ FetchError(u) PROVE Serial'
    BY <1>5, ReaderSerial DEF IInv, TypeOK, FinishRead, FetchError, Leave
  <1>6. ASSUME NEW u \in CCUs, ResolvePrevError(u) PROVE FALSE
    BY <1>6 DEF ResolvePrevError
  <1>7. CASE UNCHANGED vars
    BY <1>7 DEF vars, ipfsVars, ccuVars, Serial, Writing
  <1>8. QED
    BY <1>1, <1>2, <1>3, <1>4, <1>5, <1>6, <1>7, BeginWriteSerial, ResolvePrevSerial,
       AddBatchSerial, StartPublishSerial, PublishEndsSerial, CrashSerial DEF Next, Step, Fault

LEMMA HeadChange ==
    ASSUME IInv, Serial, [Next]_vars, NEW l \in Logs, head'[l] # head[l]
    PROVE  blocks'[head'[l]].prev = head[l]
  <1>1. CASE \E c \in inflight : PublishDone(c)
    <2>1. PICK c \in inflight : PublishDone(c)
      BY <1>1
    <2>2. PICK k \in Logs : k = blocks[c].log
      BY BlockFacts DEF IInv, Known
    <2>3. head' = [head EXCEPT ![k] = c] /\ blocks' = blocks
      BY <2>1, <2>2 DEF PublishDone
    <2>4. l = k /\ head'[l] = c
      BY <2>3 DEF IInv, TypeOK
    <2>5. QED
      BY <2>2, <2>3, <2>4 DEF Serial
  <1>2. CASE ~\E c \in inflight : PublishDone(c)
    BY <1>2 DEF Next, Step, Fault, BeginWrite, SkipUpload, ResolvePrev, ResolvePrevError, AddBatch,
       AddBatchError, StartPublish, PublishError, PublishReturns, BeginRead, FetchBatch,
       FetchError, FinishRead, Crash, vars, ipfsVars
  <1>3. QED
    BY <1>1, <1>2

LEMMA SerialInvariance == Spec => [](orderly => Serial)
  <1>1. Init => (orderly => Serial)
    BY DEF Init, Serial, Writing
  <1>2. IInv /\ (orderly => Serial) /\ [Next]_vars => (orderly => Serial)'
    BY NextSerial, OrderlyBefore
  <1>3. QED
    BY <1>1, <1>2, Invariance, PTL DEF Spec

(* As long as writes came one at a time and in time, the chained batches   *)
(* of EncryptAndUploadLinkedBytes are an append-only log.                  *)
THEOREM GrowsAtItsEnd == Spec => AppendOnly
  <1>1. IInv /\ (orderly => Serial) /\ [Next]_vars =>
            [orderly => \A l \in Logs : head'[l] # head[l] => blocks'[head'[l]].prev = head[l]]_vars
    BY HeadChange
  <1>2. QED
    BY <1>1, SerialInvariance, Invariance, PTL DEF Spec, AppendOnly
-----------------------------------------------------------------------------
(* What a reader reads.                                                    *)

LEMMA OnlyAddBatch ==
    ASSUME [Next]_vars, ~\E u \in CCUs : AddBatch(u)
    PROVE  blocks' = blocks
  BY DEF Next, Step, Fault, BeginWrite, SkipUpload, ResolvePrev, ResolvePrevError,
     AddBatchError, StartPublish, PublishDone, PublishError, PublishReturns, BeginRead,
     FetchBatch, FetchError, FinishRead, Crash, vars, ipfsVars

LEMMA LogGrows ==
    ASSUME IInv, [Next]_vars
    PROVE  /\ Cids \subseteq Cids'
           /\ \A c \in Cids : blocks'[c] = blocks[c]
           /\ published \subseteq published'
           /\ \A l \in Logs : PublishedIn(l) \subseteq PublishedIn(l)'
  <1>1. CASE \E u \in CCUs : AddBatch(u)
    <2>1. PICK u \in CCUs : AddBatch(u)
      BY <1>1
    <2>2. published' = published
      BY <2>1 DEF AddBatch, histVars
    <2>3. Cids \subseteq Cids' /\ \A c \in Cids : blocks'[c] = blocks[c]
      BY <2>1, AddBatchFacts
    <2>4. QED
      BY <2>2, <2>3 DEF PublishedIn, IInv, Known
  <1>2. CASE ~\E u \in CCUs : AddBatch(u)
    <2>1. blocks' = blocks
      BY <1>2, OnlyAddBatch
    <2>2. published \subseteq published'
      BY <1>2 DEF Next, Step, Fault, BeginWrite, SkipUpload, ResolvePrev, ResolvePrevError,
         AddBatchError, StartPublish, PublishDone, PublishError, PublishReturns, BeginRead,
         FetchBatch, FetchError, FinishRead, Crash, vars, histVars
    <2>3. QED
      BY <2>1, <2>2 DEF Cids, PublishedIn
  <1>3. QED
    BY <1>1, <1>2

(* Who is reading after a step has begun, has fetched a batch or was left  *)
(* alone.                                                                  *)
LEMMA ReaderSteps ==
    ASSUME IInv, [Next]_vars, NEW v \in CCUs, pc'[v] = "fetch"
    PROVE  \/ \E l \in Logs : BeginRead(v, l)
           \/ FetchBatch(v)
           \/ /\ pc[v] = "fetch" /\ log'[v] = log[v] /\ cid'[v] = cid[v]
              /\ start'[v] = start[v] /\ result'[v] = result[v]
  <1> DEFINE Same == /\ pc[v] = "fetch" /\ log'[v] = log[v] /\ cid'[v] = cid[v]
                     /\ start'[v] = start[v] /\ result'[v] = result[v]
  <1>1. ASSUME NEW u \in CCUs, NEW d \in Docs, BeginWrite(u, d) PROVE Same
    BY <1>1 DEF IInv, TypeOK, BeginWrite
  <1>2. ASSUME NEW u \in CCUs, NEW l \in Logs, BeginRead(u, l), u # v PROVE Same
    BY <1>2 DEF IInv, TypeOK, BeginRead
  <1>3. ASSUME NEW u \in CCUs, FetchBatch(u), u # v PROVE Same
    BY <1>3 DEF IInv, TypeOK, FetchBatch
  <1>4. ASSUME NEW u \in CCUs, Leave(u) PROVE Same
    BY <1>4 DEF IInv, TypeOK, Leave
  <1>5. ASSUME NEW u \in CCUs, UploadReturns(u) PROVE Same
    BY <1>4, <1>5 DEF IInv, TypeOK, UploadReturns
  <1>6. ASSUME NEW u \in CCUs, ResolvePrev(u) \/ ResolvePrevError(u) \/ AddBatch(u) \/ StartPublish(u)
        PROVE  Same
    BY <1>6 DEF IInv, TypeOK, ResolvePrev, ResolvePrevError, AddBatch, StartPublish
  <1>7. ASSUME NEW c \in inflight, PublishDone(c) \/ PublishError(c) PROVE Same
    BY <1>7 DEF PublishDone, PublishError, ccuVars
  <1>8. ASSUME UNCHANGED vars PROVE Same
    BY <1>8 DEF vars, ccuVars
  <1> HIDE DEF Same
  <1>9. ASSUME NEW u \in CCUs, Step(u), ~FetchBatch(v) PROVE Same
    BY <1>3, <1>4, <1>5, <1>6, <1>9 DEF Step, PublishReturns, FinishRead
  <1>10. ASSUME NEW u \in CCUs, Fault(u) PROVE Same
    BY <1>4, <1>5, <1>6, <1>10 DEF Fault, SkipUpload, AddBatchError, FetchError, Crash
  <1>11. Same \/ (\E l \in Logs : BeginRead(v, l)) \/ FetchBatch(v)
    BY <1>1, <1>2, <1>7, <1>8, <1>9, <1>10 DEF Next
  <1>12. QED
    BY <1>11 DEF Same

(* A reader is on published blocks of its log.                             *)
OnLog ==
    \A u \in CCUs : pc[u] = "fetch" =>
        /\ start[u] \in PublishedIn(log[u])
        /\ cid[u] # NoCid => cid[u] \in PublishedIn(log[u])

LEMMA StepOnLog ==
    ASSUME IInv, OnLog, [Next]_vars
    PROVE  OnLog'
  <1> SUFFICES ASSUME NEW v \in CCUs, pc'[v] = "fetch"
               PROVE  /\ start'[v] \in PublishedIn(log[v])'
                      /\ cid'[v] # NoCid => cid'[v] \in PublishedIn(log[v])'
    BY DEF OnLog, PublishedIn
  <1>1. ASSUME NEW l \in Logs, PublishedIn(l) \subseteq PublishedIn(l)', log'[v] = l,
               start'[v] \in PublishedIn(l), cid'[v] # NoCid => cid'[v] \in PublishedIn(l)
        PROVE  /\ start'[v] \in PublishedIn(log[v])'
               /\ cid'[v] # NoCid => cid'[v] \in PublishedIn(log[v])'
    BY <1>1 DEF PublishedIn
  <1>2. CASE \E l \in Logs : BeginRead(v, l)
    <2>1. PICK l \in Logs : BeginRead(v, l)
      BY <1>2
    <2>2. log'[v] = l /\ cid'[v] = head[l] /\ start'[v] = head[l] /\ head[l] # NoCid
      BY <2>1 DEF IInv, TypeOK, BeginRead
    <2>3. head[l] \in PublishedIn(l)
      BY <2>2 DEF IInv, WellLinked, PublishedIn
    <2>4. QED
      BY <1>1, <2>2, <2>3, LogGrows
  <1>3. CASE FetchBatch(v)
    <2>1. /\ pc[v] = "fetch" /\ cid[v] # NoCid /\ log'[v] = log[v] /\ start'[v] = start[v]
          /\ cid'[v] = blocks[cid[v]].prev
      BY <1>3 DEF IInv, TypeOK, FetchBatch
    <2>2. cid[v] \in PublishedIn(log[v]) /\ cid[v] \in Cids /\ log[v] \in Logs
      BY <2>1 DEF OnLog, PublishedIn, IInv, Known, TypeOK
    <2>3. cid'[v] # NoCid => cid'[v] \in PublishedIn(log[v])
      BY <2>1, <2>2 DEF IInv, WellLinked, PublishedIn
    <2>4. start[v] \in PublishedIn(log[v])
      BY <2>1 DEF OnLog
    <2>5. QED
      BY <1>1, <2>1, <2>2, <2>3, <2>4, LogGrows
  <1>4. CASE pc[v] = "fetch" /\ log'[v] = log[v] /\ cid'[v] = cid[v] /\ start'[v] = start[v]
    <2>1. log[v] \in Logs
      BY DEF IInv, TypeOK
    <2>2. QED
      BY <1>1, <1>4, <2>1, LogGrows DEF OnLog
  <1>5. QED
    BY <1>2, <1>3, <1>4, ReaderSteps

(* Readable is defined by recursion along the chain: what block c adds to  *)
(* what f gives for the block before it.                                   *)
Turn(f, c) ==
    [u \in CCUs |-> IF c = NoCid THEN <<>> ELSE Own(u, c) \o f[blocks[c].prev][u]]

Walks(f) == f = [c \in 0..Len(blocks) |-> Turn(f, c)]

(* There is one such function.  That a block follows an older one makes it *)
(* so, block by block as they are added.                                   *)
OneWalk ==
    \E f \in [0..Len(blocks) -> [CCUs -> Seq(Docs)]] : Walks(f) /\ \A g : Walks(g) => g = f

ReadableIsWalk ==
    /\ Readable \in [0..Len(blocks) -> [CCUs -> Seq(Docs)]]
    /\ Walks(Readable)
    /\ \A g : Walks(g) => g = Readable

LEMMA ReadableWalks == OneWalk => ReadableIsWalk
  <1> SUFFICES ASSUME OneWalk PROVE ReadableIsWalk
    OBVIOUS
  <1>1. PICK f \in [0..Len(blocks) -> [CCUs -> Seq(Docs)]] : Walks(f) /\ \A g : Walks(g) => g = f
    BY DEF OneWalk
  <1>2. Readable = CHOOSE g : Walks(g)
    BY DEF Readable, Walks, Turn
  <1>3. Walks(CHOOSE g : Walks(g))
    BY <1>1
  <1>4. QED
    BY <1>1, <1>2, <1>3 DEF ReadableIsWalk

LEMMA InitOneWalk == Init => OneWalk
  <1> SUFFICES ASSUME Init PROVE OneWalk
    OBVIOUS
  <1>1. 0..Len(blocks) = {0} /\ NoCid = 0 /\ <<>> \in Seq(Docs)
    BY DEF Init, NoCid
  <1>2. \A g : Walks(g) <=> g = [c \in {0} |-> [u \in CCUs |-> <<>>]]
    BY <1>1 DEF Walks, Turn
  <1>3. [c \in {0} |-> [u \in CCUs |-> <<>>]] \in [{0} -> [CCUs -> Seq(Docs)]]
    BY <1>1
  <1>4. QED
    BY <1>1, <1>2, <1>3 DEF OneWalk

LEMMA OwnType ==
    ASSUME TypeOK, NEW u \in CCUs, NEW c \in Cids
    PROVE  Own(u, c) \in Seq(Docs)
  BY BlockFacts DEF Own

(* A new block is read after those that were there, which are read as      *)
(* before.                                                                 *)
LEMMA AddBatchWalk ==
    ASSUME IInv, OneWalk, NEW u \in CCUs, AddBatch(u)
    PROVE  OneWalk' /\ \A c \in 0..Len(blocks) : Readable'[c] = Readable[c]
  <1>n. PICK n : n = Len(blocks)
    OBVIOUS
  <1>1. PICK f \in [0..n -> [CCUs -> Seq(Docs)]] :
           Walks(f) /\ f = Readable /\ \A g : Walks(g) => g = f
    BY <1>n, ReadableWalks DEF ReadableIsWalk
  <1>2. /\ n \in Nat /\ n = Len(blocks) /\ Len(blocks') = n + 1 /\ Cids = 1..n
        /\ \A c \in Cids : blocks'[c] = blocks[c] /\ blocks[c].prev \in 0..n
        /\ blocks'[n + 1].prev \in 0..n
    <2>1. /\ n \in Nat /\ Len(blocks') = n + 1 /\ Cids = 1..n
          /\ \A c \in Cids : blocks'[c] = blocks[c]
      BY <1>n, AddBatchFacts DEF Cids
    <2>0. 0..n = Cids \cup {NoCid}
      BY <2>1 DEF NoCid
    <2>2. \A c \in Cids : blocks[c].prev \in Cids \cup {NoCid}
      BY DEF IInv, WellLinked, Known
    <2>3. blocks'[n + 1].prev = prev[u]
      BY <1>n, AddBatchFacts
    <2>4. prev[u] \in Cids \cup {NoCid}
      BY DEF IInv, Known, AddBatch
    <2>5. QED
      BY <1>n, <2>0, <2>1, <2>2, <2>3, <2>4
  <1>3. TypeOK'
    BY AddBatchIInv DEF IInv
  <1>4. PICK F : F = [c \in 0..(n + 1) |-> IF c = n + 1 THEN Turn(f, c)' ELSE f[c]]
    OBVIOUS
  <1>5. \A c \in 0..n : f[c] = Turn(f, c)
    BY <1>1, <1>n DEF Walks
  <1>6. ASSUME NEW c \in 0..n, NEW g, \A d \in 0..n : g[d] = f[d]
        PROVE  Turn(g, c)' = Turn(f, c) /\ Turn(g, n + 1)' = Turn(f, n + 1)'
    <2>1. c = NoCid \/ c \in Cids
      BY <1>2 DEF NoCid
    <2>2. c \in Cids => g[blocks'[c].prev] = f[blocks[c].prev]
      BY <1>2, <1>6
    <2>3. n + 1 # NoCid /\ g[blocks'[n + 1].prev] = f[blocks'[n + 1].prev]
      BY <1>2, <1>6 DEF NoCid
    <2>4. ASSUME NEW v \in CCUs
          PROVE  Turn(g, c)'[v] = Turn(f, c)[v] /\ Turn(g, n + 1)'[v] = Turn(f, n + 1)'[v]
      <3>1. c \in Cids => Own(v, c)' = Own(v, c)
        BY <1>2 DEF Own
      <3>2. Turn(g, n + 1)'[v] = Turn(f, n + 1)'[v]
        BY <2>3 DEF Turn
      <3>3. CASE c = NoCid
        BY <3>2, <3>3 DEF Turn
      <3>4. CASE c # NoCid
        BY <2>1, <2>2, <3>1, <3>2, <3>4 DEF Turn
      <3>5. QED
        BY <3>3, <3>4
    <2>5. QED
      BY <2>4 DEF Turn
  <1>7. /\ \A c \in 0..n : F[c] = f[c]
        /\ F[n + 1] = Turn(f, n + 1)'
        /\ 0..(n + 1) = 0..n \cup {n + 1}
        /\ 0 \in 0..n
    <2>1. 0..(n + 1) = 0..n \cup {n + 1} /\ n + 1 \notin 0..n /\ 0 \in 0..n
      BY <1>2
    <2>2. QED
      BY <1>4, <2>1
  <1>8. Walks(F)'
    <2>1. ASSUME NEW c \in 0..(n + 1) PROVE F[c] = Turn(F, c)'
      BY <1>2, <1>5, <1>6, <1>7
    <2>2. F = [c \in 0..(n + 1) |-> F[c]]
      BY <1>4
    <2>3. QED
      BY <1>2, <2>1, <2>2 DEF Walks
  <1>9. ASSUME NEW g, Walks(g)' PROVE g = F
    <2>1. g = [c \in 0..(n + 1) |-> Turn(g, c)']
      BY <1>2, <1>9 DEF Walks
    <2>2. PICK h : h = [c \in 0..n |-> g[c]]
      OBVIOUS
    <2>3. Walks(h)
      <3>1. \A c \in 0..n : g[c] = Turn(g, c)'
        BY <1>7, <2>1
      <3>2. ASSUME NEW c \in 0..n, NEW v \in CCUs PROVE Turn(g, c)'[v] = Turn(h, c)[v]
        <4>1. CASE c = NoCid
          BY <4>1 DEF Turn
        <4>2. CASE c # NoCid
          <5>1. c \in Cids
            BY <1>2, <4>2 DEF NoCid
          <5>2. Own(v, c)' = Own(v, c) /\ g[blocks'[c].prev] = h[blocks[c].prev]
            BY <1>2, <2>2, <5>1 DEF Own
          <5>3. QED
            BY <4>2, <5>2 DEF Turn
        <4>3. QED
          BY <4>1, <4>2
      <3>3. \A c \in 0..n : g[c] = Turn(h, c)
        BY <3>1, <3>2 DEF Turn
      <3>4. QED
        BY <1>2, <2>2, <3>3 DEF Walks
    <2>4. \A c \in 0..n : g[c] = f[c]
      BY <1>1, <2>2, <2>3
    <2>5. g[n + 1] = F[n + 1]
      <3>1. Turn(g, n + 1)' = Turn(f, n + 1)'
        BY <1>6, <1>7, <2>4
      <3>2. n + 1 \in 0..(n + 1)
        BY <1>2
      <3>3. QED
        BY <1>7, <2>1, <3>1, <3>2
    <2>6. QED
      BY <1>4, <1>7, <2>1, <2>4, <2>5
  <1>t. F \in [0..(n + 1) -> [CCUs -> Seq(Docs)]]
    <2>1. ASSUME NEW v \in CCUs PROVE Own(v, n + 1)' \o f[blocks'[n + 1].prev][v] \in Seq(Docs)
      <3>1. blocks'[n + 1] \in Batch
        BY <1>2, <1>3 DEF TypeOK
      <3>2. Own(v, n + 1)' \in Seq(Docs)
        BY <3>1 DEF Own, Batch
      <3>3. f[blocks'[n + 1].prev][v] \in Seq(Docs)
        BY <1>2
      <3>4. QED
        BY <3>2, <3>3
    <2>2. Turn(f, n + 1)' \in [CCUs -> Seq(Docs)]
      BY <1>2, <2>1 DEF Turn, NoCid
    <2>3. QED
      BY <1>4, <1>7, <2>2
  <1>10. OneWalk'
    BY <1>2, <1>8, <1>9, <1>t DEF OneWalk
  <1>11. ReadableIsWalk'
    BY <1>10, ReadableWalks, PTL
  <1>12. Readable' = F
    BY <1>9, <1>11 DEF ReadableIsWalk
  <1>13. QED
    BY <1>n, <1>1, <1>7, <1>10, <1>12

LEMMA NextOneWalk ==
    ASSUME IInv, OneWalk, [Next]_vars
    PROVE  OneWalk' /\ \A c \in 0..Len(blocks) : Readable'[c] = Readable[c]
  <1>1. CASE \E u \in CCUs : AddBatch(u)
    BY <1>1, AddBatchWalk
  <1>2. CASE ~\E u \in CCUs : AddBatch(u)
    <2>1. blocks' = blocks
      BY <1>2, OnlyAddBatch
    <2>2. \A g : Walks(g)' <=> Walks(g)
      BY <2>1 DEF Walks, Turn, Own
    <2>3. OneWalk'
      BY <2>1, <2>2 DEF OneWalk
    <2>4. ReadableIsWalk /\ ReadableIsWalk'
      BY <2>3, ReadableWalks, PTL
    <2>5. PICK f : f = Readable
      OBVIOUS
    <2>6. PICK g : g = Readable'
      OBVIOUS
    <2>7. Walks(f) /\ Walks(g)'
      BY <2>4, <2>5, <2>6 DEF ReadableIsWalk
    <2>8. g = f
      BY <2>2, <2>4, <2>5, <2>7 DEF ReadableIsWalk
    <2>9. QED
      BY <2>3, <2>5, <2>6, <2>8
  <1>3. QED
    BY <1>1, <1>2

LEMMA ReadableEquation ==
    ASSUME IInv, OneWalk, NEW u \in CCUs
    PROVE  /\ \A c \in Cids \cup {NoCid} : Readable[c][u] \in Seq(Docs)
           /\ Readable[NoCid][u] = <<>>
           /\ \A c \in Cids : Readable[c][u] = Own(u, c) \o Readable[blocks[c].prev][u]
  <1>1. PICK f : f = Readable
    OBVIOUS
  <1>2. f \in [0..Len(blocks) -> [CCUs -> Seq(Docs)]] /\ f = [c \in 0..Len(blocks) |-> Turn(f, c)]
    BY <1>1, ReadableWalks DEF ReadableIsWalk, Walks
  <1>3. 0..Len(blocks) = Cids \cup {NoCid} /\ NoCid \notin Cids
    BY DEF IInv, TypeOK, Cids, NoCid
  <1>4. Readable[NoCid][u] = <<>>
    BY <1>1, <1>2, <1>3 DEF Turn
  <1>5. ASSUME NEW c \in Cids \cup {NoCid} PROVE Readable[c][u] \in Seq(Docs)
    BY <1>1, <1>2, <1>3
  <1>6. ASSUME NEW c \in Cids PROVE f[c][u] = Own(u, c) \o f[blocks[c].prev][u]
    <2>1. f[c] = Turn(f, c) /\ c # NoCid
      BY <1>2, <1>3
    <2>2. QED
      BY <2>1 DEF Turn
  <1>7. QED
    BY <1>1, <1>4, <1>5, <1>6

(* Who does not read has no results.                                       *)
Blank == \A u \in CCUs : pc[u] # "fetch" => result[u] = <<>>

LEMMA StepBlank ==
    ASSUME IInv, Blank, [Next]_vars
    PROVE  Blank'
  <1>1. ASSUME NEW u \in CCUs, Leave(u) PROVE Blank'
    BY <1>1 DEF IInv, TypeOK, Leave, Blank
  <1>2. ASSUME NEW u \in CCUs, pc[u] # "fetch", UploadReturns(u) PROVE Blank'
    BY <1>1, <1>2 DEF IInv, TypeOK, UploadReturns, Blank
  <1>3. ASSUME NEW u \in CCUs, pc[u] # "fetch",
               \E p \in {"resolve", "add", "publish", "wait", "fetch"} : pc' = [pc EXCEPT ![u] = p],
               result' = result
        PROVE  Blank'
    BY <1>3 DEF IInv, TypeOK, Blank
  <1>4. ASSUME NEW u \in CCUs, FetchBatch(u) PROVE Blank'
    BY <1>4 DEF IInv, TypeOK, FetchBatch, Blank
  <1>5. ASSUME UNCHANGED <<pc, result>> PROVE Blank'
    BY <1>5 DEF Blank
  <1>6. ASSUME NEW u \in CCUs, Step(u) PROVE Blank'
    BY <1>1, <1>2, <1>3, <1>4, <1>6 DEF Step, ResolvePrev, AddBatch, StartPublish, PublishReturns,
       FinishRead
  <1>7. ASSUME NEW u \in CCUs, Fault(u) PROVE Blank'
    BY <1>1, <1>2, <1>3, <1>7 DEF Fault, SkipUpload, ResolvePrevError, AddBatchError, FetchError, Crash
  <1>8. ASSUME NEW u \in CCUs, NEW d \in Docs, BeginWrite(u, d) PROVE Blank'
    BY <1>3, <1>8 DEF BeginWrite
  <1>9. ASSUME NEW u \in CCUs, NEW l \in Logs, BeginRead(u, l) PROVE Blank'
    BY <1>3, <1>9 DEF BeginRead
  <1>10. QED
    BY <1>5, <1>6, <1>7, <1>8, <1>9 DEF Next, vars, ccuVars, PublishDone, PublishError

LEMMA StepSnapshot ==
    ASSUME IInv, OnLog, OneWalk, Blank, ReadIsSnapshot, [Next]_vars
    PROVE  ReadIsSnapshot'
  <1> SUFFICES ASSUME NEW v \in CCUs, pc'[v] = "fetch"
               PROVE  result'[v] \o Readable'[cid'[v]][v] = Readable'[start'[v]][v]
    BY DEF ReadIsSnapshot
  <1>1. 0..Len(blocks) = Cids \cup {NoCid}
    BY DEF IInv, TypeOK, Cids, NoCid
  <1>2. \A c \in Cids \cup {NoCid} : Readable'[c] = Readable[c]
    BY <1>1, NextOneWalk
  <1>3. CASE \E l \in Logs : BeginRead(v, l)
    <2>1. result'[v] = <<>> /\ cid'[v] = start'[v] /\ cid'[v] \in Cids
      BY <1>3 DEF IInv, TypeOK, WellLinked, BeginRead, Blank
    <2>2. Readable[cid'[v]][v] \in Seq(Docs)
      BY <2>1, ReadableEquation
    <2>3. QED
      BY <1>2, <2>1, <2>2
  <1>4. CASE FetchBatch(v)
    <2> DEFINE c == cid[v]
    <2>1. /\ pc[v] = "fetch" /\ cid'[v] = blocks[c].prev /\ start'[v] = start[v]
          /\ result'[v] = IF blocks[c].seed = SeedOf[v] THEN Append(result[v], blocks[c].doc)
                          ELSE result[v]
      BY <1>4 DEF IInv, TypeOK, FetchBatch
    <2>2. c \in Cids /\ start[v] \in Cids /\ blocks[c].prev \in Cids \cup {NoCid}
      BY <1>4, <2>1 DEF IInv, Known, FetchBatch, OnLog, PublishedIn, WellLinked
    <2>3. result[v] \in Seq(Docs) /\ blocks[c].doc \in Docs /\ Own(v, c) \in Seq(Docs)
      BY <2>2, BlockFacts, OwnType DEF IInv, TypeOK
    <2>4. result'[v] = result[v] \o Own(v, c)
      BY <2>1, <2>3, AppendIsConcat, ConcatEmptySeq DEF Own
    <2>5. Readable[c][v] = Own(v, c) \o Readable[blocks[c].prev][v]
          /\ Readable[blocks[c].prev][v] \in Seq(Docs)
      BY <2>2, ReadableEquation
    <2>6. result[v] \o Readable[c][v] = Readable[start[v]][v]
      BY <2>1 DEF ReadIsSnapshot
    <2>7. (result[v] \o Own(v, c)) \o Readable[blocks[c].prev][v] = Readable[start[v]][v]
      <3>1. (result[v] \o Own(v, c)) \o Readable[blocks[c].prev][v]
               = result[v] \o (Own(v, c) \o Readable[blocks[c].prev][v])
        <4>1. \A s, t, w \in Seq(Docs) : (s \o t) \o w = s \o (t \o w)
          BY ConcatAssociative
        <4>2. QED
          BY <2>3, <2>5, <4>1
      <3>2. QED
        BY <2>5, <2>6, <3>1
    <2>8. QED
      BY <1>2, <2>1, <2>2, <2>4, <2>7
  <1>5. CASE /\ pc[v] = "fetch" /\ cid'[v] = cid[v]
             /\ start'[v] = start[v] /\ result'[v] = result[v]
    <2>1. cid[v] \in Cids \cup {NoCid} /\ start[v] \in Cids
      BY <1>5 DEF IInv, Known, OnLog, PublishedIn
    <2>2. QED
      BY <1>2, <1>5, <2>1 DEF ReadIsSnapshot
  <1>6. QED
    BY <1>3, <1>4, <1>5, ReaderSteps

ReadersInv == IInv /\ OnLog /\ OneWalk /\ Blank /\ ReadIsSnapshot

LEMMA ReadersInvariance == Spec => []ReadersInv
  <1>1. Init => ReadersInv
    BY InitIInv, InitOneWalk DEF Init, ReadersInv, OnLog, Blank, ReadIsSnapshot
  <1>2. ReadersInv /\ [Next]_vars => ReadersInv'
    BY NextIInv, StepOnLog, NextOneWalk, StepBlank, StepSnapshot DEF ReadersInv
  <1>3. QED
    BY <1>1, <1>2, PTL DEF Spec

(* DecryptLinkedLog returns the version of the log whose head it resolved, *)
(* for any number of blocks, CCUs and seeds, and whatever others add and   *)
(* publish while it reads.                                                 *)
THEOREM ReadsSnapshot == Spec => []ReadIsSnapshot
  <1>1. ReadersInv => ReadIsSnapshot
    BY DEF ReadersInv
  <1>2. QED
    BY <1>1, ReadersInvariance, PTL
=============================================================================
