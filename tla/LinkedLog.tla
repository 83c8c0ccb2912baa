----------------------------- MODULE LinkedLog -----------------------------
(***************************************************************************)
(* The encrypted logs that the CCUs keep on IPFS: EncryptAndUploadLinked-  *)
(* Bytes and DecryptLinkedLog (src/utils/interfaceISGoMiddleware/ISGon.go) *)
(* over the calls of src/utils/ipfs/ipfs.go, as the handlers of            *)
(* src/tee/receiver/desobj.go run them.                                    *)
(*                                                                         *)
(* A batch is an immutable IPFS block that names the block before it; the  *)
(* newest block of a log is what an IPNS name resolves to.  A write        *)
(* handler appends one batch to the log of the full records and then one   *)
(* to the log of the light records.  A CCU handles one request at a time,  *)
(* but several CCUs share the logs, and publishing a name outlives the     *)
(* call that started it: UploadToIPNS returns after 100 microseconds and   *)
(* its goroutine goes on.                                                  *)
(*                                                                         *)
(* Content identifiers are numbered in the order the blocks are added,     *)
(* which is all that is used of them: fresh randomness makes each batch a  *)
(* new block, and a block can only name a block that exists.               *)
(***************************************************************************)
EXTENDS Naturals, Sequences

CONSTANTS
    CCUs,           \* processes that handle requests
    Docs,           \* documents to write, each in one request
    NoDoc,          \* no document
    Seeds,          \* seeds a CCU may have sealed
    SeedOf,         \* SeedOf[u]: the seed of u
    ResolveMs,      \* milliseconds an IPNS resolution may take
    PublishUs,      \* microseconds an IPNS publication may take
    Faults          \* whether a CCU may crash and a resolution may fail

ASSUME SeedAssumption == SeedOf \in [CCUs -> Seeds]
ASSUME DocAssumption == NoDoc \notin Docs
ASSUME LatencyAssumption ==
    ResolveMs \subseteq Nat /\ PublishUs \subseteq Nat /\ Faults \in BOOLEAN

VARIABLES
    blocks,     \* IPFS: blocks[c] is the batch with identifier c
    head,       \* IPNS: the block the name of a log resolves to
    inflight,   \* blocks whose publication is under way
    pc,         \* where the handler of u stands
    log,        \* the log it works on
    doc,        \* the document it writes
    prev,       \* prevCID
    cid,        \* cid: the block added, or the next one to fetch
    slow,       \* UploadToIPNS gives up waiting before it is published
    start,      \* history: the block DecryptLinkedLog started from
    result,     \* results: what DecryptLinkedLog has decrypted
    begun,      \* history: documents a write was started for
    published,  \* history: blocks that were the head of their log
    orderly     \* history: no two writes overlapped, nothing failed or was
                \* late when a write resolved a head, no publication
                \* outlived the write that started it

ipfsVars == <<blocks, head, inflight>>
ccuVars  == <<pc, log, doc, prev, cid, slow, start, result>>
histVars == <<begun, published, orderly>>
vars     == <<ipfsVars, ccuVars, histVars>>

-----------------------------------------------------------------------------
(* "Patient" records under ipnsKey, "PatientLight" under ipnsKey+"Light".  *)
Logs == {"main", "light"}

(* The identifier of no block, "" in the code.                             *)
NoCid == 0

Cids == 1..Len(blocks)

(* A SimpleBatch: its log and seed stand for what can decrypt its entries. *)
Batch == [log : Logs, prev : Nat, doc : Docs, seed : Seeds]

(* ctx timeouts of RetrieveFromIPNS and of UploadToIPNS.                   *)
ResolveTimeout == 10
PublishTimeout == 100

Points == {"idle", "resolve", "add", "publish", "wait", "fetch"}

TypeOK ==
    /\ blocks \in Seq(Batch)
    /\ head \in [Logs -> Nat]
    /\ inflight \subseteq Nat
    /\ pc \in [CCUs -> Points]
    /\ log \in [CCUs -> Logs]
    /\ doc \in [CCUs -> Docs \cup {NoDoc}]
    /\ prev \in [CCUs -> Nat]
    /\ cid \in [CCUs -> Nat]
    /\ slow \in [CCUs -> BOOLEAN]
    /\ start \in [CCUs -> Nat]
    /\ result \in [CCUs -> Seq(Docs)]
    /\ begun \subseteq Docs
    /\ published \subseteq Nat
    /\ orderly \in BOOLEAN

Init ==
    /\ blocks = <<>>
    /\ head = [l \in Logs |-> NoCid]
    /\ inflight = {}
    /\ pc = [u \in CCUs |-> "idle"]
    /\ log = [u \in CCUs |-> "main"]
    /\ doc = [u \in CCUs |-> NoDoc]
    /\ prev = [u \in CCUs |-> NoCid]
    /\ cid = [u \in CCUs |-> NoCid]
    /\ slow = [u \in CCUs |-> FALSE]
    /\ start = [u \in CCUs |-> NoCid]
    /\ result = [u \in CCUs |-> <<>>]
    /\ begun = {}
    /\ published = {}
    /\ orderly = TRUE

-----------------------------------------------------------------------------
(* Writing.                                                                *)

(* The handler is done with its request, or its process is gone: nothing   *)
(* it held matters any more.                                               *)
Leave(u) ==
    /\ pc' = [pc EXCEPT ![u] = "idle"]
    /\ log' = [log EXCEPT ![u] = "main"]
    /\ doc' = [doc EXCEPT ![u] = NoDoc]
    /\ prev' = [prev EXCEPT ![u] = NoCid]
    /\ cid' = [cid EXCEPT ![u] = NoCid]
    /\ slow' = [slow EXCEPT ![u] = FALSE]
    /\ start' = [start EXCEPT ![u] = NoCid]
    /\ result' = [result EXCEPT ![u] = <<>>]

(* EncryptAndUploadLinkedBytes returns, with or without success: the       *)
(* handler does not ask, goes on with the light records and then answers.  *)
UploadReturns(u) ==
    \/ log[u] = "light" /\ Leave(u)
    \/ /\ log[u] = "main"
       /\ pc' = [pc EXCEPT ![u] = "resolve"]
       /\ log' = [log EXCEPT ![u] = "light"]
       /\ prev' = [prev EXCEPT ![u] = NoCid]
       /\ cid' = [cid EXCEPT ![u] = NoCid]
       /\ slow' = [slow EXCEPT ![u] = FALSE]
       /\ UNCHANGED <<doc, start, result>>

(* The handler of u works on a write.                                      *)
Writing(u) == doc[u] # NoDoc

(* WritePatientDataHandler, its checks passed, starts with the full        *)
(* records.                                                                *)
BeginWrite(u, d) ==
    /\ pc[u] = "idle"
    /\ d \notin begun
    /\ begun' = begun \cup {d}
    /\ doc' = [doc EXCEPT ![u] = d]
    /\ pc' = [pc EXCEPT ![u] = "resolve"]
    /\ orderly' = (orderly /\ \A v \in CCUs : ~Writing(v))
    /\ UNCHANGED <<ipfsVars, log, prev, cid, slow, start, result, published>>

(* An early return: no IPNS name on the blockchain, records that do not    *)
(* parse, a failing encryption.                                            *)
SkipUpload(u) ==
    /\ pc[u] = "resolve"
    /\ UploadReturns(u)
    /\ UNCHANGED <<ipfsVars, histVars>>

(* Mutant: the light records are chained to the name of the full ones.     *)
ResolvePrev_MainName(u) ==
    /\ pc[u] = "resolve"
    /\ prev' = [prev EXCEPT ![u] = head["main"]]
    /\ pc' = [pc EXCEPT ![u] = "add"]
    /\ UNCHANGED <<ipfsVars, log, doc, cid, slow, start, result, histVars>>

(* prevCID from RetrieveFromIPNS, which returns "" and no error when the   *)
(* resolution takes longer than its timeout.                               *)
ResolvePrev(u) ==
    /\ pc[u] = "resolve"
    /\ \E ms \in ResolveMs :
        IF ms < ResolveTimeout
        THEN prev' = [prev EXCEPT ![u] = head[log[u]]] /\ UNCHANGED orderly
        ELSE /\ prev' = [prev EXCEPT ![u] = NoCid]
             /\ orderly' = FALSE
    /\ pc' = [pc EXCEPT ![u] = "add"]
    /\ UNCHANGED <<ipfsVars, log, doc, cid, slow, start, result, begun, published>>

(* The resolution fails and prevCID is "" too: its error is ignored.       *)
ResolvePrevError(u) ==
    /\ Faults
    /\ pc[u] = "resolve"
    /\ prev' = [prev EXCEPT ![u] = NoCid]
    /\ pc' = [pc EXCEPT ![u] = "add"]
    /\ orderly' = FALSE
    /\ UNCHANGED <<ipfsVars, log, doc, cid, slow, start, result, begun, published>>

(* Mutant: a batch without entries.                                        *)
AddBatch_Empty(u) ==
    /\ pc[u] = "add"
    /\ blocks' = Append(blocks, [log |-> log[u], prev |-> prev[u],
                                 doc |-> NoDoc, seed |-> SeedOf[u]])
    /\ cid' = [cid EXCEPT ![u] = Len(blocks) + 1]
    /\ pc' = [pc EXCEPT ![u] = "publish"]
    /\ UNCHANGED <<head, inflight, log, doc, prev, slow, start, result, histVars>>

(* UploadToIPFS stores the batch, encrypted with the seed of u.            *)
AddBatch(u) ==
    /\ pc[u] = "add"
    /\ blocks' = Append(blocks, [log |-> log[u], prev |-> prev[u],
                                 doc |-> doc[u], seed |-> SeedOf[u]])
    /\ cid' = [cid EXCEPT ![u] = Len(blocks) + 1]
    /\ pc' = [pc EXCEPT ![u] = "publish"]
    /\ UNCHANGED <<head, inflight, log, doc, prev, slow, start, result, histVars>>

AddBatchError(u) ==
    /\ pc[u] = "add"
    /\ UploadReturns(u)
    /\ UNCHANGED <<ipfsVars, histVars>>

(* UploadToIPNS starts its goroutine and waits for it, but not for long.   *)
StartPublish(u) ==
    /\ pc[u] = "publish"
    /\ inflight' = inflight \cup {cid[u]}
    /\ \E us \in PublishUs :
        /\ slow' = [slow EXCEPT ![u] = us >= PublishTimeout]
        /\ orderly' = (orderly /\ us < PublishTimeout)
    /\ pc' = [pc EXCEPT ![u] = "wait"]
    /\ UNCHANGED <<blocks, head, log, doc, prev, cid, start, result, begun, published>>

(* Mutant: the goroutine publishes its block again and again.              *)
PublishDone_Republish(c) ==
    /\ c \in inflight
    /\ head' = [head EXCEPT ![blocks[c].log] = c]
    /\ published' = published \cup {c}
    /\ UNCHANGED <<blocks, inflight, ccuVars, begun, orderly>>

(* The goroutine is done: the name resolves to its block.  Goroutines of   *)
(* the same name are not ordered.                                          *)
PublishDone(c) ==
    /\ c \in inflight
    /\ inflight' = inflight \ {c}
    /\ head' = [head EXCEPT ![blocks[c].log] = c]
    /\ published' = published \cup {c}
    /\ UNCHANGED <<blocks, ccuVars, begun, orderly>>

PublishError(c) ==
    /\ c \in inflight
    /\ inflight' = inflight \ {c}
    /\ UNCHANGED <<blocks, head, ccuVars, histVars>>

(* Mutant: UploadToIPNS does not wait at all.                              *)
PublishReturns_NoWait(u) ==
    /\ pc[u] = "wait"
    /\ UploadReturns(u)
    /\ UNCHANGED <<ipfsVars, histVars>>


(* UploadToIPNS returns when its goroutine is done, or on its timeout,     *)
(* which counts as success.  An error only changes what is logged.         *)
PublishReturns(u) ==
    /\ pc[u] = "wait"
    /\ slow[u] \/ cid[u] \notin inflight
    /\ UploadReturns(u)
    /\ UNCHANGED <<ipfsVars, histVars>>

-----------------------------------------------------------------------------
(* Reading.                                                                *)

(* DecryptLinkedLog resolves the head.  When that fails, is late or finds  *)
(* nothing it returns an error, and nothing changes.                       *)
BeginRead(u, l) ==
    /\ pc[u] = "idle"
    /\ \E ms \in ResolveMs : ms < ResolveTimeout
    /\ head[l] # NoCid
    /\ pc' = [pc EXCEPT ![u] = "fetch"]
    /\ log' = [log EXCEPT ![u] = l]
    /\ cid' = [cid EXCEPT ![u] = head[l]]
    /\ start' = [start EXCEPT ![u] = head[l]]
    /\ UNCHANGED <<ipfsVars, doc, prev, slow, result, histVars>>

(* Mutant: no `continue' when an entry cannot be decrypted.                *)
FetchBatch_Undecrypted(u) ==
    /\ pc[u] = "fetch"
    /\ cid[u] # NoCid
    /\ result' = [result EXCEPT ![u] = Append(@, blocks[cid[u]].doc)]
    /\ cid' = [cid EXCEPT ![u] = blocks[cid[u]].prev]
    /\ UNCHANGED <<ipfsVars, pc, log, doc, prev, slow, start, histVars>>

(* Mutant: the loop ends after the newest batch.                           *)
FetchBatch_Newest(u) ==
    /\ pc[u] = "fetch"
    /\ cid[u] # NoCid
    /\ LET b == blocks[cid[u]] IN
        result' = [result EXCEPT ![u] = IF b.seed = SeedOf[u] THEN Append(@, b.doc) ELSE @]
    /\ cid' = [cid EXCEPT ![u] = NoCid]
    /\ UNCHANGED <<ipfsVars, pc, log, doc, prev, slow, start, histVars>>

(* One turn of its loop.  Entries that the seed of u does not decrypt are  *)
(* skipped with a warning.                                                 *)
FetchBatch(u) ==
    /\ pc[u] = "fetch"
    /\ cid[u] # NoCid
    /\ LET b == blocks[cid[u]] IN
        /\ result' = [result EXCEPT ![u] = IF b.seed = SeedOf[u] THEN Append(@, b.doc) ELSE @]
        /\ cid' = [cid EXCEPT ![u] = b.prev]
    /\ UNCHANGED <<ipfsVars, pc, log, doc, prev, slow, start, histVars>>

(* A block cannot be fetched: an error is returned.                        *)
FetchError(u) ==
    /\ pc[u] = "fetch"
    /\ cid[u] # NoCid
    /\ Leave(u)
    /\ UNCHANGED <<ipfsVars, histVars>>

(* There is no block left: the results are returned.                       *)
FinishRead(u) ==
    /\ pc[u] = "fetch"
    /\ cid[u] = NoCid
    /\ Leave(u)
    /\ UNCHANGED <<ipfsVars, histVars>>

(* The process of u ends and is started again.  What it published may have *)
(* reached the IPFS node or not.                                           *)
Crash(u) ==
    /\ Faults
    /\ pc[u] # "idle"
    /\ Leave(u)
    /\ orderly' = (orderly /\ ~Writing(u))
    /\ UNCHANGED <<ipfsVars, begun, published>>

-----------------------------------------------------------------------------
Step(u) ==
    \/ ResolvePrev(u) \/ AddBatch(u) \/ StartPublish(u) \/ PublishReturns(u)
    \/ FetchBatch(u) \/ FinishRead(u)

Fault(u) ==
    SkipUpload(u) \/ ResolvePrevError(u) \/ AddBatchError(u) \/ FetchError(u) \/ Crash(u)

Next ==
    \/ \E u \in CCUs : \E d \in Docs : BeginWrite(u, d)
    \/ \E u \in CCUs : \E l \in Logs : BeginRead(u, l)
    \/ \E u \in CCUs : Step(u) \/ Fault(u)
    \/ \E c \in inflight : PublishDone(c) \/ PublishError(c)

Spec == Init /\ [][Next]_vars

-----------------------------------------------------------------------------
(* Properties.                                                             *)

(* Whatever races and fails, the blocks are well linked: a block follows   *)
(* an older, published block of its own log, so that every walk ends and   *)
(* no reader of the light records meets a full one; the name of a log      *)
(* resolves to one of its blocks.                                          *)
WellLinked ==
    /\ \A c \in Cids : blocks[c].prev # NoCid =>
          /\ blocks[c].prev < c
          /\ blocks[c].prev \in published
          /\ blocks[blocks[c].prev].log = blocks[c].log
    /\ \A l \in Logs : head[l] # NoCid =>
          /\ head[l] \in Cids \cap published
          /\ blocks[head[l]].log = l

(* The blocks that were the head of log l.                                 *)
PublishedIn(l) == {c \in published : blocks[c].log = l}

Forked(l) ==
    \E c, d \in PublishedIn(l) : c # d /\ blocks[c].prev = blocks[d].prev

(* A published batch is lost to readers only by a fork, that is, when two  *)
(* batches were put after the same one (or each at the start): as long as  *)
(* no log forks, every block that was ever its head is the head or has a   *)
(* published block after it, however late publications end.                *)
NoLossWithoutFork ==
    \A l \in Logs : ~Forked(l) =>
        \A c \in PublishedIn(l) :
            c = head[l] \/ \E d \in PublishedIn(l) : blocks[d].prev = c

(* The document of block c, if the seed of u decrypts it.                  *)
Own(u, c) == IF blocks[c].seed = SeedOf[u] THEN <<blocks[c].doc>> ELSE <<>>

(* Readable[c][u]: the documents u can decrypt of the version of the log   *)
(* that block c is the newest of, newest first.                            *)
Readable[c \in 0..Len(blocks)] ==
    [u \in CCUs |->
        IF c = NoCid THEN <<>> ELSE Own(u, c) \o Readable[blocks[c].prev][u]]

(* DecryptLinkedLog returns one version of the log, the one whose head it  *)
(* resolved, newest first and without what other seeds encrypted, although *)
(* the log grows, forks and is replaced while it reads.                    *)
ReadIsSnapshot ==
    \A u \in CCUs : pc[u] = "fetch" =>
        result[u] \o Readable[cid[u]][u] = Readable[start[u]][u]

(* As long as writes came one at a time, and all their calls in time, the  *)
(* logs only grow at their end, whichever CCUs wrote and whatever could    *)
(* not be added or published.                                              *)
AppendOnly ==
    [][orderly => \A l \in Logs : head'[l] # head[l] => blocks'[head'[l]].prev = head[l]]_vars
=============================================================================
