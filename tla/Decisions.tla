----------------------------- MODULE Decisions -----------------------------
(***************************************************************************)
(* The handlers of src/tee/receiver/desobj.go as users of the linked logs: *)
(* WritePatientDataHandler, the decision handlers, which read the light    *)
(* records, and PatientPrioritizationWithAggrHandler, which first reads    *)
(* the full records and aggregates them, and then reads the light ones.    *)
(*                                                                         *)
(* Every step on a log is an action of LinkedLog, whose state is the state *)
(* of this module too.  Requests that fail the checks of certificate and   *)
(* policy touch no log and are no steps here.  A document is a file with   *)
(* one record.                                                             *)
(***************************************************************************)
EXTENDS LinkedLog, SequencesExt, TLC

CONSTANT RecordOf   \* RecordOf[d]: the patient's record in document d

(* Of the fields of a record those that the sum of ages concerns; the mean *)
(* goes the same way.                                                      *)
Fields == {"Age", "ConsentFormSigned", "SumAge"}

ASSUME RecordAssumption ==
    \A d \in Docs :
        /\ DOMAIN RecordOf[d] = Fields
        /\ RecordOf[d]["ConsentFormSigned"] \in BOOLEAN
        /\ RecordOf[d]["Age"] \in Nat
        /\ RecordOf[d]["SumAge"] \in Nat

VARIABLES
    request,    \* what the handler of u is to do
    aggregated, \* structSlice: documents whose full records it aggregates
    decided,    \* structSliceForDecision: those whose light ones it decides on
    before,     \* history: documents in both logs when its request began
    alone,      \* history: no write was under way since then
    failed      \* history: a batch was not added, or not published

handlerVars == <<request, aggregated, decided, before, alone, failed>>
allVars == <<vars, handlerVars>>

-----------------------------------------------------------------------------
(* "full" and "light" are the two reads of PatientPrioritizationWithAggr,  *)
(* "plain" the one of the other decisions; "decide" and "decideWithAggr"   *)
(* what follows them.                                                      *)
Requests == {"none", "write", "plain", "decide", "full", "light", "decideWithAggr"}

HandlersTypeOK ==
    /\ TypeOK
    /\ request \in [CCUs -> Requests]
    /\ aggregated \in [CCUs -> Seq(Docs)]
    /\ decided \in [CCUs -> Seq(Docs)]
    /\ before \in [CCUs -> SUBSET Docs]
    /\ alone \in [CCUs -> BOOLEAN]
    /\ failed \in BOOLEAN

HandlersInit ==
    /\ Init
    /\ request = [u \in CCUs |-> "none"]
    /\ aggregated = [u \in CCUs |-> <<>>]
    /\ decided = [u \in CCUs |-> <<>>]
    /\ before = [u \in CCUs |-> {}]
    /\ alone = [u \in CCUs |-> TRUE]
    /\ failed = FALSE

(* Documents that u can read in both logs, if it follows them all.         *)
Stored(u) ==
    {d \in Docs : \A l \in Logs : \E c \in published :
        blocks[c].log = l /\ blocks[c].doc = d /\ blocks[c].seed = SeedOf[u]}

(* The handler of u returns its answer, or its process is gone.            *)
Return(u) ==
    /\ request' = [request EXCEPT ![u] = "none"]
    /\ aggregated' = [aggregated EXCEPT ![u] = <<>>]
    /\ decided' = [decided EXCEPT ![u] = <<>>]
    /\ before' = [before EXCEPT ![u] = {}]
    /\ alone' = [alone EXCEPT ![u] = TRUE]

-----------------------------------------------------------------------------
(* Writing.                                                                *)

WritePatientData(u, d) ==
    /\ request[u] = "none"
    /\ BeginWrite(u, d)
    /\ request' = [request EXCEPT ![u] = "write"]
    /\ alone' = [v \in CCUs |-> alone[v] /\ request[v] \in {"none", "write"}]
    /\ UNCHANGED <<aggregated, decided, before, failed>>

(* The calls of EncryptAndUploadLinkedBytes.                               *)
UploadStep(u) ==
    /\ ResolvePrev(u) \/ ResolvePrevError(u) \/ AddBatch(u) \/ StartPublish(u)
    /\ UNCHANGED handlerVars

(* It returns, and the handler goes on with the light records, or returns. *)
UploadDone(u) ==
    /\ \/ PublishReturns(u) /\ UNCHANGED failed
       \/ (SkipUpload(u) \/ AddBatchError(u)) /\ failed' = TRUE
    /\ IF log[u] = "light" THEN Return(u)
       ELSE UNCHANGED <<request, aggregated, decided, before, alone>>

Publication(c) ==
    /\ \/ PublishDone(c) /\ UNCHANGED failed
       \/ PublishError(c) /\ failed' = TRUE
    /\ UNCHANGED <<request, aggregated, decided, before, alone>>

-----------------------------------------------------------------------------
(* Deciding.                                                               *)

(* What a decision handler reads first.                                    *)
BeginDecision(u, r) ==
    /\ request[u] = "none"
    /\ BeginRead(u, IF r = "full" THEN "main" ELSE "light")
    /\ request' = [request EXCEPT ![u] = r]
    /\ before' = [before EXCEPT ![u] = Stored(u)]
    /\ alone' = [alone EXCEPT ![u] = \A v \in CCUs : request[v] # "write"]
    /\ UNCHANGED <<aggregated, decided, failed>>

Fetch(u) ==
    /\ FetchBatch(u)
    /\ UNCHANGED handlerVars

(* RetrieveStructSliceLinkedLog returns the full records.                  *)
Aggregate(u) ==
    /\ request[u] = "full"
    /\ FinishRead(u)
    /\ aggregated' = [aggregated EXCEPT ![u] = result[u]]
    /\ request' = [request EXCEPT ![u] = "light"]
    /\ UNCHANGED <<decided, before, alone, failed>>

(* The light records are read after the full ones are aggregated.          *)
BeginLight(u) ==
    /\ request[u] = "light"
    /\ BeginRead(u, "light")
    /\ UNCHANGED handlerVars

(* RetrieveStructSliceLinkedLog returns the light records.                 *)
Retrieve(u) ==
    /\ request[u] \in {"plain", "light"}
    /\ FinishRead(u)
    /\ decided' = [decided EXCEPT ![u] = result[u]]
    /\ request' = [request EXCEPT ![u] = IF @ = "plain" THEN "decide" ELSE "decideWithAggr"]
    /\ UNCHANGED <<aggregated, before, alone, failed>>

(* executeMethod: the decision function is called for each record and its  *)
(* results are dropped.                                                    *)
ExecuteMethod(u) ==
    /\ request[u] = "decide"
    /\ Return(u)
    /\ UNCHANGED <<vars, failed>>

(* executeMethodWithAggregation does the same with Inputs, below.          *)
ExecuteMethodWithAggregation(u) ==
    /\ request[u] = "decideWithAggr"
    /\ Return(u)
    /\ UNCHANGED <<vars, failed>>

(* The light records cannot be resolved: "Error: Retrieved data is not a   *)
(* slice".  (A decision whose first read fails like this has done nothing.)*)
LightError(u) ==
    /\ request[u] = "light"
    /\ pc[u] = "idle"
    /\ Return(u)
    /\ UNCHANGED <<vars, failed>>

(* A block cannot be fetched.                                              *)
ReadError(u) ==
    /\ FetchError(u)
    /\ Return(u)
    /\ UNCHANGED failed

(* The process of u ends and is started again.                             *)
ProcessEnds(u) ==
    /\ Faults
    /\ request[u] # "none"
    /\ IF pc[u] = "idle" THEN UNCHANGED vars ELSE Crash(u)
    /\ Return(u)
    /\ UNCHANGED failed

-----------------------------------------------------------------------------
HandlerStep(u) ==
    \/ UploadStep(u) \/ UploadDone(u)
    \/ Fetch(u) \/ Aggregate(u) \/ BeginLight(u) \/ Retrieve(u) \/ LightError(u)
    \/ ExecuteMethod(u) \/ ExecuteMethodWithAggregation(u)

HandlersNext ==
    \/ \E u \in CCUs : \E d \in Docs : WritePatientData(u, d)
    \/ \E u \in CCUs : \E r \in {"plain", "full"} : BeginDecision(u, r)
    \/ \E u \in CCUs : HandlerStep(u) \/ ReadError(u) \/ ProcessEnds(u)
    \/ \E c \in inflight : Publication(c)

HandlersSpec == HandlersInit /\ [][HandlersNext]_allVars

(* The IPFS client sets no limit to Add and Cat: u waits for an answer of  *)
(* its node that may never come.                                           *)
AwaitsNode(u) == pc[u] = "add" \/ (pc[u] = "fetch" /\ cid[u] # NoCid)

(* A publication for which the handler of u is going to wait long enough   *)
(* ends, well or not.                                                      *)
PublicationInTime(u) == pc[u] = "wait" /\ ~slow[u] /\ Publication(cid[u])

(* Handlers run on, but neither need a node answer, nor a publication end  *)
(* that takes longer than its caller waits.                                *)
FairHandlersSpec ==
    /\ HandlersSpec
    /\ \A u \in CCUs : WF_allVars(~AwaitsNode(u) /\ HandlerStep(u))
    /\ \A u \in CCUs : WF_allVars(PublicationInTime(u))

-----------------------------------------------------------------------------
(* What a decision is made from.                                           *)

(* EvaluateFilterCondition of "ConsentFormSigned = true".                  *)
FilteredPatients(docs) == SelectSeq(docs, LAMBDA d : RecordOf[d]["ConsentFormSigned"])

(* The elements it returns are pointers inside interfaces.                 *)
ElementKind == "pointer"

(* NewPerformAggregation.  Of interface and pointer the aggregation takes  *)
(* off one layer; field access of what is left, a pointer, panics, and the *)
(* expression evaluator turns that into an error.  The handler takes the 0 *)
(* that comes with an error, as it does when nothing passes the filter.    *)
Aggregation(elements) ==
    IF elements # <<>> /\ ElementKind = "struct"
    THEN FoldLeft(LAMBDA sum, d : sum + RecordOf[d]["Age"], 0, elements)
    ELSE 0

(* The map Additionals, under the names of the policy.                     *)
Additionals(u) ==
    "sumAge" :> Aggregation(FilteredPatients(aggregated[u]))

(* The arguments of the decision function: CreateInputsFromDataInput takes *)
(* the fields of the record, and MergeMaps puts Additionals over them.     *)
Inputs(u, d) == Additionals(u) @@ RecordOf[d]

-----------------------------------------------------------------------------
(* Properties.                                                             *)

(* Once both logs have a document, a decision that begins then works with  *)
(* it, in both of its reads, on whichever CCU, even if writes and lost     *)
(* publications come in between: as long as writes came one at a time and  *)
(* in time.                                                                *)
StoredIsUsed ==
    orderly => \A u \in CCUs :
        /\ request[u] \in {"decide", "decideWithAggr"} => before[u] \subseteq Range(decided[u])
        /\ request[u] = "decideWithAggr" => before[u] \subseteq Range(aggregated[u])

(* PatientPrioritizationWithAggr decides on the documents it aggregated,   *)
(* in the same order, although it reads two logs at two moments: as long   *)
(* as writes came one at a time, in time and without failures, and none    *)
(* was under way meanwhile.                                                *)
SameDocuments ==
    orderly /\ ~failed => \A u \in CCUs :
        request[u] = "decideWithAggr" /\ alone[u] => aggregated[u] = decided[u]


(* "{filteredPatients: Patient[ConsentFormSigned = true], sumAge:          *)
(* sum(filteredPatients.Age)}": the input SumAge of the decision is the    *)
(* sum of the ages of consenting patients.                                 *)
SumAgeIsSum ==
    \A u \in CCUs : request[u] = "decideWithAggr" =>
        LET sum == FoldLeft(LAMBDA total, d : total + RecordOf[d]["Age"], 0,
                            FilteredPatients(aggregated[u]))
        IN  \A d \in Range(decided[u]) : Inputs(u, d)["SumAge"] = sum
=============================================================================
