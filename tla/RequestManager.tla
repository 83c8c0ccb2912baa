--------------------------- MODULE RequestManager ---------------------------
(***************************************************************************)
(* The middleware (src/queue/request_manager.go), the two Redis lists it   *)
(* uses and the queue loop of the confidential computation units, CCUs     *)
(* (readQueue in src/tee/receiver/tee_receiver.go, the same code in        *)
(* src/teeserver/receiver/teeserver_receiver.go).                          *)
(*                                                                         *)
(* The middleware runs one goroutine per TCP connection: handleClient.  A  *)
(* connection carries one request, so a connection also names its request  *)
(* here.  What the code calls client_id is the remote address of the       *)
(* connection, and addresses, unlike connections, are used again.          *)
(*                                                                         *)
(* The lists are filled with LPUSH and emptied with BRPOP, hence FIFO: a   *)
(* list is a sequence whose head is the element BRPOP returns.  A Redis    *)
(* command whose call returns an error may have been executed or not, and  *)
(* the client library, go-redis, sends a command again when the reply is   *)
(* lost, which may execute it twice.  It may do so several times; here     *)
(* there is at most one such LPUSH per request, of it or of its response.  *)
(*                                                                         *)
(* The JSON error paths after a pop (`continue') cannot be taken: only     *)
(* these two programs write to the lists, and both write json.Marshal's    *)
(* output.                                                                 *)
(***************************************************************************)
EXTENDS Naturals, Sequences, FiniteSets

CONSTANTS
    Conns,      \* TCP connections made over the life of the system
    Addrs,      \* remote addresses, conn.RemoteAddr().String()
    CCUs,       \* processes that run readQueue
    MaxResent,  \* bound: requests that go-redis sends again
    NoReq,      \* no request
    NoAddr      \* address of a connection not made yet

ASSUME SentinelAssumption == NoReq \notin Conns /\ NoAddr \notin Addrs

VARIABLES
    handler,        \* handler[c]: where the goroutine of c stands
    clientID,       \* clientID[c]: remote address of c
    got,            \* got[c]: the request whose response was written to c
    left,           \* connections whose client went away before their
                    \* goroutine returned
    requestQueue,   \* Redis list "request_queue"
    responseQueue,  \* Redis list "response_queue"
    up,             \* up[u]: the process of CCU u runs
    working,        \* working[u]: the payload u has popped, or none
    stage,          \* history: where the request of c is on its way
    arrivals,       \* history: the requests in the order they were queued
    mispopped,      \* history: requests whose response another goroutine
                    \* popped while their own goroutine was polling
    resent          \* history: requests that were queued, or their response,
                    \* by a command that the library sent again

mwVars    == <<handler, clientID, got, left>>
redisVars == <<requestQueue, responseQueue>>
ccuVars   == <<up, working>>
histVars  == <<stage, arrivals, mispopped, resent>>
vars      == <<mwVars, redisVars, ccuVars, histVars>>

-----------------------------------------------------------------------------
(* An element of either list: the client_id it is marked with and the      *)
(* request it holds, or answers.                                           *)
Payload == [client_id : Addrs, req : Conns]

(* The working slot of a CCU that waits in BRPOP.                          *)
Nothing == [client_id |-> NoAddr, req |-> NoReq]

HandlerStates == {"none", "reading", "polling", "closed"}
Stages == {"none", "queued", "taken", "answered", "gone"}

Live(c) == handler[c] \in {"reading", "polling"}

TypeOK ==
    /\ handler \in [Conns -> HandlerStates]
    /\ clientID \in [Conns -> Addrs \cup {NoAddr}]
    /\ got \in [Conns -> Conns \cup {NoReq}]
    /\ left \subseteq Conns
    /\ requestQueue \in Seq(Payload)
    /\ responseQueue \in Seq(Payload)
    /\ up \in [CCUs -> BOOLEAN]
    /\ working \in [CCUs -> Payload \cup {Nothing}]
    /\ stage \in [Conns -> Stages]
    /\ arrivals \in Seq(Conns)
    /\ mispopped \subseteq Conns
    /\ resent \subseteq Conns

Init ==
    /\ handler = [c \in Conns |-> "none"]
    /\ clientID = [c \in Conns |-> NoAddr]
    /\ got = [c \in Conns |-> NoReq]
    /\ left = {}
    /\ requestQueue = <<>>
    /\ responseQueue = <<>>
    /\ up = [u \in CCUs |-> TRUE]
    /\ working = [u \in CCUs |-> Nothing]
    /\ stage = [c \in Conns |-> "none"]
    /\ arrivals = <<>>
    /\ mispopped = {}
    /\ resent = {}

-----------------------------------------------------------------------------
(* Middleware.                                                             *)

(* The goroutine of c returns; `defer conn.Close()' closes the connection. *)
Return(c) == handler' = [handler EXCEPT ![c] = "closed"]

(* listener.Accept returns a connection and a goroutine is started for it. *)
(* A client can use its address again as soon as its first connection is   *)
(* gone on its own side; the goroutine of that one may still poll.         *)
Accept(c, a) ==
    /\ handler[c] = "none"
    /\ \A d \in Conns : Live(d) /\ clientID[d] = a => d \in left
    /\ handler' = [handler EXCEPT ![c] = "reading"]
    /\ clientID' = [clientID EXCEPT ![c] = a]
    /\ UNCHANGED <<got, left, redisVars, ccuVars, histVars>>

(* The client of c closes the connection, or is gone.  A goroutine that    *)
(* polls does not read from it and does not notice.                        *)
ClientLeaves(c) ==
    /\ Live(c)
    /\ c \notin left
    /\ left' = left \cup {c}
    /\ UNCHANGED <<handler, clientID, got, redisVars, ccuVars, histVars>>

(* The length prefix or the payload cannot be read, or is no JSON: return  *)
(* with nothing written.                                                   *)
ReadFail(c) ==
    /\ handler[c] = "reading"
    /\ c \notin resent
    /\ Return(c)
    /\ UNCHANGED <<clientID, got, left, redisVars, ccuVars, histVars>>

(* Mutant: the request is pushed without its client_id.                    *)
PushRequest_NoClientID(c) ==
    /\ requestQueue' = Append(requestQueue, [client_id |-> NoAddr, req |-> c])
    /\ stage' = [stage EXCEPT ![c] = "queued"]
    /\ arrivals' = Append(arrivals, c)

(* LPUSH of the request, marked with the address of its connection.        *)
PushRequest(c) ==
    /\ requestQueue' = Append(requestQueue, [client_id |-> clientID[c], req |-> c])
    /\ stage' = [stage EXCEPT ![c] = "queued"]
    /\ arrivals' = Append(arrivals, c)

(* The payload is read and pushed; "Request received and queued." is       *)
(* written and the goroutine starts to poll.                               *)
Enqueue(c) ==
    /\ handler[c] = "reading"
    /\ PushRequest(c)
    /\ handler' = [handler EXCEPT ![c] = "polling"]
    /\ UNCHANGED <<clientID, got, left, responseQueue, ccuVars, mispopped, resent>>

MayResend(c) == c \notin resent /\ Cardinality(resent) < MaxResent

(* LPUSH queues the request, its reply is lost, and go-redis sends it      *)
(* again: the call has not returned yet.                                   *)
EnqueueLost(c) ==
    /\ handler[c] = "reading"
    /\ MayResend(c)
    /\ PushRequest(c)
    /\ resent' = resent \cup {c}
    /\ UNCHANGED <<mwVars, responseQueue, ccuVars, mispopped>>

(* LPUSH returns an error: "Failed to enqueue request." is written, which  *)
(* the request may outlive in the list if only the reply was lost.         *)
EnqueueFail(c) ==
    /\ handler[c] = "reading"
    /\ Return(c)
    /\ PushRequest(c) \/ UNCHANGED <<requestQueue, stage, arrivals>>
    /\ UNCHANGED <<clientID, got, left, responseQueue, ccuVars, mispopped, resent>>

(* BRPOP returns the response at the head of the list to the goroutine of  *)
(* c.  `mispopped' records what happens to it when it is somebody else's.  *)
PopResponse(c, r) ==
    /\ handler[c] = "polling"
    /\ responseQueue # <<>>
    /\ r = Head(responseQueue)
    /\ responseQueue' = Tail(responseQueue)
    /\ stage' = [stage EXCEPT ![r.req] = "gone"]
    /\ mispopped' = IF r.req # c /\ handler[r.req] = "polling"
                    THEN mispopped \cup {r.req} ELSE mispopped
    /\ UNCHANGED <<clientID, left, requestQueue, ccuVars, arrivals, resent>>

(* Mutant: the client_id of the response is not compared.                  *)
Deliver_Unmatched(c) ==
    \E r \in Payload :
        /\ PopResponse(c, r)
        /\ Return(c)
        /\ got' = [got EXCEPT ![c] = r.req]

(* Mutant: no return after the response is written.                        *)
Deliver_NoReturn(c) ==
    \E r \in Payload :
        /\ PopResponse(c, r)
        /\ r.client_id = clientID[c]
        /\ got' = [got EXCEPT ![c] = r.req]
        /\ UNCHANGED <<handler>>

(* The response carries the client_id of c: it is written and the          *)
(* goroutine returns.                                                      *)
Deliver(c) ==
    \E r \in Payload :
        /\ PopResponse(c, r)
        /\ r.client_id = clientID[c]
        /\ Return(c)
        /\ got' = [got EXCEPT ![c] = r.req]

(* The response carries another client_id: it is logged, dropped, and      *)
(* BRPOP is called again.                                                  *)
Mismatch(c) ==
    \E r \in Payload :
        /\ PopResponse(c, r)
        /\ r.client_id # clientID[c]
        /\ UNCHANGED <<handler, got>>

(* Mutant: a timeout is followed by another BRPOP instead of a return.     *)
PollTimeout_Retry(c) ==
    /\ handler[c] = "polling"
    /\ responseQueue = <<>>
    /\ UNCHANGED vars

(* BRPOP found the list empty for 30 seconds: "Timeout waiting for         *)
(* response." is written.                                                  *)
PollTimeout(c) ==
    /\ handler[c] = "polling"
    /\ responseQueue = <<>>
    /\ Return(c)
    /\ UNCHANGED <<clientID, got, left, redisVars, ccuVars, histVars>>

(* BRPOP returns another error, which the code does not tell apart from a  *)
(* timeout; the reply that was lost may have carried a response.           *)
PollError(c) ==
    /\ handler[c] = "polling"
    /\ responseQueue # <<>>
    /\ Return(c)
    /\ \/ UNCHANGED <<responseQueue, stage>>
       \/ /\ responseQueue' = Tail(responseQueue)
          /\ stage' = [stage EXCEPT ![Head(responseQueue).req] = "gone"]
    /\ UNCHANGED <<clientID, got, left, requestQueue, ccuVars, arrivals, mispopped, resent>>

(* The reply to BRPOP, and the response in it, are lost; go-redis sends    *)
(* BRPOP again and the goroutine keeps waiting.                            *)
PollLost(c) ==
    /\ handler[c] = "polling"
    /\ responseQueue # <<>>
    /\ responseQueue' = Tail(responseQueue)
    /\ stage' = [stage EXCEPT ![Head(responseQueue).req] = "gone"]
    /\ UNCHANGED <<mwVars, requestQueue, ccuVars, arrivals, mispopped, resent>>

(* The middleware process ends and is started again: its goroutines and    *)
(* connections are gone, the Redis lists are not.                          *)
Restart ==
    /\ \E c \in Conns : Live(c)
    /\ handler' = [c \in Conns |-> IF Live(c) THEN "closed" ELSE handler[c]]
    /\ UNCHANGED <<clientID, got, left, redisVars, ccuVars, histVars>>

-----------------------------------------------------------------------------
(* CCUs.                                                                   *)

(* Mutant: the list is emptied at the end it is filled at (BLPOP).         *)
PopRequest_Newest(u) ==
    /\ up[u] /\ working[u] = Nothing
    /\ requestQueue # <<>>
    /\ LET n == Len(requestQueue) IN
        /\ requestQueue' = SubSeq(requestQueue, 1, n - 1)
        /\ working' = [working EXCEPT ![u] = requestQueue[n]]
        /\ stage' = [stage EXCEPT ![requestQueue[n].req] = "taken"]
    /\ UNCHANGED <<mwVars, responseQueue, up, arrivals, mispopped, resent>>

(* Mutant: a lone request is left in the list.                             *)
PopRequest_NotLast(u) ==
    /\ up[u] /\ working[u] = Nothing
    /\ Len(requestQueue) > 1
    /\ requestQueue' = Tail(requestQueue)
    /\ working' = [working EXCEPT ![u] = Head(requestQueue)]
    /\ stage' = [stage EXCEPT ![Head(requestQueue).req] = "taken"]
    /\ UNCHANGED <<mwVars, responseQueue, up, arrivals, mispopped, resent>>

(* BRPOP with no timeout hands the oldest request to a waiting CCU.        *)
PopRequest(u) ==
    /\ up[u] /\ working[u] = Nothing
    /\ requestQueue # <<>>
    /\ requestQueue' = Tail(requestQueue)
    /\ working' = [working EXCEPT ![u] = Head(requestQueue)]
    /\ stage' = [stage EXCEPT ![Head(requestQueue).req] = "taken"]
    /\ UNCHANGED <<mwVars, responseQueue, up, arrivals, mispopped, resent>>

(* BRPOP returns an error after it has removed the request: the loop goes  *)
(* on without it.                                                          *)
PopRequestError(u) ==
    /\ up[u] /\ working[u] = Nothing
    /\ requestQueue # <<>>
    /\ requestQueue' = Tail(requestQueue)
    /\ stage' = [stage EXCEPT ![Head(requestQueue).req] = "gone"]
    /\ UNCHANGED <<mwVars, responseQueue, ccuVars, arrivals, mispopped, resent>>

(* Mutant: the request is kept and handled again after its response.       *)
PushResponse_Again(u) ==
    /\ up[u] /\ working[u] # Nothing
    /\ responseQueue' = Append(responseQueue, working[u])
    /\ stage' = [stage EXCEPT ![working[u].req] = "answered"]
    /\ UNCHANGED <<mwVars, requestQueue, ccuVars, arrivals, mispopped, resent>>

(* handleFunction has returned, whatever its outcome; its text is pushed   *)
(* with the client_id the request came with.                               *)
PushResponse(u) ==
    /\ up[u] /\ working[u] # Nothing
    /\ responseQueue' = Append(responseQueue, working[u])
    /\ stage' = [stage EXCEPT ![working[u].req] = "answered"]
    /\ working' = [working EXCEPT ![u] = Nothing]
    /\ UNCHANGED <<mwVars, requestQueue, up, arrivals, mispopped, resent>>

(* LPUSH queues the response, its reply is lost, and go-redis sends it     *)
(* again.                                                                  *)
PushResponseLost(u) ==
    /\ up[u] /\ working[u] # Nothing
    /\ MayResend(working[u].req)
    /\ responseQueue' = Append(responseQueue, working[u])
    /\ resent' = resent \cup {working[u].req}
    /\ UNCHANGED <<mwVars, requestQueue, ccuVars, stage, arrivals, mispopped>>

(* LPUSH of the response returns an error: it is logged and the next       *)
(* request popped.                                                         *)
PushResponseError(u) ==
    /\ up[u] /\ working[u] # Nothing
    /\ working' = [working EXCEPT ![u] = Nothing]
    /\ stage' = [stage EXCEPT ![working[u].req] = "gone"]
    /\ UNCHANGED <<mwVars, redisVars, up, arrivals, mispopped, resent>>

(* The process of u ends, for one by GetKey's os.Exit when the seed file   *)
(* is missing; the request it works on goes with it.                       *)
Crash(u) ==
    /\ up[u]
    /\ up' = [up EXCEPT ![u] = FALSE]
    /\ working' = [working EXCEPT ![u] = Nothing]
    /\ stage' = IF working[u] = Nothing THEN stage
                ELSE [stage EXCEPT ![working[u].req] = "gone"]
    /\ UNCHANGED <<mwVars, redisVars, arrivals, mispopped, resent>>

(* The operator starts u again.                                            *)
Boot(u) ==
    /\ ~up[u]
    /\ up' = [up EXCEPT ![u] = TRUE]
    /\ UNCHANGED <<mwVars, redisVars, working, histVars>>

-----------------------------------------------------------------------------
Poll(c) == Deliver(c) \/ Mismatch(c) \/ PollTimeout(c)

Middleware ==
    \E c \in Conns :
        \/ (\E a \in Addrs : Accept(c, a)) \/ ClientLeaves(c)
        \/ ReadFail(c) \/ Enqueue(c) \/ EnqueueLost(c) \/ EnqueueFail(c)
        \/ Poll(c) \/ PollError(c) \/ PollLost(c)

CCU ==
    \E u \in CCUs :
        \/ PopRequest(u) \/ PopRequestError(u)
        \/ PushResponse(u) \/ PushResponseLost(u) \/ PushResponseError(u)
        \/ Crash(u) \/ Boot(u)

Next == Middleware \/ Restart \/ CCU

Spec == Init /\ [][Next]_vars

(* A polling goroutine runs, and its BRPOP returns within 30 seconds; a    *)
(* running CCU pops what is queued and finishes what it has popped.  A     *)
(* client need not send anything and nobody need restart a CCU.            *)
FairSpec ==
    /\ Spec
    /\ \A c \in Conns : WF_vars(Poll(c))
    /\ \A u \in CCUs : WF_vars(PopRequest(u)) /\ WF_vars(PushResponse(u))

-----------------------------------------------------------------------------
(* Properties.                                                             *)

(* The copies of the request of c that any process can still act on.       *)
Copies(c) ==
    {<<"request", i>> : i \in {j \in 1..Len(requestQueue) : requestQueue[j].req = c}}
    \cup {<<"ccu", u>> : u \in {v \in CCUs : working[v].req = c}}
    \cup {<<"response", i>> : i \in {j \in 1..Len(responseQueue) : responseQueue[j].req = c}}

(* A request is handled at most once and answered at most once, whichever  *)
(* CCUs and goroutines race for it and wherever they fail, unless go-redis *)
(* sent it, or its response, again: there is never a second copy of it,    *)
(* none is left once its response was written to a connection, and no two  *)
(* connections were given its response.                                    *)
SingleCopy ==
    \A r \in Conns \ resent :
        /\ \A x, y \in Copies(r) : x = y
        /\ \A c \in Conns : got[c] = r => Copies(r) = {}
        /\ \A c, d \in Conns : got[c] = r /\ got[d] = r => c = d

(* handleClient compares addresses, not connections, and an address may be *)
(* used again while the goroutine of a client that is gone still polls.  A *)
(* response can therefore be written to a connection other than the one    *)
(* that asked, but clients that are still there are not mixed up: of two   *)
(* such connections, both from one address, the client of the one that     *)
(* asked had gone or been let go by its goroutine, or the client of the    *)
(* one that was written to had gone before.                                *)
ResponseAddressed ==
    \A c \in Conns : got[c] \notin {NoReq, c} =>
        /\ clientID[got[c]] = clientID[c]
        /\ handler[got[c]] = "closed" \/ got[c] \in left \/ c \in left

(* LPUSH and BRPOP keep arrival order through all failures: what is in the *)
(* request list is the latest part of what was queued, in the order it was *)
(* queued, so no request overtakes an older one on its way to a CCU.       *)
ArrivalOrder ==
    LET taken == Len(arrivals) - Len(requestQueue) IN
    /\ taken >= 0
    /\ \A i \in 1..Len(requestQueue) : requestQueue[i].req = arrivals[taken + i]

(* The requests in a list, those CCUs work on, and all that some process   *)
(* can still act on.                                                       *)
Requests(q) == {q[i].req : i \in 1..Len(q)}

Held == {working[u].req : u \in {v \in CCUs : working[v] # Nothing}}

InTransit == Requests(requestQueue) \cup Requests(responseQueue) \cup Held

StatusOf(h) ==
    CASE h = "none"    -> "new"
      [] h = "reading" -> "open"
      [] h = "polling" -> "waiting"
      [] h = "closed"  -> "done"

Service == INSTANCE RequestReply WITH
    status <- [c \in Conns |-> StatusOf(handler[c])],
    from <- clientID,
    reply <- got,
    pending <- InTransit,
    repeated <- resent

(* Middleware, lists and CCUs together keep the promise of RequestReply.   *)
ImplementsRequestReply == Service!Spec

(* Every goroutine that polls returns, by a response, a timeout or a       *)
(* restart: the responses of others that restart its 30 second wait are    *)
(* finitely many when the requests are.                                    *)
HandlerReturns == \A c \in Conns : handler[c] = "polling" ~> handler[c] = "closed"

(* With one CCU that keeps running, no queued request stays in the list,   *)
(* sent once or twice, whatever the other CCUs do.                         *)
QueuedIsTaken ==
    (\E u \in CCUs : <>[]up[u]) =>
        \A c \in Conns : c \in Requests(requestQueue) ~> c \notin Requests(requestQueue)

(* "Handle the client request and response in a single goroutine": the     *)
(* response to a request whose goroutine polls for it is popped by that    *)
(* goroutine.                                                              *)
SingleGoroutine == mispopped = {}
=============================================================================
