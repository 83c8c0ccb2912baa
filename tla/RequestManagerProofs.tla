------------------------ MODULE RequestManagerProofs ------------------------
(***************************************************************************)
(* Proofs about RequestManager for any numbers of connections, addresses   *)
(* and CCUs.  The argument rests on the history variable `stage': it says  *)
(* of each request in which one place a copy of it can be, so that a step  *)
(* that moves a request out of a place leaves none behind.  Of requests    *)
(* that go-redis sent again, only the addresses of their copies are known. *)
(* The last part shows that RequestManager implements RequestReply.        *)
(***************************************************************************)
EXTENDS RequestManager, TLAPS

(* A copy in a place is marked with its request's address, and the stage   *)
(* of its request names the place.                                         *)
Marked ==
    /\ \A i \in 1..Len(requestQueue) :
          /\ requestQueue[i].client_id = clientID[requestQueue[i].req]
          /\ requestQueue[i].req \notin resent => stage[requestQueue[i].req] = "queued"
    /\ \A i \in 1..Len(responseQueue) :
          /\ responseQueue[i].client_id = clientID[responseQueue[i].req]
          /\ responseQueue[i].req \notin resent => stage[responseQueue[i].req] = "answered"
    /\ \A u \in CCUs : working[u] # Nothing =>
          /\ working[u].client_id = clientID[working[u].req]
          /\ working[u].req \notin resent => stage[working[u].req] = "taken"

(* No place holds two copies of one request.                               *)
Distinct ==
    /\ \A i, j \in 1..Len(requestQueue) :
          requestQueue[i].req \notin resent /\ requestQueue[i].req = requestQueue[j].req => i = j
    /\ \A i, j \in 1..Len(responseQueue) :
          responseQueue[i].req \notin resent /\ responseQueue[i].req = responseQueue[j].req => i = j
    /\ \A u, v \in CCUs :
          /\ working[u] # Nothing /\ working[u].req \notin resent
          /\ working[u].req = working[v].req
          => u = v

(* What is known of a connection from where its goroutine stands.          *)
Handlers ==
    /\ \A c \in Conns : handler[c] # "none" <=> clientID[c] \in Addrs
    /\ \A c \in Conns : handler[c] = "none" => c \notin resent
    /\ \A c \in Conns : handler[c] \in {"none", "reading"} /\ c \notin resent => stage[c] = "none"
    /\ \A c \in Conns : handler[c] # "closed" => got[c] = NoReq
    /\ \A c, d \in Conns : Live(c) /\ Live(d) /\ clientID[c] = clientID[d] =>
          c = d \/ c \in left \/ d \in left

(* A response that was written is gone from every place, was written once, *)
(* and to an address it was meant for.                                     *)
Delivered ==
    /\ \A c \in Conns : got[c] # NoReq /\ got[c] \notin resent => stage[got[c]] = "gone"
    /\ \A c, d \in Conns : got[c] = got[d] /\ got[c] \notin resent \cup {NoReq} => c = d
    /\ ResponseAddressed

IInv == TypeOK /\ Marked /\ Distinct /\ Handlers /\ Delivered
-----------------------------------------------------------------------------
(* Facts about lists.                                                      *)

LEMMA PopFacts ==
    ASSUME NEW S, NEW q \in Seq(S), q # <<>>
    PROVE  /\ Head(q) \in S
           /\ Head(q) = q[1]
           /\ Len(q) \in Nat /\ Len(q) > 0
           /\ Tail(q) \in Seq(S)
           /\ Len(Tail(q)) = Len(q) - 1
           /\ \A i \in 1..Len(Tail(q)) : i + 1 \in 1..Len(q) /\ Tail(q)[i] = q[i + 1]
  OBVIOUS

LEMMA PushFacts ==
    ASSUME NEW S, NEW q \in Seq(S), NEW x \in S
    PROVE  /\ Append(q, x) \in Seq(S)
           /\ Len(q) \in Nat
           /\ Len(Append(q, x)) = Len(q) + 1
           /\ Append(q, x)[Len(q) + 1] = x
           /\ \A i \in 1..Len(q) : Append(q, x)[i] = q[i]
           /\ \A i \in 1..Len(Append(q, x)) : i \in 1..Len(q) \/ i = Len(q) + 1
  OBVIOUS

LEMMA ElementFacts ==
    ASSUME NEW q \in Seq(Payload), NEW i \in 1..Len(q)
    PROVE  q[i] \in Payload /\ q[i].req \in Conns
  <1>1. q[i] \in Payload
    OBVIOUS
  <1>2. QED
    BY <1>1 DEF Payload

LEMMA NothingIsNoPayload == Nothing \notin Payload
  BY SentinelAssumption DEF Nothing, Payload

-----------------------------------------------------------------------------
(* Every action preserves the inductive invariant.                         *)

LEMMA InitIInv == Init => IInv
  <1> SUFFICES ASSUME Init PROVE IInv
    OBVIOUS
  <1>1. TypeOK
    BY DEF Init, TypeOK, HandlerStates, Stages
  <1>2. Marked /\ Distinct
    BY DEF Init, Marked, Distinct
  <1>3. Handlers /\ Delivered
    BY SentinelAssumption DEF Init, Handlers, Delivered, ResponseAddressed, Live
  <1>4. QED
    BY <1>1, <1>2, <1>3 DEF IInv

LEMMA AcceptIInv ==
    ASSUME IInv, NEW c \in Conns, NEW a \in Addrs, Accept(c, a)
    PROVE  IInv'
  <1> USE DEF IInv
  <1>1. TypeOK'
    BY DEF TypeOK, Accept, redisVars, ccuVars, histVars, HandlerStates
  <1>2. Marked' /\ Distinct'
    <2>1. \A d \in Conns : stage[d] # "none" \/ d \in resent => clientID'[d] = clientID[d]
      BY DEF TypeOK, Accept, Handlers
    <2>2. QED
      BY <2>1 DEF TypeOK, Marked, Distinct, Accept, redisVars, ccuVars, histVars, Payload
  <1>3. Handlers'
    BY DEF TypeOK, Handlers, Accept, Live, histVars, HandlerStates
  <1>4. Delivered'
    BY SentinelAssumption DEF TypeOK, Handlers, Delivered, ResponseAddressed, Accept, histVars
  <1>5. QED
    BY <1>1, <1>2, <1>3, <1>4

LEMMA ClientLeavesIInv ==
    ASSUME IInv, NEW c \in Conns, ClientLeaves(c)
    PROVE  IInv'
  <1> USE DEF IInv
  <1>1. left' \subseteq Conns /\ left \subseteq left'
    BY DEF TypeOK, ClientLeaves
  <1>2. TypeOK'
    BY <1>1 DEF TypeOK, ClientLeaves, redisVars, ccuVars, histVars
  <1>3. Marked' /\ Distinct'
    BY DEF Marked, Distinct, ClientLeaves, redisVars, ccuVars, histVars
  <1>4. Handlers' /\ Delivered'
    BY <1>1 DEF Handlers, Delivered, ResponseAddressed, ClientLeaves, Live, histVars
  <1>5. QED
    BY <1>2, <1>3, <1>4

(* Goroutines that only return, in ReadFail, PollTimeout and Restart.      *)
LEMMA ReturnIInv ==
    ASSUME IInv,
           handler' \in [Conns -> HandlerStates],
           \A c \in Conns : handler'[c] = handler[c] \/ (Live(c) /\ handler'[c] = "closed"),
           UNCHANGED <<clientID, got, left, redisVars, ccuVars, histVars>>
    PROVE  IInv'
  <1> USE DEF IInv
  <1>1. TypeOK'
    BY DEF TypeOK, redisVars, ccuVars, histVars
  <1>2. Marked' /\ Distinct'
    BY DEF Marked, Distinct, redisVars, ccuVars, histVars
  <1>3. Handlers'
    BY DEF TypeOK, Handlers, Live, histVars, HandlerStates
  <1>4. Delivered'
    BY DEF TypeOK, Delivered, ResponseAddressed, Live, histVars
  <1>5. QED
    BY <1>1, <1>2, <1>3, <1>4

(* A request is pushed by its own goroutine, which then polls or returns,  *)
(* or stays where it is while go-redis sends the request again.            *)
LEMMA PushRequestIInv ==
    ASSUME IInv, NEW c \in Conns, handler[c] = "reading", PushRequest(c),
           NEW h \in {"reading", "polling", "closed"},
           handler' = [handler EXCEPT ![c] = h],
           resent' \in {resent, resent \cup {c}},
           h = "reading" => c \in resent',
           UNCHANGED <<clientID, got, left, responseQueue, ccuVars, mispopped>>
    PROVE  IInv'
  <1> DEFINE p == [client_id |-> clientID[c], req |-> c]
  <1> USE DEF IInv
  <1>1. p \in Payload
    BY DEF Handlers, Payload
  <1>2. requestQueue \in Seq(Payload) /\ requestQueue' = Append(requestQueue, p)
    BY DEF TypeOK, PushRequest
  <1>3. /\ c \notin resent => stage[c] = "none"
        /\ stage' = [stage EXCEPT ![c] = "queued"]
    BY DEF Handlers, PushRequest
  <1> HIDE DEF p
  <1>p. p.req = c /\ p.client_id = clientID[c]
    BY DEF p
  <1>q. /\ requestQueue' \in Seq(Payload)
        /\ Len(requestQueue) \in Nat
        /\ Len(requestQueue') = Len(requestQueue) + 1
        /\ requestQueue'[Len(requestQueue) + 1] = p
        /\ \A i \in 1..Len(requestQueue) : requestQueue'[i] = requestQueue[i]
        /\ \A i \in 1..Len(requestQueue') : i \in 1..Len(requestQueue) \/ i = Len(requestQueue) + 1
    BY <1>1, <1>2, PushFacts
  <1>r. arrivals' \in Seq(Conns)
    BY DEF TypeOK, PushRequest
  <1>4. TypeOK'
    BY <1>q, <1>3, <1>r DEF TypeOK, ccuVars, HandlerStates, Stages
  <1>5. Marked' /\ Distinct'
    <2>1. \A d \in Conns : d \notin resent /\ stage[d] # "none" => d # c /\ stage'[d] = stage[d]
      BY <1>3 DEF TypeOK
    <2>2. stage'[c] = "queued"
      BY <1>3 DEF TypeOK
    <2>3. c \notin resent => \A i \in 1..Len(requestQueue) : requestQueue[i].req # c
      BY <1>3 DEF Marked
    <2>4. Marked'
      <3>1. \A i \in 1..Len(requestQueue') :
              /\ requestQueue'[i].client_id = clientID'[requestQueue'[i].req]
              /\ requestQueue'[i].req \notin resent' => stage'[requestQueue'[i].req] = "queued"
        <4> SUFFICES ASSUME NEW i \in 1..Len(requestQueue')
                     PROVE  /\ requestQueue'[i].client_id = clientID'[requestQueue'[i].req]
                            /\ requestQueue'[i].req \notin resent' =>
                                  stage'[requestQueue'[i].req] = "queued"
          OBVIOUS
        <4>1. CASE i \in 1..Len(requestQueue)
          <5>1. requestQueue[i].req \in Conns
            BY <1>2, <4>1, ElementFacts
          <5>2. QED
            BY <1>q, <4>1, <5>1, <2>1 DEF Marked
        <4>2. CASE i = Len(requestQueue) + 1
          BY <1>q, <4>2, <1>p, <2>2
        <4>3. QED
          BY <1>q, <4>1, <4>2
      <3>2. \A i \in 1..Len(responseQueue) : responseQueue[i].req \in Conns
        BY ElementFacts DEF TypeOK
      <3>3. \A u \in CCUs : working[u] # Nothing => working[u].req \in Conns
        BY DEF TypeOK, Payload
      <3>4. QED
        BY <2>1, <3>1, <3>2, <3>3 DEF Marked, ccuVars
    <2>5. Distinct'
      BY <1>q, <1>p, <2>3 DEF Distinct, ccuVars
    <2>6. QED
      BY <2>4, <2>5
  <1>6. Handlers'
    BY <1>3 DEF TypeOK, Handlers, Live, HandlerStates
  <1>7. Delivered'
    BY <1>3 DEF TypeOK, Handlers, Delivered, ResponseAddressed
  <1>8. QED
    BY <1>4, <1>5, <1>6, <1>7

(* The head of the response list is taken off it.                          *)
LEMMA PopResponseIInv ==
    ASSUME IInv, responseQueue # <<>>,
           responseQueue' = Tail(responseQueue),
           stage' = [stage EXCEPT ![Head(responseQueue).req] = "gone"],
           UNCHANGED <<clientID, requestQueue, ccuVars, arrivals, resent>>
    PROVE  /\ Marked' /\ Distinct'
           /\ responseQueue' \in Seq(Payload) /\ stage' \in [Conns -> Stages]
           /\ \A d \in Conns \ resent : stage[d] # "answered" => stage'[d] = stage[d]
           /\ Head(responseQueue) \in Payload
           /\ Head(responseQueue).req \in Conns
           /\ Head(responseQueue).client_id = clientID[Head(responseQueue).req]
           /\ Head(responseQueue).req \notin resent => stage[Head(responseQueue).req] = "answered"
           /\ stage'[Head(responseQueue).req] = "gone"
  <1> DEFINE p == Head(responseQueue)
  <1> USE DEF IInv
  <1>0. responseQueue \in Seq(Payload)
    BY DEF TypeOK
  <1>1. /\ p = responseQueue[1] /\ p \in Payload /\ p.req \in Conns
        /\ 1 \in 1..Len(responseQueue)
    <2>1. p = responseQueue[1] /\ p \in Payload /\ Len(responseQueue) \in Nat /\ Len(responseQueue) > 0
      BY <1>0, PopFacts
    <2>2. QED
      BY <2>1 DEF Payload
  <1>2. /\ p.req \notin resent => stage[p.req] = "answered"
        /\ p.client_id = clientID[p.req]
    BY <1>1 DEF Marked
  <1>3. stage' = [stage EXCEPT ![p.req] = "gone"]
    OBVIOUS
  <1>4. responseQueue' \in Seq(Payload)
    BY PopFacts DEF TypeOK
  <1> HIDE DEF p
  <1>5. stage' \in [Conns -> Stages]
    BY <1>1, <1>3 DEF TypeOK, Stages
  <1>6. \A d \in Conns : d # p.req => stage'[d] = stage[d]
    BY <1>1, <1>3 DEF TypeOK
  <1>7. \A i \in 1..Len(responseQueue') :
          /\ i + 1 \in 1..Len(responseQueue) /\ i + 1 # 1
          /\ responseQueue'[i] = responseQueue[i + 1]
          /\ responseQueue[i + 1] \in Payload
    BY PopFacts DEF TypeOK
  <1>8. \A i \in 1..Len(responseQueue') :
          responseQueue'[i].req \notin resent => responseQueue'[i].req # p.req
    BY <1>1, <1>7 DEF Distinct
  <1>9. Marked'
    BY <1>2, <1>6, <1>7, <1>8 DEF TypeOK, Marked, ccuVars, Payload
  <1>10. Distinct'
    BY <1>7 DEF TypeOK, Distinct, ccuVars
  <1>11. stage'[p.req] = "gone"
    BY <1>1, <1>3 DEF TypeOK
  <1>12. QED
    BY <1>1, <1>2, <1>4, <1>5, <1>6, <1>9, <1>10, <1>11 DEF p

LEMMA DeliverIInv ==
    ASSUME IInv, NEW c \in Conns, Deliver(c)
    PROVE  IInv'
  <1> USE DEF IInv
  <1>1. PICK r \in Payload : /\ PopResponse(c, r)
                             /\ r.client_id = clientID[c]
                             /\ Return(c)
                             /\ got' = [got EXCEPT ![c] = r.req]
    BY DEF Deliver
  <1>2. r = Head(responseQueue) /\ r.req \in Conns /\ handler[c] = "polling"
    BY <1>1 DEF PopResponse, Payload
  <1>3. /\ Marked' /\ Distinct'
        /\ responseQueue' \in Seq(Payload) /\ stage' \in [Conns -> Stages]
        /\ \A d \in Conns \ resent : stage[d] # "answered" => stage'[d] = stage[d]
        /\ r.client_id = clientID[r.req]
        /\ r.req \notin resent => stage[r.req] = "answered"
        /\ stage'[r.req] = "gone"
        /\ resent' = resent
    BY <1>1, <1>2, PopResponseIInv DEF PopResponse
  <1>4. TypeOK'
    BY <1>1, <1>2, <1>3 DEF TypeOK, PopResponse, Return, ccuVars, HandlerStates
  <1>5. Handlers'
    BY <1>1, <1>2, <1>3 DEF TypeOK, Handlers, PopResponse, Return, Live, HandlerStates
  <1>6. Delivered'
    <2>1. r.req = c \/ handler[r.req] = "closed" \/ r.req \in left \/ c \in left
      <3>1. handler[r.req] # "none"
        BY <1>2, <1>3 DEF Handlers
      <3>2. QED
        BY <1>1, <1>2, <1>3, <3>1 DEF TypeOK, Handlers, Live, HandlerStates
    <2>2. \A d \in Conns : d # c => got'[d] = got[d]
      BY <1>1 DEF TypeOK
    <2>3. got'[c] = r.req /\ r.req # NoReq
      BY <1>1, <1>2, SentinelAssumption DEF TypeOK
    <2>4. \A d \in Conns : r.req \notin resent => got[d] # r.req
      BY <1>2, <1>3, SentinelAssumption DEF Delivered
    <2>5. \A d \in Conns : handler[d] = "closed" => handler'[d] = "closed"
      BY <1>1 DEF TypeOK, Return
    <2>6. clientID' = clientID /\ left' = left
      BY <1>1 DEF PopResponse
    <2>7. \A d \in Conns : got[d] \notin resent \cup {NoReq} => stage'[got[d]] = "gone"
      BY <1>3 DEF TypeOK, Delivered
    <2>8. \A d, e \in Conns : got'[d] = got'[e] /\ got'[d] \notin resent \cup {NoReq} => d = e
      BY <2>2, <2>3, <2>4 DEF Delivered
    <2>9. ResponseAddressed'
      <3> SUFFICES ASSUME NEW d \in Conns, got'[d] \notin {NoReq, d}
                   PROVE  /\ clientID[got'[d]] = clientID[d]
                          /\ handler'[got'[d]] = "closed" \/ got'[d] \in left \/ d \in left
        BY <2>6 DEF ResponseAddressed
      <3>1. CASE d = c
        BY <1>1, <1>2, <1>3, <2>1, <2>3, <2>5, <3>1
      <3>2. CASE d # c
        BY <2>2, <2>5, <3>2 DEF TypeOK, Delivered, ResponseAddressed
      <3>3. QED
        BY <3>1, <3>2
    <2>10. QED
      BY <1>3, <2>2, <2>3, <2>7, <2>8, <2>9 DEF Delivered
  <1>7. QED
    BY <1>3, <1>4, <1>5, <1>6

LEMMA MismatchIInv ==
    ASSUME IInv, NEW c \in Conns, Mismatch(c)
    PROVE  IInv'
  <1> USE DEF IInv
  <1>1. PICK r \in Payload : /\ PopResponse(c, r)
                             /\ UNCHANGED <<handler, got>>
    BY DEF Mismatch
  <1>2. /\ Marked' /\ Distinct'
        /\ responseQueue' \in Seq(Payload) /\ stage' \in [Conns -> Stages]
        /\ \A d \in Conns \ resent : stage[d] # "answered" => stage'[d] = stage[d]
        /\ r.req \in Conns
    BY <1>1, PopResponseIInv DEF PopResponse
  <1>3. TypeOK'
    BY <1>1, <1>2 DEF TypeOK, PopResponse, ccuVars
  <1>4. Handlers' /\ Delivered'
    BY <1>1, <1>2 DEF TypeOK, Handlers, Delivered, ResponseAddressed, PopResponse, Live
  <1>5. QED
    BY <1>2, <1>3, <1>4

LEMMA PollLostIInv ==
    ASSUME IInv, NEW c \in Conns, PollLost(c)
    PROVE  IInv'
  <1> USE DEF IInv
  <1>1. /\ Marked' /\ Distinct'
        /\ responseQueue' \in Seq(Payload) /\ stage' \in [Conns -> Stages]
        /\ \A d \in Conns \ resent : stage[d] # "answered" => stage'[d] = stage[d]
    BY PopResponseIInv DEF PollLost, mwVars
  <1>2. TypeOK'
    BY <1>1 DEF TypeOK, PollLost, mwVars, ccuVars
  <1>3. Handlers' /\ Delivered'
    BY <1>1 DEF TypeOK, Handlers, Delivered, ResponseAddressed, PollLost, mwVars, Live
  <1>4. QED
    BY <1>1, <1>2, <1>3

LEMMA PollErrorIInv ==
    ASSUME IInv, NEW c \in Conns, PollError(c)
    PROVE  IInv'
  <1> USE DEF IInv
  <1>1. CASE UNCHANGED <<responseQueue, stage>>
    BY <1>1, ReturnIInv DEF PollError, Return, TypeOK, Live, HandlerStates,
       redisVars, ccuVars, histVars
  <1>2. CASE /\ responseQueue' = Tail(responseQueue)
             /\ stage' = [stage EXCEPT ![Head(responseQueue).req] = "gone"]
    <2>1. /\ Marked' /\ Distinct'
          /\ responseQueue' \in Seq(Payload) /\ stage' \in [Conns -> Stages]
          /\ \A d \in Conns \ resent : stage[d] # "answered" => stage'[d] = stage[d]
      BY <1>2, PopResponseIInv DEF PollError
    <2>2. TypeOK'
      BY <2>1 DEF TypeOK, PollError, Return, ccuVars, HandlerStates
    <2>3. Handlers' /\ Delivered'
      BY <2>1 DEF TypeOK, Handlers, Delivered, ResponseAddressed, PollError, Return, Live,
         HandlerStates
    <2>4. QED
      BY <2>1, <2>2, <2>3
  <1>3. QED
    BY <1>1, <1>2 DEF PollError

(* The head of the request list is taken off it and its stage set to s.    *)
LEMMA PopRequestFacts ==
    ASSUME IInv, requestQueue # <<>>,
           NEW s \in {"taken", "gone"},
           requestQueue' = Tail(requestQueue),
           stage' = [stage EXCEPT ![Head(requestQueue).req] = s]
    PROVE  /\ requestQueue' \in Seq(Payload) /\ stage' \in [Conns -> Stages]
           /\ Head(requestQueue) \in Payload
           /\ Head(requestQueue).req \in Conns
           /\ Head(requestQueue).client_id = clientID[Head(requestQueue).req]
           /\ Head(requestQueue).req \notin resent => stage[Head(requestQueue).req] = "queued"
           /\ stage'[Head(requestQueue).req] = s
           /\ \A d \in Conns : d # Head(requestQueue).req => stage'[d] = stage[d]
           /\ \A i \in 1..Len(requestQueue') :
                 /\ requestQueue'[i].req \in Conns
                 /\ requestQueue'[i].client_id = clientID[requestQueue'[i].req]
                 /\ requestQueue'[i].req \notin resent => stage'[requestQueue'[i].req] = "queued"
           /\ \A i, j \in 1..Len(requestQueue') :
                 requestQueue'[i].req \notin resent /\ requestQueue'[i].req = requestQueue'[j].req
                 => i = j
  <1> DEFINE p == Head(requestQueue)
  <1> USE DEF IInv
  <1>0. requestQueue \in Seq(Payload)
    BY DEF TypeOK
  <1>1. /\ p = requestQueue[1] /\ p \in Payload
        /\ Len(requestQueue) \in Nat /\ Len(requestQueue) > 0
    BY <1>0, PopFacts
  <1>2. p.req \in Conns /\ 1 \in 1..Len(requestQueue)
    BY <1>1 DEF Payload
  <1>3. (p.req \notin resent => stage[p.req] = "queued") /\ p.client_id = clientID[p.req]
    BY <1>1, <1>2 DEF Marked
  <1>4. stage' = [stage EXCEPT ![p.req] = s]
    OBVIOUS
  <1>5. /\ requestQueue' \in Seq(Payload)
        /\ \A i \in 1..Len(requestQueue') :
              /\ i + 1 \in 1..Len(requestQueue) /\ i + 1 # 1
              /\ requestQueue'[i] = requestQueue[i + 1]
    BY <1>0, PopFacts
  <1> HIDE DEF p
  <1>6. /\ stage' \in [Conns -> Stages]
        /\ \A d \in Conns : d # p.req => stage'[d] = stage[d]
        /\ stage'[p.req] = s
    BY <1>2, <1>4 DEF TypeOK, Stages
  <1>7. \A i \in 1..Len(requestQueue') :
          requestQueue'[i].req \notin resent => requestQueue'[i].req # p.req
    BY <1>1, <1>2, <1>5 DEF Distinct
  <1>8. \A i \in 1..Len(requestQueue') : requestQueue'[i].req \in Conns
    BY <1>5, ElementFacts
  <1>9. \A i \in 1..Len(requestQueue') :
          /\ requestQueue'[i].client_id = clientID[requestQueue'[i].req]
          /\ requestQueue'[i].req \notin resent => stage'[requestQueue'[i].req] = "queued"
    BY <1>5, <1>6, <1>7, <1>8 DEF Marked
  <1>10. \A i, j \in 1..Len(requestQueue') :
            requestQueue'[i].req \notin resent /\ requestQueue'[i].req = requestQueue'[j].req
            => i = j
    BY <1>5 DEF Distinct
  <1>11. QED
    BY <1>1, <1>2, <1>3, <1>5, <1>6, <1>8, <1>9, <1>10 DEF p

(* A step of a CCU moves one request, m, from one place to another and     *)
(* leaves the middleware alone.                                            *)
LEMMA CCUStepIInv ==
    ASSUME IInv, TypeOK', Marked', Distinct',
           UNCHANGED mwVars,
           NEW m \in Conns, handler[m] # "none",
           m \notin resent => stage[m] \in {"queued", "taken"},
           resent' \in {resent, resent \cup {m}},
           \A d \in Conns : d # m => stage'[d] = stage[d]
    PROVE  IInv'
  <1> USE DEF IInv
  <1>1. Handlers'
    BY DEF Handlers, Live, mwVars
  <1>2. Delivered'
    BY DEF TypeOK, Delivered, ResponseAddressed, mwVars
  <1>3. QED
    BY <1>1, <1>2

(* The client_id of a request tells that its connection was made.          *)
LEMMA WasMade ==
    ASSUME IInv, NEW m \in Conns, clientID[m] \in Addrs
    PROVE  handler[m] # "none"
  BY SentinelAssumption DEF IInv, Handlers

LEMMA WorkingFacts ==
    ASSUME IInv, NEW u \in CCUs, working[u] # Nothing
    PROVE  /\ working[u] \in Payload /\ working[u].req \in Conns
           /\ working[u].client_id = clientID[working[u].req]
           /\ handler[working[u].req] # "none"
           /\ working[u].req \notin resent =>
                 /\ stage[working[u].req] = "taken"
                 /\ \A v \in CCUs : v # u => working[v].req # working[u].req
  <1>1. working[u] \in Payload
    BY DEF IInv, TypeOK
  <1>2. /\ working[u].req \in Conns /\ working[u].client_id \in Addrs
        /\ working[u].client_id = clientID[working[u].req]
    BY <1>1 DEF IInv, Marked, Payload
  <1>3. handler[working[u].req] # "none"
    BY <1>2, WasMade
  <1>4. QED
    BY <1>1, <1>2, <1>3 DEF IInv, Marked, Distinct

LEMMA PopRequestIInv ==
    ASSUME IInv, NEW u \in CCUs, PopRequest(u)
    PROVE  IInv'
  <1> DEFINE p == Head(requestQueue)
  <1> USE DEF IInv
  <1>1. /\ requestQueue' \in Seq(Payload) /\ stage' \in [Conns -> Stages]
        /\ p \in Payload /\ p.req \in Conns
        /\ p.client_id = clientID[p.req]
        /\ p.req \notin resent => stage[p.req] = "queued"
        /\ stage'[p.req] = "taken"
        /\ \A d \in Conns : d # p.req => stage'[d] = stage[d]
        /\ \A i \in 1..Len(requestQueue') :
              /\ requestQueue'[i].client_id = clientID[requestQueue'[i].req]
              /\ requestQueue'[i].req \notin resent => stage'[requestQueue'[i].req] = "queued"
        /\ \A i, j \in 1..Len(requestQueue') :
              requestQueue'[i].req \notin resent /\ requestQueue'[i].req = requestQueue'[j].req
              => i = j
    BY PopRequestFacts DEF PopRequest
  <1>2. working' = [working EXCEPT ![u] = p] /\ working[u] = Nothing
    BY DEF PopRequest
  <1>3. /\ UNCHANGED mwVars
        /\ UNCHANGED <<responseQueue, up, arrivals, mispopped, resent, clientID>>
    BY DEF PopRequest, mwVars
  <1> HIDE DEF p
  <1>4. working' \in [CCUs -> Payload \cup {Nothing}] /\ working'[u] = p
    BY <1>1, <1>2 DEF TypeOK
  <1>5. \A v \in CCUs : v # u => working'[v] = working[v]
    BY <1>2 DEF TypeOK
  <1>6. TypeOK'
    BY <1>1, <1>3, <1>4 DEF TypeOK, mwVars
  <1>7. \A v \in CCUs : working[v] # Nothing =>
          working[v].req \in Conns /\ (working[v].req \notin resent => working[v].req # p.req)
    BY <1>1, WorkingFacts
  <1>8. \A i \in 1..Len(responseQueue) :
          /\ responseQueue[i].req \in Conns
          /\ responseQueue[i].req \notin resent => responseQueue[i].req # p.req
    BY <1>1, ElementFacts DEF TypeOK, Marked
  <1>9. Marked'
    BY <1>1, <1>3, <1>4, <1>5, <1>7, <1>8 DEF Marked
  <1>10. Distinct'
    <2>1. \A v \in CCUs : p.req \notin resent => working[v].req # p.req
      BY <1>1, <1>7, SentinelAssumption DEF Nothing
    <2>2. QED
      BY <1>1, <1>3, <1>4, <1>5, <2>1 DEF Distinct
  <1>11. handler[p.req] # "none"
    BY <1>1, WasMade DEF Payload
  <1>12. QED
    BY <1>1, <1>3, <1>6, <1>9, <1>10, <1>11, CCUStepIInv

LEMMA PopRequestErrorIInv ==
    ASSUME IInv, NEW u \in CCUs, PopRequestError(u)
    PROVE  IInv'
  <1> DEFINE p == Head(requestQueue)
  <1> USE DEF IInv
  <1>1. /\ requestQueue' \in Seq(Payload) /\ stage' \in [Conns -> Stages]
        /\ p \in Payload /\ p.req \in Conns
        /\ p.client_id = clientID[p.req]
        /\ p.req \notin resent => stage[p.req] = "queued"
        /\ \A d \in Conns : d # p.req => stage'[d] = stage[d]
        /\ \A i \in 1..Len(requestQueue') :
              /\ requestQueue'[i].client_id = clientID[requestQueue'[i].req]
              /\ requestQueue'[i].req \notin resent => stage'[requestQueue'[i].req] = "queued"
        /\ \A i, j \in 1..Len(requestQueue') :
              requestQueue'[i].req \notin resent /\ requestQueue'[i].req = requestQueue'[j].req
              => i = j
    BY PopRequestFacts DEF PopRequestError
  <1>2. /\ UNCHANGED mwVars
        /\ UNCHANGED <<responseQueue, up, working, arrivals, mispopped, resent, clientID>>
    BY DEF PopRequestError, mwVars, ccuVars
  <1> HIDE DEF p
  <1>3. TypeOK'
    BY <1>1, <1>2 DEF TypeOK, mwVars
  <1>4. \A v \in CCUs : working[v] # Nothing =>
          working[v].req \in Conns /\ (working[v].req \notin resent => working[v].req # p.req)
    BY <1>1, WorkingFacts
  <1>5. \A i \in 1..Len(responseQueue) :
          /\ responseQueue[i].req \in Conns
          /\ responseQueue[i].req \notin resent => responseQueue[i].req # p.req
    BY <1>1, ElementFacts DEF TypeOK, Marked
  <1>6. Marked' /\ Distinct'
    BY <1>1, <1>2, <1>4, <1>5 DEF Marked, Distinct
  <1>7. handler[p.req] # "none"
    BY <1>1, WasMade DEF Payload
  <1>8. QED
    BY <1>1, <1>2, <1>3, <1>6, <1>7, CCUStepIInv

(* A CCU puts down the request it works on.                                *)
LEMMA PutDownFacts ==
    ASSUME IInv, NEW u \in CCUs, working[u] # Nothing,
           NEW s \in {"answered", "gone"},
           stage' = [stage EXCEPT ![working[u].req] = s],
           working' = [working EXCEPT ![u] = Nothing],
           UNCHANGED <<mwVars, requestQueue, resent>>
    PROVE  /\ stage' \in [Conns -> Stages]
           /\ working' \in [CCUs -> Payload \cup {Nothing}]
           /\ stage'[working[u].req] = s
           /\ \A d \in Conns : d # working[u].req => stage'[d] = stage[d]
           /\ \A i \in 1..Len(requestQueue') :
                 /\ requestQueue'[i].client_id = clientID'[requestQueue'[i].req]
                 /\ requestQueue'[i].req \notin resent => stage'[requestQueue'[i].req] = "queued"
           /\ \A v \in CCUs : working'[v] # Nothing =>
                 /\ working'[v].client_id = clientID'[working'[v].req]
                 /\ working'[v].req \notin resent => stage'[working'[v].req] = "taken"
           /\ \A v, w \in CCUs :
                 /\ working'[v] # Nothing /\ working'[v].req \notin resent
                 /\ working'[v].req = working'[w].req
                 => v = w
  <1> DEFINE m == working[u].req
  <1> USE DEF IInv
  <1>1. /\ m \in Conns
        /\ m \notin resent => stage[m] = "taken" /\ \A v \in CCUs : v # u => working[v].req # m
    BY WorkingFacts
  <1>2. stage' = [stage EXCEPT ![m] = s]
    OBVIOUS
  <1> HIDE DEF m
  <1>3. /\ stage' \in [Conns -> Stages]
        /\ stage'[m] = s
        /\ \A d \in Conns : d # m => stage'[d] = stage[d]
    BY <1>1, <1>2 DEF TypeOK, Stages
  <1>4. /\ working' \in [CCUs -> Payload \cup {Nothing}]
        /\ working'[u] = Nothing
        /\ \A v \in CCUs : v # u => working'[v] = working[v]
    BY DEF TypeOK
  <1>5. \A i \in 1..Len(requestQueue) :
          /\ requestQueue[i].req \in Conns
          /\ requestQueue[i].req \notin resent => requestQueue[i].req # m
    BY <1>1, ElementFacts DEF TypeOK, Marked
  <1>6. \A v \in CCUs : working[v] # Nothing => working[v].req \in Conns
    BY WorkingFacts
  <1>7. Nothing.req = NoReq
    BY DEF Nothing
  <1>8. \A v \in CCUs : working'[v] # Nothing =>
          v # u /\ working'[v] = working[v] /\ working'[v].req \in Conns
    BY <1>4, <1>6
  <1>9. \A v, w \in CCUs :
           /\ working'[v] # Nothing /\ working'[v].req \notin resent
           /\ working'[v].req = working'[w].req
           => v = w
    BY <1>4, <1>7, <1>8, SentinelAssumption DEF Distinct
  <1>10. QED
    BY <1>1, <1>3, <1>4, <1>5, <1>8, <1>9 DEF Marked, mwVars, m

(* The response to the request that u works on is pushed.                  *)
LEMMA PushedFacts ==
    ASSUME IInv, NEW u \in CCUs, working[u] # Nothing,
           responseQueue' = Append(responseQueue, working[u])
    PROVE  /\ responseQueue' \in Seq(Payload)
           /\ Len(responseQueue) \in Nat
           /\ Len(responseQueue') = Len(responseQueue) + 1
           /\ responseQueue'[Len(responseQueue) + 1] = working[u]
           /\ \A i \in 1..Len(responseQueue) :
                 responseQueue'[i] = responseQueue[i] /\ responseQueue[i].req \in Conns
           /\ \A i \in 1..Len(responseQueue') :
                 i \in 1..Len(responseQueue) \/ i = Len(responseQueue) + 1
  <1>1. working[u] \in Payload
    BY WorkingFacts
  <1>2. responseQueue \in Seq(Payload)
    BY DEF IInv, TypeOK
  <1>3. QED
    BY <1>1, <1>2, PushFacts, ElementFacts

LEMMA PushResponseIInv ==
    ASSUME IInv, NEW u \in CCUs, PushResponse(u)
    PROVE  IInv'
  <1> DEFINE p == working[u]
             n == Len(responseQueue)
  <1> USE DEF IInv
  <1>1. /\ p \in Payload /\ p.req \in Conns
        /\ p.client_id = clientID[p.req]
        /\ p.req \notin resent => stage[p.req] = "taken"
        /\ handler[p.req] # "none"
    BY WorkingFacts DEF PushResponse
  <1>2. /\ stage' \in [Conns -> Stages]
        /\ working' \in [CCUs -> Payload \cup {Nothing}]
        /\ stage'[p.req] = "answered"
        /\ \A d \in Conns : d # p.req => stage'[d] = stage[d]
        /\ \A i \in 1..Len(requestQueue') :
              /\ requestQueue'[i].client_id = clientID'[requestQueue'[i].req]
              /\ requestQueue'[i].req \notin resent => stage'[requestQueue'[i].req] = "queued"
        /\ \A v \in CCUs : working'[v] # Nothing =>
              /\ working'[v].client_id = clientID'[working'[v].req]
              /\ working'[v].req \notin resent => stage'[working'[v].req] = "taken"
        /\ \A v, w \in CCUs :
              /\ working'[v] # Nothing /\ working'[v].req \notin resent
              /\ working'[v].req = working'[w].req
              => v = w
    BY PutDownFacts DEF PushResponse
  <1>4. UNCHANGED mwVars /\ UNCHANGED <<clientID, requestQueue, up, arrivals, mispopped, resent>>
    BY DEF PushResponse, mwVars
  <1>5. /\ responseQueue' \in Seq(Payload)
        /\ n \in Nat /\ Len(responseQueue') = n + 1
        /\ responseQueue'[n + 1] = p
        /\ \A i \in 1..n : responseQueue'[i] = responseQueue[i] /\ responseQueue[i].req \in Conns
        /\ \A i \in 1..Len(responseQueue') : i \in 1..n \/ i = n + 1
    BY PushedFacts DEF PushResponse
  <1> HIDE DEF p
  <1>6. \A i \in 1..n : responseQueue[i].req \notin resent => responseQueue[i].req # p.req
    BY <1>1 DEF Marked
  <1>7. \A i \in 1..n :
          /\ responseQueue'[i].client_id = clientID'[responseQueue'[i].req]
          /\ responseQueue'[i].req \notin resent => stage'[responseQueue'[i].req] = "answered"
    BY <1>2, <1>4, <1>5, <1>6 DEF Marked
  <1> HIDE DEF n
  <1>8. TypeOK'
    BY <1>2, <1>4, <1>5 DEF TypeOK, mwVars
  <1>9. Marked'
    BY <1>1, <1>2, <1>4, <1>5, <1>7 DEF Marked
  <1>10. Distinct'
    <2>1. \A i, j \in 1..n :
            responseQueue[i].req \notin resent /\ responseQueue[i].req = responseQueue[j].req => i = j
      BY DEF Distinct, n
    <2>2. \A i, j \in 1..Len(responseQueue') :
            responseQueue'[i].req \notin resent /\ responseQueue'[i].req = responseQueue'[j].req
            => i = j
      BY <1>5, <1>6, <2>1
    <2>3. QED
      BY <1>2, <1>4, <2>2 DEF Distinct
  <1>11. QED
    BY <1>1, <1>2, <1>4, <1>8, <1>9, <1>10, CCUStepIInv

(* A response that is sent again is one of a request whose copies are not  *)
(* counted any more.                                                       *)
LEMMA PushResponseLostIInv ==
    ASSUME IInv, NEW u \in CCUs, PushResponseLost(u)
    PROVE  IInv'
  <1> DEFINE p == working[u]
             n == Len(responseQueue)
  <1> USE DEF IInv
  <1>1. /\ p \in Payload /\ p.req \in Conns
        /\ p.client_id = clientID[p.req]
        /\ p.req \notin resent => stage[p.req] = "taken"
        /\ handler[p.req] # "none"
    BY WorkingFacts DEF PushResponseLost
  <1>2. resent' = resent \cup {p.req}
    BY DEF PushResponseLost
  <1>3. /\ UNCHANGED mwVars
        /\ UNCHANGED <<clientID, requestQueue, up, working, stage, arrivals, mispopped>>
    BY DEF PushResponseLost, mwVars, ccuVars
  <1>4. /\ responseQueue' \in Seq(Payload)
        /\ n \in Nat /\ Len(responseQueue') = n + 1
        /\ responseQueue'[n + 1] = p
        /\ \A i \in 1..n : responseQueue'[i] = responseQueue[i] /\ responseQueue[i].req \in Conns
        /\ \A i \in 1..Len(responseQueue') : i \in 1..n \/ i = n + 1
    BY PushedFacts DEF PushResponseLost
  <1> HIDE DEF p
  <1>5. TypeOK'
    BY <1>1, <1>2, <1>3, <1>4 DEF TypeOK, mwVars
  <1>6. Marked'
    BY <1>1, <1>2, <1>3, <1>4 DEF Marked
  <1>7. Distinct'
    BY <1>2, <1>3, <1>4 DEF Distinct
  <1>8. QED
    BY <1>1, <1>2, <1>3, <1>5, <1>6, <1>7, CCUStepIInv

(* The request a CCU works on is lost, in PushResponseError and in Crash.  *)
LEMMA LoseWorkIInv ==
    ASSUME IInv, NEW u \in CCUs, working[u] # Nothing,
           stage' = [stage EXCEPT ![working[u].req] = "gone"],
           working' = [working EXCEPT ![u] = Nothing],
           up' \in [CCUs -> BOOLEAN],
           UNCHANGED <<mwVars, redisVars, arrivals, mispopped, resent>>
    PROVE  IInv'
  <1> DEFINE m == working[u].req
  <1> USE DEF IInv
  <1>1. m \in Conns /\ (m \notin resent => stage[m] = "taken") /\ handler[m] # "none"
    BY WorkingFacts
  <1>2. UNCHANGED <<mwVars, requestQueue, responseQueue, clientID, arrivals, mispopped, resent>>
    BY DEF mwVars, redisVars
  <1>3. /\ stage' \in [Conns -> Stages]
        /\ working' \in [CCUs -> Payload \cup {Nothing}]
        /\ \A d \in Conns : d # m => stage'[d] = stage[d]
        /\ \A i \in 1..Len(requestQueue') :
              /\ requestQueue'[i].client_id = clientID'[requestQueue'[i].req]
              /\ requestQueue'[i].req \notin resent => stage'[requestQueue'[i].req] = "queued"
        /\ \A v \in CCUs : working'[v] # Nothing =>
              /\ working'[v].client_id = clientID'[working'[v].req]
              /\ working'[v].req \notin resent => stage'[working'[v].req] = "taken"
        /\ \A v, w \in CCUs :
              /\ working'[v] # Nothing /\ working'[v].req \notin resent
              /\ working'[v].req = working'[w].req
              => v = w
    BY <1>2, PutDownFacts
  <1> HIDE DEF m
  <1>4. \A i \in 1..Len(responseQueue) :
          /\ responseQueue[i].req \in Conns
          /\ responseQueue[i].req \notin resent => responseQueue[i].req # m
    BY <1>1, ElementFacts DEF TypeOK, Marked
  <1>5. TypeOK'
    BY <1>2, <1>3 DEF TypeOK, mwVars
  <1>6. Marked' /\ Distinct'
    BY <1>2, <1>3, <1>4 DEF Marked, Distinct
  <1>7. QED
    BY <1>1, <1>2, <1>3, <1>5, <1>6, CCUStepIInv

(* A CCU that works on nothing ends or is started.                         *)
LEMMA IdleIInv ==
    ASSUME IInv, working' = working, up' \in [CCUs -> BOOLEAN],
           UNCHANGED <<mwVars, redisVars, histVars>>
    PROVE  IInv'
  <1>1. TypeOK'
    BY DEF IInv, TypeOK, mwVars, redisVars, histVars
  <1>2. Marked' /\ Distinct'
    BY DEF IInv, Marked, Distinct, mwVars, redisVars, histVars
  <1>3. Handlers' /\ Delivered'
    BY DEF IInv, Handlers, Delivered, ResponseAddressed, Live, mwVars, histVars
  <1>4. QED
    BY <1>1, <1>2, <1>3 DEF IInv

LEMMA CrashIInv ==
    ASSUME IInv, NEW u \in CCUs, Crash(u)
    PROVE  IInv'
  <1>1. up' \in [CCUs -> BOOLEAN]
    BY DEF IInv, TypeOK, Crash
  <1>2. CASE working[u] = Nothing
    <2>1. working' = working
      BY <1>2 DEF IInv, TypeOK, Crash
    <2>2. QED
      BY <1>1, <1>2, <2>1, IdleIInv DEF Crash, histVars
  <1>3. CASE working[u] # Nothing
    BY <1>1, <1>3, LoseWorkIInv DEF Crash
  <1>4. QED
    BY <1>2, <1>3

LEMMA StutterIInv ==
    ASSUME IInv, UNCHANGED vars
    PROVE  IInv'
  <1>1. up' \in [CCUs -> BOOLEAN]
    BY DEF IInv, TypeOK, vars, ccuVars
  <1>2. QED
    BY <1>1, IdleIInv DEF vars, ccuVars

LEMMA NextIInv == IInv /\ [Next]_vars => IInv'
  <1> SUFFICES ASSUME IInv, [Next]_vars PROVE IInv'
    OBVIOUS
  <1>1. ASSUME NEW c \in Conns, NEW a \in Addrs, Accept(c, a) PROVE IInv'
    BY <1>1, AcceptIInv
  <1>a. ASSUME NEW c \in Conns, ClientLeaves(c) PROVE IInv'
    BY <1>a, ClientLeavesIInv
  <1>2. ASSUME NEW c \in Conns, ReadFail(c) PROVE IInv'
    BY <1>2, ReturnIInv DEF ReadFail, Return, IInv, TypeOK, Live, HandlerStates
  <1>3. ASSUME NEW c \in Conns, Enqueue(c) PROVE IInv'
    BY <1>3, PushRequestIInv DEF Enqueue
  <1>r. ASSUME NEW c \in Conns, EnqueueLost(c) PROVE IInv'
    <2>1. handler' = [handler EXCEPT ![c] = "reading"]
      BY <1>r DEF EnqueueLost, mwVars, IInv, TypeOK
    <2>2. QED
      BY <1>r, <2>1, PushRequestIInv DEF EnqueueLost, mwVars
  <1>4. ASSUME NEW c \in Conns, EnqueueFail(c) PROVE IInv'
    <2>1. CASE PushRequest(c)
      BY <1>4, <2>1, PushRequestIInv DEF EnqueueFail, Return
    <2>2. CASE UNCHANGED <<requestQueue, stage, arrivals>>
      BY <1>4, <2>2, ReturnIInv DEF EnqueueFail, Return, IInv, TypeOK, Live, HandlerStates,
         redisVars, histVars
    <2>3. QED
      BY <1>4, <2>1, <2>2 DEF EnqueueFail
  <1>5. ASSUME NEW c \in Conns, Poll(c) PROVE IInv'
    <2>1. CASE PollTimeout(c)
      BY <2>1, ReturnIInv DEF PollTimeout, Return, IInv, TypeOK, Live, HandlerStates
    <2>2. QED
      BY <1>5, <2>1, DeliverIInv, MismatchIInv DEF Poll
  <1>6. ASSUME NEW c \in Conns, PollError(c) PROVE IInv'
    BY <1>6, PollErrorIInv
  <1>l. ASSUME NEW c \in Conns, PollLost(c) PROVE IInv'
    BY <1>l, PollLostIInv
  <1>7. CASE Restart
    BY <1>7, ReturnIInv DEF Restart, IInv, TypeOK, HandlerStates
  <1>8. ASSUME NEW u \in CCUs, PushResponseError(u) PROVE IInv'
    BY <1>8, LoseWorkIInv DEF PushResponseError, IInv, TypeOK
  <1>9. ASSUME NEW u \in CCUs, Boot(u) PROVE IInv'
    BY <1>9, IdleIInv DEF Boot, IInv, TypeOK
  <1>10. CASE Middleware
    BY <1>1, <1>a, <1>2, <1>3, <1>r, <1>4, <1>5, <1>6, <1>l, <1>10 DEF Middleware
  <1>11. CASE CCU
    BY <1>8, <1>9, <1>11, PopRequestIInv, PopRequestErrorIInv, PushResponseIInv,
       PushResponseLostIInv, CrashIInv DEF CCU
  <1>12. QED
    BY <1>7, <1>10, <1>11, StutterIInv DEF Next

(* In every reachable state, whatever failed on the way there, each copy   *)
(* of a request is where its stage says, marked with its own address.      *)
THEOREM Invariance == Spec => []IInv
  BY InitIInv, NextIInv, PTL DEF Spec

-----------------------------------------------------------------------------
(* The properties that TLC checks, from the inductive invariant.           *)

(* handleClient, readQueue and the lists keep the types of RequestManager. *)
THEOREM TypeCorrect == Spec => []TypeOK
  <1>1. IInv => TypeOK
    BY DEF IInv
  <1>2. QED
    BY <1>1, Invariance, PTL

(* handleClient compares addresses: whatever returns, leaves and takes an  *)
(* address again, two clients that are still there are never mixed up.     *)
THEOREM Addressing == Spec => []ResponseAddressed
  <1>1. IInv => ResponseAddressed
    BY DEF IInv, Delivered
  <1>2. QED
    BY <1>1, Invariance, PTL

LEMMA IInvSingleCopy == IInv => SingleCopy
  <1> SUFFICES ASSUME IInv PROVE SingleCopy
    OBVIOUS
  <1> USE DEF IInv
  <1>1. ASSUME NEW c \in Conns \ resent, NEW x \in Copies(c)
        PROVE  \/ /\ stage[c] = "queued"
                  /\ \E i \in 1..Len(requestQueue) : x = <<"request", i>> /\ requestQueue[i].req = c
               \/ /\ stage[c] = "taken"
                  /\ \E u \in CCUs : x = <<"ccu", u>> /\ working[u] # Nothing /\ working[u].req = c
               \/ /\ stage[c] = "answered"
                  /\ \E i \in 1..Len(responseQueue) : x = <<"response", i>> /\ responseQueue[i].req = c
    <2>1. \A u \in CCUs : working[u].req = c => working[u] # Nothing
      BY <1>1, SentinelAssumption DEF Nothing
    <2>2. CASE \E i \in 1..Len(requestQueue) : x = <<"request", i>> /\ requestQueue[i].req = c
      BY <2>2 DEF Marked
    <2>3. CASE \E u \in CCUs : x = <<"ccu", u>> /\ working[u].req = c
      BY <2>1, <2>3 DEF Marked
    <2>4. CASE \E i \in 1..Len(responseQueue) : x = <<"response", i>> /\ responseQueue[i].req = c
      BY <2>4 DEF Marked
    <2>5. QED
      BY <1>1, <2>2, <2>3, <2>4 DEF Copies
  <1>2. ASSUME NEW c \in Conns \ resent, NEW x \in Copies(c), NEW y \in Copies(c)
        PROVE  x = y
    <2>1. CASE stage[c] = "queued"
      <3>1. PICK i \in 1..Len(requestQueue) : x = <<"request", i>> /\ requestQueue[i].req = c
        BY <1>1, <2>1
      <3>2. PICK j \in 1..Len(requestQueue) : y = <<"request", j>> /\ requestQueue[j].req = c
        BY <1>1, <2>1
      <3>3. QED
        BY <3>1, <3>2 DEF Distinct
    <2>2. CASE stage[c] = "taken"
      <3>1. PICK u \in CCUs : x = <<"ccu", u>> /\ working[u] # Nothing /\ working[u].req = c
        BY <1>1, <2>2
      <3>2. PICK v \in CCUs : y = <<"ccu", v>> /\ working[v] # Nothing /\ working[v].req = c
        BY <1>1, <2>2
      <3>3. QED
        BY <3>1, <3>2 DEF Distinct
    <2>3. CASE stage[c] = "answered"
      <3>1. PICK i \in 1..Len(responseQueue) : x = <<"response", i>> /\ responseQueue[i].req = c
        BY <1>1, <2>3
      <3>2. PICK j \in 1..Len(responseQueue) : y = <<"response", j>> /\ responseQueue[j].req = c
        BY <1>1, <2>3
      <3>3. QED
        BY <3>1, <3>2 DEF Distinct
    <2>4. QED
      BY <1>1, <1>2, <2>1, <2>2, <2>3
  <1>3. ASSUME NEW c \in Conns \ resent, NEW d \in Conns, got[d] = c
        PROVE  Copies(c) = {}
    <2>1. stage[c] = "gone"
      BY <1>3, SentinelAssumption DEF Delivered
    <2>2. QED
      BY <1>1, <2>1
  <1>4. ASSUME NEW r \in Conns \ resent, NEW c \in Conns, NEW d \in Conns,
               got[c] = r, got[d] = r
        PROVE  c = d
    BY <1>4, SentinelAssumption DEF Delivered
  <1>5. QED
    BY <1>2, <1>3, <1>4 DEF SingleCopy

(* A request is handled at most once and its response written at most      *)
(* once, for any number of CCUs and goroutines.                            *)
THEOREM AtMostOnce == Spec => []SingleCopy
  BY Invariance, IInvSingleCopy, PTL

-----------------------------------------------------------------------------
(* Arrival order.                                                          *)

LEMMA NextArrivalOrder ==
    ASSUME IInv, ArrivalOrder, [Next]_vars
    PROVE  ArrivalOrder'
  <1>1. requestQueue \in Seq(Payload) /\ arrivals \in Seq(Conns)
    BY DEF IInv, TypeOK
  <1>2. CASE UNCHANGED <<requestQueue, arrivals>>
    BY <1>2 DEF ArrivalOrder
  <1>3. ASSUME NEW c \in Conns, handler[c] = "reading", PushRequest(c) PROVE ArrivalOrder'
    <2> DEFINE p == [client_id |-> clientID[c], req |-> c]
               m == Len(requestQueue)
               n == Len(arrivals)
    <2>1. requestQueue' = Append(requestQueue, p) /\ arrivals' = Append(arrivals, c)
      BY <1>3 DEF PushRequest
    <2>2. p \in Payload /\ p.req = c
      BY <1>3 DEF IInv, Handlers, Payload
    <2> HIDE DEF p
    <2>3. /\ m \in Nat /\ Len(requestQueue') = m + 1
          /\ requestQueue'[m + 1] = p
          /\ \A i \in 1..m : requestQueue'[i] = requestQueue[i]
          /\ \A i \in 1..Len(requestQueue') : i \in 1..m \/ i = m + 1
      BY <1>1, <2>1, <2>2, PushFacts
    <2>4. /\ n \in Nat /\ Len(arrivals') = n + 1
          /\ arrivals'[n + 1] = c
          /\ \A i \in 1..n : arrivals'[i] = arrivals[i]
      BY <1>1, <2>1, PushFacts
    <2>5. n - m >= 0 /\ \A i \in 1..m : requestQueue[i].req = arrivals[n - m + i]
      BY DEF ArrivalOrder
    <2> HIDE DEF m, n
    <2>6. \A i \in 1..m : n - m + i \in 1..n
      BY <2>3, <2>4, <2>5
    <2>7. Len(arrivals') - Len(requestQueue') = n - m
      BY <2>3, <2>4
    <2>8. ASSUME NEW i \in 1..Len(requestQueue')
          PROVE  requestQueue'[i].req = arrivals'[n - m + i]
      <3>1. CASE i \in 1..m
        BY <2>3, <2>4, <2>5, <2>6, <3>1
      <3>2. CASE i = m + 1
        <4>1. n - m + i = n + 1
          BY <2>3, <2>4, <3>2
        <4>2. QED
          BY <2>2, <2>3, <2>4, <3>2, <4>1
      <3>3. QED
        BY <2>3, <3>1, <3>2
    <2>9. QED
      BY <2>5, <2>7, <2>8 DEF ArrivalOrder
  <1>4. ASSUME requestQueue # <<>>, requestQueue' = Tail(requestQueue), arrivals' = arrivals
        PROVE  ArrivalOrder'
    BY <1>1, <1>4 DEF ArrivalOrder
  <1>5. CASE Middleware
    BY <1>2, <1>3, <1>5 DEF Middleware, Accept, ClientLeaves, ReadFail, Enqueue, EnqueueLost, EnqueueFail,
       Poll, Deliver, Mismatch, PopResponse, PollTimeout, PollError, PollLost, redisVars, histVars
  <1>6. CASE Restart
    BY <1>2, <1>6 DEF Restart, redisVars, histVars
  <1>7. CASE CCU
    BY <1>2, <1>4, <1>7 DEF CCU, PopRequest, PopRequestError, PushResponse, PushResponseLost,
       PushResponseError, Crash, Boot, redisVars, histVars
  <1>8. QED
    BY <1>2, <1>5, <1>6, <1>7 DEF Next, vars, redisVars, histVars

(* No request overtakes an older one on its way to a CCU.                  *)
THEOREM OrderKept == Spec => []ArrivalOrder
  <1>1. Init => ArrivalOrder
    BY DEF Init, ArrivalOrder
  <1>2. IInv /\ ArrivalOrder /\ [Next]_vars => ArrivalOrder'
    BY NextArrivalOrder
  <1>3. QED
    BY <1>1, <1>2, Invariance, PTL DEF Spec

-----------------------------------------------------------------------------
(***************************************************************************)
(* RequestManager implements RequestReply: the lists and the CCUs only     *)
(* move requests about or lose them, and a goroutine that returns is the   *)
(* end of its connection.                                                  *)
(***************************************************************************)

Status == [c \in Conns |-> StatusOf(handler[c])]

LEMMA StatusFacts ==
    ASSUME NEW c \in Conns
    PROVE  /\ handler[c] = "none" => Status[c] = "new"
           /\ handler[c] = "reading" => Status[c] = "open"
           /\ handler[c] = "polling" => Status[c] = "waiting"
           /\ handler[c] = "closed" => Status[c] = "done"
  BY DEF Status, StatusOf

(* What a change of one goroutine's state is to the abstract status.       *)
LEMMA StatusChange ==
    ASSUME IInv, NEW c \in Conns, NEW h \in HandlerStates,
           handler' = [handler EXCEPT ![c] = h]
    PROVE  Status' = [Status EXCEPT ![c] = StatusOf(h)]
  BY DEF IInv, TypeOK, Status

LEMMA StatusValues ==
    /\ StatusOf("none") = "new"
    /\ StatusOf("reading") = "open"
    /\ StatusOf("polling") = "waiting"
    /\ StatusOf("closed") = "done"
  BY DEF StatusOf

-----------------------------------------------------------------------------
(* The requests in a list after a push and after a pop.                    *)

LEMMA PushRequests ==
    ASSUME NEW q \in Seq(Payload), NEW p \in Payload
    PROVE  Requests(Append(q, p)) = Requests(q) \cup {p.req}
  <1> DEFINE n == Len(q)
             r == Append(q, p)
  <1>1. /\ n \in Nat /\ Len(r) = n + 1
        /\ r[n + 1] = p
        /\ \A i \in 1..n : r[i] = q[i]
        /\ \A i \in 1..Len(r) : i \in 1..n \/ i = n + 1
    BY PushFacts
  <1>2. 1..n \subseteq 1..Len(r) /\ n + 1 \in 1..Len(r)
    BY <1>1
  <1> HIDE DEF n, r
  <1>3. Requests(r) = {q[i].req : i \in 1..n} \cup {p.req}
    BY <1>1, <1>2 DEF Requests
  <1>4. QED
    BY <1>3 DEF Requests, n, r

LEMMA PopRequests ==
    ASSUME NEW q \in Seq(Payload), q # <<>>
    PROVE  Requests(q) = Requests(Tail(q)) \cup {Head(q).req}
  <1> DEFINE n == Len(q)
             r == Tail(q)
  <1>1. /\ n \in Nat /\ n > 0 /\ Len(r) = n - 1
        /\ Head(q) = q[1]
        /\ \A i \in 1..Len(r) : i + 1 \in 1..n /\ i + 1 # 1 /\ r[i] = q[i + 1]
    BY PopFacts
  <1>2. 1 \in 1..n
    BY <1>1
  <1>3. \A j \in 1..n : j # 1 => j - 1 \in 1..Len(r) /\ r[j - 1] = q[j]
    <2> SUFFICES ASSUME NEW j \in 1..n, j # 1
                 PROVE  j - 1 \in 1..Len(r) /\ r[j - 1] = q[j]
      OBVIOUS
    <2>1. j - 1 \in 1..Len(r) /\ (j - 1) + 1 = j
      BY <1>1
    <2>2. QED
      BY <1>1, <2>1
  <1>4. Requests(q) = {q[i].req : i \in 1..n} /\ Requests(r) = {r[i].req : i \in 1..Len(r)}
    BY DEF Requests
  <1> HIDE DEF n, r
  <1>5. Requests(r) \subseteq Requests(q)
    BY <1>1, <1>4
  <1>6. \A j \in 1..n : q[j].req \in Requests(r) \cup {q[1].req}
    BY <1>3, <1>4
  <1>7. q[1].req \in Requests(q)
    BY <1>2, <1>4
  <1>8. QED
    BY <1>1, <1>4, <1>5, <1>6, <1>7 DEF r

(* A request that heads a list and was sent once is in it once.            *)
LEMMA PopOnly ==
    ASSUME NEW q \in Seq(Payload), q # <<>>,
           \A i, j \in 1..Len(q) : q[i].req = Head(q).req /\ q[i].req = q[j].req => i = j
    PROVE  Head(q).req \notin Requests(Tail(q))
  <1>1. /\ Head(q) = q[1] /\ 1 \in 1..Len(q)
        /\ \A i \in 1..Len(Tail(q)) : i + 1 \in 1..Len(q) /\ i + 1 # 1 /\ Tail(q)[i] = q[i + 1]
    BY PopFacts
  <1>2. QED
    BY <1>1 DEF Requests

(* Each place holds the requests of one stage, if they were sent once.     *)
LEMMA PlacesDisjoint ==
    ASSUME IInv
    PROVE  /\ \A c \in Requests(requestQueue) : c \in Conns /\ (c \notin resent => stage[c] = "queued")
           /\ \A c \in Requests(responseQueue) : c \in Conns /\ (c \notin resent => stage[c] = "answered")
           /\ \A c \in Held : c \in Conns /\ (c \notin resent => stage[c] = "taken")
  <1>1. \A c \in Requests(requestQueue) : c \in Conns /\ (c \notin resent => stage[c] = "queued")
    BY ElementFacts DEF IInv, TypeOK, Marked, Requests
  <1>2. \A c \in Requests(responseQueue) : c \in Conns /\ (c \notin resent => stage[c] = "answered")
    BY ElementFacts DEF IInv, TypeOK, Marked, Requests
  <1>3. \A c \in Held : c \in Conns /\ (c \notin resent => stage[c] = "taken")
    BY WorkingFacts DEF Held
  <1>4. QED
    BY <1>1, <1>2, <1>3

(* A CCU that waits takes p up; a CCU that works puts its request down.    *)
LEMMA TakeUp ==
    ASSUME IInv, NEW u \in CCUs, working[u] = Nothing, NEW p \in Payload,
           working' = [working EXCEPT ![u] = p]
    PROVE  Held' = Held \cup {p.req}
  <1>1. /\ working'[u] = p /\ p # Nothing
        /\ \A v \in CCUs : v # u => working'[v] = working[v]
    BY NothingIsNoPayload DEF IInv, TypeOK
  <1>2. QED
    BY <1>1 DEF Held

LEMMA PutDown ==
    ASSUME IInv, NEW u \in CCUs, working[u] # Nothing,
           working' = [working EXCEPT ![u] = Nothing]
    PROVE  Held = Held' \cup {working[u].req}
  <1>1. /\ working'[u] = Nothing
        /\ \A v \in CCUs : v # u => working'[v] = working[v]
    BY DEF IInv, TypeOK
  <1>2. QED
    BY <1>1 DEF Held
-----------------------------------------------------------------------------
(* Every step is a step of RequestReply or leaves it unchanged.            *)

LEMMA TransitUnchanged ==
    ASSUME UNCHANGED <<requestQueue, responseQueue, working>>
    PROVE  InTransit' = InTransit
  BY DEF InTransit, Held, Requests

LEMMA TransitConns == IInv => InTransit \subseteq Conns
  BY PlacesDisjoint DEF InTransit

(* A goroutine returns without an answer.                                  *)
LEMMA OneGivesUp ==
    ASSUME IInv, NEW c \in Conns, Live(c),
           handler' = [handler EXCEPT ![c] = "closed"],
           UNCHANGED <<clientID, got, resent>>,
           InTransit' \subseteq InTransit
    PROVE  Service!Next
  <1> DEFINE D == InTransit \ InTransit'
  <1>1. Status[c] \in {"open", "waiting"}
    BY StatusFacts DEF Live
  <1>2. Status' = [Status EXCEPT ![c] = "done"]
    BY StatusChange, StatusValues DEF HandlerStates
  <1>3. Status' = [d \in Conns |-> IF d \in {c} THEN "done" ELSE Status[d]]
    BY <1>2 DEF Status
  <1>4. D \in SUBSET Conns /\ InTransit' = InTransit \ D
    BY TransitConns
  <1> HIDE DEF D
  <1>5. Service!GiveUp({c}, D)
    BY <1>1, <1>3, <1>4 DEF Service!GiveUp, Status
  <1>6. QED
    BY <1>4, <1>5 DEF Service!Next

(* Requests are lost and no goroutine returns.                             *)
LEMMA OnlyLoss ==
    ASSUME IInv, UNCHANGED <<handler, clientID, got, resent>>, InTransit' \subseteq InTransit
    PROVE  Service!Next
  <1> DEFINE D == InTransit \ InTransit'
  <1>1. Status' = [c \in Conns |-> IF c \in {} THEN "done" ELSE Status[c]]
    BY DEF Status
  <1>2. D \in SUBSET Conns /\ InTransit' = InTransit \ D
    BY TransitConns
  <1> HIDE DEF D
  <1>3. Service!GiveUp({}, D)
    BY <1>1, <1>2 DEF Service!GiveUp, Status
  <1>4. QED
    BY <1>2, <1>3 DEF Service!Next

(* A request is on its way after it was pushed, again or not.              *)
LEMMA PushTransit ==
    ASSUME IInv, NEW c \in Conns, handler[c] = "reading", PushRequest(c),
           UNCHANGED <<responseQueue, working>>
    PROVE  InTransit' = InTransit \cup {c}
  <1> DEFINE p == [client_id |-> clientID[c], req |-> c]
  <1>1. p \in Payload /\ p.req = c
    BY DEF IInv, Handlers, Payload
  <1>2. requestQueue \in Seq(Payload) /\ requestQueue' = Append(requestQueue, p)
    BY DEF IInv, TypeOK, PushRequest
  <1> HIDE DEF p
  <1>3. Requests(requestQueue)' = Requests(requestQueue) \cup {c}
    BY <1>1, <1>2, PushRequests DEF Requests
  <1>4. Requests(responseQueue)' = Requests(responseQueue) /\ Held' = Held
    BY DEF Requests, Held
  <1>5. QED
    BY <1>3, <1>4 DEF InTransit

LEMMA SubmitStep ==
    ASSUME IInv, NEW c \in Conns, handler[c] = "reading", PushRequest(c),
           NEW h \in {"polling", "closed"},
           handler' = [handler EXCEPT ![c] = h],
           UNCHANGED <<clientID, got, resent, responseQueue, working>>
    PROVE  Service!Next
  <1>1. InTransit' = InTransit \cup {c}
    BY PushTransit
  <1>2. Status[c] = "open"
    BY StatusFacts
  <1>3. \E s \in {"waiting", "done"} : Status' = [Status EXCEPT ![c] = s]
    BY StatusChange, StatusValues DEF HandlerStates
  <1>4. Service!Submit(c)
    BY <1>1, <1>2, <1>3 DEF Service!Submit, Status
  <1>5. QED
    BY <1>4 DEF Service!Next

(* A request, or its response, is queued by a command that is sent again.  *)
LEMMA RepeatStep ==
    ASSUME IInv, NEW c \in Conns, MayResend(c),
           handler[c] = "reading" \/ c \in InTransit,
           resent' = resent \cup {c}, UNCHANGED mwVars,
           InTransit' = InTransit \cup {c}
    PROVE  Service!Next
  <1>1. Status[c] = "open" \/ c \in InTransit
    BY StatusFacts
  <1>2. UNCHANGED <<handler, clientID, got>>
    BY DEF mwVars
  <1>3. Service!Repeat(c)
    BY <1>1, <1>2 DEF Service!Repeat, Status, MayResend
  <1>4. QED
    BY <1>3 DEF Service!Next

(* The head of the response list leaves it.                                *)
LEMMA ResponseLeaves ==
    ASSUME IInv, responseQueue # <<>>, responseQueue' = Tail(responseQueue),
           UNCHANGED <<requestQueue, working>>
    PROVE  /\ Head(responseQueue).req \in Conns
           /\ InTransit = InTransit' \cup {Head(responseQueue).req}
           /\ Head(responseQueue).req \notin resent => Head(responseQueue).req \notin InTransit'
  <1> DEFINE m == Head(responseQueue).req
  <1>1. responseQueue \in Seq(Payload)
    BY DEF IInv, TypeOK
  <1>2. Requests(responseQueue) = Requests(responseQueue)' \cup {m}
    BY <1>1, PopRequests DEF Requests
  <1>3. m \notin resent => m \notin Requests(responseQueue)'
    BY <1>1, PopOnly DEF IInv, Distinct, Requests
  <1>4. Requests(requestQueue)' = Requests(requestQueue) /\ Held' = Held
    BY DEF Requests, Held
  <1> HIDE DEF m
  <1>5. m \in Conns /\ (m \notin resent => m \notin Requests(requestQueue) /\ m \notin Held)
    BY <1>2, PlacesDisjoint
  <1>6. InTransit = InTransit' \cup {m} /\ (m \notin resent => m \notin InTransit')
    BY <1>2, <1>3, <1>4, <1>5 DEF InTransit
  <1>7. QED
    BY <1>5, <1>6 DEF m

LEMMA DeliverStep ==
    ASSUME IInv, NEW c \in Conns, Deliver(c)
    PROVE  Service!Next
  <1>1. PICK r \in Payload : /\ PopResponse(c, r)
                             /\ r.client_id = clientID[c]
                             /\ Return(c)
                             /\ got' = [got EXCEPT ![c] = r.req]
    BY DEF Deliver
  <1>2. /\ r.req \in Conns
        /\ InTransit = InTransit' \cup {r.req}
        /\ r.req \notin resent => r.req \notin InTransit'
    BY <1>1, ResponseLeaves DEF PopResponse, ccuVars
  <1>3. InTransit' = InTransit \ {r.req} \/ (r.req \in resent /\ InTransit' = InTransit)
    BY <1>2
  <1>4. clientID[r.req] = clientID[c]
    <2>1. responseQueue \in Seq(Payload) /\ responseQueue # <<>>
      BY <1>1 DEF IInv, TypeOK, PopResponse
    <2>2. r = responseQueue[1] /\ 1 \in 1..Len(responseQueue)
      BY <1>1, <2>1, PopFacts DEF PopResponse
    <2>3. QED
      BY <1>1, <2>2 DEF IInv, Marked
  <1>5. Status[c] = "waiting" /\ Status' = [Status EXCEPT ![c] = "done"]
    BY <1>1, StatusFacts, StatusChange, StatusValues DEF PopResponse, Return, HandlerStates
  <1>6. Service!Answer(c, r.req)
    BY <1>1, <1>2, <1>3, <1>4, <1>5 DEF Service!Answer, Status, PopResponse
  <1>7. QED
    BY <1>2, <1>6 DEF Service!Next

LEMMA MiddlewareStep ==
    ASSUME IInv, Middleware
    PROVE  Service!Next
  <1>1. ASSUME NEW c \in Conns, NEW a \in Addrs, Accept(c, a) PROVE Service!Next
    <2>1. Status[c] = "new" /\ Status' = [Status EXCEPT ![c] = "open"]
      BY <1>1, StatusFacts, StatusChange, StatusValues DEF Accept, HandlerStates
    <2>2. InTransit' = InTransit
      BY <1>1, TransitUnchanged DEF Accept, redisVars, ccuVars
    <2>3. Service!Open(c, a)
      BY <1>1, <2>1, <2>2 DEF Service!Open, Status, Accept, histVars
    <2>4. QED
      BY <2>3 DEF Service!Next
  <1>a. ASSUME NEW c \in Conns, ClientLeaves(c) PROVE Service!Next
    BY <1>a, OnlyLoss, TransitUnchanged DEF ClientLeaves, redisVars, ccuVars, histVars
  <1>2. ASSUME NEW c \in Conns, ReadFail(c) \/ PollTimeout(c) PROVE Service!Next
    <2>1. InTransit' = InTransit
      BY <1>2, TransitUnchanged DEF ReadFail, PollTimeout, redisVars, ccuVars
    <2>2. Live(c) /\ handler' = [handler EXCEPT ![c] = "closed"] /\ UNCHANGED <<clientID, got, resent>>
      BY <1>2 DEF ReadFail, PollTimeout, Return, Live, histVars
    <2>3. QED
      BY <2>1, <2>2, OneGivesUp
  <1>3. ASSUME NEW c \in Conns, Enqueue(c) PROVE Service!Next
    BY <1>3, SubmitStep DEF Enqueue, ccuVars
  <1>r. ASSUME NEW c \in Conns, EnqueueLost(c) PROVE Service!Next
    <2>1. InTransit' = InTransit \cup {c}
      BY <1>r, PushTransit DEF EnqueueLost, ccuVars
    <2>2. QED
      BY <1>r, <2>1, RepeatStep DEF EnqueueLost
  <1>4. ASSUME NEW c \in Conns, EnqueueFail(c) PROVE Service!Next
    <2>1. CASE PushRequest(c)
      BY <1>4, <2>1, SubmitStep DEF EnqueueFail, Return, ccuVars
    <2>2. CASE UNCHANGED <<requestQueue, stage, arrivals>>
      <3>1. InTransit' = InTransit
        BY <1>4, <2>2, TransitUnchanged DEF EnqueueFail, ccuVars
      <3>2. Live(c) /\ handler' = [handler EXCEPT ![c] = "closed"] /\ UNCHANGED <<clientID, got, resent>>
        BY <1>4 DEF EnqueueFail, Return, Live
      <3>3. QED
        BY <3>1, <3>2, OneGivesUp
    <2>3. QED
      BY <1>4, <2>1, <2>2 DEF EnqueueFail
  <1>5. ASSUME NEW c \in Conns, Mismatch(c) \/ PollLost(c) PROVE Service!Next
    <2>1. InTransit' \subseteq InTransit /\ UNCHANGED <<handler, clientID, got, resent>>
      BY <1>5, ResponseLeaves DEF Mismatch, PollLost, PopResponse, ccuVars, mwVars
    <2>2. QED
      BY <2>1, OnlyLoss
  <1>6. ASSUME NEW c \in Conns, PollError(c) PROVE Service!Next
    <2>1. /\ Live(c) /\ handler' = [handler EXCEPT ![c] = "closed"]
          /\ UNCHANGED <<clientID, got, resent>>
      BY <1>6 DEF PollError, Return, Live
    <2>2. InTransit' \subseteq InTransit
      BY <1>6, TransitUnchanged, ResponseLeaves DEF PollError, ccuVars
    <2>3. QED
      BY <2>1, <2>2, OneGivesUp
  <1>7. QED
    BY <1>1, <1>a, <1>2, <1>3, <1>r, <1>4, <1>5, <1>6, DeliverStep DEF Middleware, Poll

LEMMA RestartStep ==
    ASSUME IInv, Restart
    PROVE  Service!Next
  <1> DEFINE S == {c \in Conns : Live(c)}
  <1>1. \A c \in S : Status[c] \in {"open", "waiting"}
    BY StatusFacts DEF Live
  <1>2. Status' = [c \in Conns |-> IF c \in S THEN "done" ELSE Status[c]]
    <2>1. ASSUME NEW c \in Conns
          PROVE  StatusOf(handler'[c]) = IF c \in S THEN "done" ELSE Status[c]
      BY StatusValues DEF Restart, Status
    <2>2. QED
      BY <2>1 DEF Status
  <1>3. InTransit' = InTransit \ {} /\ {} \in SUBSET Conns
    BY TransitUnchanged DEF Restart, redisVars, ccuVars
  <1>4. Service!GiveUp(S, {})
    BY <1>1, <1>2, <1>3 DEF Service!GiveUp, Status, Restart, histVars
  <1>5. QED
    BY <1>4 DEF Service!Next

LEMMA CCUStep ==
    ASSUME IInv, CCU
    PROVE  Service!Next \/ UNCHANGED Service!vars
  <1>u. ASSUME UNCHANGED <<mwVars, resent>>, InTransit' = InTransit
        PROVE  UNCHANGED Service!vars
    BY <1>u DEF Service!vars, mwVars
  <1> DEFINE m == Head(requestQueue).req
  <1>1. ASSUME requestQueue # <<>>, requestQueue' = Tail(requestQueue), UNCHANGED responseQueue
        PROVE  /\ Head(requestQueue) \in Payload
               /\ Requests(requestQueue) = Requests(requestQueue)' \cup {m}
               /\ Requests(responseQueue)' = Requests(responseQueue)
    <2>1. requestQueue \in Seq(Payload)
      BY DEF IInv, TypeOK
    <2>2. Requests(requestQueue) = Requests(Tail(requestQueue)) \cup {m}
      BY <1>1, <2>1, PopRequests
    <2>3. Head(requestQueue) \in Payload
      BY <1>1, <2>1, PopFacts
    <2>4. QED
      BY <1>1, <2>2, <2>3 DEF Requests
  <1>2. ASSUME NEW u \in CCUs, PopRequest(u) PROVE UNCHANGED Service!vars
    <2>1. Held' = Held \cup {m}
      BY <1>1, <1>2, TakeUp DEF PopRequest
    <2>2. InTransit' = InTransit
      BY <1>1, <1>2, <2>1 DEF PopRequest, InTransit
    <2>3. QED
      BY <1>2, <1>u, <2>2 DEF PopRequest
  <1>3. ASSUME NEW u \in CCUs, PopRequestError(u) PROVE Service!Next
    <2>1. Held' = Held
      BY <1>3 DEF PopRequestError, ccuVars, Held
    <2>2. InTransit' \subseteq InTransit
      BY <1>1, <1>3, <2>1 DEF PopRequestError, InTransit
    <2>3. QED
      BY <1>3, <2>2, OnlyLoss DEF PopRequestError, mwVars
  <1>4. ASSUME NEW u \in CCUs, working[u] # Nothing,
               responseQueue' = Append(responseQueue, working[u]), UNCHANGED requestQueue
        PROVE  /\ Requests(responseQueue)' = Requests(responseQueue) \cup {working[u].req}
               /\ Requests(requestQueue)' = Requests(requestQueue)
    <2>1. responseQueue \in Seq(Payload) /\ working[u] \in Payload
      BY <1>4, WorkingFacts DEF IInv, TypeOK
    <2>2. QED
      BY <1>4, <2>1, PushRequests DEF Requests
  <1>5. ASSUME NEW u \in CCUs, PushResponse(u) PROVE UNCHANGED Service!vars
    <2>1. Held = Held' \cup {working[u].req}
      BY <1>5, PutDown DEF PushResponse
    <2>2. InTransit' = InTransit
      BY <1>4, <1>5, <2>1 DEF PushResponse, InTransit
    <2>3. QED
      BY <1>5, <1>u, <2>2 DEF PushResponse
  <1>6. ASSUME NEW u \in CCUs, PushResponseLost(u) PROVE Service!Next
    <2>1. working[u].req \in Held /\ working[u].req \in Conns
      BY <1>6, WorkingFacts DEF PushResponseLost, Held
    <2>2. Held' = Held
      BY <1>6 DEF PushResponseLost, ccuVars, Held
    <2>3. working[u].req \in InTransit /\ InTransit' = InTransit \cup {working[u].req}
      BY <1>4, <1>6, <2>1, <2>2 DEF PushResponseLost, InTransit
    <2>4. QED
      BY <1>6, <2>1, <2>3, RepeatStep DEF PushResponseLost
  <1>7. ASSUME NEW u \in CCUs, working[u] # Nothing,
               working' = [working EXCEPT ![u] = Nothing], UNCHANGED <<mwVars, redisVars, resent>>
        PROVE  Service!Next
    <2>1. Held = Held' \cup {working[u].req}
      BY <1>7, PutDown
    <2>2. Requests(requestQueue)' = Requests(requestQueue) /\ Requests(responseQueue)' = Requests(responseQueue)
      BY <1>7 DEF redisVars, Requests
    <2>3. InTransit' \subseteq InTransit
      BY <2>1, <2>2 DEF InTransit
    <2>4. QED
      BY <1>7, <2>3, OnlyLoss DEF mwVars
  <1>8. ASSUME NEW u \in CCUs, PushResponseError(u) PROVE Service!Next
    BY <1>7, <1>8 DEF PushResponseError
  <1>9. ASSUME NEW u \in CCUs, Crash(u) PROVE Service!Next \/ UNCHANGED Service!vars
    <2>1. CASE working[u] = Nothing
      <3>1. working' = working
        BY <1>9, <2>1 DEF IInv, TypeOK, Crash
      <3>2. QED
        BY <1>9, <1>u, <3>1, TransitUnchanged DEF Crash, redisVars
    <2>2. QED
      BY <1>7, <1>9, <2>1 DEF Crash
  <1>10. ASSUME NEW u \in CCUs, Boot(u) PROVE UNCHANGED Service!vars
    BY <1>10, <1>u, TransitUnchanged DEF Boot, redisVars, histVars
  <1>11. QED
    BY <1>2, <1>3, <1>5, <1>6, <1>8, <1>9, <1>10 DEF CCU

(* Middleware, lists and CCUs together implement RequestReply: a request   *)
(* is answered at most once, or more often if go-redis sent it again, to a *)
(* connection from the address it came from, or lost.                      *)
THEOREM Refinement == Spec => ImplementsRequestReply
  <1>1. Init => Service!Init
    <2> SUFFICES ASSUME Init PROVE Service!Init
      OBVIOUS
    <2>1. InTransit = {}
      BY DEF Init, InTransit, Requests, Held
    <2>2. [c \in Conns |-> StatusOf(handler[c])] = [c \in Conns |-> "new"]
      BY StatusValues DEF Init
    <2>3. QED
      BY <2>1, <2>2 DEF Init, Service!Init
  <1>2. IInv /\ [Next]_vars => [Service!Next]_(Service!vars)
    <2> SUFFICES ASSUME IInv, [Next]_vars PROVE Service!Next \/ UNCHANGED Service!vars
      OBVIOUS
    <2>1. CASE UNCHANGED vars
      BY <2>1, TransitUnchanged DEF vars, mwVars, redisVars, ccuVars, histVars, Service!vars
    <2>2. QED
      BY <2>1, MiddlewareStep, RestartStep, CCUStep DEF Next
  <1>3. QED
    BY <1>1, <1>2, Invariance, PTL DEF Spec, ImplementsRequestReply, Service!Spec
=============================================================================
