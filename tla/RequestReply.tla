---------------------------- MODULE RequestReply ----------------------------
(***************************************************************************)
(* What the middleware promises its clients, without queues, goroutines    *)
(* and CCUs: a connection submits at most one request, a submitted request *)
(* is answered at most once, to a connection from the address it came      *)
(* from, and may be lost on the way.  A request may be repeated on the     *)
(* way, and may then be answered more than once.                           *)
(***************************************************************************)
CONSTANTS Conns, Addrs, NoReq, NoAddr

VARIABLES
    status,     \* status[c]: "new", "open", "waiting" or "done"
    from,       \* from[c]: the address c was made from
    reply,      \* reply[c]: the request whose answer c was given
    pending,    \* requests submitted, and neither answered nor lost
    repeated    \* requests that were repeated on the way

vars == <<status, from, reply, pending, repeated>>

Init ==
    /\ status = [c \in Conns |-> "new"]
    /\ from = [c \in Conns |-> NoAddr]
    /\ reply = [c \in Conns |-> NoReq]
    /\ pending = {}
    /\ repeated = {}

Open(c, a) ==
    /\ status[c] = "new"
    /\ status' = [status EXCEPT ![c] = "open"]
    /\ from' = [from EXCEPT ![c] = a]
    /\ UNCHANGED <<reply, pending, repeated>>

(* The request is accepted; its client is told so and waits, or is told    *)
(* that it was not and goes away.                                          *)
Submit(c) ==
    /\ status[c] = "open"
    /\ \E s \in {"waiting", "done"} : status' = [status EXCEPT ![c] = s]
    /\ pending' = pending \cup {c}
    /\ UNCHANGED <<from, reply, repeated>>

(* A request is on its way a second time, perhaps before its client was    *)
(* told that it was accepted.                                              *)
Repeat(r) ==
    /\ r \notin repeated
    /\ status[r] = "open" \/ r \in pending
    /\ pending' = pending \cup {r}
    /\ repeated' = repeated \cup {r}
    /\ UNCHANGED <<status, from, reply>>

Answer(c, r) ==
    /\ status[c] = "waiting"
    /\ r \in pending
    /\ from[r] = from[c]
    /\ status' = [status EXCEPT ![c] = "done"]
    /\ reply' = [reply EXCEPT ![c] = r]
    /\ pending' = pending \ {r} \/ (r \in repeated /\ pending' = pending)
    /\ UNCHANGED <<from, repeated>>

(* The connections in S end without an answer and the requests in D are    *)
(* lost.                                                                   *)
GiveUp(S, D) ==
    /\ \A c \in S : status[c] \in {"open", "waiting"}
    /\ status' = [c \in Conns |-> IF c \in S THEN "done" ELSE status[c]]
    /\ pending' = pending \ D
    /\ UNCHANGED <<from, reply, repeated>>

Next ==
    \/ \E c \in Conns : Submit(c) \/ Repeat(c) \/ \E a \in Addrs : Open(c, a)
    \/ \E c, r \in Conns : Answer(c, r)
    \/ \E S, D \in SUBSET Conns : GiveUp(S, D)

Spec == Init /\ [][Next]_vars
=============================================================================
