-------------------------- MODULE ClientConnection --------------------------
(***************************************************************************)
(* One client (src/client/client.go) and the goroutine of the middleware   *)
(* that serves it (handleClient, src/queue/request_manager.go), with the   *)
(* TCP connection between them.                                            *)
(*                                                                         *)
(* RequestManager takes a request and a response for one step each; here   *)
(* they are bytes in a stream that reads cut into pieces.  A client sends  *)
(* an 8 byte length and its request, in chunks, and is sent an acknowledge-*)
(* ment and then a response, or another text; getFunctionHandler leaves    *)
(* the length out.  A byte is a pair of the text it is from and its place  *)
(* in that text; lengths are scaled down, which the code's logic does not  *)
(* depend on.                                                              *)
(***************************************************************************)
EXTENDS Integers, Sequences

CONSTANTS
    PrefixSize,     \* bytes of the length prefix, 8 in the code
    RequestSize,    \* bytes of the request
    AckSize,        \* bytes of "Request received and queued."
    TextSizes,      \* sizes of responses and of the other texts
    AckBuffer,      \* size of the client's first read buffer, 1024
    Buffer,         \* size of its other read buffer, 4096
    Prefixed        \* the client sends a prefix: FALSE for getFunction

ASSUME SizeAssumption ==
    /\ {PrefixSize, RequestSize, AckSize, AckBuffer, Buffer} \subseteq Nat \ {0}
    /\ TextSizes \subseteq Nat \ {0}
    /\ AckSize < AckBuffer
    /\ Prefixed \in BOOLEAN

VARIABLES
    client,     \* where the client stands
    unsent,     \* what it has yet to write
    acked,      \* what it took for the acknowledgement
    report,     \* responseBytes
    whole,      \* history: no text to it was cut by a read, unless at the
                \* size of its buffer, or joined with the one before
    server,     \* where the goroutine of the middleware stands
    announced,  \* payloadLength
    data,       \* dataBytes
    up,         \* written by the client and not read yet
    upEnd,      \* the client has closed the connection
    down,       \* written by the middleware and not read yet
    downEnd,    \* how its stream ends: "open", "eof" or "reset"
    queued,     \* history: the request was pushed to Redis
    text,       \* history: the last text written by the middleware
    short       \* history: the length prefix was read in part

clientVars == <<client, unsent, acked, report, whole>>
serverVars == <<server, announced, data, queued, text, short>>
tcpVars    == <<up, upEnd, down, downEnd>>
vars       == <<clientVars, serverVars, tcpVars>>

-----------------------------------------------------------------------------
Bytes(name, size) == [i \in 1..size |-> <<name, i>>]

LengthPrefix == Bytes("length", PrefixSize)
Request == Bytes("request", RequestSize)
Ack == Bytes("ack", AckSize)

(* The lengths the first bytes read may stand for, big endian.  Bytes that *)
(* did not come are zero, so that part of a length is no more than the     *)
(* length; the start of a request stands for more than is ever sent.       *)
Announced(read) ==
    CASE read = LengthPrefix    -> {RequestSize}
      [] read[1][1] = "request" -> {RequestSize + 1}
      [] OTHER                  -> 0..RequestSize

ToServer == {"length", "request"} \X Nat
ToClient == {"ack", "text"} \X Nat

ClientPoints == {"send", "ack", "poll", "done", "failed"}
ServerPoints == {"prefix", "body", "push", "ack", "poll", "closed"}

TypeOK ==
    /\ client \in ClientPoints
    /\ unsent \in Seq(ToServer)
    /\ acked \in Seq(ToClient)
    /\ report \in Seq(ToClient)
    /\ whole \in BOOLEAN
    /\ server \in ServerPoints
    /\ announced \in Nat
    /\ data \in Seq(ToServer)
    /\ up \in Seq(ToServer)
    /\ upEnd \in BOOLEAN
    /\ down \in Seq(ToClient)
    /\ downEnd \in {"open", "eof", "reset"}
    /\ queued \in BOOLEAN
    /\ text \in Seq(ToClient)
    /\ short \in BOOLEAN

Init ==
    /\ client = "send"
    /\ unsent = IF Prefixed THEN LengthPrefix \o Request ELSE Request
    /\ acked = <<>>
    /\ report = <<>>
    /\ whole = TRUE
    /\ server = "prefix"
    /\ announced = 0
    /\ data = <<>>
    /\ up = <<>>
    /\ upEnd = FALSE
    /\ down = <<>>
    /\ downEnd = "open"
    /\ queued = FALSE
    /\ text = <<>>
    /\ short = FALSE

Ended == client \in {"done", "failed"}

Least(m, n) == IF m < n THEN m ELSE n

(* The numbers of bytes conn.Read may return from stream s.                *)
ReadSizes(s, buffer) == 1..Least(Len(s), buffer)

Rest(s, n) == SubSeq(s, n + 1, Len(s))

-----------------------------------------------------------------------------
(* The client.                                                             *)

(* Defer conn.Close() and the end of the process.                          *)
ClientEnds(point) ==
    /\ client' = point
    /\ upEnd' = TRUE

(* The prefix and each chunk are a Write of their own.  What a closed      *)
(* connection is sent makes it answer with a reset.                        *)
Write ==
    /\ client = "send"
    /\ unsent # <<>>
    /\ \E n \in IF unsent = LengthPrefix \o Request THEN {PrefixSize} ELSE 1..Len(unsent) :
        /\ unsent' = Rest(unsent, n)
        /\ IF server = "closed"
           THEN downEnd' = "reset" /\ UNCHANGED up
           ELSE up' = up \o SubSeq(unsent, 1, n) /\ UNCHANGED downEnd
    /\ UNCHANGED <<client, acked, report, whole, serverVars, upEnd, down>>

WriteError ==
    /\ client = "send"
    /\ unsent # <<>>
    /\ downEnd = "reset"
    /\ ClientEnds("failed")
    /\ UNCHANGED <<unsent, acked, report, whole, serverVars, up, down, downEnd>>

Written ==
    /\ client = "send"
    /\ unsent = <<>>
    /\ client' = "ack"
    /\ UNCHANGED <<unsent, acked, report, whole, serverVars, tcpVars>>

(* "Acknowledgment from middleware": one Read, whatever it returns.        *)
ReadAck ==
    /\ client = "ack"
    /\ down # <<>>
    /\ \E n \in ReadSizes(down, AckBuffer) :
        /\ acked' = SubSeq(down, 1, n)
        /\ down' = Rest(down, n)
        /\ whole' = (whole /\ n = Len(down))
    /\ client' = "poll"
    /\ UNCHANGED <<unsent, report, serverVars, up, upEnd, downEnd>>

(* "Error reading acknowledgment from middleware"                          *)
ReadAckError ==
    /\ client = "ack"
    /\ downEnd = "reset" \/ (down = <<>> /\ downEnd = "eof")
    /\ ClientEnds("failed")
    /\ UNCHANGED <<unsent, acked, report, whole, serverVars, up, down, downEnd>>

(* Mutant: a full buffer is taken for the end of the response too.         *)
ReadResponse_FullIsEnd ==
    /\ client = "poll"
    /\ down # <<>>
    /\ \E n \in ReadSizes(down, Buffer) :
        /\ report' = report \o SubSeq(down, 1, n)
        /\ down' = Rest(down, n)
        /\ whole' = (whole /\ n = Least(Len(down), Buffer))
        /\ ClientEnds("done")
    /\ UNCHANGED <<unsent, acked, serverVars, up, downEnd>>

(* One turn of the loop that polls for the response.  A read that does not *)
(* fill the buffer is taken for its end.                                   *)
ReadResponse ==
    /\ client = "poll"
    /\ down # <<>>
    /\ \E n \in ReadSizes(down, Buffer) :
        /\ report' = report \o SubSeq(down, 1, n)
        /\ down' = Rest(down, n)
        /\ whole' = (whole /\ n = Least(Len(down), Buffer))
        /\ IF n < Buffer THEN ClientEnds("done") ELSE UNCHANGED <<client, upEnd>>
    /\ UNCHANGED <<unsent, acked, serverVars, up, downEnd>>

(* "Middleware closed the connection. Assuming response is complete."  No  *)
(* other error can end this loop: once there was something to read, all    *)
(* that the client wrote has been read, and nothing resets the connection. *)
ReadResponseEOF ==
    /\ client = "poll"
    /\ down = <<>>
    /\ downEnd = "eof"
    /\ ClientEnds("done")
    /\ UNCHANGED <<unsent, acked, report, whole, serverVars, up, down, downEnd>>

(* The user interrupts the client.                                         *)
Interrupt ==
    /\ ~Ended
    /\ ClientEnds("failed")
    /\ UNCHANGED <<unsent, acked, report, whole, serverVars, up, down, downEnd>>

-----------------------------------------------------------------------------
(* The goroutine of the middleware.                                        *)

(* Defer conn.Close().  Bytes that were not read make it a reset.          *)
Close ==
    /\ server' = "closed"
    /\ downEnd' = IF up = <<>> THEN "eof" ELSE "reset"

(* Mutant: the prefix is taken to count itself.                            *)
ReadPrefix_Inclusive ==
    /\ server = "prefix"
    /\ up # <<>>
    /\ \E n \in ReadSizes(up, PrefixSize) :
        LET read == SubSeq(up, 1, n) IN
        /\ up' = Rest(up, n)
        /\ announced' \in {a - PrefixSize : a \in Announced(read)}
        /\ short' = (n < PrefixSize)
    /\ server' = "body"
    /\ UNCHANGED <<clientVars, data, queued, text, upEnd, down, downEnd>>

(* One Read for the length prefix.                                         *)
ReadPrefix ==
    /\ server = "prefix"
    /\ up # <<>>
    /\ \E n \in ReadSizes(up, PrefixSize) :
        LET read == SubSeq(up, 1, n) IN
        /\ up' = Rest(up, n)
        /\ announced' \in Announced(read)
        /\ short' = (n < PrefixSize)
    /\ server' = "body"
    /\ UNCHANGED <<clientVars, data, queued, text, upEnd, down, downEnd>>

ReadPrefixError ==
    /\ server = "prefix"
    /\ up = <<>>
    /\ upEnd
    /\ Close
    /\ UNCHANGED <<clientVars, announced, data, queued, text, short, up, upEnd, down>>

(* Mutant: the body is read once.                                          *)
ReadBody_Once ==
    /\ server = "body"
    /\ Len(data) < announced
    /\ up # <<>>
    /\ \E n \in ReadSizes(up, RequestSize) :
        /\ data' = data \o SubSeq(up, 1, n)
        /\ up' = Rest(up, n)
        /\ announced' = n
    /\ UNCHANGED <<clientVars, server, queued, text, short, upEnd, down, downEnd>>

(* One turn of the loop that reads the request.                            *)
ReadBody ==
    /\ server = "body"
    /\ Len(data) < announced
    /\ up # <<>>
    /\ \E n \in ReadSizes(up, RequestSize) :
        /\ data' = data \o SubSeq(up, 1, n)
        /\ up' = Rest(up, n)
    /\ UNCHANGED <<clientVars, server, announced, queued, text, short, upEnd, down, downEnd>>

(* Mutant: the loop goes on until there is more than was announced.        *)
BodyRead_Beyond == Len(data) > announced \/ (up = <<>> /\ upEnd)

(* It ends with the announced number of bytes, or at the client's end.     *)
BodyRead == Len(data) >= announced \/ (up = <<>> /\ upEnd)

(* Bytes of the length in front of a request may be white space to JSON;   *)
(* part of a request, an object without its end, is never JSON.            *)
Parses == SelectSeq(data, LAMBDA b : b[1] = "request") = Request

ParseRequest ==
    /\ server = "body"
    /\ BodyRead
    /\ Parses
    /\ server' = "push"
    /\ UNCHANGED <<clientVars, announced, data, queued, text, short, tcpVars>>

ParseError ==
    /\ server = "body"
    /\ BodyRead
    /\ data # Request
    /\ Close
    /\ UNCHANGED <<clientVars, announced, data, queued, text, short, up, upEnd, down>>

(* LPUSH, then "Request received and queued."                              *)
Push ==
    /\ server = "push"
    /\ queued' = TRUE
    /\ server' = "ack"
    /\ UNCHANGED <<clientVars, announced, data, text, short, tcpVars>>

WriteAck ==
    /\ server = "ack"
    /\ down' = down \o Ack
    /\ server' = "poll"
    /\ UNCHANGED <<clientVars, announced, data, queued, text, short, up, upEnd, downEnd>>

(* The last text and the end of the goroutine.                             *)
WriteText ==
    /\ \E size \in TextSizes :
        /\ text' = Bytes("text", size)
        /\ down' = down \o Bytes("text", size)
    /\ whole' = (whole /\ down = <<>>)
    /\ Close

(* Mutant: a request that could not be queued is acknowledged.             *)
PushError_Acknowledged ==
    /\ server = "push"
    /\ server' = "ack"
    /\ UNCHANGED <<clientVars, announced, data, queued, text, short, tcpVars>>

(* "Failed to enqueue request."                                            *)
PushError ==
    /\ server = "push"
    /\ WriteText
    /\ UNCHANGED <<client, unsent, acked, report, announced, data, queued, short, up, upEnd>>

(* The response, or "Timeout waiting for response."                        *)
Respond ==
    /\ server = "poll"
    /\ WriteText
    /\ UNCHANGED <<client, unsent, acked, report, announced, data, queued, short, up, upEnd>>

(* The middleware process ends, and all its connections.                   *)
Stop ==
    /\ server # "closed"
    /\ Close
    /\ UNCHANGED <<clientVars, announced, data, queued, text, short, up, upEnd, down>>

-----------------------------------------------------------------------------
Client ==
    \/ Write \/ WriteError \/ Written \/ ReadAck \/ ReadAckError
    \/ ReadResponse \/ ReadResponseEOF

Server ==
    \/ ReadPrefix \/ ReadPrefixError \/ ReadBody \/ ParseRequest \/ ParseError
    \/ Push \/ PushError \/ WriteAck \/ Respond

Next == Client \/ Server \/ Interrupt \/ Stop

Spec == Init /\ [][Next]_vars

(* Both sides run on; the goroutine's wait for a response ends within 30   *)
(* seconds of silence (HandlerReturns of RequestManager).                  *)
FairSpec == Spec /\ WF_vars(Client) /\ WF_vars(Server)

-----------------------------------------------------------------------------
(* Properties.                                                             *)

(* However the stream is cut, a request is turned away as malformed only   *)
(* if its length was read in part or its client went away: the length and  *)
(* the loop put all the pieces together again, in order.                   *)
TurnedAwayOnlyIfBroken ==
    Prefixed /\ server = "body" /\ BodyRead /\ data # Request => short \/ upEnd

(* A client that was sent any of the acknowledgement has its request in    *)
(* the list, even if the middleware stops right then.                      *)
AcknowledgedIsQueued ==
    \A i \in 1..Len(acked) : acked[i][1] = "ack" => queued

(* When no text is cut or joined on the way, the client of a queued        *)
(* request reports the response byte for byte, on either side of the size  *)
(* of its buffer.                                                          *)
ReportsResponse ==
    client = "done" /\ queued /\ text # <<>> /\ whole => report = text

(* Client and goroutine do not wait for each other for ever.               *)
BothEnd == <>(Ended /\ server = "closed")

(* "Wait for acknowledgment from the middleware": the wait comes to an end *)
(* without the user's interrupt.                                           *)
GetAcknowledged == []<>(client # "ack")
=============================================================================
