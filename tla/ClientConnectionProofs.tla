----------------------- MODULE ClientConnectionProofs -----------------------
(***************************************************************************)
(* Theorems about a client's connection, for all sizes of texts and        *)
(* buffers and all ways the stream is cut.                                 *)
(***************************************************************************)
EXTENDS ClientConnection, SequenceTheorems, TLAPS

HasAck(s) == \E i \in 1..Len(s) : s[i][1] = "ack"

(* An acknowledgement is written, and read, only of what was queued.       *)
Acknowledged ==
    /\ server \in {"ack", "poll"} => queued
    /\ HasAck(down) \/ HasAck(acked) => queued

(* What was read, is on its way and is not sent yet make up the request,   *)
(* behind its length as long as that was not read.                         *)
Framed ==
    Prefixed =>
        /\ server = "prefix" => data = <<>> /\ up \o unsent = LengthPrefix \o Request
        /\ server = "body" /\ ~short =>
              /\ announced = RequestSize
              /\ data \o (up \o unsent) = Request

-----------------------------------------------------------------------------
(* A sequence is cut into its first n elements and the rest.               *)
LEMMA Cut ==
    ASSUME NEW S, NEW s \in Seq(S), NEW n \in 0..Len(s)
    PROVE  /\ SubSeq(s, 1, n) \in Seq(S)
           /\ Len(SubSeq(s, 1, n)) = n
           /\ \A i \in 1..n : SubSeq(s, 1, n)[i] = s[i]
           /\ Rest(s, n) \in Seq(S)
           /\ Len(Rest(s, n)) = Len(s) - n
           /\ \A i \in 1..(Len(s) - n) : Rest(s, n)[i] = s[n + i]
           /\ SubSeq(s, 1, n) \o Rest(s, n) = s
<1>1. Len(s) \in Nat /\ \A i \in 1..Len(s) : s[i] \in S
    BY LenProperties, ElementOfSeq
<1>2. /\ SubSeq(s, 1, n) \in Seq(S)
      /\ Len(SubSeq(s, 1, n)) = n
      /\ \A i \in 1..n : SubSeq(s, 1, n)[i] = s[i]
    BY <1>1, SubSeqProperties
<1>3. /\ Rest(s, n) \in Seq(S)
      /\ Len(Rest(s, n)) = Len(s) - n
      /\ \A i \in 1..(Len(s) - n) : Rest(s, n)[i] = s[n + i]
    BY <1>1, SubSeqProperties DEF Rest
<1>4. SubSeq(s, 1, n) \o Rest(s, n) = s
    <2> DEFINE t == SubSeq(s, 1, n) \o Rest(s, n)
    <2>1. t \in Seq(S) /\ Len(t) = Len(s)
        BY <1>1, <1>2, <1>3, ConcatProperties
    <2>2. ASSUME NEW i \in 1..Len(s) PROVE t[i] = s[i]
        <3>1. t[i] = IF i <= n THEN SubSeq(s, 1, n)[i] ELSE Rest(s, n)[i - n]
            BY <1>1, <1>2, <1>3, ConcatProperties
        <3> QED
            BY <3>1, <1>1, <1>2, <1>3
    <2> QED
        BY <2>1, <2>2, SeqEqual
<1> QED
    BY <1>2, <1>3, <1>4

(* Two cuts of one sequence at the same place give the same parts.         *)
LEMMA SameCut ==
    ASSUME NEW S, NEW s \in Seq(S), NEW t \in Seq(S), NEW u \in Seq(S), NEW v \in Seq(S),
           s \o t = u \o v, Len(s) = Len(u)
    PROVE  s = u /\ t = v
<1>1. ASSUME NEW i \in 1..Len(s) PROVE s[i] = u[i]
    <2>1. (s \o t)[i] = s[i] /\ (u \o v)[i] = u[i]
        BY ConcatProperties, LenProperties
    <2> QED
        BY <2>1
<1>2. s = u
    BY <1>1, SeqEqual
<1>3. Len(t) = Len(v)
    BY <1>2, ConcatProperties, LenProperties
<1>4. ASSUME NEW i \in 1..Len(t) PROVE t[i] = v[i]
    <2>1. Len(s) \in Nat /\ Len(t) \in Nat /\ i + Len(s) \in 1..(Len(s) + Len(t)) /\ i + Len(s) > Len(s)
        BY LenProperties
    <2> DEFINE k == i + Len(s)
    <2>2. (s \o t)[k] = t[k - Len(s)]
        <3>1. k \in 1..(Len(s) + Len(t)) /\ ~(k <= Len(s))
            BY <2>1
        <3> HIDE DEF k
        <3> QED
            BY <3>1, ConcatProperties
    <2>3. (u \o v)[k] = v[k - Len(u)]
        <3>1. k \in 1..(Len(u) + Len(v)) /\ ~(k <= Len(u))
            BY <1>3, <2>1
        <3> HIDE DEF k
        <3> QED
            BY <3>1, ConcatProperties
    <2>4. k - Len(s) = i /\ k - Len(u) = i
        BY <2>1
    <2> QED
        BY <2>2, <2>3, <2>4
<1> QED
    BY <1>2, <1>3, <1>4, SeqEqual

(* The same for what a client sends, and how it may be grouped.            *)
LEMMA CutUp ==
    ASSUME NEW s \in Seq(ToServer), NEW n \in 0..Len(s)
    PROVE  /\ SubSeq(s, 1, n) \in Seq(ToServer) /\ Rest(s, n) \in Seq(ToServer)
           /\ Len(SubSeq(s, 1, n)) = n
           /\ SubSeq(s, 1, n) \o Rest(s, n) = s
BY Cut

LEMMA Grouped ==
    ASSUME NEW s \in Seq(ToServer), NEW t \in Seq(ToServer), NEW u \in Seq(ToServer)
    PROVE  s \o t \in Seq(ToServer) /\ (s \o t) \o u = s \o (t \o u)
BY ConcatProperties, ConcatAssociative

(* A read returns something, and no more than there is.                    *)
LEMMA Sizes ==
    ASSUME NEW S, NEW s \in Seq(S), NEW buffer \in Nat, NEW n \in ReadSizes(s, buffer)
    PROVE  n \in 1..Len(s) /\ n <= buffer
BY LenProperties DEF ReadSizes, Least

LEMMA Texts ==
    /\ LengthPrefix \in Seq(ToServer) /\ Len(LengthPrefix) = PrefixSize
    /\ Request \in Seq(ToServer) /\ Len(Request) = RequestSize
    /\ Ack \in Seq(ToClient)
    /\ \A size \in TextSizes : Bytes("text", size) \in Seq(ToClient)
    /\ \A size \in TextSizes : \A i \in 1..Len(Bytes("text", size)) : Bytes("text", size)[i][1] = "text"
<1>1. ASSUME NEW name \in {"length", "request"}, NEW size \in Nat
      PROVE  Bytes(name, size) \in Seq(ToServer) /\ Len(Bytes(name, size)) = size
    BY <1>1, IsASeq, LenProperties DEF Bytes, ToServer
<1>2. ASSUME NEW name \in {"ack", "text"}, NEW size \in Nat
      PROVE  /\ Bytes(name, size) \in Seq(ToClient) /\ Len(Bytes(name, size)) = size
             /\ \A i \in 1..size : Bytes(name, size)[i][1] = name
    BY <1>2, IsASeq, LenProperties DEF Bytes, ToClient
<1> QED
    BY <1>1, <1>2, SizeAssumption DEF LengthPrefix, Request, Ack

(* What is announced, when the length is read whole and when it is not.    *)
LEMMA Lengths ==
    ASSUME NEW read \in Seq(ToServer)
    PROVE  /\ Announced(read) \subseteq Nat
           /\ read = LengthPrefix => Announced(read) = {RequestSize}
<1>1. RequestSize \in Nat /\ RequestSize + 1 \in Nat
    BY SizeAssumption
<1>2. CASE read = LengthPrefix
    <2>1. read[1][1] = "length"
        BY <1>2, SizeAssumption DEF LengthPrefix, Bytes
    <2> QED
        BY <1>1, <1>2, <2>1 DEF Announced
<1>3. CASE read # LengthPrefix
    BY <1>1, <1>3 DEF Announced
<1> QED
    BY <1>2, <1>3

(* What a write takes is there.                                            *)
LEMMA WriteSizes ==
    ASSUME unsent \in Seq(ToServer), unsent # <<>>,
           NEW n \in IF unsent = LengthPrefix \o Request THEN {PrefixSize} ELSE 1..Len(unsent)
    PROVE  n \in 0..Len(unsent)
<1>1. CASE unsent = LengthPrefix \o Request
    <2>1. Len(unsent) = PrefixSize + RequestSize
        BY <1>1, Texts, ConcatProperties
    <2> QED
        BY <1>1, <2>1, SizeAssumption
<1>2. CASE unsent # LengthPrefix \o Request
    BY <1>2, LenProperties
<1> QED
    BY <1>1, <1>2

-----------------------------------------------------------------------------
LEMMA TypeStep ==
    TypeOK /\ [Next]_vars => TypeOK'
<1> SUFFICES ASSUME TypeOK, [Next]_vars PROVE TypeOK'
    OBVIOUS
<1> USE DEF TypeOK, ClientPoints, ServerPoints
<1>s. /\ PrefixSize \in Nat /\ RequestSize \in Nat /\ AckBuffer \in Nat /\ Buffer \in Nat
    BY SizeAssumption
<1>1. CASE UNCHANGED vars
    BY <1>1 DEF vars, clientVars, serverVars, tcpVars
<1>2. CASE Write
    <2>1. PICK n \in IF unsent = LengthPrefix \o Request THEN {PrefixSize} ELSE 1..Len(unsent) :
              /\ unsent' = Rest(unsent, n)
              /\ \/ up' = up /\ downEnd' = "reset"
                 \/ up' = up \o SubSeq(unsent, 1, n) /\ downEnd' = downEnd
        BY <1>2 DEF Write
    <2>a. n \in 0..Len(unsent)
        BY <1>2, WriteSizes DEF Write
    <2>2. SubSeq(unsent, 1, n) \in Seq(ToServer) /\ Rest(unsent, n) \in Seq(ToServer)
        BY <2>a, CutUp
    <2>3. up \o SubSeq(unsent, 1, n) \in Seq(ToServer)
        BY <2>2, ConcatProperties
    <2> QED
        BY <1>2, <2>1, <2>2, <2>3 DEF Write, clientVars, serverVars, tcpVars
<1>3. CASE WriteError
    BY <1>3 DEF WriteError, ClientEnds, clientVars, serverVars, tcpVars
<1>4. CASE Written
    BY <1>4 DEF Written, clientVars, serverVars, tcpVars
<1>5. CASE ReadAck
    <2>1. PICK n \in ReadSizes(down, AckBuffer) :
              acked' = SubSeq(down, 1, n) /\ down' = Rest(down, n)
        BY <1>5 DEF ReadAck
    <2>2. SubSeq(down, 1, n) \in Seq(ToClient) /\ Rest(down, n) \in Seq(ToClient)
        BY <1>s, Sizes, Cut, LenProperties
    <2>3. report \o SubSeq(down, 1, n) \in Seq(ToClient)
        BY <2>2, ConcatProperties
    <2> QED
        BY <1>5, <2>1, <2>2, <2>3 DEF ReadAck, ClientEnds, clientVars, serverVars, tcpVars
<1>6. CASE ReadAckError
    BY <1>6 DEF ReadAckError, ClientEnds, clientVars, serverVars, tcpVars
<1>7. CASE ReadResponse
    <2>1. PICK n \in ReadSizes(down, Buffer) :
              report' = report \o SubSeq(down, 1, n) /\ down' = Rest(down, n)
        BY <1>7 DEF ReadResponse
    <2>2. SubSeq(down, 1, n) \in Seq(ToClient) /\ Rest(down, n) \in Seq(ToClient)
        BY <1>s, Sizes, Cut, LenProperties
    <2>3. report \o SubSeq(down, 1, n) \in Seq(ToClient)
        BY <2>2, ConcatProperties
    <2> QED
        BY <1>7, <2>1, <2>2, <2>3 DEF ReadResponse, ClientEnds, clientVars, serverVars, tcpVars
<1>8. CASE ReadResponseEOF
    BY <1>8 DEF ReadResponseEOF, ClientEnds, clientVars, serverVars, tcpVars
<1>9. CASE Interrupt
    BY <1>9 DEF Interrupt, ClientEnds, Ended, clientVars, serverVars, tcpVars
<1>10. CASE ReadPrefix
    <2>1. PICK n \in ReadSizes(up, PrefixSize) :
              /\ up' = Rest(up, n)
              /\ announced' \in Announced(SubSeq(up, 1, n))
              /\ short' = (n < PrefixSize)
        BY <1>10 DEF ReadPrefix
    <2>a. n \in 0..Len(up)
        BY <1>s, Sizes, LenProperties
    <2>2. SubSeq(up, 1, n) \in Seq(ToServer) /\ Rest(up, n) \in Seq(ToServer)
        BY <2>a, CutUp
    <2>3. announced' \in Nat
        BY <2>1, <2>2, Lengths
    <2> QED
        BY <1>10, <2>1, <2>2, <2>3 DEF ReadPrefix, clientVars, serverVars, tcpVars
<1>11. CASE ReadPrefixError
    BY <1>11 DEF ReadPrefixError, Close, clientVars, serverVars, tcpVars
<1>12. CASE ReadBody
    <2>1. PICK n \in ReadSizes(up, RequestSize) :
              data' = data \o SubSeq(up, 1, n) /\ up' = Rest(up, n)
        BY <1>12 DEF ReadBody
    <2>a. n \in 0..Len(up)
        BY <1>s, Sizes, LenProperties
    <2>2. SubSeq(up, 1, n) \in Seq(ToServer) /\ Rest(up, n) \in Seq(ToServer)
        BY <2>a, CutUp
    <2>3. data \o SubSeq(up, 1, n) \in Seq(ToServer)
        BY <2>2, ConcatProperties
    <2> QED
        BY <1>12, <2>1, <2>2, <2>3 DEF ReadBody, clientVars, serverVars, tcpVars
<1>13. CASE ParseRequest
    BY <1>13 DEF ParseRequest, clientVars, serverVars, tcpVars
<1>14. CASE ParseError
    BY <1>14 DEF ParseError, Close, clientVars, serverVars, tcpVars
<1>15. CASE Push
    BY <1>15 DEF Push, clientVars, serverVars, tcpVars
<1>16. CASE PushError
    <2>1. PICK size \in TextSizes : text' = Bytes("text", size) /\ down' = down \o Bytes("text", size)
        BY <1>16 DEF PushError, WriteText
    <2>2. Bytes("text", size) \in Seq(ToClient) /\ down \o Bytes("text", size) \in Seq(ToClient)
        BY Texts, ConcatProperties
    <2> QED
        BY <1>16, <2>1, <2>2 DEF PushError, WriteText, Close, clientVars, serverVars, tcpVars
<1>17. CASE WriteAck
    <2>1. down \o Ack \in Seq(ToClient)
        BY Texts, ConcatProperties
    <2> QED
        BY <1>17, <2>1 DEF WriteAck, clientVars, serverVars, tcpVars
<1>18. CASE Respond
    <2>1. PICK size \in TextSizes : text' = Bytes("text", size) /\ down' = down \o Bytes("text", size)
        BY <1>18 DEF Respond, WriteText
    <2>2. Bytes("text", size) \in Seq(ToClient) /\ down \o Bytes("text", size) \in Seq(ToClient)
        BY Texts, ConcatProperties
    <2> QED
        BY <1>18, <2>1, <2>2 DEF Respond, WriteText, Close, clientVars, serverVars, tcpVars
<1>19. CASE Stop
    BY <1>19 DEF Stop, Close, clientVars, serverVars, tcpVars
<1> QED
    BY <1>1, <1>2, <1>3, <1>4, <1>5, <1>6, <1>7, <1>8, <1>9,
        <1>10, <1>11, <1>12, <1>13, <1>14, <1>15, <1>16, <1>17, <1>18, <1>19
    DEF Next, Client, Server

(* Streams and buffers hold bytes of the texts sent in their direction.    *)
THEOREM TypeCorrect == Spec => []TypeOK
<1>1. Init => TypeOK
    <2> SUFFICES ASSUME Init PROVE TypeOK
        OBVIOUS
    <2>1. unsent \in Seq(ToServer)
        BY Texts, ConcatProperties DEF Init
    <2> QED
        BY <2>1, EmptySeq DEF Init, TypeOK, ClientPoints, ServerPoints
<1> QED
    BY <1>1, TypeStep, PTL DEF Spec

-----------------------------------------------------------------------------
(* A text adds no acknowledgement to what is on its way.                   *)
LEMMA NoAck ==
    ASSUME NEW s \in Seq(ToClient), NEW size \in TextSizes
    PROVE  HasAck(s \o Bytes("text", size)) => HasAck(s)
<1> DEFINE t == Bytes("text", size)
<1>1. t \in Seq(ToClient) /\ \A i \in 1..Len(t) : t[i][1] = "text"
    BY Texts
<1> HIDE DEF t
<1>2. Len(s) \in Nat /\ Len(t) \in Nat /\ Len(s \o t) = Len(s) + Len(t)
    BY <1>1, LenProperties, ConcatProperties
<1> SUFFICES ASSUME NEW i \in 1..Len(s \o t), (s \o t)[i][1] = "ack" PROVE HasAck(s)
    BY DEF HasAck, t
<1>3. (s \o t)[i] = IF i <= Len(s) THEN s[i] ELSE t[i - Len(s)]
    BY <1>1, <1>2, ConcatProperties
<1>4. CASE i <= Len(s)
    BY <1>2, <1>3, <1>4 DEF HasAck
<1>5. CASE i > Len(s)
    <2>1. i - Len(s) \in 1..Len(t)
        BY <1>2, <1>5
    <2> QED
        BY <1>1, <1>2, <1>3, <1>5, <2>1
<1> QED
    BY <1>2, <1>4, <1>5

LEMMA AcknowledgedStep ==
    TypeOK /\ Acknowledged /\ [Next]_vars => Acknowledged'
<1> SUFFICES ASSUME TypeOK, Acknowledged, [Next]_vars PROVE Acknowledged'
    OBVIOUS
<1>s. AckBuffer \in Nat /\ Buffer \in Nat
    BY SizeAssumption
<1>a. ASSUME down' = down, acked' = acked PROVE HasAck(down)' = HasAck(down) /\ HasAck(acked)' = HasAck(acked)
    BY <1>a DEF HasAck
<1>1. CASE UNCHANGED vars
    BY <1>1, <1>a DEF vars, Acknowledged, clientVars, serverVars, tcpVars
<1>2. CASE Write
    BY <1>2, <1>a DEF Acknowledged, Write, clientVars, serverVars, tcpVars
<1>3. CASE WriteError
    BY <1>3, <1>a DEF Acknowledged, WriteError, ClientEnds, clientVars, serverVars, tcpVars
<1>4. CASE Written
    BY <1>4, <1>a DEF Acknowledged, Written, clientVars, serverVars, tcpVars
<1>5. CASE ReadAck
    <2>1. PICK n \in ReadSizes(down, AckBuffer) : acked' = SubSeq(down, 1, n) /\ down' = Rest(down, n)
        BY <1>5 DEF ReadAck, clientVars
    <2>2. n \in 0..Len(down) /\ down \in Seq(ToClient)
        BY <1>s, Sizes, LenProperties DEF TypeOK
    <2>3. HasAck(SubSeq(down, 1, n)) => HasAck(down)
        BY <2>2, Cut, LenProperties DEF HasAck
    <2>4. HasAck(Rest(down, n)) => HasAck(down)
        BY <2>2, Cut, LenProperties DEF HasAck
    <2>5. HasAck(down)' = HasAck(Rest(down, n))
        BY <2>1 DEF HasAck
    <2>6. HasAck(acked)' = HasAck(SubSeq(down, 1, n))
        BY <2>1 DEF HasAck
    <2>7. server' = server /\ queued' = queued
        BY <1>5 DEF ReadAck, serverVars
    <2> QED
        BY <2>3, <2>4, <2>5, <2>6, <2>7 DEF Acknowledged
<1>6. CASE ReadAckError
    BY <1>6, <1>a DEF Acknowledged, ReadAckError, ClientEnds, clientVars, serverVars, tcpVars
<1>7. CASE ReadResponse
    <2>1. PICK n \in ReadSizes(down, Buffer) : acked' = acked /\ down' = Rest(down, n)
        BY <1>7 DEF ReadResponse, clientVars
    <2>2. n \in 0..Len(down) /\ down \in Seq(ToClient)
        BY <1>s, Sizes, LenProperties DEF TypeOK
    <2>3. HasAck(SubSeq(down, 1, n)) => HasAck(down)
        BY <2>2, Cut, LenProperties DEF HasAck
    <2>4. HasAck(Rest(down, n)) => HasAck(down)
        BY <2>2, Cut, LenProperties DEF HasAck
    <2>5. HasAck(down)' = HasAck(Rest(down, n))
        BY <2>1 DEF HasAck
    <2>6. HasAck(acked)' = HasAck(acked)
        BY <2>1 DEF HasAck
    <2>7. server' = server /\ queued' = queued
        BY <1>7 DEF ReadResponse, serverVars
    <2> QED
        BY <2>3, <2>4, <2>5, <2>6, <2>7 DEF Acknowledged
<1>8. CASE ReadResponseEOF
    BY <1>8, <1>a DEF Acknowledged, ReadResponseEOF, ClientEnds, clientVars, serverVars, tcpVars
<1>9. CASE Interrupt
    BY <1>9, <1>a DEF Acknowledged, Interrupt, ClientEnds, Ended, clientVars, serverVars, tcpVars
<1>10. CASE ReadPrefix
    BY <1>10, <1>a DEF Acknowledged, ReadPrefix, clientVars, serverVars, tcpVars
<1>11. CASE ReadPrefixError
    BY <1>11, <1>a DEF Acknowledged, ReadPrefixError, Close, clientVars, serverVars, tcpVars
<1>12. CASE ReadBody
    BY <1>12, <1>a DEF Acknowledged, ReadBody, clientVars, serverVars, tcpVars
<1>13. CASE ParseRequest
    BY <1>13, <1>a DEF Acknowledged, ParseRequest, clientVars, serverVars, tcpVars
<1>14. CASE ParseError
    BY <1>14, <1>a DEF Acknowledged, ParseError, Close, clientVars, serverVars, tcpVars
<1>15. CASE Push
    BY <1>15 DEF Push, Acknowledged
<1>16. CASE PushError
    <2>1. PICK size \in TextSizes : down' = down \o Bytes("text", size)
        BY <1>16 DEF PushError, WriteText
    <2>2. HasAck(down)' => HasAck(down)
        BY <2>1, NoAck DEF TypeOK, HasAck
    <2>3. HasAck(acked)' = HasAck(acked)
        BY <1>16 DEF PushError, clientVars, HasAck
    <2>4. server' = "closed" /\ queued' = queued
        BY <1>16 DEF PushError, WriteText, Close
    <2> QED
        BY <2>2, <2>3, <2>4 DEF Acknowledged
<1>17. CASE WriteAck
    BY <1>17 DEF WriteAck, Acknowledged
<1>18. CASE Respond
    <2>1. PICK size \in TextSizes : down' = down \o Bytes("text", size)
        BY <1>18 DEF Respond, WriteText
    <2>2. HasAck(down)' => HasAck(down)
        BY <2>1, NoAck DEF TypeOK, HasAck
    <2>3. HasAck(acked)' = HasAck(acked)
        BY <1>18 DEF Respond, clientVars, HasAck
    <2>4. server' = "closed" /\ queued' = queued
        BY <1>18 DEF Respond, WriteText, Close
    <2> QED
        BY <2>2, <2>3, <2>4 DEF Acknowledged
<1>19. CASE Stop
    BY <1>19, <1>a DEF Acknowledged, Stop, Close, clientVars, serverVars, tcpVars
<1> QED
    BY <1>1, <1>2, <1>3, <1>4, <1>5, <1>6, <1>7, <1>8, <1>9,
        <1>10, <1>11, <1>12, <1>13, <1>14, <1>15, <1>16, <1>17, <1>18, <1>19
    DEF Next, Client, Server

(* A client was sent an acknowledgement only of a queued request.          *)
THEOREM AcknowledgedQueued == Spec => []AcknowledgedIsQueued
<1>1. Init => TypeOK /\ Acknowledged
    <2> SUFFICES ASSUME Init PROVE TypeOK /\ Acknowledged
        OBVIOUS
    <2>1. unsent \in Seq(ToServer)
        BY Texts, ConcatProperties DEF Init
    <2>2. TypeOK
        BY <2>1, EmptySeq DEF Init, TypeOK, ClientPoints, ServerPoints
    <2>3. ~HasAck(<<>>)
        BY EmptySeq DEF HasAck
    <2> QED
        BY <2>2, <2>3 DEF Init, Acknowledged
<1>2. Acknowledged => AcknowledgedIsQueued
    BY DEF Acknowledged, AcknowledgedIsQueued, HasAck
<1> QED
    BY <1>1, <1>2, TypeStep, AcknowledgedStep, PTL DEF Spec

-----------------------------------------------------------------------------
LEMMA FramedStep ==
    TypeOK /\ Framed /\ [Next]_vars => Framed'
<1> SUFFICES ASSUME TypeOK, Framed, Prefixed, [Next]_vars PROVE Framed'
    BY DEF Framed
<1>s. PrefixSize \in Nat /\ RequestSize \in Nat
    BY SizeAssumption
<1>t. up \in Seq(ToServer) /\ unsent \in Seq(ToServer) /\ data \in Seq(ToServer)
    BY DEF TypeOK
<1>1. CASE UNCHANGED vars
    BY <1>1 DEF vars, Framed, clientVars, serverVars, tcpVars
<1>2. CASE Write
    <2>1. PICK n \in IF unsent = LengthPrefix \o Request THEN {PrefixSize} ELSE 1..Len(unsent) :
              /\ unsent' = Rest(unsent, n)
              /\ server # "closed" => up' = up \o SubSeq(unsent, 1, n)
        BY <1>2 DEF Write
    <2>2. n \in 0..Len(unsent)
        BY <1>2, <1>t, WriteSizes DEF Write
    <2>3. CASE server # "closed"
        <3>1. /\ SubSeq(unsent, 1, n) \in Seq(ToServer) /\ Rest(unsent, n) \in Seq(ToServer)
              /\ SubSeq(unsent, 1, n) \o Rest(unsent, n) = unsent
            BY <1>t, <2>2, CutUp
        <3>2. (up \o SubSeq(unsent, 1, n)) \o Rest(unsent, n) = up \o unsent
            <4> DEFINE a == SubSeq(unsent, 1, n)
                       b == Rest(unsent, n)
            <4>1. a \in Seq(ToServer)
                BY <3>1
            <4>3. b \in Seq(ToServer)
                BY <3>1
            <4>4. up \in Seq(ToServer)
                BY <1>t
            <4> HIDE DEF a, b
            <4>2. (up \o a) \o b = up \o (a \o b)
                BY <4>1, <4>3, <4>4, Grouped, SMTT(20)
            <4> QED
                BY <3>1, <4>2 DEF a, b
        <3>3. up' \o unsent' = up \o unsent
            BY <2>1, <2>3, <3>2
        <3>4. server' = server /\ data' = data /\ short' = short /\ announced' = announced
            BY <1>2 DEF Write, serverVars
        <3> QED
            BY <3>3, <3>4 DEF Framed
    <2>4. CASE server = "closed"
        BY <1>2, <2>4 DEF Write, Framed, serverVars
    <2> QED
        BY <2>3, <2>4
<1>3. CASE WriteError
    BY <1>3 DEF Framed, WriteError, ClientEnds, clientVars, serverVars, tcpVars
<1>4. CASE Written
    BY <1>4 DEF Framed, Written, clientVars, serverVars, tcpVars
<1>5. CASE ReadAck
    BY <1>5 DEF Framed, ReadAck, clientVars, serverVars, tcpVars
<1>6. CASE ReadAckError
    BY <1>6 DEF Framed, ReadAckError, ClientEnds, clientVars, serverVars, tcpVars
<1>7. CASE ReadResponse
    BY <1>7 DEF Framed, ReadResponse, ClientEnds, clientVars, serverVars, tcpVars
<1>8. CASE ReadResponseEOF
    BY <1>8 DEF Framed, ReadResponseEOF, ClientEnds, clientVars, serverVars, tcpVars
<1>9. CASE Interrupt
    BY <1>9 DEF Framed, Interrupt, ClientEnds, Ended, clientVars, serverVars, tcpVars
<1>10. CASE ReadPrefix
    <2>1. PICK n \in ReadSizes(up, PrefixSize) :
              /\ up' = Rest(up, n)
              /\ announced' \in Announced(SubSeq(up, 1, n))
              /\ short' = (n < PrefixSize)
        BY <1>10 DEF ReadPrefix
    <2>2. n \in 1..Len(up) /\ n <= PrefixSize /\ n \in 0..Len(up)
        BY <1>s, <1>t, Sizes, LenProperties
    <2>3. data = <<>> /\ up \o unsent = LengthPrefix \o Request
        BY <1>10 DEF ReadPrefix, Framed
    <2>4. CASE n = PrefixSize
        <3> DEFINE read == SubSeq(up, 1, n)
        <3>1. read \in Seq(ToServer) /\ Rest(up, n) \in Seq(ToServer) /\ read \o Rest(up, n) = up /\ Len(read) = PrefixSize
            BY <1>t, <2>2, <2>4, CutUp
        <3> HIDE DEF read
        <3>2. read \o (Rest(up, n) \o unsent) = LengthPrefix \o Request
            <4> DEFINE b == Rest(up, n)
            <4>1. read \in Seq(ToServer)
                BY <3>1
            <4>2. b \in Seq(ToServer)
                BY <3>1
            <4>3. unsent \in Seq(ToServer)
                BY <1>t
            <4> HIDE DEF b
            <4>4. (read \o b) \o unsent = read \o (b \o unsent)
                BY <4>1, <4>2, <4>3, Grouped, SMTT(20)
            <4> QED
                BY <2>3, <3>1, <4>4 DEF b
        <3>3. Rest(up, n) \o unsent \in Seq(ToServer)
            BY <1>t, <3>1, Grouped
        <3>4. read = LengthPrefix /\ Rest(up, n) \o unsent = Request
            BY <3>1, <3>2, <3>3, SameCut, Texts
        <3>5. announced' = RequestSize
            <4>1. announced' \in Announced(read)
                BY <2>1 DEF read
            <4> QED
                BY <3>1, <3>4, <4>1, Lengths
        <3>6. data' \o (up' \o unsent') = Request
            BY <1>10, <2>1, <2>3, <3>3, <3>4, ConcatEmptySeq DEF ReadPrefix, clientVars
        <3> QED
            BY <1>10, <3>5, <3>6 DEF ReadPrefix, Framed
    <2>5. CASE n < PrefixSize
        <3>1. short'
            BY <2>1, <2>5
        <3> QED
            BY <1>10, <3>1 DEF ReadPrefix, Framed
    <2> QED
        BY <1>s, <2>2, <2>4, <2>5
<1>11. CASE ReadPrefixError
    BY <1>11 DEF Framed, ReadPrefixError, Close, clientVars, serverVars, tcpVars
<1>12. CASE ReadBody
    <2>1. PICK n \in ReadSizes(up, RequestSize) :
              data' = data \o SubSeq(up, 1, n) /\ up' = Rest(up, n)
        BY <1>12 DEF ReadBody
    <2>2. n \in 0..Len(up)
        BY <1>s, <1>t, Sizes, LenProperties
    <2> DEFINE read == SubSeq(up, 1, n)
    <2>3. read \in Seq(ToServer) /\ Rest(up, n) \in Seq(ToServer) /\ read \o Rest(up, n) = up
        BY <1>t, <2>2, CutUp
    <2> HIDE DEF read
    <2>4. Rest(up, n) \o unsent \in Seq(ToServer)
        BY <1>t, <2>3, Grouped
    <2>5. (data \o read) \o (Rest(up, n) \o unsent) = data \o (read \o (Rest(up, n) \o unsent))
        BY <1>t, <2>3, <2>4, Grouped
    <2>6. read \o (Rest(up, n) \o unsent) = up \o unsent
        <3> DEFINE b == Rest(up, n)
        <3>1. read \in Seq(ToServer)
            BY <2>3
        <3>2. b \in Seq(ToServer)
            BY <2>3
        <3>3. unsent \in Seq(ToServer)
            BY <1>t
        <3> HIDE DEF b
        <3>4. (read \o b) \o unsent = read \o (b \o unsent)
            BY <3>1, <3>2, <3>3, Grouped, SMTT(20)
        <3> QED
            BY <2>3, <3>4 DEF b
    <2>7. data' \o (up' \o unsent') = data \o (up \o unsent)
        BY <1>12, <2>1, <2>5, <2>6 DEF ReadBody, clientVars, read
    <2> QED
        BY <1>12, <2>7 DEF ReadBody, Framed
<1>13. CASE ParseRequest
    BY <1>13 DEF Framed, ParseRequest, clientVars, serverVars, tcpVars
<1>14. CASE ParseError
    BY <1>14 DEF Framed, ParseError, Close, clientVars, serverVars, tcpVars
<1>15. CASE Push
    BY <1>15 DEF Framed, Push, clientVars, serverVars, tcpVars
<1>16. CASE PushError
    BY <1>16 DEF Framed, PushError, WriteText, Close, clientVars, serverVars, tcpVars
<1>17. CASE WriteAck
    BY <1>17 DEF Framed, WriteAck, clientVars, serverVars, tcpVars
<1>18. CASE Respond
    BY <1>18 DEF Framed, Respond, WriteText, Close, clientVars, serverVars, tcpVars
<1>19. CASE Stop
    BY <1>19 DEF Framed, Stop, Close, clientVars, serverVars, tcpVars
<1> QED
    BY <1>1, <1>2, <1>3, <1>4, <1>5, <1>6, <1>7, <1>8, <1>9,
        <1>10, <1>11, <1>12, <1>13, <1>14, <1>15, <1>16, <1>17, <1>18, <1>19
    DEF Next, Client, Server

(* A request is turned away as malformed only if its length was read in    *)
(* part or its client went away.                                           *)
THEOREM NeverTurnedAway == Spec => []TurnedAwayOnlyIfBroken
<1>1. Init => TypeOK /\ Framed
    <2> SUFFICES ASSUME Init PROVE TypeOK /\ Framed
        OBVIOUS
    <2>1. unsent \in Seq(ToServer) /\ up \o unsent = unsent
        BY Texts, ConcatProperties, ConcatEmptySeq DEF Init
    <2> QED
        BY <2>1, EmptySeq DEF Init, TypeOK, ClientPoints, ServerPoints, Framed
<1>2. TypeOK /\ Framed => TurnedAwayOnlyIfBroken
    <2> SUFFICES ASSUME TypeOK, Framed, Prefixed, server = "body", BodyRead, ~short, ~upEnd
                 PROVE  data = Request
        BY DEF TurnedAwayOnlyIfBroken
    <2>1. Len(data) >= RequestSize /\ data \o (up \o unsent) = Request
        BY DEF BodyRead, Framed
    <2>2. data \in Seq(ToServer) /\ up \o unsent \in Seq(ToServer)
        BY ConcatProperties DEF TypeOK
    <2>3. Len(data) + Len(up \o unsent) = RequestSize
        BY <2>1, <2>2, ConcatProperties, Texts
    <2>4. up \o unsent = <<>>
        BY <2>1, <2>2, <2>3, LenProperties, EmptySeq, SizeAssumption
    <2> QED
        BY <2>1, <2>2, <2>4, ConcatEmptySeq
<1> QED
    BY <1>1, <1>2, TypeStep, FramedStep, PTL DEF Spec

-----------------------------------------------------------------------------
(* What a client has of the response, and what is on its way: nothing but  *)
(* the acknowledgement until the response is written, and then all of it.  *)
Waiting ==
    \/ client \in {"send", "ack"} /\ down = Ack
    \/ client = "poll" /\ down = <<>>

Answered ==
    /\ server # "closed" => text = <<>> /\ downEnd = "open"
    /\ server \in {"prefix", "body", "push"} => ~queued
    /\ whole /\ client # "failed" =>
          /\ server \in {"prefix", "body", "push", "ack"} =>
                client \in {"send", "ack"} /\ down = <<>> /\ report = <<>>
          /\ server = "poll" => Waiting /\ report = <<>>
          /\ server = "closed" /\ queued /\ text # <<>> =>
                /\ client \in {"poll", "done"} /\ report \o down = text
                /\ client = "done" => down = <<>>

(* A read of all there is leaves nothing.                                  *)
LEMMA ReadAll ==
    ASSUME NEW S, NEW s \in Seq(S), NEW n \in 0..Len(s)
    PROVE  n = Len(s) => Rest(s, n) = <<>>
<1>1. Rest(s, n) \in Seq(S) /\ Len(Rest(s, n)) = Len(s) - n
    BY Cut
<1> QED
    BY <1>1, EmptySeq, LenProperties

LEMMA AnsweredStep ==
    ASSUME TypeOK, TypeOK', Answered, [Next]_vars
    PROVE  Answered'
<1>a. Ack # <<>>
    BY SizeAssumption, Texts, EmptySeq DEF Ack, Bytes
<1>c. down \in Seq(ToClient) /\ report \in Seq(ToClient) /\ text \in Seq(ToClient)
    BY DEF TypeOK
<1>1. CASE UNCHANGED vars
    BY <1>1 DEF Answered, Waiting, vars, clientVars, serverVars, tcpVars
<1>2. CASE Write
    <2>1. /\ server' = server /\ text' = text /\ down' = down /\ report' = report
          /\ whole' = whole /\ client' = client /\ queued' = queued
          /\ server # "closed" => downEnd' = downEnd
        BY <1>2 DEF Write, serverVars
    <2> QED
        BY <2>1 DEF Answered, Waiting
<1>3. CASE WriteError \/ ReadAckError \/ Interrupt
    <2>1. client' = "failed" /\ UNCHANGED <<server, text, queued, downEnd>>
        BY <1>3 DEF WriteError, ReadAckError, Interrupt, ClientEnds, serverVars
    <2> QED
        BY <2>1 DEF Answered
<1>4. CASE Written
    BY <1>4 DEF Answered, Waiting, Written, serverVars, tcpVars
<1>5. CASE ReadAck
    <2>1. PICK n \in ReadSizes(down, AckBuffer) :
             down' = Rest(down, n) /\ whole' = (whole /\ n = Len(down))
        BY <1>5 DEF ReadAck
    <2>2. /\ client = "ack" /\ client' = "poll" /\ down # <<>> /\ downEnd' = downEnd
          /\ report' = report /\ server' = server /\ text' = text /\ queued' = queued
        BY <1>5 DEF ReadAck, serverVars
    <2>3. whole' => down' = <<>>
        <3>1. n \in 1..Len(down) /\ Len(down) \in Nat
            BY <1>c, <2>1, Sizes, LenProperties, SizeAssumption
        <3>2. n \in 0..Len(down)
            BY <3>1
        <3> QED
            BY <1>c, <2>1, <3>2, ReadAll
    <2>4. whole' => whole
        BY <2>1
    <2> QED
        BY <2>2, <2>3, <2>4 DEF Answered, Waiting
<1>6. CASE ReadResponse
    <2>1. PICK n \in ReadSizes(down, Buffer) :
             /\ report' = report \o SubSeq(down, 1, n)
             /\ down' = Rest(down, n)
             /\ whole' = (whole /\ n = Least(Len(down), Buffer))
             /\ IF n < Buffer THEN client' = "done" ELSE client' = client
        BY <1>6 DEF ReadResponse, ClientEnds
    <2>2. /\ client = "poll" /\ down # <<>> /\ downEnd' = downEnd
          /\ server' = server /\ text' = text /\ queued' = queued
        BY <1>6 DEF ReadResponse, serverVars
    <2>3. n \in 1..Len(down) /\ n \in 0..Len(down) /\ Len(down) \in Nat
        BY <1>c, <2>1, Sizes, LenProperties, SizeAssumption
    <2>4. report' \o down' = report \o down
        <3>1. /\ SubSeq(down, 1, n) \in Seq(ToClient) /\ Rest(down, n) \in Seq(ToClient)
              /\ SubSeq(down, 1, n) \o Rest(down, n) = down
            BY <1>c, <2>3, Cut
        <3> DEFINE read == SubSeq(down, 1, n)
                   rest == Rest(down, n)
        <3>2. read \in Seq(ToClient) /\ rest \in Seq(ToClient) /\ read \o rest = down
            BY <3>1
        <3>3. report' = report \o read /\ down' = rest
            BY <2>1
        <3> HIDE DEF read, rest
        <3>4. (report \o read) \o rest = report \o (read \o rest)
            <4>1. \A s, u, v \in Seq(ToClient) : (s \o u) \o v = s \o (u \o v)
                BY ConcatAssociative
            <4> QED
                BY <1>c, <3>2, <4>1
        <3> QED
            BY <3>2, <3>3, <3>4
    <2>5. whole' /\ client' = "done" => down' = <<>>
        <3> SUFFICES ASSUME whole', client' = "done" PROVE n = Len(down)
            BY <1>c, <2>1, <2>3, ReadAll
        <3> QED
            <4>1. n < Buffer /\ n = Least(Len(down), Buffer)
                BY <2>1, <2>2
            <4> QED
                BY <2>3, <4>1, SizeAssumption DEF Least
    <2>6. whole' => whole
        BY <2>1
    <2>7. client' \in {"poll", "done"}
        BY <2>1, <2>2
    <2> QED
        BY <2>2, <2>4, <2>5, <2>6, <2>7 DEF Answered, Waiting
<1>7. CASE ReadResponseEOF
    <2>1. /\ client = "poll" /\ client' = "done" /\ down = <<>> /\ downEnd = "eof"
          /\ UNCHANGED <<report, whole, down, downEnd, server, text, queued>>
        BY <1>7 DEF ReadResponseEOF, ClientEnds, serverVars
    <2> QED
        BY <2>1 DEF Answered
<1>8. CASE ReadPrefix \/ ReadBody \/ ParseRequest \/ Push
    <2>1. /\ server \in {"prefix", "body", "push"} /\ server' \in {"body", "push", "ack"}
          /\ server' # "ack" => queued' = queued
          /\ UNCHANGED <<client, report, whole, down, downEnd, text>>
        BY <1>8 DEF ReadPrefix, ReadBody, ParseRequest, Push, clientVars, tcpVars
    <2> QED
        BY <2>1 DEF Answered
<1>9. CASE ReadPrefixError \/ ParseError \/ Stop
    <2>1. server # "closed" /\ server' = "closed" /\ text' = text
        BY <1>9 DEF ReadPrefixError, ParseError, Stop, Close, clientVars
    <2> QED
        BY <2>1 DEF Answered
<1>10. CASE WriteAck
    <2>1. /\ server = "ack" /\ server' = "poll" /\ down' = down \o Ack
          /\ UNCHANGED <<client, report, whole, downEnd, text>>
        BY <1>10 DEF WriteAck, clientVars
    <2>2. down = <<>> => down' = Ack
        BY <2>1, Texts, ConcatEmptySeq
    <2> QED
        BY <2>1, <2>2 DEF Answered, Waiting
<1>11. CASE PushError
    <2>1. server = "push" /\ server' = "closed" /\ queued' = queued
        BY <1>11 DEF PushError, WriteText, Close
    <2> QED
        BY <2>1 DEF Answered
<1>12. CASE Respond
    <2>1. PICK size \in TextSizes : text' = Bytes("text", size) /\ down' = down \o Bytes("text", size)
        BY <1>12 DEF Respond, WriteText
    <2>2. /\ server = "poll" /\ server' = "closed" /\ whole' = (whole /\ down = <<>>)
          /\ UNCHANGED <<client, report>>
        BY <1>12 DEF Respond, WriteText, Close
    <2>3. ASSUME whole', client # "failed"
          PROVE  client = "poll" /\ report' \o down' = text'
        <3>1. client = "poll" /\ report = <<>> /\ down = <<>>
            BY <1>a, <2>2, <2>3 DEF Answered, Waiting
        <3>2. Bytes("text", size) \in Seq(ToClient)
            BY Texts
        <3> QED
            BY <2>1, <2>2, <3>1, <3>2, ConcatEmptySeq
    <2> QED
        BY <2>2, <2>3 DEF Answered
<1> QED
    BY <1>1, <1>2, <1>3, <1>4, <1>5, <1>6, <1>7, <1>8, <1>9, <1>10, <1>11, <1>12
    DEF Next, Client, Server

(* The client of a queued request whose response is not cut or joined on   *)
(* the way reports it byte for byte, for all sizes of it and of buffers.   *)
THEOREM ResponseReported == Spec => []ReportsResponse
<1>1. Init => Answered
    BY DEF Init, Answered
<1>2. TypeOK /\ Answered => ReportsResponse
    <2> SUFFICES ASSUME TypeOK, Answered, client = "done", queued, text # <<>>, whole
                 PROVE  report = text
        BY DEF ReportsResponse
    <2>1. server = "closed" /\ report \o down = text /\ down = <<>>
        BY DEF Answered
    <2> QED
        BY <2>1, ConcatEmptySeq DEF TypeOK
<1> QED
    BY <1>1, <1>2, TypeCorrect, AnsweredStep, PTL DEF Spec
=============================================================================
