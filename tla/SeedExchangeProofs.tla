------------------------- MODULE SeedExchangeProofs -------------------------
(***************************************************************************)
(* Theorems about the exchange of the seed: its type invariant, for any    *)
(* roles, and, when operators give both CCUs the same role, that a seed    *)
(* one of them received is shared and that agreement on it is never lost.  *)
(*                                                                         *)
(* The argument: while a POST is being handled, its receiver waits for the *)
(* other CCU and so has no run of its own as a sender, and the sender,     *)
(* which generates at most one seed in all its runs, holds the posted one  *)
(* and cannot be made to overwrite it.                                     *)
(***************************************************************************)
EXTENDS SeedExchange, TLAPS

(* The role of a run decides what it does, and two runs that overlap agree *)
(* on it.                                                                  *)
Roles ==
    /\ \A n \in Nodes : pc[n] \in SenderPoints => role[n] = n
    /\ \A n \in Nodes : pc[n] = "await" => role[n] = Peer(n)
    /\ \A n \in Nodes : Bootstrap(n) /\ Bootstrap(Peer(n)) => role[n] = role[Peer(n)]

(* Every seed in use has been generated, and a CCU generates one at most.  *)
Generated ==
    /\ \A n \in Nodes : file[n] \in Seeds => owner[file[n]] # Nobody
    /\ \A n \in Nodes : pc[n] = "write" => file[n] = Damaged
    /\ \A n \in Nodes : pc[n] = "write" \/ file[n] = NoFile => \A s \in Seeds : owner[s] # n

(* A seed that is about to be sent is the sender's alone.                  *)
Sending ==
    /\ \A n \in Nodes : pc[n] \in {"write", "send"} => handler[Peer(n)] = "none"
    /\ \A n \in Nodes : pc[n] = "send" =>
        /\ own[n] \in Seeds
        /\ owner[own[n]] = n
        /\ file[n] \in {own[n], Damaged}
        /\ file[Peer(n)] # own[n]

(* A seed that is being received is that of the peer, which still has it.  *)
Receiving ==
    /\ \A n \in Nodes : handler[n] # "none" =>
        /\ pc[n] = "await"
        /\ posted[n] \in Seeds
        /\ owner[posted[n]] = Peer(n)
        /\ file[Peer(n)] \in {posted[n], Damaged}
    /\ \A n \in Nodes : handler[n] \in {"verify", "store"} => file[n] # posted[n]
    /\ \A n \in Nodes : handler[n] = "writing" => file[n] = Damaged

IInv == TypeOK /\ Roles /\ Generated /\ Sending /\ Receiving /\ ReceivedIsShared

(* The whole invariant: all of that until roles are mixed.                 *)
MInv == TypeOK /\ (~mixed => IInv)

-----------------------------------------------------------------------------
LEMMA Peers ==
    ASSUME NEW n \in Nodes
    PROVE  /\ Peer(n) \in Nodes
           /\ Peer(n) # n
           /\ Peer(Peer(n)) = n
           /\ \A m \in Nodes : m = n \/ m = Peer(n)
BY DEF Nodes, Peer

(* TypeOK is inductive by itself, whatever the roles.                      *)
LEMMA TypeStep ==
    TypeOK /\ [Next]_vars => TypeOK'
<1> SUFFICES ASSUME TypeOK, [Next]_vars PROVE TypeOK'
    OBVIOUS
<1> USE DEF TypeOK
<1>1. CASE UNCHANGED vars
    BY <1>1 DEF vars
<1>2. ASSUME NEW n \in Nodes, NEW r \in Nodes, StartExchange(n, r) PROVE TypeOK'
    BY <1>2 DEF StartExchange, Goto, SenderPoints
<1>3. ASSUME NEW n \in Nodes, StartNormal(n) PROVE TypeOK'
    BY <1>3 DEF StartNormal, Goto, SenderPoints
<1>4. ASSUME NEW n \in Nodes, Listen(n) PROVE TypeOK'
    BY <1>4 DEF Listen, SenderPoints
<1>5. ASSUME NEW n \in Nodes, PeerUp(n) PROVE TypeOK'
    BY <1>5 DEF PeerUp, Goto, SenderPoints
<1>6. ASSUME NEW n \in Nodes, PeerTimeout(n) PROVE TypeOK'
    BY <1>6 DEF PeerTimeout, Exit, Goto, SenderPoints
<1>7. ASSUME NEW n \in Nodes, Attest(n) PROVE TypeOK'
    BY <1>7 DEF Attest, Goto, SenderPoints
<1>8. ASSUME NEW n \in Nodes, SeedExists(n) PROVE TypeOK'
    BY <1>8 DEF SeedExists, Goto, SenderPoints
<1>9. ASSUME NEW n \in Nodes, CreateFile(n) PROVE TypeOK'
    BY <1>9 DEF CreateFile, Goto, SenderPoints
<1>10. ASSUME NEW n \in Nodes, WriteSeed(n) PROVE TypeOK'
    BY <1>10 DEF WriteSeed, Goto, SenderPoints
<1>11. ASSUME NEW n \in Nodes, Post(n) PROVE TypeOK'
    BY <1>11, Peers DEF Post, Goto, SenderPoints
<1>12. ASSUME NEW n \in Nodes, PostRefused(n) PROVE TypeOK'
    BY <1>12 DEF PostRefused, Goto, SenderPoints
<1>13. ASSUME NEW n \in Nodes, PostReturns(n) PROVE TypeOK'
    BY <1>13 DEF PostReturns, Goto, SenderPoints
<1>14. ASSUME NEW n \in Nodes, SenderDone(n) PROVE TypeOK'
    BY <1>14 DEF SenderDone, Exit, Goto, SenderPoints
<1>15. ASSUME NEW n \in Nodes, VerifyTEE(n) PROVE TypeOK'
    BY <1>15 DEF VerifyTEE, SenderPoints
<1>16. ASSUME NEW n \in Nodes, Truncate(n) PROVE TypeOK'
    BY <1>16 DEF Truncate, SenderPoints
<1>17. ASSUME NEW n \in Nodes, StoreSeed(n) PROVE TypeOK'
    BY <1>17 DEF StoreSeed, SenderPoints
<1>18. ASSUME NEW n \in Nodes, ReceiverDone(n) PROVE TypeOK'
    BY <1>18 DEF ReceiverDone, Exit, Goto, SenderPoints
<1>19. ASSUME NEW n \in Nodes, Kill(n) PROVE TypeOK'
    BY <1>19 DEF Kill, Exit, Goto, SenderPoints
<1>20. ASSUME NEW n \in Nodes, ListenError(n) PROVE TypeOK'
    BY <1>20 DEF ListenError, SenderPoints
<1>21. ASSUME NEW n \in Nodes, AttestFail(n) PROVE TypeOK'
    BY <1>21 DEF AttestFail, Exit, Goto, SenderPoints
<1>22. ASSUME NEW n \in Nodes, WriteError(n) PROVE TypeOK'
    BY <1>22 DEF WriteError, Goto, SenderPoints
<1>23. ASSUME NEW n \in Nodes, PostError(n) PROVE TypeOK'
    BY <1>23 DEF PostError, Goto, SenderPoints
<1>24. ASSUME NEW n \in Nodes, HandleKeyError(n) PROVE TypeOK'
    BY <1>24 DEF HandleKeyError, SenderPoints
<1> QED
    BY <1>1, <1>2, <1>3, <1>4, <1>5, <1>6, <1>7, <1>8, <1>9, <1>10, <1>11, <1>12, <1>13, <1>14, <1>15, <1>16, <1>17, <1>18, <1>19, <1>20, <1>21, <1>22, <1>23, <1>24
        DEF Next, SendStep, ReceiveStep, Fault

LEMMA InitTyped ==
    ASSUME Init
    PROVE  TypeOK /\ ~mixed
<1>1. mixed \in BOOLEAN /\ ~mixed
    BY DEF Init
<1>2. role \in [Nodes -> Nodes]
    BY DEF Init
<1>3. /\ file \in [Nodes -> Seeds \cup {NoFile, Damaged}]
      /\ pc \in [Nodes -> SenderPoints \cup {"off", "await", "serve"}]
      /\ server \in [Nodes -> {"new", "up", "closed"}]
      /\ handler \in [Nodes -> {"none", "verify", "store", "writing"}]
    BY DEF Init
<1>4. /\ posted \in [Nodes -> Seeds \cup {NoFile}]
      /\ own \in [Nodes -> Seeds \cup {NoFile}]
      /\ owner \in [Seeds -> Nodes \cup {Nobody}]
    BY DEF Init
<1> QED
    BY <1>1, <1>2, <1>3, <1>4 DEF TypeOK

(* The seed file, the points of main and the handlers have the values the  *)
(* code gives them, whatever the roles.                                    *)
THEOREM TypeCorrect == Spec => []TypeOK
<1>1. Init => TypeOK
    BY InitTyped
<1> QED
    BY <1>1, TypeStep, PTL DEF Spec

-----------------------------------------------------------------------------
(* Roles once mixed stay mixed.                                            *)
LEMMA MixedStays ==
    TypeOK /\ [Next]_vars /\ mixed => mixed'
BY DEF TypeOK, Next, vars, SendStep, ReceiveStep, Fault, StartExchange, StartNormal, Listen, PeerUp,
    PeerTimeout, Attest, SeedExists, CreateFile, WriteSeed, Post, PostRefused, PostReturns,
    SenderDone, VerifyTEE, Truncate, StoreSeed, ReceiverDone, Kill, Exit, ListenError, AttestFail,
    WriteError, PostError, HandleKeyError

LEMMA InvariantStep ==
    IInv /\ [Next]_vars /\ ~mixed' => IInv'
<1> SUFFICES ASSUME IInv, [Next]_vars, ~mixed' PROVE IInv'
    OBVIOUS
<1>t. TypeOK /\ TypeOK'
    BY TypeStep DEF IInv
<1> DEFINE Rest == Roles /\ Generated /\ Sending /\ Receiving /\ ReceivedIsShared
<1>1. CASE UNCHANGED vars
    BY <1>1, <1>t DEF vars, IInv, Roles, Generated, Sending, Receiving, ReceivedIsShared, Bootstrap
<1>2. ASSUME NEW n \in Nodes, NEW r \in Nodes, StartExchange(n, r) PROVE Rest'
    <2>r. Bootstrap(Peer(n)) => r = role[Peer(n)]
        BY <1>2, ~mixed', Zenon DEF StartExchange
    <2>1. Roles'
        BY <1>2, <1>t, <2>r, Peers, SeedAssumption
        DEF StartExchange, Goto, TypeOK, IInv, Roles, Generated, Sending, Receiving, Bootstrap, SenderPoints
    <2>2. Generated'
        BY <1>2, <1>t, Peers, SeedAssumption
        DEF StartExchange, Goto, TypeOK, IInv, Roles, Generated, Sending, Receiving, Bootstrap, SenderPoints
    <2>3. Sending'
        BY <1>2, <1>t, Peers, SeedAssumption
        DEF StartExchange, Goto, TypeOK, IInv, Roles, Generated, Sending, Receiving, Bootstrap, SenderPoints
    <2>4. Receiving'
        BY <1>2, <1>t, Peers, SeedAssumption
        DEF StartExchange, Goto, TypeOK, IInv, Roles, Generated, Sending, Receiving, Bootstrap, SenderPoints
    <2>5. ReceivedIsShared'
        BY <1>2, <1>t, Peers, SeedAssumption
        DEF StartExchange, Goto, TypeOK, IInv, Roles, Generated, Sending, Receiving, ReceivedIsShared
    <2> QED
        BY <2>1, <2>2, <2>3, <2>4, <2>5
<1>3. ASSUME NEW n \in Nodes, CreateFile(n) PROVE Rest'
    <2>1. Roles'
        BY <1>3, <1>t, Peers, SeedAssumption
        DEF CreateFile, Goto, TypeOK, IInv, Roles, Generated, Sending, Receiving, Bootstrap, SenderPoints
    <2>2. Generated'
        BY <1>3, <1>t, Peers, SeedAssumption
        DEF CreateFile, Goto, TypeOK, IInv, Roles, Generated, Sending, Receiving, Bootstrap, SenderPoints
    <2>3. Sending'
        BY <1>3, <1>t, Peers, SeedAssumption
        DEF CreateFile, Goto, TypeOK, IInv, Roles, Generated, Sending, Receiving, Bootstrap, SenderPoints
    <2>4. Receiving'
        BY <1>3, <1>t, Peers, SeedAssumption
        DEF CreateFile, Goto, TypeOK, IInv, Roles, Generated, Sending, Receiving, Bootstrap, SenderPoints
    <2>5. ReceivedIsShared'
        BY <1>3, <1>t, Peers, SeedAssumption
        DEF CreateFile, Goto, TypeOK, IInv, Roles, Generated, Sending, Receiving, ReceivedIsShared
    <2> QED
        BY <2>1, <2>2, <2>3, <2>4, <2>5
<1>4. ASSUME NEW n \in Nodes, WriteSeed(n) PROVE Rest'
    <2>1. Roles'
        BY <1>4, <1>t, Peers, SeedAssumption
        DEF WriteSeed, Goto, TypeOK, IInv, Roles, Generated, Sending, Receiving, Bootstrap, SenderPoints
    <2>2. Generated'
        BY <1>4, <1>t, Peers, SeedAssumption
        DEF WriteSeed, Goto, TypeOK, IInv, Roles, Generated, Sending, Receiving, Bootstrap, SenderPoints
    <2>3. Sending'
        BY <1>4, <1>t, Peers, SeedAssumption
        DEF WriteSeed, Goto, TypeOK, IInv, Roles, Generated, Sending, Receiving, Bootstrap, SenderPoints
    <2>4. Receiving'
        BY <1>4, <1>t, Peers, SeedAssumption
        DEF WriteSeed, Goto, TypeOK, IInv, Roles, Generated, Sending, Receiving, Bootstrap, SenderPoints
    <2>5. ReceivedIsShared'
        BY <1>4, <1>t, Peers, SeedAssumption
        DEF WriteSeed, Goto, TypeOK, IInv, Roles, Generated, Sending, Receiving, ReceivedIsShared
    <2> QED
        BY <2>1, <2>2, <2>3, <2>4, <2>5
<1>5. ASSUME NEW n \in Nodes, Post(n) PROVE Rest'
    <2>1. Roles'
        BY <1>5, <1>t, Peers, SeedAssumption
        DEF Post, Goto, TypeOK, IInv, Roles, Generated, Sending, Receiving, Bootstrap, SenderPoints
    <2>2. Generated'
        BY <1>5, <1>t, Peers, SeedAssumption
        DEF Post, Goto, TypeOK, IInv, Roles, Generated, Sending, Receiving, Bootstrap, SenderPoints
    <2>3. Sending'
        BY <1>5, <1>t, Peers, SeedAssumption
        DEF Post, Goto, TypeOK, IInv, Roles, Generated, Sending, Receiving, Bootstrap, SenderPoints
    <2>4. Receiving'
        BY <1>5, <1>t, Peers, SeedAssumption
        DEF Post, Goto, TypeOK, IInv, Roles, Generated, Sending, Receiving, Bootstrap, SenderPoints
    <2>5. ReceivedIsShared'
        BY <1>5, <1>t, Peers, SeedAssumption
        DEF Post, Goto, TypeOK, IInv, Roles, Generated, Sending, Receiving, ReceivedIsShared
    <2> QED
        BY <2>1, <2>2, <2>3, <2>4, <2>5
<1>6. ASSUME NEW n \in Nodes, Truncate(n) PROVE Rest'
    <2>1. Roles'
        BY <1>6, <1>t, Peers, SeedAssumption
        DEF Truncate, TypeOK, IInv, Roles, Generated, Sending, Receiving, Bootstrap, SenderPoints
    <2>2. Generated'
        BY <1>6, <1>t, Peers, SeedAssumption
        DEF Truncate, TypeOK, IInv, Roles, Generated, Sending, Receiving, Bootstrap, SenderPoints
    <2>3. Sending'
        BY <1>6, <1>t, Peers, SeedAssumption
        DEF Truncate, TypeOK, IInv, Roles, Generated, Sending, Receiving, Bootstrap, SenderPoints
    <2>4. Receiving'
        BY <1>6, <1>t, Peers, SeedAssumption
        DEF Truncate, TypeOK, IInv, Roles, Generated, Sending, Receiving, Bootstrap, SenderPoints
    <2>5. ReceivedIsShared'
        BY <1>6, <1>t, Peers, SeedAssumption
        DEF Truncate, TypeOK, IInv, Roles, Generated, Sending, Receiving, ReceivedIsShared
    <2> QED
        BY <2>1, <2>2, <2>3, <2>4, <2>5
<1>7. ASSUME NEW n \in Nodes, StoreSeed(n) PROVE Rest'
    <2>1. Roles'
        BY <1>7, <1>t, Peers, SeedAssumption
        DEF StoreSeed, TypeOK, IInv, Roles, Generated, Sending, Receiving, Bootstrap, SenderPoints
    <2>2. Generated'
        BY <1>7, <1>t, Peers, SeedAssumption
        DEF StoreSeed, TypeOK, IInv, Roles, Generated, Sending, Receiving, Bootstrap, SenderPoints
    <2>3. Sending'
        BY <1>7, <1>t, Peers, SeedAssumption
        DEF StoreSeed, TypeOK, IInv, Roles, Generated, Sending, Receiving, Bootstrap, SenderPoints
    <2>4. Receiving'
        BY <1>7, <1>t, Peers, SeedAssumption
        DEF StoreSeed, TypeOK, IInv, Roles, Generated, Sending, Receiving, Bootstrap, SenderPoints
    <2>5. ReceivedIsShared'
        BY <1>7, <1>t, Peers, SeedAssumption
        DEF StoreSeed, TypeOK, IInv, Roles, Generated, Sending, Receiving, ReceivedIsShared
    <2> QED
        BY <2>1, <2>2, <2>3, <2>4, <2>5
(* The end of a process: PeerTimeout, AttestFail, SenderDone, ReceiverDone and Kill. *)
<1>8. ASSUME NEW n \in Nodes, Exit(n) PROVE Rest'
    <2>1. Roles'
        BY <1>8, <1>t, Peers, SeedAssumption
        DEF Exit, Goto, TypeOK, IInv, Roles, Generated, Sending, Receiving, Bootstrap, SenderPoints
    <2>2. Generated'
        BY <1>8, <1>t, Peers, SeedAssumption
        DEF Exit, Goto, TypeOK, IInv, Roles, Generated, Sending, Receiving, Bootstrap, SenderPoints
    <2>3. Sending'
        BY <1>8, <1>t, Peers, SeedAssumption
        DEF Exit, Goto, TypeOK, IInv, Roles, Generated, Sending, Receiving, Bootstrap, SenderPoints
    <2>4. Receiving'
        BY <1>8, <1>t, Peers, SeedAssumption
        DEF Exit, Goto, TypeOK, IInv, Roles, Generated, Sending, Receiving, Bootstrap, SenderPoints
    <2>5. ReceivedIsShared'
        BY <1>8, <1>t, Peers, SeedAssumption
        DEF Exit, Goto, TypeOK, IInv, Roles, Generated, Sending, Receiving, ReceivedIsShared
    <2> QED
        BY <2>1, <2>2, <2>3, <2>4, <2>5
<1>9. ASSUME NEW n \in Nodes, StartNormal(n) PROVE Rest'
    BY <1>9, <1>t, Peers, SeedAssumption
    DEF StartNormal, Goto, TypeOK, IInv, Roles, Generated, Sending, Receiving, ReceivedIsShared,
        Bootstrap, SenderPoints
<1>10. ASSUME NEW n \in Nodes, Listen(n) PROVE Rest'
    BY <1>10, <1>t, Peers, SeedAssumption
    DEF Listen, TypeOK, IInv, Roles, Generated, Sending, Receiving, ReceivedIsShared,
        Bootstrap, SenderPoints
<1>11. ASSUME NEW n \in Nodes, ListenError(n) PROVE Rest'
    BY <1>11, <1>t, Peers, SeedAssumption
    DEF ListenError, TypeOK, IInv, Roles, Generated, Sending, Receiving, ReceivedIsShared,
        Bootstrap, SenderPoints
<1>12. ASSUME NEW n \in Nodes, PeerUp(n) PROVE Rest'
    BY <1>12, <1>t, Peers, SeedAssumption
    DEF PeerUp, Goto, TypeOK, IInv, Roles, Generated, Sending, Receiving, ReceivedIsShared,
        Bootstrap, SenderPoints
<1>13. ASSUME NEW n \in Nodes, Attest(n) PROVE Rest'
    BY <1>13, <1>t, Peers, SeedAssumption
    DEF Attest, Goto, TypeOK, IInv, Roles, Generated, Sending, Receiving, ReceivedIsShared,
        Bootstrap, SenderPoints
<1>14. ASSUME NEW n \in Nodes, SeedExists(n) PROVE Rest'
    BY <1>14, <1>t, Peers, SeedAssumption
    DEF SeedExists, Goto, TypeOK, IInv, Roles, Generated, Sending, Receiving, ReceivedIsShared,
        Bootstrap, SenderPoints
<1>15. ASSUME NEW n \in Nodes, PostRefused(n) PROVE Rest'
    BY <1>15, <1>t, Peers, SeedAssumption
    DEF PostRefused, Goto, TypeOK, IInv, Roles, Generated, Sending, Receiving, ReceivedIsShared,
        Bootstrap, SenderPoints
<1>16. ASSUME NEW n \in Nodes, PostReturns(n) PROVE Rest'
    BY <1>16, <1>t, Peers, SeedAssumption
    DEF PostReturns, Goto, TypeOK, IInv, Roles, Generated, Sending, Receiving, ReceivedIsShared,
        Bootstrap, SenderPoints
<1>17. ASSUME NEW n \in Nodes, PostError(n) PROVE Rest'
    BY <1>17, <1>t, Peers, SeedAssumption
    DEF PostError, Goto, TypeOK, IInv, Roles, Generated, Sending, Receiving, ReceivedIsShared,
        Bootstrap, SenderPoints
<1>18. ASSUME NEW n \in Nodes, WriteError(n) PROVE Rest'
    BY <1>18, <1>t, Peers, SeedAssumption
    DEF WriteError, Goto, TypeOK, IInv, Roles, Generated, Sending, Receiving, ReceivedIsShared,
        Bootstrap, SenderPoints
<1>19. ASSUME NEW n \in Nodes, VerifyTEE(n) PROVE Rest'
    BY <1>19, <1>t, Peers, SeedAssumption
    DEF VerifyTEE, TypeOK, IInv, Roles, Generated, Sending, Receiving, ReceivedIsShared,
        Bootstrap, SenderPoints
<1>20. ASSUME NEW n \in Nodes, HandleKeyError(n) PROVE Rest'
    BY <1>20, <1>t, Peers, SeedAssumption
    DEF HandleKeyError, TypeOK, IInv, Roles, Generated, Sending, Receiving, ReceivedIsShared,
        Bootstrap, SenderPoints
<1> QED
    BY <1>t, <1>1, <1>2, <1>3, <1>4, <1>5, <1>6, <1>7, <1>8, <1>9, <1>10, <1>11,
        <1>12, <1>13, <1>14, <1>15, <1>16, <1>17, <1>18, <1>19, <1>20
    DEF Next, SendStep, ReceiveStep, Fault, PeerTimeout, AttestFail, SenderDone, ReceiverDone, Kill, IInv

THEOREM Invariance == Spec => []MInv
<1>1. Init => MInv
    <2> SUFFICES ASSUME Init PROVE MInv
        OBVIOUS
    <2>1. TypeOK
        BY InitTyped
    <2>2. Roles /\ Generated /\ Sending /\ Receiving
        BY Peers, SeedAssumption DEF Init, Roles, Generated, Sending, Receiving, Bootstrap, SenderPoints
    <2>3. ReceivedIsShared
        BY SeedAssumption DEF Init, ReceivedIsShared
    <2> QED
        BY <2>1, <2>2, <2>3 DEF MInv, IInv
<1>2. MInv /\ [Next]_vars => MInv'
    BY TypeStep, MixedStays, InvariantStep DEF MInv, TypeOK
<1> QED
    BY <1>1, <1>2, PTL DEF Spec

(* Unless roles were mixed, a CCU that holds the seed of its peer shares   *)
(* it with the peer, which has it still or failed to write it.             *)
THEOREM SharedSeed == Spec => []ReceivedIsShared
<1>1. MInv => ReceivedIsShared
    BY DEF MInv, IInv, ReceivedIsShared
<1> QED
    BY <1>1, Invariance, PTL

(* Once both hold the same seed no exchange changes a file again, unless   *)
(* roles were mixed.                                                       *)
THEOREM AgreementKept == Spec => AgreementStable
<1>1. MInv /\ [Next]_vars => [Agreed /\ ~mixed => UNCHANGED file]_vars
    <2> SUFFICES ASSUME IInv, Agreed, Next PROVE UNCHANGED file
        BY DEF MInv
    <2>1. ASSUME NEW n \in Nodes PROVE file[n] = file[Peer(n)] /\ file[n] \in Seeds
        BY DEF Agreed, Nodes, Peer
    <2>2. ASSUME NEW n \in Nodes PROVE ~CreateFile(n)
        BY <2>1, SeedAssumption DEF CreateFile
    <2>3. ASSUME NEW n \in Nodes PROVE ~WriteSeed(n)
        BY <2>1, SeedAssumption DEF WriteSeed, IInv, Generated
    <2>4. ASSUME NEW n \in Nodes PROVE ~Truncate(n)
        BY <2>1, SeedAssumption DEF Truncate, IInv, Receiving
    <2>5. ASSUME NEW n \in Nodes PROVE ~StoreSeed(n)
        BY <2>1, SeedAssumption DEF StoreSeed, IInv, Receiving
    <2> QED
        BY <2>2, <2>3, <2>4, <2>5
        DEF Next, SendStep, ReceiveStep, Fault, StartExchange, StartNormal, Listen, PeerUp,
            PeerTimeout, Attest, SeedExists, Post, PostRefused, PostReturns, SenderDone,
            VerifyTEE, ReceiverDone, Kill, Exit, ListenError, AttestFail, WriteError,
            PostError, HandleKeyError
<1> QED
    BY <1>1, Invariance, PTL DEF Spec, AgreementStable
=============================================================================
