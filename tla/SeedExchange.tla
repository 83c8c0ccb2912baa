---------------------------- MODULE SeedExchange ----------------------------
(***************************************************************************)
(* The exchange of the seed from which two CCUs derive all their keys:     *)
(* main, StartTEE, handleKey (src/tee), SendSeed and the sealed seed file  *)
(* (src/utils/seedGenerator).  src/teeserver is the same program with the  *)
(* roles swapped.                                                          *)
(*                                                                         *)
(* An operator starts each CCU either with -exchange_seed, and the role    *)
(* that is to send, or in normal mode.  The sender waits for its peer,     *)
(* attests it, generates a seed, seals it to its own file and only then    *)
(* posts it; the receiver attests the sender in turn, overwrites its file  *)
(* and stops.  Each of the two is an HTTPS server and a main goroutine,    *)
(* and any process may be killed at any time.                              *)
(***************************************************************************)
CONSTANTS
    Seeds,      \* seeds that can be generated, a bound on the number of runs
    NoFile,     \* no seed file, or no seed
    Damaged,    \* a seed file that does not unseal, such as a truncated one
    Nobody      \* nobody generated the seed

Nodes == {"ccu1", "ccu2"}

ASSUME SeedAssumption ==
    /\ NoFile \notin Seeds /\ Damaged \notin Seeds /\ NoFile # Damaged
    /\ Nobody \notin Nodes

VARIABLES
    file,       \* file[n]: the contents of seed/seed.txt of n
    pc,         \* pc[n]: where main of n stands
    role,       \* role[n]: sender_role of the run of n
    server,     \* server[n]: the HTTPS server of n
    handler,    \* handler[n]: where handleKey of n stands
    posted,     \* posted[n]: the seed handleKey of n was sent
    own,        \* own[n]: the seed SendSeed of n has generated
    owner,      \* history: who generated a seed
    mixed       \* history: overlapping runs were given different roles, which
                \* exchange_seed.sh asks operators not to do

vars == <<file, pc, role, server, handler, posted, own, owner, mixed>>

-----------------------------------------------------------------------------
Peer(n) == IF n = "ccu1" THEN "ccu2" ELSE "ccu1"

SenderPoints == {"wait", "attest", "generate", "write", "send", "posted", "stop"}

(* -exchange_seed was given: "await" is the receiver's <-done.             *)
Bootstrap(n) == pc[n] \in SenderPoints \cup {"await"}

TypeOK ==
    /\ file \in [Nodes -> Seeds \cup {NoFile, Damaged}]
    /\ pc \in [Nodes -> SenderPoints \cup {"off", "await", "serve"}]
    /\ role \in [Nodes -> Nodes]
    /\ server \in [Nodes -> {"new", "up", "closed"}]
    /\ handler \in [Nodes -> {"none", "verify", "store", "writing"}]
    /\ posted \in [Nodes -> Seeds \cup {NoFile}]
    /\ own \in [Nodes -> Seeds \cup {NoFile}]
    /\ owner \in [Seeds -> Nodes \cup {Nobody}]
    /\ mixed \in BOOLEAN

Init ==
    /\ file = [n \in Nodes |-> NoFile]
    /\ pc = [n \in Nodes |-> "off"]
    /\ role = [n \in Nodes |-> n]
    /\ server = [n \in Nodes |-> "new"]
    /\ handler = [n \in Nodes |-> "none"]
    /\ posted = [n \in Nodes |-> NoFile]
    /\ own = [n \in Nodes |-> NoFile]
    /\ owner = [s \in Seeds |-> Nobody]
    /\ mixed = FALSE

(* Main of n goes to p.                                                    *)
Goto(n, p) == pc' = [pc EXCEPT ![n] = p]

-----------------------------------------------------------------------------
(* Operators.                                                              *)

StartExchange(n, r) ==
    /\ pc[n] = "off"
    /\ mixed' = (mixed \/ (Bootstrap(Peer(n)) /\ r # role[Peer(n)]))
    /\ Goto(n, IF r = n THEN "wait" ELSE "await")
    /\ role' = [role EXCEPT ![n] = r]
    /\ server' = [server EXCEPT ![n] = "new"]
    /\ UNCHANGED <<file, handler, posted, own, owner>>

(* CreateCertificate reads the seed; without a file the process exits.     *)
StartNormal(n) ==
    /\ pc[n] = "off"
    /\ file[n] # NoFile
    /\ Goto(n, "serve")
    /\ server' = [server EXCEPT ![n] = "new"]
    /\ UNCHANGED <<file, role, handler, posted, own, owner, mixed>>

(* The process of n ends, and its server and handlers with it.             *)
Exit(n) ==
    /\ Goto(n, "off")
    /\ server' = [server EXCEPT ![n] = "closed"]
    /\ handler' = [handler EXCEPT ![n] = "none"]
    /\ posted' = [posted EXCEPT ![n] = NoFile]
    /\ own' = [own EXCEPT ![n] = NoFile]
    /\ UNCHANGED <<file, role, owner, mixed>>

Kill(n) ==
    /\ pc[n] # "off"
    /\ Exit(n)

-----------------------------------------------------------------------------
(* The server goroutine.                                                   *)

Listen(n) ==
    /\ pc[n] # "off"
    /\ server[n] = "new"
    /\ server' = [server EXCEPT ![n] = "up"]
    /\ UNCHANGED <<file, pc, role, handler, posted, own, owner, mixed>>

ListenError(n) ==
    /\ pc[n] # "off"
    /\ server[n] = "new"
    /\ server' = [server EXCEPT ![n] = "closed"]
    /\ UNCHANGED <<file, pc, role, handler, posted, own, owner, mixed>>

-----------------------------------------------------------------------------
(* The sender.                                                             *)

(* waitForPeer: /caCert answers, in either mode of the peer, or 20 seconds *)
(* have passed.                                                            *)
PeerUp(n) ==
    /\ pc[n] = "wait"
    /\ server[Peer(n)] = "up"
    /\ Goto(n, "attest")
    /\ UNCHANGED <<file, role, server, handler, posted, own, owner, mixed>>

(* Mutant: the sender never gives up waiting.                            *)
PeerTimeout_Retry(n) ==
    /\ pc[n] = "wait"
    /\ UNCHANGED vars

PeerTimeout(n) ==
    /\ pc[n] = "wait"
    /\ Exit(n)

(* RemoteAttestation of the peer; it panics when it fails.                 *)
Attest(n) ==
    /\ pc[n] = "attest"
    /\ server[Peer(n)] = "up"
    /\ Goto(n, "generate")
    /\ UNCHANGED <<file, role, server, handler, posted, own, owner, mixed>>

AttestFail(n) ==
    /\ pc[n] = "attest"
    /\ Exit(n)

(* Mutant: the seed that exists already is sent again.                   *)
SeedExists_Resend(n) ==
    /\ pc[n] = "generate"
    /\ file[n] # NoFile
    /\ own' = [own EXCEPT ![n] = file[n]]
    /\ Goto(n, "send")
    /\ UNCHANGED <<file, role, server, handler, posted, owner, mixed>>

(* GenerateSeed: "seed already exists" ends SendSeed.                      *)
SeedExists(n) ==
    /\ pc[n] = "generate"
    /\ file[n] # NoFile
    /\ Goto(n, "stop")
    /\ UNCHANGED <<file, role, server, handler, posted, own, owner, mixed>>

(* Mutant: no os.Stat before the file is created.                        *)
CreateFile_NoStat(n) ==
    /\ pc[n] = "generate"
    /\ file' = [file EXCEPT ![n] = Damaged]
    /\ Goto(n, "write")
    /\ UNCHANGED <<role, server, handler, posted, own, owner, mixed>>

(* os.WriteFile creates the file.                                          *)
CreateFile(n) ==
    /\ pc[n] = "generate"
    /\ file[n] = NoFile
    /\ file' = [file EXCEPT ![n] = Damaged]
    /\ Goto(n, "write")
    /\ UNCHANGED <<role, server, handler, posted, own, owner, mixed>>

(* The sealed seed is written to it.  An error of NewSealing is ignored:   *)
(* nothing is written then, and the seed is sent all the same.             *)
WriteSeed(n) ==
    /\ pc[n] = "write"
    /\ \E s \in Seeds :
        /\ owner[s] = Nobody
        /\ owner' = [owner EXCEPT ![s] = n]
        /\ own' = [own EXCEPT ![n] = s]
        /\ \E f \in {s, Damaged} : file' = [file EXCEPT ![n] = f]
    /\ Goto(n, "send")
    /\ UNCHANGED <<role, server, handler, posted, mixed>>

(* os.Stat or os.WriteFile fails, the latter before or after it creates    *)
(* the file.                                                               *)
WriteError(n) ==
    /\ pc[n] \in {"generate", "write"}
    /\ Goto(n, "stop")
    /\ UNCHANGED <<file, role, server, handler, posted, own, owner, mixed>>

(* Mutant: the contents of the file are sent, not the seed.              *)
Post_FromFile(n) ==
    LET p == Peer(n) IN
    /\ pc[n] = "send"
    /\ server[p] = "up" /\ Bootstrap(p) /\ handler[p] = "none"
    /\ handler' = [handler EXCEPT ![p] = "verify"]
    /\ posted' = [posted EXCEPT ![p] = file[n]]
    /\ Goto(n, "posted")
    /\ UNCHANGED <<file, role, server, own, owner, mixed>>

(* POST /secret reaches handleKey of the peer, which is in bootstrap mode. *)
Post(n) ==
    LET p == Peer(n) IN
    /\ pc[n] = "send"
    /\ server[p] = "up" /\ Bootstrap(p) /\ handler[p] = "none"
    /\ handler' = [handler EXCEPT ![p] = "verify"]
    /\ posted' = [posted EXCEPT ![p] = own[n]]
    /\ Goto(n, "posted")
    /\ UNCHANGED <<file, role, server, own, owner, mixed>>

(* No connection, or "Seed exchange disabled".                             *)
PostRefused(n) ==
    /\ pc[n] = "send"
    /\ server[Peer(n)] # "up" \/ ~Bootstrap(Peer(n))
    /\ Goto(n, "stop")
    /\ UNCHANGED <<file, role, server, handler, posted, own, owner, mixed>>

(* The answer to the POST, of whatever status, or the end of the receiver. *)
PostReturns(n) ==
    /\ pc[n] = "posted"
    /\ handler[Peer(n)] = "none"
    /\ Goto(n, "stop")
    /\ UNCHANGED <<file, role, server, handler, posted, own, owner, mixed>>

(* The connection breaks before the answer.                                *)
PostError(n) ==
    /\ pc[n] = "posted"
    /\ handler[Peer(n)] # "none"
    /\ Goto(n, "stop")
    /\ UNCHANGED <<file, role, server, handler, posted, own, owner, mixed>>

(* "BOOTSTRAP complete (sender): stopping.", whatever came of it.          *)
SenderDone(n) ==
    /\ pc[n] = "stop"
    /\ Exit(n)

-----------------------------------------------------------------------------
(* The receiver: handleKey, which a sender that still runs serves as well. *)

(* VerifyTEE attests the server of the sender; it panics when it fails,    *)
(* and net/http drops the connection.                                      *)
VerifyTEE(n) ==
    /\ handler[n] = "verify"
    /\ server[Peer(n)] = "up"
    /\ handler' = [handler EXCEPT ![n] = "store"]
    /\ UNCHANGED <<file, pc, role, server, posted, own, owner, mixed>>

HandleKeyError(n) ==
    /\ handler[n] \in {"verify", "store", "writing"}
    /\ handler' = [handler EXCEPT ![n] = "none"]
    /\ posted' = [posted EXCEPT ![n] = NoFile]
    /\ UNCHANGED <<file, pc, role, server, own, owner, mixed>>

(* os.WriteFile truncates the file, whatever it holds.                     *)
Truncate(n) ==
    /\ handler[n] = "store"
    /\ file' = [file EXCEPT ![n] = Damaged]
    /\ handler' = [handler EXCEPT ![n] = "writing"]
    /\ UNCHANGED <<pc, role, server, posted, own, owner, mixed>>

(* "Seed stored successfully"; then the server of n is stopped.            *)
StoreSeed(n) ==
    /\ handler[n] = "writing"
    /\ file' = [file EXCEPT ![n] = posted[n]]
    /\ handler' = [handler EXCEPT ![n] = "none"]
    /\ posted' = [posted EXCEPT ![n] = NoFile]
    /\ server' = [server EXCEPT ![n] = "closed"]
    /\ UNCHANGED <<pc, role, own, owner, mixed>>

(* The server goroutine has closed `done'.                                 *)
ReceiverDone(n) ==
    /\ pc[n] = "await"
    /\ server[n] = "closed"
    /\ Exit(n)

-----------------------------------------------------------------------------
SendStep(n) ==
    \/ PeerUp(n) \/ PeerTimeout(n) \/ Attest(n) \/ SeedExists(n) \/ CreateFile(n)
    \/ WriteSeed(n) \/ Post(n) \/ PostRefused(n) \/ PostReturns(n) \/ SenderDone(n)

ReceiveStep(n) == VerifyTEE(n) \/ Truncate(n) \/ StoreSeed(n) \/ ReceiverDone(n)

Fault(n) ==
    Kill(n) \/ ListenError(n) \/ AttestFail(n) \/ WriteError(n) \/ PostError(n) \/ HandleKeyError(n)

Next ==
    \E n \in Nodes :
        \/ \E r \in Nodes : StartExchange(n, r)
        \/ StartNormal(n) \/ Listen(n) \/ SendStep(n) \/ ReceiveStep(n) \/ Fault(n)

Spec == Init /\ [][Next]_vars

(* Both goroutines of a process run on; a handler comes to its end, at     *)
(* least by an error, because the connections it reads from time out.      *)
FairSpec ==
    /\ Spec
    /\ \A n \in Nodes :
        /\ WF_vars(SendStep(n) \/ AttestFail(n) \/ WriteError(n))
        /\ WF_vars(Listen(n))
        /\ WF_vars(ReceiveStep(n) \/ HandleKeyError(n))

-----------------------------------------------------------------------------
(* Properties.                                                             *)

(* Both CCUs hold the same usable seed.                                    *)
Agreed == file["ccu1"] = file["ccu2"] /\ file["ccu1"] \in Seeds

(* A seed both CCUs hold is never lost: no later exchange, in either       *)
(* direction and broken off anywhere, changes a file.  Both CCUs must be   *)
(* given the same role: with both as senders the two seeds cross.          *)
AgreementStable == [][Agreed /\ ~mixed => UNCHANGED file]_vars

(* A CCU that holds the seed of its peer shares it: the peer still has it, *)
(* or never managed to write it.  The receiver's file is overwritten, the  *)
(* sender's never, although it served /secret itself.                      *)
ReceivedIsShared ==
    ~mixed => \A n \in Nodes : file[n] \in Seeds =>
        owner[file[n]] = n \/ file[Peer(n)] \in {file[n], Damaged}

(* The sender does not hang on its peer: it comes to its end, with or      *)
(* without having sent its seed.                                           *)
SenderEnds == \A n \in Nodes : pc[n] \in SenderPoints ~> pc[n] = "off"

(* CreateCertificate: "Shared secret seed known to all TEEs".  The seed a  *)
(* CCU starts to serve with is the one its peer holds.                     *)
SeedKnownToAll ==
    [][\A n \in Nodes : pc[n] = "off" /\ pc'[n] = "serve" => Agreed]_vars
=============================================================================
