---------------------------- MODULE KeyRegistry ----------------------------
(***************************************************************************)
(* How the CCUs come by the IPNS keys of their logs: ipns_key_gen.sh makes *)
(* the keys of a log and of its light log and writes them into the .env    *)
(* file of both CCUs, deployment.sh deploys the contract SPARTA and writes *)
(* its address there, a CCU started with -blockchain stores the keys of    *)
(* its .env file in the contract (src/utils/interaction/block_int.go), and *)
(* request handlers look them up by the name their client sends.           *)
(*                                                                         *)
(* A name is a sequence of parts: a text without capitals and underscores, *)
(* whether its first letter is a capital in the name, and the number of    *)
(* underscores that precede it.  "PatientLight" and "patient_light" have   *)
(* the parts "patient" and "light", "Patient1" the parts "patient" and     *)
(* "1"; names do not end in an underscore.  A variable of a .env file is   *)
(* the same without the capitals; its prefix IPNS_KEY_ is left out.  That  *)
(* bytes32 holds 32 characters is here a number of parts.                  *)
(*                                                                         *)
(* The IPFS node gives each of its keys an identifier of its own, which is *)
(* here the name it was generated under; it has 62 characters, so that the *)
(* two halves the contract keeps of it and the zeros that are trimmed when *)
(* it is read lose nothing.                                                *)
(***************************************************************************)
EXTENDS Naturals, Sequences

CONSTANTS
    KeyNames,       \* arguments of ipns_key_gen.sh --key_name
    Words,          \* texts that start with a letter
    Others,         \* texts that do not, such as "1"
    NameLength,     \* parts of a name that bytes32 holds
    SortStrings,    \* sort.Strings, on sets of variables IPNS_KEY_*
    MaxContracts,   \* bound: deployments
    MaxScripts,     \* bound: scripts started
    MaxPending,     \* bound: transactions that are not mined yet
    NoKey           \* no value, or the empty answer of the contract

CCUs == {"ccu1", "ccu2"}

Part == [under : Nat, text : Words, capital : BOOLEAN]
        \cup [under : Nat, text : Others, capital : {FALSE}]

(* "${KEY_NAME}Light".                                                     *)
Light(n) == Append(n, [under |-> 0, text |-> "light", capital |-> TRUE])

GeneratedNames == KeyNames \cup {Light(n) : n \in KeyNames}

(* UPPER_NAME: "_" goes before each capital, one "_" at the front is taken *)
(* away again, and all becomes upper case.                                 *)
VarOf(n) ==
    [i \in 1..Len(n) |->
        LET under == n[i].under + IF n[i].capital THEN 1 ELSE 0
        IN [text  |-> n[i].text,
            under |-> IF i = 1 /\ under > 0 THEN under - 1 ELSE under]]

(* What stands between underscores is given a capital, which only a letter *)
(* takes, and joined by nothing.                                           *)
envVarToKeyName(v) ==
    [i \in 1..Len(v) |->
        [under |-> 0, text |-> v[i].text,
         capital |-> v[i].text \in Words /\ (i = 1 \/ v[i].under > 0)]]

(* copy(keyNameBytes[:], name): what does not fit is left out.             *)
Bytes32(n) == IF Len(n) <= NameLength THEN n ELSE SubSeq(n, 1, NameLength)

(* The name in the contract of the variable v, and of the key n.           *)
StoreName(v) == Bytes32(envVarToKeyName(v))
ContractName(n) == StoreName(VarOf(n))

Vars == {VarOf(n) : n \in GeneratedNames}
StoreNames == {StoreName(v) : v \in Vars}
Contracts == 1..MaxContracts

ASSUME NameAssumption ==
    /\ KeyNames \subseteq Seq(Part) \ {<<>>}
    /\ "light" \in Words /\ Words \cap Others = {} /\ NameLength \in Nat \ {0}
    /\ NoKey \notin GeneratedNames
ASSUME SortAssumption == \A V \in SUBSET Vars :
    /\ SortStrings[V] \in Seq(Vars)
    /\ \A v \in Vars : v \in V <=> \E i \in 1..Len(SortStrings[V]) : SortStrings[V][i] = v
ASSUME BoundAssumption == MaxContracts \in Nat /\ MaxScripts \in Nat /\ MaxPending \in Nat

VARIABLES
    nodeKeys,   \* keys of the IPFS node
    keyVar,     \* keyVar[u][v]: variable v in the .env file of u
    address,    \* address[u]: CONTRACT_ADDRESS_SPARTA there, 0 if missing
    script,     \* commands the operator's script has still to run
    deployed,   \* number of contracts deployed
    scripts,    \* number of scripts started
    store,      \* store[a]: allIPNSKeys of contract a
    run,        \* the CCU started with -blockchain, see Run
    pool,       \* pool[u]: transactions of u that are not mined yet
    loaded,     \* loaded[u]: the address in the environment of the CCU u
    ended,      \* history: names whose storing run ended well, by contract
    torn,       \* history: variables whose last writing was stopped
    settled,    \* history: the last contract, once both files name it
    joined      \* history: CCUs that loaded the address since then

fileVars  == <<nodeKeys, keyVar, address, script, deployed, scripts>>
chainVars == <<store, run, pool>>
histVars  == <<ended, torn, settled, joined>>
vars      == <<fileVars, chainVars, loaded, histVars>>

-----------------------------------------------------------------------------
Command ==
    [op : {"gen"}, name : GeneratedNames]
    \cup [op : {"set"}, file : CCUs, var : Vars, id : GeneratedNames]
    \cup [op : {"migrate"}]
    \cup [op : {"address"}, file : CCUs, contract : Contracts]

Transaction == [contract : Contracts, name : StoreNames, id : GeneratedNames]

EnvKeys == [Vars -> GeneratedNames \cup {NoKey}]

(* The process started with -blockchain: the CCU it is, the variables it   *)
(* has still to store, and its environment.                                *)
Run == [ccu : CCUs, state : {"idle", "next", "waiting"}, todo : Seq(Vars), ids : EnvKeys,
        address : Contracts \cup {0}]

NoRun == [ccu |-> "ccu1", state |-> "idle", todo |-> <<>>, ids |-> [v \in Vars |-> NoKey],
          address |-> 0]

TypeOK ==
    /\ nodeKeys \subseteq GeneratedNames
    /\ keyVar \in [CCUs -> EnvKeys]
    /\ address \in [CCUs -> Contracts \cup {0}]
    /\ script \in Seq(Command)
    /\ deployed \in Contracts \cup {0}
    /\ scripts \in 0..MaxScripts
    /\ store \in [Contracts -> [StoreNames -> GeneratedNames \cup {NoKey}]]
    /\ run \in Run
    /\ pool \in [CCUs -> Seq(Transaction)]
    /\ loaded \in [CCUs -> Contracts \cup {0}]
    /\ ended \subseteq Contracts \X StoreNames
    /\ torn \subseteq Vars
    /\ settled \in Contracts \cup {0}
    /\ joined \subseteq CCUs

Init ==
    /\ nodeKeys = {}
    /\ keyVar = [u \in CCUs |-> [v \in Vars |-> NoKey]]
    /\ address = [u \in CCUs |-> 0]
    /\ script = <<>>
    /\ deployed = 0
    /\ scripts = 0
    /\ store = [a \in Contracts |-> [n \in StoreNames |-> NoKey]]
    /\ run = NoRun
    /\ pool = [u \in CCUs |-> <<>>]
    /\ loaded = [u \in CCUs |-> 0]
    /\ ended = {}
    /\ torn = {}
    /\ settled = 0
    /\ joined = {}

-----------------------------------------------------------------------------
(* The scripts.  The operator runs one of them, or one CCU with            *)
(* -blockchain, at a time.                                                 *)

Gen(n) == [op |-> "gen", name |-> n]
Set(u, v, n) == [op |-> "set", file |-> u, var |-> v, id |-> n]
Address(u, a) == [op |-> "address", file |-> u, contract |-> a]

(* Mutant: the variable of the light log is given the key of the log.      *)
KeyGenCommands_SameID(n) ==
    <<Gen(n), Gen(Light(n)),
      Set("ccu1", VarOf(n), n), Set("ccu1", VarOf(Light(n)), n),
      Set("ccu2", VarOf(n), n), Set("ccu2", VarOf(Light(n)), n)>>

(* ipns_key_gen.sh: KEY_ID, LIGHT_ID, and upsert_env of each file, the one *)
(* of src/teeserver (ccu1) first, the variable of the log first.           *)
KeyGenCommands(n) ==
    <<Gen(n), Gen(Light(n)),
      Set("ccu1", VarOf(n), n), Set("ccu1", VarOf(Light(n)), Light(n)),
      Set("ccu2", VarOf(n), n), Set("ccu2", VarOf(Light(n)), Light(n))>>

(* deployment.sh: truffle migrate --reset, and upsert_env of each file.    *)
DeployCommands(a) == <<[op |-> "migrate"], Address("ccu1", a), Address("ccu2", a)>>

StartScript ==
    /\ script = <<>> /\ run.state = "idle"
    /\ scripts < MaxScripts
    /\ scripts' = scripts + 1
    /\ \/ \E n \in KeyNames : script' = KeyGenCommands(n)
       \/ deployed < MaxContracts /\ script' = DeployCommands(deployed + 1)
    /\ UNCHANGED <<nodeKeys, keyVar, address, deployed, chainVars, loaded, histVars>>

RunCommand(op) ==
    /\ script # <<>>
    /\ Head(script).op = op
    /\ script' = Tail(script)
    /\ UNCHANGED <<scripts, chainVars, loaded, ended>>

(* gen_or_get_id: a key that exists already is looked up, not made again.  *)
GenOrGetID ==
    /\ RunCommand("gen")
    /\ nodeKeys' = nodeKeys \cup {Head(script).name}
    /\ UNCHANGED <<keyVar, address, deployed, torn, settled, joined>>

(* Mutant: a variable the file has is left as it is.                       *)
UpsertKey_OnlyInsert ==
    /\ RunCommand("set")
    /\ LET c == Head(script) IN
        /\ keyVar' = IF keyVar[c.file][c.var] # NoKey THEN keyVar
                     ELSE [keyVar EXCEPT ![c.file][c.var] = c.id]
        /\ torn' = IF c.file = "ccu2" THEN torn \ {c.var} ELSE torn
    /\ UNCHANGED <<nodeKeys, address, deployed, settled, joined>>

(* upsert_env: the variable is replaced, or added if the file has none.    *)
UpsertKey ==
    /\ RunCommand("set")
    /\ LET c == Head(script) IN
        /\ keyVar' = [keyVar EXCEPT ![c.file][c.var] = c.id]
        /\ torn' = IF c.file = "ccu2" THEN torn \ {c.var} ELSE torn
    /\ UNCHANGED <<nodeKeys, address, deployed, settled, joined>>

(* The new contract has no keys.                                           *)
Migrate ==
    /\ RunCommand("migrate")
    /\ deployed' = deployed + 1
    /\ settled' = 0
    /\ joined' = {}
    /\ UNCHANGED <<nodeKeys, keyVar, address, torn>>

(* Mutant: a file that has an address is not the one that is edited.       *)
UpsertAddress_WrongFile ==
    /\ RunCommand("address")
    /\ LET c == Head(script) IN
        /\ address' = [address EXCEPT ![IF address[c.file] = 0 THEN c.file ELSE "ccu1"] = c.contract]
        /\ settled' = IF Tail(script) = <<>> THEN c.contract ELSE settled
    /\ UNCHANGED <<nodeKeys, keyVar, deployed, torn, joined>>

UpsertAddress ==
    /\ RunCommand("address")
    /\ LET c == Head(script) IN
        /\ address' = [address EXCEPT ![c.file] = c.contract]
        /\ settled' = IF Tail(script) = <<>> THEN c.contract ELSE settled
    /\ UNCHANGED <<nodeKeys, keyVar, deployed, torn, joined>>

(* A command fails, which ends the script (set -e), or it is stopped.      *)
StopScript ==
    /\ script # <<>>
    /\ script' = <<>>
    /\ torn' = torn \cup {script[i].var : i \in {j \in 1..Len(script) : script[j].op = "set"}}
    /\ UNCHANGED <<nodeKeys, keyVar, address, deployed, scripts, chainVars, loaded, ended, settled, joined>>

-----------------------------------------------------------------------------
(* SetAllIPNSKeys.                                                         *)

(* loadEnv sets what the environment of a process lacks, and nothing else. *)
loadEnv(u, known) == IF known # 0 THEN known ELSE address[u]

(* The variables that are not empty, in order.                             *)
StartRun(u) ==
    /\ script = <<>> /\ run.state = "idle"
    /\ LET names == SortStrings[{v \in Vars : keyVar[u][v] # NoKey}] IN
        /\ names # <<>>
        /\ Len(pool["ccu1"]) + Len(pool["ccu2"]) + Len(names) <= MaxPending
        /\ run' = [ccu |-> u, state |-> "next", todo |-> names,
                   ids |-> keyVar[u], address |-> address[u]]
    /\ UNCHANGED <<fileVars, store, pool, loaded, histVars>>

(* Mutant: the key is stored under the name of the variable.               *)
Submit_VarName ==
    /\ run.state = "next" /\ run.todo # <<>>
    /\ LET a == loadEnv(run.ccu, run.address)
           v == Head(run.todo) IN
        /\ a # 0
        /\ pool' = [pool EXCEPT ![run.ccu] =
                        Append(@, [contract |-> a, name |-> Bytes32(v), id |-> run.ids[v]])]
        /\ run' = [run EXCEPT !.state = "waiting", !.address = a]
    /\ UNCHANGED <<fileVars, store, loaded, histVars>>

(* SetIPNSKeyFromEnvVar, up to the transaction.                            *)
Submit ==
    /\ run.state = "next" /\ run.todo # <<>>
    /\ LET a == loadEnv(run.ccu, run.address)
           v == Head(run.todo) IN
        /\ a # 0
        /\ pool' = [pool EXCEPT ![run.ccu] =
                        Append(@, [contract |-> a, name |-> StoreName(v), id |-> run.ids[v]])]
        /\ run' = [run EXCEPT !.state = "waiting", !.address = a]
    /\ UNCHANGED <<fileVars, store, loaded, histVars>>

(* setIPNSKey.  The transactions of an account are mined in their order,   *)
(* whether their sender still waits or not.                                *)
Mine(u) ==
    /\ pool[u] # <<>>
    /\ LET t == Head(pool[u]) IN store' = [store EXCEPT ![t.contract][t.name] = t.id]
    /\ pool' = [pool EXCEPT ![u] = Tail(@)]
    /\ UNCHANGED <<fileVars, run, loaded, histVars>>

(* WaitMined returns the receipt of the transaction, the account's last.   *)
WaitMined ==
    /\ run.state = "waiting"
    /\ pool[run.ccu] = <<>>
    /\ run' = [run EXCEPT !.state = "next", !.todo = Tail(run.todo)]
    /\ UNCHANGED <<fileVars, store, pool, loaded, histVars>>

(* Mutant: an error of WaitMined is logged and the next variable stored.   *)
WaitTimeout_Continue ==
    /\ run.state = "waiting"
    /\ run' = [run EXCEPT !.state = "next", !.todo = Tail(run.todo)]
    /\ UNCHANGED <<fileVars, store, pool, loaded, histVars>>

(* Mutant: WaitMined is given a context without a limit.                   *)
WaitTimeout_Never == FALSE /\ UNCHANGED vars

(* WaitMined has waited for five minutes: SetAllIPNSKeys returns the error *)
(* at once and leaves the rest unset.                                      *)
WaitTimeout ==
    /\ run.state = "waiting"
    /\ run' = NoRun
    /\ UNCHANGED <<fileVars, store, pool, loaded, histVars>>

(* There is no contract address, or the node refuses the transaction.      *)
SubmitError ==
    /\ run.state = "next" /\ run.todo # <<>>
    /\ run' = NoRun
    /\ UNCHANGED <<fileVars, store, pool, loaded, histVars>>

(* All variables are stored: "[blockchain] Done."                          *)
RunDone ==
    /\ run.state = "next" /\ run.todo = <<>>
    /\ ended' = ended \cup
        {<<run.address, StoreName(v)>> : v \in {w \in Vars : run.ids[w] # NoKey}}
    /\ run' = NoRun
    /\ UNCHANGED <<fileVars, store, pool, loaded, torn, settled, joined>>

(* The process is stopped.                                                 *)
StopRun ==
    /\ run.state # "idle"
    /\ run' = NoRun
    /\ UNCHANGED <<fileVars, store, pool, loaded, histVars>>

-----------------------------------------------------------------------------
(* The CCU that handles requests.                                          *)

(* The CCU is started and handles its first request that uses a log.       *)
(* Later ones call loadEnv too, which then changes nothing.                *)
StartCCU(u) ==
    /\ address[u] # 0
    /\ loaded' = [loaded EXCEPT ![u] = loadEnv(u, 0)]
    /\ joined' = IF settled # 0 THEN joined \cup {u} ELSE joined \ {u}
    /\ UNCHANGED <<fileVars, chainVars, ended, torn, settled>>

(* What the handlers of u are given for the name n.                        *)
GetIPNSKey(u, n) ==
    IF loaded[u] = 0 \/ Bytes32(n) \notin StoreNames THEN NoKey
    ELSE store[loaded[u]][Bytes32(n)]

-----------------------------------------------------------------------------
Script == StartScript \/ GenOrGetID \/ UpsertKey \/ Migrate \/ UpsertAddress \/ StopScript

RunStep == Submit \/ SubmitError \/ WaitMined \/ WaitTimeout \/ RunDone

Next ==
    \/ Script \/ RunStep \/ StopRun
    \/ \E u \in CCUs : StartRun(u) \/ Mine(u) \/ StartCCU(u)

Spec == Init /\ [][Next]_vars

(* A run that is not stopped goes on; whether anything is mined, and what  *)
(* the operator does, is left open.                                        *)
FairSpec == Spec /\ WF_run(RunStep)

-----------------------------------------------------------------------------
(* Properties.                                                             *)

(* A client that sends the name n means the contract's name of the key n,  *)
(* and of no other key.  "patientLight" is stored as "PatientLight",       *)
(* Patient1 and Patient_1 are both "Patient1", and bytes32 cuts a long     *)
(* name and that of its light log to the same.                             *)
Unambiguous(n) ==
    /\ ContractName(n) = Bytes32(n)
    /\ \A m \in nodeKeys : ContractName(m) = ContractName(n) => m = n

(* Whatever was stopped or timed out, and whichever transactions were      *)
(* mined late, what a contract holds under a name is a key of the node     *)
(* whose own name becomes that one.  Different keys may become one name:   *)
(* it then holds any of them, never one of yet another name.               *)
KeysAreOwn ==
    \A a \in Contracts : \A n \in StoreNames : store[a][n] # NoKey =>
        store[a][n] \in nodeKeys /\ ContractName(store[a][n]) = n

(* SetAllIPNSKeys stops at the first key it cannot store.  When it reports *)
(* success, every key its .env file held is in the contract, and so are    *)
(* those before the one it works on when it is stopped: a run that failed  *)
(* is made good by a run that ends well.                                   *)
EndedRunStored ==
    /\ \A x \in ended : store[x[1]][x[2]] # NoKey
    /\ \A v \in Vars : run.ids[v] # NoKey =>
        \/ \E i \in 1..Len(run.todo) : run.todo[i] = v
        \/ store[run.address][StoreName(v)] # NoKey

(* Two CCUs that load the address of the contract after its deployment     *)
(* ended are given the same key for a log, and the right one, once either  *)
(* of them has stored its keys: however many deployments, scripts and runs *)
(* were stopped before.  Only where the conversions keep the log's name    *)
(* apart: else the contract has another log's key for it, or none.         *)
SharedLogs ==
    \A u \in joined : \A n \in nodeKeys :
        <<settled, Bytes32(n)>> \in ended /\ Unambiguous(n) => GetIPNSKey(u, n) = n

(* The .env files of the CCUs name the same key, except where the last     *)
(* script that wrote it is at work or was stopped between the two files;   *)
(* running it again for either name repairs that.                          *)
FilesAgree ==
    \A v \in Vars : keyVar["ccu1"][v] # keyVar["ccu2"][v] =>
        \/ v \in torn
        \/ \E i \in 1..Len(script) : script[i].op = "set" /\ script[i].var = v

(* SetAllIPNSKeys returns even if nothing is ever mined.                   *)
RunEnds == run.state # "idle" ~> run.state = "idle"
=============================================================================
