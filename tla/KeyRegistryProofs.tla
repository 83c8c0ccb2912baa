------------------------- MODULE KeyRegistryProofs -------------------------
(***************************************************************************)
(* Theorems about the registration of log keys: whatever is stopped, times *)
(* out or is mined late, a contract holds right keys under right names,    *)
(* and CCUs that share a contract share their logs.                        *)
(*                                                                         *)
(* The argument follows a key on its way: a script writes a key only once  *)
(* the node has it, and under its own variable; a run reads it from there  *)
(* and a transaction takes it to the contract.                             *)
(***************************************************************************)
EXTENDS KeyRegistry, TLAPS

(* The id is a key of the node and belongs to the variable v.              *)
KeyOf(id, v) == id \in nodeKeys /\ VarOf(id) = v

(* The id is a key of the node, and n is its name in the contract.         *)
KeyUnder(id, n) == id \in nodeKeys /\ ContractName(id) = n

(* Where the script for the keys of n stands, and what it did so far.      *)
KeyGenAt(n) ==
    LET v == VarOf(n)
        w == VarOf(Light(n))
        l == Light(n)
    IN \/ script = KeyGenCommands(n)
       \/ /\ script = <<Gen(l), Set("ccu1", v, n), Set("ccu1", w, l),
                        Set("ccu2", v, n), Set("ccu2", w, l)>>
          /\ n \in nodeKeys
       \/ /\ {n, l} \subseteq nodeKeys
          /\ \/ script = <<Set("ccu1", v, n), Set("ccu1", w, l),
                           Set("ccu2", v, n), Set("ccu2", w, l)>>
             \/ /\ script = <<Set("ccu1", w, l), Set("ccu2", v, n), Set("ccu2", w, l)>>
                /\ keyVar["ccu1"][v] = n
             \/ /\ script = <<Set("ccu2", v, n), Set("ccu2", w, l)>>
                /\ keyVar["ccu1"][v] = n /\ keyVar["ccu1"][w] = l
             \/ /\ script = <<Set("ccu2", w, l)>>
                /\ keyVar["ccu1"][w] = l

(* Where the deployment of contract a stands.                              *)
DeployAt(a) ==
    \/ script = DeployCommands(a) /\ a = deployed + 1
    \/ script = <<Address("ccu1", a), Address("ccu2", a)>> /\ settled = 0
    \/ script = <<Address("ccu2", a)>> /\ settled = 0 /\ address["ccu1"] = a

ScriptAt ==
    \/ script = <<>>
    \/ \E n \in KeyNames : KeyGenAt(n)
    \/ \E a \in Contracts : DeployAt(a)

(* Right keys in the files, in the run and in its transactions.            *)
RightKeys ==
    /\ \A u \in CCUs : \A v \in Vars : keyVar[u][v] # NoKey => KeyOf(keyVar[u][v], v)
    /\ \A v \in Vars : run.ids[v] # NoKey => KeyOf(run.ids[v], v)
    /\ \A u \in CCUs : \A i \in 1..Len(pool[u]) : KeyUnder(pool[u][i].id, pool[u][i].name)
    /\ \A a \in Contracts : \A n \in StoreNames : store[a][n] # NoKey => KeyUnder(store[a][n], n)

(* The variable a run waits for is in one of its transactions.             *)
Sent(v) ==
    \/ store[run.address][StoreName(v)] # NoKey
    \/ \E i \in 1..Len(pool[run.ccu]) :
        /\ pool[run.ccu][i].contract = run.address
        /\ pool[run.ccu][i].name = StoreName(v)

Stored(v) == run.address # 0 /\ store[run.address][StoreName(v)] # NoKey

ToDo(v) == \E i \in 1..Len(run.todo) : run.todo[i] = v

(* What a run has stored, waits for, and has still to store.               *)
Underway ==
    /\ run.state = "waiting" => run.todo # <<>> /\ run.address # 0 /\ Sent(Head(run.todo))
    /\ \A i \in 1..Len(run.todo) : run.ids[run.todo[i]] # NoKey
    /\ \A v \in Vars : run.ids[v] # NoKey => ToDo(v) \/ Stored(v)
    /\ \A x \in ended : store[x[1]][x[2]] # NoKey

(* Both files name the settled contract, and so do the CCUs that joined.   *)
Joined ==
    /\ settled # 0 => \A u \in CCUs : address[u] = settled
    /\ \A u \in joined : settled # 0 /\ loaded[u] = settled

IInv == TypeOK /\ ScriptAt /\ RightKeys /\ Underway /\ Joined /\ FilesAgree

-----------------------------------------------------------------------------
LEMMA LightName ==
    ASSUME NEW n \in KeyNames
    PROVE  /\ n \in GeneratedNames /\ Light(n) \in GeneratedNames
           /\ VarOf(n) \in Vars /\ VarOf(Light(n)) \in Vars
           /\ VarOf(n) # VarOf(Light(n))
<1>1. n \in Seq(Part) /\ Light(n) \in Seq(Part) /\ Len(Light(n)) = Len(n) + 1
  <2>1. n \in Seq(Part) /\ "light" \in Words
      BY NameAssumption
  <2>2. [under |-> 0, text |-> "light", capital |-> TRUE] \in Part
      BY <2>1 DEF Part
  <2> QED
      BY <2>1, <2>2 DEF Light
<1>2. DOMAIN VarOf(n) = 1..Len(n) /\ DOMAIN VarOf(Light(n)) = 1..Len(Light(n))
    BY DEF VarOf
<1>3. Len(n) \in Nat /\ 1..Len(n) # 1..(Len(n) + 1)
  <2>1. Len(n) \in Nat
      BY <1>1
  <2>2. Len(n) + 1 \in 1..(Len(n) + 1) /\ Len(n) + 1 \notin 1..Len(n)
      BY <2>1
  <2> QED
      BY <2>1, <2>2
<1> QED
    BY <1>1, <1>2, <1>3 DEF GeneratedNames, Vars

LEMMA StoreNameType ==
    ASSUME NEW v \in Vars
    PROVE  StoreName(v) \in StoreNames
BY DEF StoreNames

LEMMA TailFacts ==
    ASSUME NEW S, NEW s \in Seq(S), s # <<>>
    PROVE  /\ Head(s) \in S
           /\ Tail(s) \in Seq(S)
           /\ Len(Tail(s)) = Len(s) - 1
           /\ \A i \in 1..Len(Tail(s)) : Tail(s)[i] = s[i + 1] /\ i + 1 \in 1..Len(s)
           /\ Head(s) = s[1] /\ Len(s) >= 1
           /\ \A i \in 1..Len(s) : i = 1 \/ (i - 1 \in 1..Len(Tail(s)) /\ s[i] = Tail(s)[i - 1])
<1>1. /\ Head(s) \in S /\ Tail(s) \in Seq(S) /\ Head(s) = s[1]
      /\ Len(s) \in Nat /\ Len(s) >= 1 /\ Len(Tail(s)) = Len(s) - 1
    OBVIOUS
<1>2. \A i \in 1..Len(Tail(s)) : Tail(s)[i] = s[i + 1]
    OBVIOUS
<1>3. \A i \in 1..Len(s) : i = 1 \/ (i - 1 \in 1..Len(Tail(s)) /\ s[i] = Tail(s)[i - 1])
  <2> SUFFICES ASSUME NEW i \in 1..Len(s), i # 1
               PROVE  i - 1 \in 1..Len(Tail(s)) /\ s[i] = Tail(s)[i - 1]
      OBVIOUS
  <2>1. i - 1 \in 1..Len(Tail(s)) /\ (i - 1) + 1 = i
      BY <1>1
  <2> QED
      BY <2>1, <1>2
<1> QED
    BY <1>1, <1>2, <1>3

LEMMA AppendFacts ==
    ASSUME NEW S, NEW s \in Seq(S), NEW e \in S
    PROVE  /\ Append(s, e) \in Seq(S)
           /\ Len(Append(s, e)) = Len(s) + 1
           /\ \A i \in 1..Len(s) : Append(s, e)[i] = s[i]
           /\ Append(s, e)[Len(s) + 1] = e
OBVIOUS

LEMMA KeyGenType ==
    ASSUME NEW n \in KeyNames
    PROVE  KeyGenCommands(n) \in Seq(Command)
<1>1. \A u \in CCUs :
          /\ Gen(n) \in Command /\ Gen(Light(n)) \in Command
          /\ Set(u, VarOf(n), n) \in Command /\ Set(u, VarOf(Light(n)), Light(n)) \in Command
    BY LightName DEF Command, Gen, Set
<1> QED
    BY <1>1 DEF KeyGenCommands, CCUs

LEMMA DeployType ==
    ASSUME NEW a \in Contracts
    PROVE  DeployCommands(a) \in Seq(Command)
<1>1. \A u \in CCUs : Address(u, a) \in Command
    BY DEF Command, Address
<1>2. [op |-> "migrate"] \in Command
    BY DEF Command
<1> QED
    BY <1>1, <1>2 DEF DeployCommands, CCUs

(* The tails of a script.                                                  *)
LEMMA Tails ==
    /\ \A a : Tail(<<a>>) = <<>>
    /\ \A a, b : Tail(<<a, b>>) = <<b>>
    /\ \A a, b, c : Tail(<<a, b, c>>) = <<b, c>>
    /\ \A a, b, c, d : Tail(<<a, b, c, d>>) = <<b, c, d>>
    /\ \A a, b, c, d, e : Tail(<<a, b, c, d, e>>) = <<b, c, d, e>>
    /\ \A a, b, c, d, e, f : Tail(<<a, b, c, d, e, f>>) = <<b, c, d, e, f>>
<1>1. \A a : Tail(<<a>>) = <<>>
    OBVIOUS
<1>2. \A a, b : Tail(<<a, b>>) = <<b>>
    OBVIOUS
<1>3. \A a, b, c : Tail(<<a, b, c>>) = <<b, c>>
    OBVIOUS
<1>4. \A a, b, c, d : Tail(<<a, b, c, d>>) = <<b, c, d>>
    OBVIOUS
<1>5. \A a, b, c, d, e : Tail(<<a, b, c, d, e>>) = <<b, c, d, e>>
    OBVIOUS
<1>6. \A a, b, c, d, e, f : Tail(<<a, b, c, d, e, f>>) = <<b, c, d, e, f>>
    OBVIOUS
<1> QED
    BY <1>1, <1>2, <1>3, <1>4, <1>5, <1>6

LEMMA HeadOf ==
    ASSUME TypeOK, script # <<>>
    PROVE  LET c == Head(script) IN
           /\ c \in Command /\ Tail(script) \in Seq(Command)
           /\ c.op = "gen" => c.name \in GeneratedNames
           /\ c.op = "set" => c.file \in CCUs /\ c.var \in Vars /\ c.id \in GeneratedNames
           /\ c.op = "address" => c.file \in CCUs /\ c.contract \in Contracts
<1>1. Head(script) \in Command /\ Tail(script) \in Seq(Command)
    BY DEF TypeOK
<1> QED
    BY <1>1 DEF Command

(* The variables that a stopped script still had to write are variables.   *)
LEMMA SetVars ==
    ASSUME TypeOK
    PROVE  {script[i].var : i \in {j \in 1..Len(script) : script[j].op = "set"}} \subseteq Vars
<1>1. ASSUME NEW i \in 1..Len(script), script[i].op = "set" PROVE script[i].var \in Vars
  <2>1. script[i] \in Command
      BY DEF TypeOK
  <2> QED
      BY <1>1, <2>1 DEF Command
<1> QED
    BY <1>1

(* A deployment finds a contract to deploy.                                *)
LEMMA MigrateHead ==
    ASSUME TypeOK, ScriptAt, script # <<>>, Head(script).op = "migrate"
    PROVE  \E a \in Contracts : script = DeployCommands(a) /\ a = deployed + 1
BY DEF ScriptAt, KeyGenAt, DeployAt, KeyGenCommands, Gen, Set, Address

LEMMA TypeStep ==
    TypeOK /\ ScriptAt /\ Underway /\ [Next]_vars => TypeOK'
<1> SUFFICES ASSUME TypeOK, ScriptAt, Underway, [Next]_vars PROVE TypeOK'
    OBVIOUS
<1> USE DEF TypeOK
<1>1. CASE UNCHANGED vars
    BY <1>1 DEF vars, fileVars, chainVars, histVars
<1>2. CASE StartScript
  <2>1. scripts' \in 0..MaxScripts
      BY <1>2, BoundAssumption DEF StartScript
  <2>2. deployed < MaxContracts => deployed + 1 \in Contracts
      BY BoundAssumption DEF Contracts
  <2>3. script' \in Seq(Command)
      BY <1>2, <2>2, KeyGenType, DeployType DEF StartScript
  <2> QED
      BY <1>2, <2>1, <2>3 DEF StartScript, chainVars, histVars
<1>3. CASE GenOrGetID
    BY <1>3, HeadOf DEF GenOrGetID, RunCommand, chainVars
<1>4. CASE UpsertKey
  <2> DEFINE c == Head(script)
  <2>1. c.file \in CCUs /\ c.var \in Vars /\ c.id \in GeneratedNames /\ Tail(script) \in Seq(Command)
      BY <1>4, HeadOf DEF UpsertKey, RunCommand
  <2>2. keyVar' \in [CCUs -> EnvKeys]
    <3>1. keyVar[c.file] \in EnvKeys
        BY <2>1
    <3>2. [keyVar[c.file] EXCEPT ![c.var] = c.id] \in EnvKeys
        BY <2>1, <3>1 DEF EnvKeys
    <3> QED
        BY <1>4, <2>1, <3>2 DEF UpsertKey
  <2> QED
      BY <1>4, <2>1, <2>2 DEF UpsertKey, RunCommand, chainVars
<1>5. CASE Migrate
  <2>1. deployed' \in Contracts
      BY <1>5, MigrateHead DEF Migrate, RunCommand
  <2> QED
      BY <1>5, <2>1, HeadOf DEF Migrate, RunCommand, chainVars
<1>6. CASE UpsertAddress
    BY <1>6, HeadOf DEF UpsertAddress, RunCommand, chainVars
<1>7. CASE StopScript
    BY <1>7, SetVars DEF StopScript, chainVars
<1>8. CASE Submit
  <2> DEFINE a == loadEnv(run.ccu, run.address)
             v == Head(run.todo)
  <2>1. run.ccu \in CCUs /\ run.todo \in Seq(Vars) /\ v \in Vars /\ a \in Contracts
      BY <1>8, TailFacts DEF Submit, Run, loadEnv
  <2>2. [contract |-> a, name |-> StoreName(v), id |-> run.ids[v]] \in Transaction
    <3>1. run.todo # <<>>
        BY <1>8 DEF Submit
    <3>2. run.ids[v] # NoKey
        BY <2>1, <3>1, TailFacts DEF Underway
    <3>3. run.ids[v] \in GeneratedNames
        BY <2>1, <3>2 DEF Run, EnvKeys
    <3> QED
        BY <2>1, <3>3, StoreNameType DEF Transaction
  <2>3. run' \in Run
      BY <1>8, <2>1 DEF Submit, Run
  <2> QED
      BY <1>8, <2>1, <2>2, <2>3, AppendFacts DEF Submit, fileVars, histVars
<1>9. CASE SubmitError \/ WaitTimeout \/ StopRun
  <2>1. NoRun \in Run
      BY DEF NoRun, Run, EnvKeys, CCUs
  <2> QED
      BY <1>9, <2>1 DEF SubmitError, WaitTimeout, StopRun, fileVars, histVars
<1>10. CASE WaitMined
  <2>1. run' \in Run
      BY <1>10, TailFacts DEF WaitMined, Run, Underway
  <2> QED
      BY <1>10, <2>1 DEF WaitMined, fileVars, histVars
<1>11. CASE RunDone
  <2>1. ASSUME NEW v \in Vars, run.ids[v] # NoKey
        PROVE  run.address \in Contracts /\ StoreName(v) \in StoreNames
    <3>1. run.todo = <<>>
        BY <1>11 DEF RunDone
    <3>2. Stored(v)
        BY <2>1, <3>1 DEF Underway, ToDo
    <3> QED
        BY <3>2, StoreNameType DEF Stored, Run
  <2>2. ended' \subseteq Contracts \X StoreNames
      BY <1>11, <2>1 DEF RunDone
  <2>3. NoRun \in Run
      BY DEF NoRun, Run, EnvKeys, CCUs
  <2> QED
      BY <1>11, <2>2, <2>3 DEF RunDone, fileVars
<1>12. ASSUME NEW u \in CCUs, StartRun(u) PROVE TypeOK'
  <2> DEFINE V == {v \in Vars : keyVar[u][v] # NoKey}
  <2>1. SortStrings[V] \in Seq(Vars)
      BY SortAssumption
  <2>2. run' \in Run
      BY <1>12, <2>1 DEF StartRun, Run
  <2> QED
      BY <1>12, <2>2 DEF StartRun, fileVars, histVars
<1>13. ASSUME NEW u \in CCUs, Mine(u) PROVE TypeOK'
  <2> DEFINE t == Head(pool[u])
  <2>1. t \in Transaction /\ Tail(pool[u]) \in Seq(Transaction)
      BY <1>13, TailFacts DEF Mine
  <2>2. store' \in [Contracts -> [StoreNames -> GeneratedNames \cup {NoKey}]]
      BY <1>13, <2>1 DEF Mine, Transaction
  <2> QED
      BY <1>13, <2>1, <2>2 DEF Mine, fileVars, histVars
<1>14. ASSUME NEW u \in CCUs, StartCCU(u) PROVE TypeOK'
    BY <1>14 DEF StartCCU, loadEnv, fileVars, chainVars
<1> QED
    BY <1>1, <1>2, <1>3, <1>4, <1>5, <1>6, <1>7, <1>8, <1>9, <1>10, <1>11, <1>12, <1>13, <1>14
       DEF Next, Script, RunStep

-----------------------------------------------------------------------------
LEMMA Second ==
    ASSUME NEW s, NEW a, NEW b
    PROVE  /\ s = <<a, b>> => 2 \in 1..Len(s) /\ s[2] = b
           /\ \A c : s = <<a, b, c>> => 2 \in 1..Len(s) /\ s[2] = b
OBVIOUS

(* What a command finds: how far its script is.                            *)

LEMMA GenHead ==
    ASSUME ScriptAt, script # <<>>, Head(script).op = "gen"
    PROVE  \E n \in KeyNames :
            \/ script = KeyGenCommands(n)
            \/ /\ script = <<Gen(Light(n)), Set("ccu1", VarOf(n), n), Set("ccu1", VarOf(Light(n)), Light(n)),
                             Set("ccu2", VarOf(n), n), Set("ccu2", VarOf(Light(n)), Light(n))>>
               /\ n \in nodeKeys
BY DEF ScriptAt, KeyGenAt, DeployAt, DeployCommands, Set, Address

LEMMA SetHead ==
    ASSUME ScriptAt, script # <<>>, Head(script).op = "set"
    PROVE  \E n \in KeyNames :
            /\ KeyGenAt(n)
            /\ {n, Light(n)} \subseteq nodeKeys
               \/ (script = <<Set("ccu2", VarOf(Light(n)), Light(n))>> /\ Light(n) \in nodeKeys)
BY DEF ScriptAt, KeyGenAt, DeployAt, KeyGenCommands, DeployCommands, Gen, Address

LEMMA AddressHead ==
    ASSUME ScriptAt, script # <<>>, Head(script).op = "address"
    PROVE  \E a \in Contracts :
            /\ settled = 0
            /\ \/ script = <<Address("ccu1", a), Address("ccu2", a)>>
               \/ script = <<Address("ccu2", a)>> /\ address["ccu1"] = a
BY DEF ScriptAt, KeyGenAt, DeployAt, KeyGenCommands, DeployCommands, Gen, Set

LEMMA ScriptStep ==
    TypeOK /\ ScriptAt /\ [Next]_vars => ScriptAt'
<1> SUFFICES ASSUME TypeOK, ScriptAt, [Next]_vars PROVE ScriptAt'
    OBVIOUS
<1>1. CASE UNCHANGED <<script, nodeKeys, keyVar, deployed, settled, address>>
    BY <1>1 DEF ScriptAt, KeyGenAt, DeployAt
<1>2. CASE StartScript
  <2>1. CASE \E n \in KeyNames : script' = KeyGenCommands(n)
      BY <2>1 DEF ScriptAt, KeyGenAt
  <2>2. CASE deployed < MaxContracts /\ script' = DeployCommands(deployed + 1)
    <3>1. PICK a \in Contracts : a = deployed + 1
        BY <2>2, BoundAssumption DEF Contracts, TypeOK
    <3>2. DeployAt(a)'
        BY <1>2, <2>2, <3>1 DEF StartScript, DeployAt
    <3> QED
        BY <3>2 DEF ScriptAt
  <2> QED
      BY <1>2, <2>1, <2>2 DEF StartScript
<1>3. CASE GenOrGetID
  <2>1. PICK n \in KeyNames :
            \/ script = KeyGenCommands(n)
            \/ /\ script = <<Gen(Light(n)), Set("ccu1", VarOf(n), n), Set("ccu1", VarOf(Light(n)), Light(n)),
                             Set("ccu2", VarOf(n), n), Set("ccu2", VarOf(Light(n)), Light(n))>>
               /\ n \in nodeKeys
      BY <1>3, GenHead DEF GenOrGetID, RunCommand
  <2> DEFINE l == Light(n)
             s1 == Set("ccu1", VarOf(n), n)
             s2 == Set("ccu1", VarOf(l), l)
             s3 == Set("ccu2", VarOf(n), n)
             s4 == Set("ccu2", VarOf(l), l)
  <2>2. CASE script = KeyGenCommands(n)
    <3>1. Head(script) = Gen(n) /\ Tail(script) = <<Gen(l), s1, s2, s3, s4>>
        BY <2>2, Tails DEF KeyGenCommands
    <3>2. n \in nodeKeys' /\ script' = Tail(script)
        BY <1>3, <3>1 DEF GenOrGetID, RunCommand, Gen
    <3> QED
        BY <3>1, <3>2 DEF KeyGenAt, ScriptAt
  <2>3. CASE script # KeyGenCommands(n)
    <3>0. script = <<Gen(l), s1, s2, s3, s4>> /\ n \in nodeKeys
        BY <2>1, <2>3
    <3> HIDE DEF s1, s2, s3, s4, l
    <3>1. Head(script) = Gen(l) /\ Tail(script) = <<s1, s2, s3, s4>> /\ n \in nodeKeys
        BY <3>0, Tails
    <3>2. {n, l} \subseteq nodeKeys' /\ script' = <<s1, s2, s3, s4>>
        BY <1>3, <3>1 DEF GenOrGetID, RunCommand, Gen
    <3> QED
        BY <3>2 DEF KeyGenAt, ScriptAt, s1, s2, s3, s4, l
  <2> QED
      BY <2>2, <2>3
<1>4. CASE UpsertKey
  <2>1. PICK n \in KeyNames :
            /\ KeyGenAt(n)
            /\ {n, Light(n)} \subseteq nodeKeys
               \/ (script = <<Set("ccu2", VarOf(Light(n)), Light(n))>> /\ Light(n) \in nodeKeys)
      BY <1>4, SetHead DEF UpsertKey, RunCommand
  <2> DEFINE l == Light(n)
             v == VarOf(n)
             w == VarOf(l)
             c == Head(script)
  <2> HIDE DEF l, v, w
  <2>2. /\ script # <<>> /\ c.op = "set" /\ script' = Tail(script) /\ nodeKeys' = nodeKeys
        /\ keyVar' = [keyVar EXCEPT ![c.file][c.var] = c.id]
      BY <1>4 DEF UpsertKey, RunCommand
  <2>3. keyVar \in [CCUs -> [Vars -> GeneratedNames \cup {NoKey}]] /\ "ccu1" \in CCUs /\ "ccu2" \in CCUs
      BY DEF TypeOK, EnvKeys, CCUs
  <2>4. v \in Vars /\ w \in Vars /\ v # w
      BY LightName DEF v, w, l
  <2>5. CASE /\ script = <<Set("ccu1", v, n), Set("ccu1", w, l), Set("ccu2", v, n), Set("ccu2", w, l)>>
             /\ {n, l} \subseteq nodeKeys
    <3>1. c = Set("ccu1", v, n) /\ Tail(script) = <<Set("ccu1", w, l), Set("ccu2", v, n), Set("ccu2", w, l)>>
        BY <2>5, Tails
    <3>2. keyVar'["ccu1"][v] = n
        BY <2>2, <2>3, <2>4, <3>1 DEF Set
    <3>3. KeyGenAt(n)'
        BY <2>2, <2>5, <3>1, <3>2 DEF KeyGenAt, v, w, l
    <3> QED
        BY <3>3 DEF ScriptAt
  <2>6. CASE /\ script = <<Set("ccu1", w, l), Set("ccu2", v, n), Set("ccu2", w, l)>>
             /\ {n, l} \subseteq nodeKeys /\ keyVar["ccu1"][v] = n
    <3>1. c = Set("ccu1", w, l) /\ Tail(script) = <<Set("ccu2", v, n), Set("ccu2", w, l)>>
        BY <2>6, Tails
    <3>2. keyVar'["ccu1"][v] = n /\ keyVar'["ccu1"][w] = l
        BY <2>2, <2>3, <2>4, <2>6, <3>1 DEF Set
    <3>3. KeyGenAt(n)'
        BY <2>2, <2>6, <3>1, <3>2 DEF KeyGenAt, v, w, l
    <3> QED
        BY <3>3 DEF ScriptAt
  <2>7. CASE /\ script = <<Set("ccu2", v, n), Set("ccu2", w, l)>>
             /\ {n, l} \subseteq nodeKeys /\ keyVar["ccu1"][w] = l
    <3>1. c = Set("ccu2", v, n) /\ Tail(script) = <<Set("ccu2", w, l)>>
        BY <2>7, Tails
    <3>2. keyVar'["ccu1"][w] = l
        BY <2>2, <2>3, <2>4, <2>7, <3>1 DEF Set
    <3>3. KeyGenAt(n)'
        BY <2>2, <2>7, <3>1, <3>2 DEF KeyGenAt, v, w, l
    <3> QED
        BY <3>3 DEF ScriptAt
  <2>8. CASE script = <<Set("ccu2", w, l)>>
    <3>1. script' = <<>>
        BY <2>2, <2>8, Tails
    <3> QED
        BY <3>1 DEF ScriptAt
  <2>9. ~(script = KeyGenCommands(n))
      BY <2>2 DEF KeyGenCommands, Gen
  <2>10. \A s1, s2, s3, s4 : script # <<Gen(l), s1, s2, s3, s4>>
      BY <2>2 DEF Gen
  <2> QED
      BY <2>1, <2>5, <2>6, <2>7, <2>8, <2>9, <2>10 DEF KeyGenAt, v, w, l
<1>5. CASE Migrate
  <2>1. PICK a \in Contracts : script = DeployCommands(a) /\ a = deployed + 1
      BY <1>5, MigrateHead DEF Migrate, RunCommand
  <2>2. DeployAt(a)'
      BY <1>5, <2>1, Tails DEF Migrate, RunCommand, DeployAt, DeployCommands
  <2> QED
      BY <2>2 DEF ScriptAt
<1>6. CASE UpsertAddress
  <2>1. PICK a \in Contracts :
            /\ settled = 0
            /\ \/ script = <<Address("ccu1", a), Address("ccu2", a)>>
               \/ script = <<Address("ccu2", a)>> /\ address["ccu1"] = a
      BY <1>6, AddressHead DEF UpsertAddress, RunCommand
  <2>2. CASE script = <<Address("ccu2", a)>>
    <3>1. script' = <<>>
        BY <1>6, <2>2, Tails DEF UpsertAddress, RunCommand
    <3> QED
        BY <3>1 DEF ScriptAt
  <2>3. CASE script = <<Address("ccu1", a), Address("ccu2", a)>>
    <3>1. Head(script) = Address("ccu1", a) /\ Tail(script) = <<Address("ccu2", a)>>
        BY <2>3, Tails
    <3>2. Tail(script) # <<>>
        BY <3>1
    <3>3. address'["ccu1"] = a /\ settled' = 0 /\ script' = Tail(script)
        BY <1>6, <2>1, <3>1, <3>2 DEF UpsertAddress, RunCommand, Address, TypeOK, CCUs
    <3>4. DeployAt(a)'
        BY <3>1, <3>3 DEF DeployAt
    <3> QED
        BY <3>4 DEF ScriptAt
  <2> QED
      BY <2>1, <2>2, <2>3
<1>7. CASE StopScript
    BY <1>7 DEF StopScript, ScriptAt
<1>8. CASE UNCHANGED vars \/ RunStep \/ StopRun \/ (\E u \in CCUs : StartRun(u) \/ Mine(u) \/ StartCCU(u))
  <2>1. UNCHANGED <<script, nodeKeys, keyVar, deployed, settled, address>>
      BY <1>8 DEF RunStep, Submit, SubmitError, WaitMined, WaitTimeout, RunDone, StopRun,
                  StartRun, Mine, StartCCU, vars, fileVars, histVars
  <2> QED
      BY <1>1, <2>1
<1> QED
    BY <1>2, <1>3, <1>4, <1>5, <1>6, <1>7, <1>8 DEF Next, Script

-----------------------------------------------------------------------------
(* A key that is written is the node's and belongs to its variable; what   *)
(* goes into the first file still goes into the second, and what goes into *)
(* the second is in the first.                                             *)
LEMMA SetCommand ==
    ASSUME TypeOK, ScriptAt, script # <<>>, Head(script).op = "set"
    PROVE  LET c == Head(script) IN
           /\ KeyOf(c.id, c.var)
           /\ \/ /\ c.file = "ccu1"
                 /\ \E i \in 1..Len(Tail(script)) :
                       Tail(script)[i].op = "set" /\ Tail(script)[i].var = c.var
              \/ c.file = "ccu2" /\ keyVar["ccu1"][c.var] = c.id
<1>1. PICK n \in KeyNames :
          /\ KeyGenAt(n)
          /\ {n, Light(n)} \subseteq nodeKeys
             \/ (script = <<Set("ccu2", VarOf(Light(n)), Light(n))>> /\ Light(n) \in nodeKeys)
    BY SetHead
<1> DEFINE l == Light(n)
           v == VarOf(n)
           w == VarOf(l)
           c == Head(script)
           Goal == /\ KeyOf(c.id, c.var)
                   /\ \/ /\ c.file = "ccu1"
                         /\ \E i \in 1..Len(Tail(script)) :
                               Tail(script)[i].op = "set" /\ Tail(script)[i].var = c.var
                      \/ c.file = "ccu2" /\ keyVar["ccu1"][c.var] = c.id
<1> HIDE DEF l, v, w
<1>2. c.op = "set"
    OBVIOUS
<1>3. CASE /\ script = <<Set("ccu1", v, n), Set("ccu1", w, l), Set("ccu2", v, n), Set("ccu2", w, l)>>
           /\ {n, l} \subseteq nodeKeys
  <2>1. c = Set("ccu1", v, n) /\ Tail(script) = <<Set("ccu1", w, l), Set("ccu2", v, n), Set("ccu2", w, l)>>
      BY <1>3, Tails
  <2>2. 2 \in 1..Len(Tail(script)) /\ Tail(script)[2] = Set("ccu2", v, n)
    <3>1. Tail(script) = <<Set("ccu1", w, l), Set("ccu2", v, n), Set("ccu2", w, l)>>
        BY <2>1
    <3> QED
        BY <3>1, Second
  <2> QED
      BY <1>3, <2>1, <2>2 DEF Set, KeyOf, v
<1>4. CASE /\ script = <<Set("ccu1", w, l), Set("ccu2", v, n), Set("ccu2", w, l)>>
           /\ {n, l} \subseteq nodeKeys
  <2>1. c = Set("ccu1", w, l) /\ Tail(script) = <<Set("ccu2", v, n), Set("ccu2", w, l)>>
      BY <1>4, Tails
  <2>2. 2 \in 1..Len(Tail(script)) /\ Tail(script)[2] = Set("ccu2", w, l)
      BY <2>1, Second
  <2> QED
      BY <1>4, <2>1, <2>2 DEF Set, KeyOf, w
<1>5. CASE /\ script = <<Set("ccu2", v, n), Set("ccu2", w, l)>>
           /\ {n, l} \subseteq nodeKeys /\ keyVar["ccu1"][v] = n
  <2>1. c = Set("ccu2", v, n)
      BY <1>5
  <2> QED
      BY <1>5, <2>1 DEF Set, KeyOf, v
<1>6. CASE /\ script = <<Set("ccu2", w, l)>>
           /\ l \in nodeKeys /\ keyVar["ccu1"][w] = l
  <2>1. c = Set("ccu2", w, l)
      BY <1>6
  <2> QED
      BY <1>6, <2>1 DEF Set, KeyOf, w
<1>7. ~(script = KeyGenCommands(n))
    BY <1>2 DEF KeyGenCommands, Gen
<1>8. \A s1, s2, s3, s4 : script # <<Gen(l), s1, s2, s3, s4>>
    BY <1>2 DEF Gen
<1> QED
    BY <1>1, <1>3, <1>4, <1>5, <1>6, <1>7, <1>8 DEF KeyGenAt, v, w, l

LEMMA FilesStep ==
    TypeOK /\ ScriptAt /\ FilesAgree /\ [Next]_vars => FilesAgree'
<1> SUFFICES ASSUME TypeOK, ScriptAt, FilesAgree, [Next]_vars,
                    NEW v \in Vars, keyVar'["ccu1"][v] # keyVar'["ccu2"][v], v \notin torn'
             PROVE  \E i \in 1..Len(script') : script'[i].op = "set" /\ script'[i].var = v
    BY DEF FilesAgree
<1> DEFINE Awaits(s) == \E i \in 1..Len(s) : s[i].op = "set" /\ s[i].var = v
<1>1. keyVar["ccu1"][v] # keyVar["ccu2"][v] /\ v \notin torn => Awaits(script)
    BY DEF FilesAgree
(* A command other than the writing of v leaves that to be done.           *)
<1>2. script # <<>> /\ Awaits(script) /\ (Head(script).op = "set" => Head(script).var # v)
        => Awaits(Tail(script))
  <2> SUFFICES ASSUME script # <<>>, Awaits(script), Head(script).op = "set" => Head(script).var # v
               PROVE  Awaits(Tail(script))
      OBVIOUS
  <2>1. PICK i \in 1..Len(script) : script[i].op = "set" /\ script[i].var = v
      OBVIOUS
  <2>2. script \in Seq(Command)
      BY DEF TypeOK
  <2>3. i # 1
      BY <2>1, <2>2, TailFacts
  <2>4. i - 1 \in 1..Len(Tail(script)) /\ Tail(script)[i - 1] = script[i]
      BY <2>2, <2>3, TailFacts
  <2> QED
      BY <2>1, <2>4
<1>3. CASE UNCHANGED <<keyVar, torn>> /\ (script' = script \/ script = <<>>)
    BY <1>1, <1>3
<1>4. CASE GenOrGetID \/ Migrate \/ UpsertAddress
  <2>1. /\ script # <<>> /\ script' = Tail(script) /\ Head(script).op # "set"
        /\ UNCHANGED <<keyVar, torn>>
      BY <1>4 DEF GenOrGetID, Migrate, UpsertAddress, RunCommand
  <2> QED
      BY <1>1, <1>2, <2>1
<1>5. CASE UpsertKey
  <2> DEFINE c == Head(script)
  <2>1. /\ script # <<>> /\ script' = Tail(script) /\ c.op = "set"
        /\ keyVar' = [keyVar EXCEPT ![c.file][c.var] = c.id]
        /\ torn' = IF c.file = "ccu2" THEN torn \ {c.var} ELSE torn
      BY <1>5 DEF UpsertKey, RunCommand
  <2>2. keyVar \in [CCUs -> [Vars -> GeneratedNames \cup {NoKey}]] /\ "ccu1" \in CCUs /\ "ccu2" \in CCUs
      BY DEF TypeOK, EnvKeys, CCUs
  <2>3. c.file \in CCUs /\ c.var \in Vars
      BY <2>1, HeadOf
  <2>4. CASE v # c.var
    <3>1. keyVar'["ccu1"][v] = keyVar["ccu1"][v] /\ keyVar'["ccu2"][v] = keyVar["ccu2"][v]
        BY <2>1, <2>2, <2>3, <2>4
    <3> QED
        BY <1>1, <1>2, <2>1, <2>4, <3>1
  <2>5. CASE v = c.var /\ c.file = "ccu1"
      BY <2>1, <2>5, SetCommand
  <2>6. CASE v = c.var /\ c.file = "ccu2"
    <3>1. keyVar["ccu1"][v] = c.id
        BY <2>1, <2>6, SetCommand
    <3>2. keyVar'["ccu1"][v] = c.id /\ keyVar'["ccu2"][v] = c.id
        BY <2>1, <2>2, <2>3, <2>6, <3>1
    <3> QED
        BY <3>2
  <2> QED
      BY <2>3, <2>4, <2>5, <2>6 DEF CCUs
<1>6. CASE StopScript
    BY <1>1, <1>6 DEF StopScript
<1>7. CASE StartScript
    BY <1>3, <1>7 DEF StartScript, histVars
<1>8. CASE UNCHANGED vars \/ RunStep \/ StopRun \/ (\E u \in CCUs : StartRun(u) \/ Mine(u) \/ StartCCU(u))
    BY <1>3, <1>8 DEF RunStep, Submit, SubmitError, WaitMined, WaitTimeout, RunDone, StopRun,
                      StartRun, Mine, StartCCU, vars, fileVars, histVars
<1> QED
    BY <1>4, <1>5, <1>6, <1>7, <1>8 DEF Next, Script

-----------------------------------------------------------------------------
(* Keys of the node are never removed.                                     *)
LEMMA NodeKeysGrow ==
    [Next]_vars => nodeKeys \subseteq nodeKeys'
BY DEF Next, Script, RunStep, StartScript, GenOrGetID, UpsertKey, Migrate, UpsertAddress, StopScript,
       Submit, SubmitError, WaitMined, WaitTimeout, RunDone, StopRun, StartRun, Mine, StartCCU,
       vars, fileVars

LEMMA RightStep ==
    TypeOK /\ ScriptAt /\ Underway /\ RightKeys /\ [Next]_vars => RightKeys'
<1> SUFFICES ASSUME TypeOK, ScriptAt, Underway, RightKeys, [Next]_vars PROVE RightKeys'
    OBVIOUS
<1>1. \A id, v : (KeyOf(id, v) => KeyOf(id, v)') /\ (KeyUnder(id, v) => KeyUnder(id, v)')
    BY NodeKeysGrow DEF KeyOf, KeyUnder
<1> DEFINE InFiles == \A u \in CCUs : \A v \in Vars : keyVar[u][v] # NoKey => KeyOf(keyVar[u][v], v)
           InRun == \A v \in Vars : run.ids[v] # NoKey => KeyOf(run.ids[v], v)
           InPool == \A u \in CCUs : \A i \in 1..Len(pool[u]) :
                        KeyUnder(pool[u][i].id, pool[u][i].name)
           InStore == \A a \in Contracts : \A n \in StoreNames :
                        store[a][n] # NoKey => KeyUnder(store[a][n], n)
<1>2. InFiles /\ InRun /\ InPool /\ InStore
    BY DEF RightKeys
<1>3. InFiles'
  <2>1. CASE UNCHANGED keyVar
      BY <1>1, <1>2, <2>1
  <2>2. CASE UpsertKey
    <3> DEFINE c == Head(script)
    <3>1. /\ script # <<>> /\ c.op = "set"
          /\ keyVar' = [keyVar EXCEPT ![c.file][c.var] = c.id]
        BY <2>2 DEF UpsertKey, RunCommand
    <3>2. KeyOf(c.id, c.var)
        BY <3>1, SetCommand
    <3>3. keyVar \in [CCUs -> [Vars -> GeneratedNames \cup {NoKey}]] /\ c.file \in CCUs /\ c.var \in Vars
        BY <3>1, HeadOf DEF TypeOK, EnvKeys
    <3>4. ASSUME NEW u \in CCUs, NEW v \in Vars
          PROVE  keyVar'[u][v] = keyVar[u][v] \/ (v = c.var /\ keyVar'[u][v] = c.id)
        BY <3>1, <3>3
    <3> HIDE DEF c
    <3> QED
        BY <1>1, <1>2, <3>2, <3>4
  <2> QED
      BY <2>1, <2>2 DEF Next, Script, RunStep, StartScript, GenOrGetID, Migrate, UpsertAddress,
         StopScript, Submit, SubmitError, WaitMined, WaitTimeout, RunDone, StopRun, StartRun, Mine,
         StartCCU, vars, fileVars
<1>4. InRun'
  <2>1. CASE run'.ids = run.ids
      BY <1>1, <1>2, <2>1
  <2>2. CASE run' = NoRun
      BY <2>2 DEF NoRun
  <2>3. ASSUME NEW u \in CCUs, StartRun(u) PROVE InRun'
      BY <1>1, <1>2, <2>3 DEF StartRun
  <2>4. CASE Submit \/ WaitMined
      BY <2>1, <2>4 DEF Submit, WaitMined, TypeOK, Run
  <2>5. CASE UNCHANGED run
      BY <2>1, <2>5
  <2> QED
      BY <2>2, <2>3, <2>4, <2>5 DEF Next, Script, RunStep, StartScript, GenOrGetID, UpsertKey, Migrate,
         UpsertAddress, RunCommand, StopScript, SubmitError, WaitTimeout, RunDone, StopRun, Mine,
         StartCCU, vars, chainVars
<1>5. InPool'
  <2>1. CASE UNCHANGED pool
      BY <1>1, <1>2, <2>1
  <2>2. CASE Submit
    <3> DEFINE v == Head(run.todo)
               t == [contract |-> loadEnv(run.ccu, run.address),
                     name |-> StoreName(v), id |-> run.ids[v]]
    <3>1. /\ run.todo # <<>> /\ run.todo \in Seq(Vars) /\ run.ccu \in CCUs
          /\ pool' = [pool EXCEPT ![run.ccu] = Append(@, t)]
        BY <2>2 DEF Submit, TypeOK, Run
    <3>2. v \in Vars /\ run.ids[v] # NoKey
        BY <3>1, TailFacts DEF Underway
    <3>3. KeyUnder(t.id, t.name)
        BY <1>2, <3>2 DEF KeyOf, KeyUnder, ContractName
    <3> HIDE DEF t
    <3>4. ASSUME NEW u \in CCUs, NEW i \in 1..Len(pool'[u])
          PROVE  pool'[u][i] = t \/ (i \in 1..Len(pool[u]) /\ pool'[u][i] = pool[u][i])
        BY <3>1 DEF TypeOK
    <3> QED
        BY <1>1, <1>2, <3>3, <3>4
  <2>3. ASSUME NEW m \in CCUs, Mine(m) PROVE InPool'
    <3>1. ASSUME NEW u \in CCUs, NEW i \in 1..Len(pool'[u])
          PROVE  \E j \in 1..Len(pool[u]) : pool'[u][i] = pool[u][j]
      <4>1. CASE u # m
          BY <2>3, <4>1, <3>1 DEF Mine, TypeOK
      <4>2. CASE u = m
        <5>1. pool[u] \in Seq(Transaction) /\ pool[u] # <<>> /\ pool'[u] = Tail(pool[u])
            BY <2>3, <4>2 DEF Mine, TypeOK
        <5> QED
            BY <3>1, <5>1, TailFacts
      <4> QED
          BY <4>1, <4>2
    <3> QED
        BY <1>1, <1>2, <3>1
  <2> QED
      BY <2>1, <2>2, <2>3 DEF Next, Script, RunStep, StartScript, GenOrGetID, UpsertKey, Migrate,
         UpsertAddress, RunCommand, StopScript, SubmitError, WaitMined, WaitTimeout, RunDone, StopRun,
         StartRun, StartCCU, vars, chainVars
<1>6. InStore'
  <2>1. CASE UNCHANGED store
      BY <1>1, <1>2, <2>1
  <2>2. ASSUME NEW u \in CCUs, Mine(u) PROVE InStore'
    <3> DEFINE t == Head(pool[u])
    <3>1. /\ pool[u] \in Seq(Transaction) /\ pool[u] # <<>>
          /\ store' = [store EXCEPT ![t.contract][t.name] = t.id]
        BY <2>2 DEF Mine, TypeOK
    <3>2. t \in Transaction /\ t = pool[u][1] /\ 1 \in 1..Len(pool[u])
        BY <3>1, TailFacts
    <3>3. KeyUnder(t.id, t.name)
        BY <1>2, <3>2
    <3>4. store \in [Contracts -> [StoreNames -> GeneratedNames \cup {NoKey}]]
          /\ t.contract \in Contracts /\ t.name \in StoreNames
        BY <3>2 DEF TypeOK, Transaction
    <3>5. ASSUME NEW a \in Contracts, NEW n \in StoreNames
          PROVE  store'[a][n] = store[a][n] \/ (n = t.name /\ store'[a][n] = t.id)
        BY <3>1, <3>4
    <3> HIDE DEF t
    <3> QED
        BY <1>1, <1>2, <3>3, <3>5
  <2> QED
      BY <2>1, <2>2 DEF Next, Script, RunStep, StartScript, GenOrGetID, UpsertKey, Migrate,
         UpsertAddress, RunCommand, StopScript, Submit, SubmitError, WaitMined, WaitTimeout, RunDone,
         StopRun, StartRun, StartCCU, vars, chainVars
<1> QED
    BY <1>3, <1>4, <1>5, <1>6 DEF RightKeys

-----------------------------------------------------------------------------
(* A key that is stored may be replaced but not removed.                   *)
LEMMA MineStores ==
    ASSUME TypeOK, NEW u \in CCUs, Mine(u)
    PROVE  LET t == Head(pool[u]) IN
           /\ t \in Transaction
           /\ store'[t.contract][t.name] # NoKey
           /\ \A a \in Contracts : \A n \in StoreNames :
                store[a][n] # NoKey => store'[a][n] # NoKey
<1> DEFINE t == Head(pool[u])
<1>1. /\ pool[u] \in Seq(Transaction) /\ pool[u] # <<>>
      /\ store' = [store EXCEPT ![t.contract][t.name] = t.id]
    BY DEF Mine, TypeOK
<1>2. t \in Transaction
    BY <1>1, TailFacts
<1>3. t.contract \in Contracts /\ t.name \in StoreNames /\ t.id # NoKey
    BY <1>2, NameAssumption DEF Transaction
<1>4. store \in [Contracts -> [StoreNames -> GeneratedNames \cup {NoKey}]]
    BY DEF TypeOK
<1> HIDE DEF t
<1>5. store'[t.contract][t.name] = t.id
    BY <1>1, <1>3, <1>4
<1>6. ASSUME NEW a \in Contracts, NEW n \in StoreNames
      PROVE  store'[a][n] = store[a][n] \/ store'[a][n] = t.id
    BY <1>1, <1>3, <1>4
<1> QED
    BY <1>2, <1>3, <1>5, <1>6 DEF t

LEMMA UnderwayStep ==
    TypeOK /\ Underway /\ [Next]_vars => Underway'
<1> SUFFICES ASSUME TypeOK, Underway, [Next]_vars PROVE Underway'
    OBVIOUS
<1>1. CASE UNCHANGED <<run, store, pool, ended>>
    BY <1>1 DEF Underway, Sent, Stored, ToDo
<1>2. ASSUME run' = NoRun, UNCHANGED store, UNCHANGED ended \/ RunDone
      PROVE  Underway'
  <2>1. \A x \in ended' : store'[x[1]][x[2]] # NoKey
    <3>1. CASE UNCHANGED ended
        BY <1>2, <3>1 DEF Underway
    <3>2. CASE RunDone
      <4>1. ASSUME NEW v \in Vars, run.ids[v] # NoKey
            PROVE  store[run.address][StoreName(v)] # NoKey
          BY <3>2, <4>1 DEF RunDone, Underway, ToDo, Stored
      <4> QED
          BY <1>2, <3>2, <4>1 DEF RunDone, Underway
    <3> QED
        BY <1>2, <3>1, <3>2
  <2> QED
      BY <1>2, <2>1 DEF NoRun, Underway
<1>3. CASE Submit
  <2>0. PICK v \in Vars : v = Head(run.todo)
      BY <1>3, TailFacts DEF Submit, TypeOK, Run
  <2> DEFINE a == loadEnv(run.ccu, run.address)
             t == [contract |-> a, name |-> StoreName(v), id |-> run.ids[v]]
  <2>1. /\ run.todo # <<>> /\ run.ccu \in CCUs /\ a # 0
        /\ pool' = [pool EXCEPT ![run.ccu] = Append(@, t)]
        /\ run' = [run EXCEPT !.state = "waiting", !.address = a]
        /\ UNCHANGED <<store, ended>>
      BY <1>3, <2>0 DEF Submit, TypeOK, Run, histVars
  <2>2. run.address # 0 => a = run.address
      BY DEF loadEnv
  <2>3. /\ run'.todo = run.todo /\ run'.ids = run.ids /\ run'.ccu = run.ccu
        /\ run'.address = a
      BY <2>1 DEF TypeOK, Run
  <2>4. Sent(v)'
    <3>1. /\ pool'[run.ccu] = Append(pool[run.ccu], t) /\ Len(pool[run.ccu]) \in Nat
          /\ pool[run.ccu] \in Seq(Transaction)
        BY <2>1 DEF TypeOK
    <3> HIDE DEF t
    <3>2. /\ Len(pool[run.ccu]) + 1 \in 1..Len(pool'[run.ccu])
          /\ pool'[run.ccu][Len(pool[run.ccu]) + 1] = t
        BY <3>1
    <3>3. t.contract = a /\ t.name = StoreName(v)
        BY DEF t
    <3> HIDE DEF a
    <3> QED
        BY <2>3, <3>2, <3>3 DEF Sent
  <2>5. \A w \in Vars : run.ids[w] # NoKey => ToDo(w)' \/ Stored(w)'
    <3> SUFFICES ASSUME NEW w \in Vars, run.ids[w] # NoKey PROVE ToDo(w)' \/ Stored(w)'
        OBVIOUS
    <3>1. ToDo(w) \/ Stored(w)
        BY DEF Underway
    <3> HIDE DEF a
    <3> QED
        BY <2>1, <2>2, <2>3, <3>1 DEF ToDo, Stored
  <2> HIDE DEF a
  <2>6. run'.address # 0 /\ run'.todo # <<>> /\ Head(run'.todo) = v
      BY <2>0, <2>1, <2>3
  <2> QED
      BY <2>1, <2>3, <2>4, <2>5, <2>6 DEF Underway
<1>4. CASE WaitMined
  <2> DEFINE v == Head(run.todo)
  <2>1. /\ run.state = "waiting" /\ pool[run.ccu] = <<>>
        /\ run' = [run EXCEPT !.state = "next", !.todo = Tail(run.todo)]
        /\ UNCHANGED <<store, pool, ended>>
      BY <1>4 DEF WaitMined, histVars
  <2>2. /\ run'.todo = Tail(run.todo) /\ run'.ids = run.ids /\ run'.ccu = run.ccu
        /\ run'.address = run.address /\ run'.state = "next" /\ run.todo \in Seq(Vars)
      BY <2>1 DEF TypeOK, Run
  <2>3. run.todo # <<>> /\ Stored(v)
      BY <2>1 DEF Underway, Sent, Stored
  <2>4. \A i \in 1..Len(run'.todo) : run'.ids[run'.todo[i]] # NoKey
      BY <2>2, <2>3, TailFacts DEF Underway
  <2>5. ASSUME NEW w \in Vars, run.ids[w] # NoKey PROVE ToDo(w)' \/ Stored(w)'
    <3>1. CASE Stored(w) \/ w = v
        BY <2>1, <2>2, <2>3, <3>1 DEF Stored
    <3>2. CASE ~Stored(w) /\ w # v
      <4>1. PICK i \in 1..Len(run.todo) : run.todo[i] = w
          BY <2>5, <3>2 DEF Underway, ToDo
      <4>2. i - 1 \in 1..Len(Tail(run.todo)) /\ Tail(run.todo)[i - 1] = w
          BY <2>2, <2>3, <3>2, <4>1, TailFacts
      <4> QED
          BY <2>2, <4>2 DEF ToDo
    <3> QED
        BY <3>1, <3>2
  <2> QED
      BY <2>1, <2>2, <2>4, <2>5 DEF Underway
<1>5. ASSUME NEW u \in CCUs, StartRun(u) PROVE Underway'
  <2> DEFINE V == {v \in Vars : keyVar[u][v] # NoKey}
  <2>1. /\ run' = [ccu |-> u, state |-> "next", todo |-> SortStrings[V],
                   ids |-> keyVar[u], address |-> address[u]]
        /\ UNCHANGED <<store, pool, ended>>
      BY <1>5 DEF StartRun, histVars
  <2>2. /\ SortStrings[V] \in Seq(Vars)
        /\ \A v \in Vars : v \in V <=> \E i \in 1..Len(SortStrings[V]) : SortStrings[V][i] = v
      BY SortAssumption
  <2>3. \A i \in 1..Len(SortStrings[V]) : SortStrings[V][i] \in V
    <3> HIDE DEF V
    <3>1. \A i \in 1..Len(SortStrings[V]) : SortStrings[V][i] \in Vars
        BY <2>2
    <3> QED
        BY <2>2, <3>1
  <2> HIDE DEF V
  <2>4. \A i \in 1..Len(run'.todo) : run'.ids[run'.todo[i]] # NoKey
      BY <2>1, <2>3 DEF V
  <2>5. \A v \in Vars : run'.ids[v] # NoKey => ToDo(v)'
      BY <2>1, <2>2 DEF V, ToDo
  <2> QED
      BY <2>1, <2>4, <2>5 DEF Underway
<1>6. ASSUME NEW u \in CCUs, Mine(u) PROVE Underway'
  <2>1. /\ pool[u] # <<>> /\ pool' = [pool EXCEPT ![u] = Tail(@)]
        /\ UNCHANGED <<run, ended>>
      BY <1>6 DEF Mine, histVars
  <2>2. \A a \in Contracts : \A n \in StoreNames : store[a][n] # NoKey => store'[a][n] # NoKey
      BY <1>6, MineStores
  <2>3. ASSUME NEW v \in Vars, run.address # 0, store[run.address][StoreName(v)] # NoKey
        PROVE  store'[run.address][StoreName(v)] # NoKey
      BY <2>2, <2>3, StoreNameType DEF TypeOK, Run
  <2>4. ASSUME NEW v \in Vars, run.address # 0, Sent(v) PROVE Sent(v)'
    <3>1. CASE store[run.address][StoreName(v)] # NoKey
        BY <2>1, <2>3, <2>4, <3>1 DEF Sent
    <3>2. ASSUME NEW i \in 1..Len(pool[run.ccu]), pool[run.ccu][i].contract = run.address,
                 pool[run.ccu][i].name = StoreName(v)
          PROVE  Sent(v)'
      <4>1. CASE u # run.ccu
        <5>1. pool'[run.ccu] = pool[run.ccu]
            BY <2>1, <4>1 DEF TypeOK, Run
        <5> QED
            BY <2>1, <3>2, <5>1 DEF Sent
      <4>2. CASE u = run.ccu /\ i # 1
        <5>1. pool[u] \in Seq(Transaction) /\ pool'[u] = Tail(pool[u])
            BY <2>1 DEF TypeOK
        <5>2. i \in 1..Len(pool[u])
            BY <4>2
        <5>3. i - 1 \in 1..Len(pool'[u]) /\ pool'[u][i - 1] = pool[u][i]
          <6>1. \A k \in 1..Len(pool[u]) :
                    k = 1 \/ (k - 1 \in 1..Len(Tail(pool[u])) /\ pool[u][k] = Tail(pool[u])[k - 1])
              BY <2>1, <5>1, TailFacts
          <6> QED
              BY <4>2, <5>1, <5>2, <6>1
        <5> QED
            BY <2>1, <3>2, <4>2, <5>3 DEF Sent
      <4>3. CASE u = run.ccu /\ i = 1
        <5>1. pool[u][1] = Head(pool[u])
            BY <2>1, TailFacts DEF TypeOK
        <5> QED
            BY <1>6, <2>1, <3>2, <4>3, <5>1, MineStores DEF Sent
      <4> QED
          BY <4>1, <4>2, <4>3
    <3> QED
        BY <2>4, <3>1, <3>2 DEF Sent
  <2>5. run.state = "waiting" => run.todo # <<>> /\ run.address # 0 /\ Sent(Head(run.todo))'
    <3> SUFFICES ASSUME run.state = "waiting"
                 PROVE  run.todo # <<>> /\ run.address # 0 /\ Sent(Head(run.todo))'
        OBVIOUS
    <3>1. run.todo # <<>> /\ run.address # 0 /\ Sent(Head(run.todo))
        BY DEF Underway
    <3>2. PICK v \in Vars : v = Head(run.todo)
        BY <3>1, TailFacts DEF TypeOK, Run
    <3>3. Sent(v)'
        BY <2>4, <3>1, <3>2
    <3> QED
        BY <2>1, <3>1, <3>2, <3>3
  <2>6. \A v \in Vars : run.ids[v] # NoKey => ToDo(v)' \/ Stored(v)'
      BY <2>1, <2>3 DEF Underway, ToDo, Stored
  <2>7. \A x \in ended : store'[x[1]][x[2]] # NoKey
      BY <2>2 DEF Underway, TypeOK
  <2> QED
      BY <2>1, <2>5, <2>6, <2>7 DEF Underway
<1> QED
    BY <1>1, <1>2, <1>3, <1>4, <1>5, <1>6 DEF Next, Script, RunStep, StartScript, GenOrGetID, UpsertKey,
       Migrate, UpsertAddress, RunCommand, StopScript, SubmitError, WaitTimeout, RunDone, StopRun,
       StartCCU, vars, chainVars, histVars

-----------------------------------------------------------------------------
LEMMA JoinedStep ==
    TypeOK /\ ScriptAt /\ Joined /\ [Next]_vars => Joined'
<1> SUFFICES ASSUME TypeOK, ScriptAt, Joined, [Next]_vars PROVE Joined'
    OBVIOUS
<1>1. CASE UNCHANGED <<address, settled, joined, loaded>>
    BY <1>1 DEF Joined
<1>2. CASE Migrate
    BY <1>2 DEF Migrate, Joined
<1>3. CASE UpsertAddress
  <2>1. PICK a \in Contracts :
            /\ settled = 0
            /\ \/ script = <<Address("ccu1", a), Address("ccu2", a)>>
               \/ script = <<Address("ccu2", a)>> /\ address["ccu1"] = a
      BY <1>3, AddressHead DEF UpsertAddress, RunCommand
  <2>2. joined = {} /\ joined' = {}
      BY <1>3, <2>1 DEF UpsertAddress, Joined
  <2>3. CASE script = <<Address("ccu1", a), Address("ccu2", a)>>
    <3>1. Tail(script) # <<>>
        BY <2>3, Tails
    <3>2. settled' = 0
        BY <1>3, <2>1, <3>1 DEF UpsertAddress
    <3> QED
        BY <2>2, <3>2 DEF Joined
  <2>4. CASE script = <<Address("ccu2", a)>> /\ address["ccu1"] = a
    <3>1. Head(script) = Address("ccu2", a) /\ Tail(script) = <<>>
        BY <2>4, Tails
    <3> DEFINE c == Head(script)
    <3>2. settled' = a /\ address' = [address EXCEPT !["ccu2"] = a]
      <4>1. c.contract = a /\ c.file = "ccu2"
          BY <3>1 DEF Address
      <4>2. settled' = IF Tail(script) = <<>> THEN c.contract ELSE settled
          BY <1>3 DEF UpsertAddress
      <4>3. address' = [address EXCEPT ![c.file] = c.contract]
          BY <1>3 DEF UpsertAddress
      <4> QED
          BY <3>1, <4>1, <4>2, <4>3
    <3>3. \A u \in CCUs : address'[u] = a
        BY <2>4, <3>2 DEF TypeOK, CCUs
    <3> QED
        BY <2>2, <3>2, <3>3 DEF Joined
  <2> QED
      BY <2>1, <2>3, <2>4
<1>4. ASSUME NEW u \in CCUs, StartCCU(u) PROVE Joined'
    BY <1>4 DEF StartCCU, loadEnv, fileVars, Joined, TypeOK
<1> QED
    BY <1>1, <1>2, <1>3, <1>4 DEF Next, Script, RunStep, StartScript, GenOrGetID, UpsertKey, RunCommand,
       StopScript, Submit, SubmitError, WaitMined, WaitTimeout, RunDone, StopRun, StartRun, Mine,
       vars, fileVars, histVars

-----------------------------------------------------------------------------
LEMMA InitIInv == Init => IInv
<1> SUFFICES ASSUME Init PROVE IInv
    OBVIOUS
<1>1. TypeOK
    BY BoundAssumption DEF Init, TypeOK, NoRun, Run, EnvKeys, CCUs, Contracts
<1>2. ScriptAt /\ Joined
    BY DEF Init, ScriptAt, Joined
<1>3. RightKeys /\ FilesAgree
    BY DEF Init, RightKeys, FilesAgree, NoRun, CCUs
<1>4. Underway
    BY DEF Init, Underway, NoRun
<1> QED
    BY <1>1, <1>2, <1>3, <1>4 DEF IInv

LEMMA NextIInv == IInv /\ [Next]_vars => IInv'
BY TypeStep, ScriptStep, RightStep, UnderwayStep, JoinedStep, FilesStep DEF IInv

THEOREM Invariance == Spec => []IInv
BY InitIInv, NextIInv, PTL DEF Spec

(* All variables stay within their types.                                  *)
THEOREM TypeCorrect == Spec => []TypeOK
<1>1. IInv => TypeOK
    BY DEF IInv
<1> QED
    BY Invariance, <1>1, PTL

LEMMA RightKeysOwn == IInv => KeysAreOwn
BY DEF IInv, RightKeys, KeyUnder, KeysAreOwn

(* What a contract holds under a name is a key of the node whose own name  *)
(* becomes that one, however alike the names are, and however scripts,     *)
(* runs and transactions were stopped, timed out or delayed.               *)
THEOREM KeysOwn == Spec => []KeysAreOwn
BY Invariance, RightKeysOwn, PTL

LEMMA UnderwayStored == IInv => EndedRunStored
BY DEF IInv, Underway, EndedRunStored, ToDo, Stored

(* A storing run that reports success has stored all it was to store, and  *)
(* what a run has passed is stored.                                        *)
THEOREM RunStored == Spec => []EndedRunStored
BY Invariance, UnderwayStored, PTL

LEMMA JoinedShare == IInv => SharedLogs
<1> SUFFICES ASSUME IInv, NEW u \in joined, NEW n \in nodeKeys,
                    <<settled, Bytes32(n)>> \in ended, Unambiguous(n)
             PROVE  GetIPNSKey(u, n) = n
    BY DEF SharedLogs
<1> DEFINE name == Bytes32(n)
<1>1. settled \in Contracts /\ loaded[u] = settled /\ settled # 0 /\ name \in StoreNames
    BY DEF IInv, Joined, TypeOK
<1>2. store[settled][name] # NoKey
    BY DEF IInv, Underway
<1>3. store[settled][name] \in nodeKeys /\ ContractName(store[settled][name]) = name
    BY <1>1, <1>2, RightKeysOwn DEF KeysAreOwn
<1>4. ContractName(n) = name
    BY DEF Unambiguous
<1>5. store[settled][name] = n
    BY <1>3, <1>4 DEF Unambiguous
<1> QED
    BY <1>1, <1>5 DEF GetIPNSKey

(* CCUs that start after a deployment ended find the same, right key for a *)
(* log whose keys a run has stored, if no other key has its name.          *)
THEOREM LogsShared == Spec => []SharedLogs
BY Invariance, JoinedShare, PTL

(* The two .env files differ only in variables whose script is at work or  *)
(* was stopped.                                                            *)
THEOREM FilesEqual == Spec => []FilesAgree
<1>1. IInv => FilesAgree
    BY DEF IInv
<1> QED
    BY Invariance, <1>1, PTL
=============================================================================
