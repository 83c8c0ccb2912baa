-------------------------- MODULE PolicyCodeProofs --------------------------
(***************************************************************************)
(* Proofs about PolicyCode for any policy files and certificates.  First   *)
(* the runs of the generator: which file the sources of a CCU are made of. *)
(* Then the parser, from single lines to whole files: what it keeps of a   *)
(* policy, whatever else is in the file.  At last what a CCU answers, from *)
(* the handlers that were made of it.                                      *)
(***************************************************************************)
EXTENDS PolicyCode, WellFoundedInduction, SequenceTheorems, TLAPS

-----------------------------------------------------------------------------
(* Runs of the generator.                                                  *)

Rest(n) == SubSeq(Steps, n, Len(Steps))

(* What a step writes is in its file.                                      *)
Done(step, file) ==
    IF step.kind = "receiver"
    THEN /\ receiver[step.ccu] = Receiver(Code[file].cases)
         /\ switchOf[step.ccu] = file
    ELSE /\ desobj[step.ccu] = Desobj(step.ccu, Code[file].handlers)
         /\ handlersOf[step.ccu] = file

Functional ==
    /\ receiver = [u \in CCUs |-> receiver[u]]
    /\ desobj = [u \in CCUs |-> desobj[u]]

(* A whole file is what was made of the policy file last written to it.    *)
Origin ==
    \A u \in CCUs :
        /\ receiver[u].whole => receiver[u] = Receiver(Code[switchOf[u]].cases)
        /\ desobj[u].whole => desobj[u] = Desobj(u, Code[handlersOf[u]].handlers)

(* Nothing is written of a file that was refused.                          *)
Readable ==
    /\ \A u \in CCUs : Code[switchOf[u]].ok /\ Code[handlersOf[u]].ok
    /\ ~Idle => Code[gen.file].ok

(* The steps a run has behind it are done.                                 *)
Progress ==
    \A n \in 1..4 : gen.todo = Rest(n) => \A k \in 1..(n - 1) : Done(Steps[k], gen.file)

(* If every run ended by writing all files or none, all are of one file.   *)
Whole == complete => \E file \in Files : \A k \in 1..4 : Done(Steps[k], file)

IInv == TypeOK /\ Functional /\ Origin /\ Readable /\ Progress /\ Whole

LEMMA StepsFacts ==
    /\ Len(Steps) = 4
    /\ DOMAIN Steps = 1..4
    /\ Steps[1] = [kind |-> "receiver", ccu |-> "teeserver"]
    /\ Steps[2] = [kind |-> "receiver", ccu |-> "tee"]
    /\ Steps[3] = [kind |-> "desobj", ccu |-> "teeserver"]
    /\ Steps[4] = [kind |-> "desobj", ccu |-> "tee"]
    /\ \A k \in 1..4 : Steps[k].ccu \in CCUs /\ Steps[k].kind \in {"receiver", "desobj"}
    /\ \A j, k \in 1..4 : Steps[j] = Steps[k] => j = k
  BY DEF Steps, CCUs

LEMMA RestFacts ==
    /\ Steps = Rest(1)
    /\ \A n \in 1..4 :
        /\ Rest(n) # <<>>
        /\ Head(Rest(n)) = Steps[n]
        /\ Len(Rest(n)) = 5 - n
        /\ n < 4 => Tail(Rest(n)) = Rest(n + 1)
    /\ \A m, n \in 1..4 : Rest(m) = Rest(n) => m = n
<1> DEFINE S == {Steps[k] : k \in 1..4}
<1>1. Steps \in Seq(S) /\ Len(Steps) = 4
    BY StepsFacts DEF Steps
<1>2. \A n \in 1..4 : /\ Rest(n) \in Seq(S)
                      /\ Len(Rest(n)) = 5 - n
                      /\ \A k \in 1..(5 - n) : Rest(n)[k] = Steps[n + k - 1]
    BY <1>1 DEF Rest
<1> HIDE DEF S
<1>3. Steps = Rest(1)
  <2>1. /\ Rest(1) \in Seq(S)
        /\ Len(Rest(1)) = 4
        /\ \A k \in 1..4 : Rest(1)[k] = Steps[k]
    <3>1. 1 \in 1..4
        OBVIOUS
    <3>2. /\ Rest(1) \in Seq(S)
          /\ Len(Rest(1)) = 5 - 1
          /\ \A k \in 1..(5 - 1) : Rest(1)[k] = Steps[1 + k - 1]
        BY <1>2, <3>1
    <3>3. \A k \in 1..4 : k \in 1..(5 - 1) /\ 1 + k - 1 = k
        OBVIOUS
    <3>4. 5 - 1 = 4
        OBVIOUS
    <3> QED BY <3>2, <3>3, <3>4
  <2> QED BY <1>1, <2>1, SeqEqual
<1>4. \A n \in 1..4 : n < 4 => Tail(Rest(n)) = Rest(n + 1)
  <2> SUFFICES ASSUME NEW n \in 1..4, n < 4
               PROVE  Tail(Rest(n)) = Rest(n + 1)
      OBVIOUS
  <2>1. /\ Tail(Rest(n)) \in Seq(S)
        /\ Len(Tail(Rest(n))) = 4 - n
        /\ \A k \in 1..(4 - n) : Tail(Rest(n))[k] = Rest(n)[k + 1]
      BY <1>2, HeadTailProperties
  <2>2. /\ Rest(n + 1) \in Seq(S)
        /\ Len(Rest(n + 1)) = 4 - n
        /\ \A k \in 1..(4 - n) : Rest(n + 1)[k] = Steps[(n + 1) + k - 1]
      BY <1>2, n + 1 \in 1..4, 5 - (n + 1) = 4 - n
  <2>3. ASSUME NEW k \in 1..(4 - n)
        PROVE  Rest(n)[k + 1] = Steps[(n + 1) + k - 1]
    <3>1. k + 1 \in 1..(5 - n) /\ n + (k + 1) - 1 = (n + 1) + k - 1
        OBVIOUS
    <3>2. Rest(n)[k + 1] = Steps[n + (k + 1) - 1]
        BY <1>2, <3>1
    <3> QED BY <3>1, <3>2
  <2> QED BY <2>1, <2>2, <2>3, SeqEqual
<1>5. \A n \in 1..4 : Rest(n) # <<>> /\ Head(Rest(n)) = Steps[n]
    BY <1>2
<1>6. \A m, n \in 1..4 : Rest(m) = Rest(n) => m = n
    BY <1>2
<1> QED BY <1>2, <1>3, <1>4, <1>5, <1>6

LEMMA WholeFiles ==
    /\ \A c : Receiver(c).whole /\ Receiver(c).cases = c
    /\ ~CutReceiver.whole
    /\ \A u, h : Desobj(u, h).whole /\ Desobj(u, h).package = u /\ Desobj(u, h).handlers = h
    /\ ~CutDesobj.whole
  BY DEF Receiver, CutReceiver, Desobj, CutDesobj

LEMMA FirstIsHandled == Code[FirstFile].ok
  BY FirstFileAssumption, FileAssumption DEF Code

(* Where the run stands.                                                   *)
LEMMA RunAt ==
    ASSUME IInv, ~Idle
    PROVE  /\ gen.file \in Files
           /\ Code[gen.file].ok
           /\ gen = [todo |-> gen.todo, open |-> gen.open, file |-> gen.file]
           /\ \E n \in 1..4 : gen.todo = Rest(n) /\ Head(gen.todo) = Steps[n]
<1>1. gen \in Generator
    BY DEF IInv, TypeOK
<1>2. gen.todo \in {<<>>} \cup {Rest(n) : n \in 1..4}
    BY <1>1, StepsFacts DEF Generator, Rest
<1>3. \E n \in 1..4 : gen.todo = Rest(n)
    BY <1>2 DEF Idle
<1>4. gen.file \in Files /\ gen = [todo |-> gen.todo, open |-> gen.open, file |-> gen.file]
    BY <1>1 DEF Generator
<1>5. Code[gen.file].ok
    BY DEF IInv, Readable
<1> QED BY <1>3, <1>4, <1>5, RestFacts

LEMMA NoRunFacts ==
    /\ NoRun \in Generator
    /\ NoRun.todo = <<>>
    /\ NoRun.open = FALSE
    /\ NoRun.file = FirstFile
  BY FileAssumption DEF NoRun, Generator

LEMMA NoRunProgress ==
    ASSUME NEW n \in 1..4
    PROVE  NoRun.todo # Rest(n)
  BY RestFacts, NoRunFacts

LEMMA InitIInv == Init => IInv
<1> SUFFICES ASSUME Init
             PROVE  IInv
    OBVIOUS
<1>1. FirstFile \in Files
    BY FileAssumption
<1>2. \A u \in CCUs : /\ receiver[u] = Receiver(Code[FirstFile].cases)
                      /\ desobj[u] = Desobj(u, Code[FirstFile].handlers)
                      /\ switchOf[u] = FirstFile
                      /\ handlersOf[u] = FirstFile
    BY DEF Init
<1>3. TypeOK
  <2>1. /\ gen \in Generator
        /\ gen.open => ~Idle
      BY NoRunFacts DEF Init
  <2> QED BY <1>1, <1>2, <2>1, RunsAssumption DEF Init, TypeOK
<1>4. Functional
    BY <1>2 DEF Init, Functional
<1>5. Origin
    BY <1>2 DEF Origin
<1>6. Readable
    BY <1>2, FirstIsHandled, NoRunFacts DEF Init, Idle, Readable
<1>7. Progress
    BY NoRunProgress DEF Init, Progress
<1>8. Whole
  <2>1. \A k \in 1..4 : Done(Steps[k], FirstFile)
      BY <1>2, StepsFacts DEF Done
  <2> QED BY <1>1, <2>1 DEF Whole
<1> QED BY <1>3, <1>4, <1>5, <1>6, <1>7, <1>8 DEF IInv

(* A step of a run that writes nothing.                                    *)
LEMMA OnlyRunChanges ==
    ASSUME IInv, UNCHANGED <<receiver, desobj, switchOf, handlersOf, complete>>,
           gen' \in Generator, gen'.open = FALSE, runs' \in 0..MaxRuns,
           gen'.todo # <<>> => gen'.todo = Steps /\ Code[gen'.file].ok
    PROVE  IInv'
<1>1. TypeOK'
    BY DEF IInv, TypeOK
<1>2. Functional' /\ Origin' /\ Whole'
    BY DEF IInv, Functional, Origin, Whole, Done
<1>3. Readable'
    BY DEF IInv, Readable, Idle
<1>4. Progress'
  <2> SUFFICES ASSUME NEW n \in 1..4, gen'.todo = Rest(n), NEW k \in 1..(n - 1)
               PROVE  FALSE
      BY DEF Progress
  <2>1. Rest(n) = Rest(1)
      BY RestFacts
  <2>2. n = 1
      BY <2>1, RestFacts
  <2> QED BY <2>2
<1> QED BY <1>1, <1>2, <1>3, <1>4 DEF IInv

LEMMA StartIInv ==
    ASSUME IInv, NEW file \in Files, Start(file)
    PROVE  IInv'
<1> DEFINE run == [todo |-> Steps, open |-> FALSE, file |-> file]
<1>1. /\ run \in Generator
      /\ run.todo = Steps
      /\ run.open = FALSE
      /\ run.file = file
  <2>1. Steps \in {SubSeq(Steps, i, Len(Steps)) : i \in DOMAIN Steps}
      BY RestFacts, StepsFacts DEF Rest
  <2> QED BY <2>1 DEF Generator
<1> HIDE DEF run
<1>2. \/ gen' = run /\ Code[file].ok
      \/ gen' = NoRun
    BY DEF Start, run
<1>3. runs' \in 0..MaxRuns
    BY RunsAssumption DEF Start, IInv, TypeOK
<1>4. UNCHANGED <<receiver, desobj, switchOf, handlersOf, complete>>
    BY DEF Start
<1>5. CASE gen' = run /\ Code[file].ok
    BY <1>1, <1>3, <1>4, <1>5, OnlyRunChanges
<1>6. CASE gen' = NoRun
    BY <1>3, <1>4, <1>6, NoRunFacts, OnlyRunChanges
<1> QED BY <1>2, <1>5, <1>6

LEMMA EndIInv ==
    ASSUME IInv, ReplaceError \/ Stop
    PROVE  IInv'
<1>1. /\ gen' = NoRun
      /\ runs' \in 0..MaxRuns
      /\ UNCHANGED <<receiver, desobj, switchOf, handlersOf, complete>>
    BY DEF ReplaceError, Stop, IInv, TypeOK
<1> QED BY <1>1, NoRunFacts, OnlyRunChanges

(* What a step does to one file leaves the steps before it done.           *)
LEMMA OtherFiles ==
    ASSUME NEW m \in 1..4, NEW k \in 1..4, k # m
    PROVE  Steps[k].kind # Steps[m].kind \/ Steps[k].ccu # Steps[m].ccu
  BY StepsFacts

LEMMA TruncateIInv ==
    ASSUME IInv, Truncate
    PROVE  IInv'
<1>1. ~Idle /\ TypeOK /\ Functional
    BY DEF Truncate, IInv
<1>2. PICK n \in 1..4 : gen.todo = Rest(n) /\ Head(gen.todo) = Steps[n]
    BY <1>1, RunAt
<1> DEFINE step == Steps[n]
<1>3. step.ccu \in CCUs /\ step.kind \in {"receiver", "desobj"}
    BY StepsFacts
<1>4. /\ gen' = [todo |-> gen.todo, open |-> TRUE, file |-> gen.file]
      /\ gen \in Generator
      /\ complete' = FALSE
      /\ UNCHANGED <<runs, switchOf, handlersOf>>
    BY <1>1, RunAt DEF Truncate, TypeOK
<1>5. \/ /\ step.kind = "receiver"
         /\ receiver' = [receiver EXCEPT ![step.ccu] = CutReceiver]
         /\ desobj' = desobj
      \/ /\ step.kind = "desobj"
         /\ desobj' = [desobj EXCEPT ![step.ccu] = CutDesobj]
         /\ receiver' = receiver
    BY <1>2, <1>3 DEF Truncate
<1> HIDE DEF step
<1>6. /\ \A u \in CCUs : \/ receiver'[u] = receiver[u]
                         \/ receiver'[u] = CutReceiver /\ step.kind = "receiver" /\ u = step.ccu
      /\ \A u \in CCUs : \/ desobj'[u] = desobj[u]
                         \/ desobj'[u] = CutDesobj /\ step.kind = "desobj" /\ u = step.ccu
    BY <1>1, <1>3, <1>5 DEF Functional
<1>7. Functional'
    BY <1>1, <1>5 DEF Functional
<1>8. TypeOK'
  <2>1. gen' \in Generator
      BY <1>4 DEF Generator
  <2>2. gen'.open => ~Idle'
      BY <1>1, <1>4 DEF Idle
  <2> QED BY <1>1, <1>4, <1>6, <2>1, <2>2 DEF TypeOK
<1>9. Origin'
    BY <1>4, <1>6, WholeFiles DEF IInv, Origin
<1>10. Readable'
    BY <1>1, <1>4 DEF IInv, Readable, Idle
<1>11. Progress'
  <2> SUFFICES ASSUME NEW i \in 1..4, gen'.todo = Rest(i), NEW k \in 1..(i - 1)
               PROVE  Done(Steps[k], gen.file)'
      BY DEF Progress
  <2>1. i = n /\ k \in 1..4 /\ k # n
      BY <1>2, <1>4, RestFacts
  <2>2. Done(Steps[k], gen.file)
      BY <1>2, <2>1 DEF IInv, Progress
  <2>3. Steps[k].kind # step.kind \/ Steps[k].ccu # step.ccu
      BY <2>1, OtherFiles DEF step
  <2>4. Steps[k].ccu \in CCUs /\ Steps[k].kind \in {"receiver", "desobj"}
      BY <2>1, StepsFacts
  <2>5. gen'.file = gen.file
      BY <1>4
  <2> QED BY <1>3, <1>4, <1>6, <2>2, <2>3, <2>4, <2>5 DEF Done
<1>12. Whole'
    BY <1>4 DEF Whole
<1> QED BY <1>7, <1>8, <1>9, <1>10, <1>11, <1>12 DEF IInv

LEMMA WriteIInv ==
    ASSUME IInv, Write
    PROVE  IInv'
<1>1. gen.open /\ TypeOK /\ Functional
    BY DEF Write, IInv
<1>2. ~Idle
    BY <1>1 DEF TypeOK
<1>3. PICK n \in 1..4 : gen.todo = Rest(n) /\ Head(gen.todo) = Steps[n]
    BY <1>2, RunAt
<1>4. PICK file \in Files : gen.file = file /\ Code[file].ok
    BY <1>2, RunAt
<1> DEFINE step == Steps[n]
<1>5. step.ccu \in CCUs /\ step.kind \in {"receiver", "desobj"}
    BY StepsFacts
<1>6. /\ gen' = IF n = 4 THEN NoRun ELSE [todo |-> Rest(n + 1), open |-> FALSE, file |-> file]
      /\ complete' = (n = 4)
      /\ runs' = runs
  <2>1. Len(gen.todo) = 1 <=> n = 4
    <3>1. Len(Rest(n)) = 5 - n
        BY RestFacts
    <3> QED BY <1>3, <3>1
  <2>2. n # 4 => Tail(gen.todo) = Rest(n + 1)
    <3>1. n # 4 => n < 4
        OBVIOUS
    <3> QED BY <1>3, <3>1, RestFacts
  <2>3. gen = [todo |-> gen.todo, open |-> gen.open, file |-> file]
      BY <1>2, <1>4, RunAt
  <2>4. n # 4 => gen' = [gen EXCEPT !.todo = Tail(@), !.open = FALSE]
      BY <2>1 DEF Write
  <2>5. n # 4 => gen' = [todo |-> Tail(gen.todo), open |-> FALSE, file |-> file]
    <3>1. PICK todo, open : gen = [todo |-> todo, open |-> open, file |-> file]
        BY <2>3
    <3> QED BY <2>4, <3>1
  <2> QED BY <2>1, <2>2, <2>5 DEF Write
<1>7. \/ /\ step.kind = "receiver"
         /\ receiver' = [receiver EXCEPT ![step.ccu] = Receiver(Code[file].cases)]
         /\ switchOf' = [switchOf EXCEPT ![step.ccu] = file]
         /\ desobj' = desobj /\ handlersOf' = handlersOf
      \/ /\ step.kind = "desobj"
         /\ desobj' = [desobj EXCEPT ![step.ccu] = Desobj(step.ccu, Code[file].handlers)]
         /\ handlersOf' = [handlersOf EXCEPT ![step.ccu] = file]
         /\ receiver' = receiver /\ switchOf' = switchOf
    BY <1>3, <1>4, <1>5 DEF Write
<1> HIDE DEF step
<1>8. /\ \A u \in CCUs : \/ receiver'[u] = receiver[u] /\ switchOf'[u] = switchOf[u]
                         \/ /\ receiver'[u] = Receiver(Code[file].cases)
                            /\ switchOf'[u] = file
      /\ \A u \in CCUs : \/ desobj'[u] = desobj[u] /\ handlersOf'[u] = handlersOf[u]
                         \/ /\ desobj'[u] = Desobj(u, Code[file].handlers)
                            /\ handlersOf'[u] = file
      /\ switchOf' \in [CCUs -> Files]
      /\ handlersOf' \in [CCUs -> Files]
  <2>1. switchOf \in [CCUs -> Files] /\ handlersOf \in [CCUs -> Files]
      BY <1>1 DEF TypeOK
  <2> QED BY <1>1, <1>5, <1>7, <2>1 DEF Functional
<1>9. Done(step, file)'
  <2>1. switchOf \in [CCUs -> Files] /\ handlersOf \in [CCUs -> Files]
      BY <1>1 DEF TypeOK
  <2> QED BY <1>1, <1>5, <1>7, <2>1 DEF Functional, Done
<1>10. \A k \in 1..4 : k < n => Done(Steps[k], file)'
  <2> SUFFICES ASSUME NEW k \in 1..4, k < n
               PROVE  Done(Steps[k], file)'
      OBVIOUS
  <2>1. Done(Steps[k], file)
      BY <1>3, <1>4 DEF IInv, Progress
  <2>2. Steps[k].kind # step.kind \/ Steps[k].ccu # step.ccu
      BY OtherFiles DEF step
  <2>3. Steps[k].ccu \in CCUs /\ Steps[k].kind \in {"receiver", "desobj"}
      BY StepsFacts
  <2>4. switchOf \in [CCUs -> Files] /\ handlersOf \in [CCUs -> Files]
      BY <1>1 DEF TypeOK
  <2> QED BY <1>1, <1>5, <1>7, <2>1, <2>2, <2>3, <2>4 DEF Functional, Done
<1>11. \A k \in 1..n : Done(Steps[k], file)'
    BY <1>9, <1>10 DEF step
<1>12. Functional'
    BY <1>1, <1>7 DEF Functional
<1>13. gen' \in Generator /\ gen'.open = FALSE
  <2>1. n # 4 => Rest(n + 1) \in {SubSeq(Steps, i, Len(Steps)) : i \in DOMAIN Steps}
      BY StepsFacts DEF Rest
  <2> QED BY <1>6, <2>1, NoRunFacts DEF Generator
<1>14. TypeOK'
    BY <1>1, <1>6, <1>8, <1>13 DEF TypeOK
<1>15. Origin'
    BY <1>8 DEF IInv, Origin
<1>16. Readable'
  <2>1. ~Idle' => gen'.file = file
      BY <1>6, NoRunFacts DEF Idle
  <2> QED BY <1>4, <1>8, <2>1 DEF IInv, Readable
<1>17. Progress'
  <2> SUFFICES ASSUME NEW i \in 1..4, gen'.todo = Rest(i), NEW k \in 1..(i - 1)
               PROVE  Done(Steps[k], gen.file)'
      BY DEF Progress
  <2>1. n # 4
      BY <1>6, NoRunProgress
  <2>2. i = n + 1 /\ gen'.file = file
      BY <1>6, <2>1, RestFacts
  <2> QED BY <1>11, <2>2 DEF Done
<1>18. Whole'
    BY <1>6, <1>11 DEF Whole
<1> QED BY <1>12, <1>14, <1>15, <1>16, <1>17, <1>18 DEF IInv

LEMMA NextIInv == IInv /\ [Next]_vars => IInv'
<1> SUFFICES ASSUME IInv, [Next]_vars
             PROVE  IInv'
    OBVIOUS
<1>1. CASE UNCHANGED vars
    BY <1>1 DEF vars, IInv, TypeOK, Functional, Origin, Readable, Progress, Whole, Done, Idle
<1> QED BY <1>1, StartIInv, TruncateIInv, WriteIInv, EndIInv DEF Next

LEMMA Invariance == Spec => []IInv
  BY InitIInv, NextIInv, PTL DEF Spec

(* The files are always whole or cut, whatever is stopped.                 *)
THEOREM Typing == Spec => []TypeOK
<1>1. IInv => TypeOK
    BY DEF IInv
<1> QED BY <1>1, Invariance, PTL

(* A receiver that a stopped run left empty stays empty, for any files and *)
(* any number of runs: only the run that emptied it can still write it.    *)
LEMMA CutStep ==
    ASSUME IInv, [Next]_vars, NEW u \in CCUs, ~receiver[u].whole, ~Rewriting(u)
    PROVE  ~receiver'[u].whole /\ ~Rewriting(u)'
<1>1. CASE UNCHANGED vars
    BY <1>1 DEF vars, Rewriting
<1>2. ASSUME NEW file \in Files, Start(file)
      PROVE  ~receiver'[u].whole /\ ~Rewriting(u)'
  <2>1. gen'.open = FALSE
      BY <1>2, NoRunFacts DEF Start
  <2> QED BY <1>2, <2>1 DEF Start, Rewriting
<1>3. CASE ReplaceError \/ Stop
    BY <1>3, NoRunFacts DEF ReplaceError, Stop, Rewriting
<1>4. CASE Truncate
  <2>1. ~Idle /\ Functional /\ TypeOK
      BY <1>4 DEF Truncate, IInv
  <2>2. PICK n \in 1..4 : gen.todo = Rest(n) /\ Head(gen.todo) = Steps[n]
      BY <2>1, RunAt
  <2>3. Steps[n] # [kind |-> "receiver", ccu |-> u]
      BY <1>4, <2>2 DEF Truncate
  <2>4. gen'.todo = gen.todo
      BY <1>4, <2>1, RunAt DEF Truncate
  <2>5. receiver'[u] = receiver[u] \/ receiver'[u] = CutReceiver
      BY <1>4, <2>1 DEF Truncate, Functional
  <2> QED BY <2>2, <2>3, <2>4, <2>5, WholeFiles DEF Rewriting
<1>5. CASE Write
  <2>1. gen.open /\ Functional /\ TypeOK
      BY <1>5 DEF Write, IInv
  <2>2. ~Idle
      BY <2>1 DEF TypeOK
  <2>3. PICK n \in 1..4 : gen.todo = Rest(n) /\ Head(gen.todo) = Steps[n]
      BY <2>2, RunAt
  <2>4. Steps[n] # [kind |-> "receiver", ccu |-> u]
      BY <2>1, <2>3 DEF Rewriting
  <2>5. Steps[n].kind # "receiver" \/ Steps[n].ccu # u
      BY <2>4, StepsFacts
  <2>6. receiver'[u] = receiver[u]
      BY <1>5, <2>1, <2>3, <2>5 DEF Write, Functional
  <2>7. gen'.open = FALSE
      BY <1>5, <2>2, RunAt, NoRunFacts DEF Write
  <2> QED BY <2>6, <2>7 DEF Rewriting
<1> QED BY <1>1, <1>2, <1>3, <1>4, <1>5 DEF Next

(* No run ever repairs a receiver that was left empty.                     *)
THEOREM CutForGood == Spec => CutReceiverStays
<1>1. IInv /\ [Next]_vars =>
        [\A u \in CCUs : ~receiver[u].whole /\ ~Rewriting(u)
                            => ~receiver'[u].whole /\ ~Rewriting(u)']_vars
    BY CutStep
<1> QED BY <1>1, Invariance, PTL DEF Spec, CutReceiverStays

(* All files are of one policy file once every run ended well or early.    *)
LEMMA OneFile ==
    ASSUME IInv, complete
    PROVE  \E file \in Files : \A u \in CCUs :
              /\ receiver[u] = Receiver(Code[file].cases)
              /\ desobj[u] = Desobj(u, Code[file].handlers)
              /\ switchOf[u] = file
              /\ handlersOf[u] = file
<1>1. PICK file \in Files : \A k \in 1..4 : Done(Steps[k], file)
    BY DEF IInv, Whole
<1>2. /\ receiver["teeserver"] = Receiver(Code[file].cases) /\ switchOf["teeserver"] = file
      /\ receiver["tee"] = Receiver(Code[file].cases) /\ switchOf["tee"] = file
      /\ desobj["teeserver"] = Desobj("teeserver", Code[file].handlers)
      /\ handlersOf["teeserver"] = file
      /\ desobj["tee"] = Desobj("tee", Code[file].handlers) /\ handlersOf["tee"] = file
    BY <1>1, StepsFacts DEF Done
<1> QED BY <1>2 DEF CCUs

(* The generated packages differ in nothing but their name, so one CCU can *)
(* be built if the other can and both give every user the same answer.     *)
THEOREM Alike == Spec => []BothAlike
<1>1. IInv => BothAlike
  <2> SUFFICES ASSUME IInv, complete
               PROVE  /\ Builds("tee") = Builds("teeserver")
                      /\ \A name \in Named, cert \in Certificates :
                          /\ Answer("tee", name, cert) = Answer("teeserver", name, cert)
                          /\ Does("tee", name) = Does("teeserver", name)
      BY DEF BothAlike
  <2>1. PICK file \in Files : \A u \in CCUs :
              /\ receiver[u] = Receiver(Code[file].cases)
              /\ desobj[u] = Desobj(u, Code[file].handlers)
      BY OneFile
  <2>2. "tee" \in CCUs /\ "teeserver" \in CCUs
      BY DEF CCUs
  <2>3. /\ receiver["tee"] = receiver["teeserver"]
        /\ desobj["tee"].handlers = desobj["teeserver"].handlers
        /\ desobj["tee"].package = "tee" /\ desobj["teeserver"].package = "teeserver"
        /\ desobj["tee"].whole /\ desobj["teeserver"].whole
      BY <2>1, <2>2, WholeFiles
  <2>4. Builds("tee") <=> Builds("teeserver")
      BY <2>3 DEF Builds, HandlerNames
  <2>5. Builds("tee") = Builds("teeserver")
      BY <2>4 DEF Builds
  <2>6. \A name : handlerOf("tee", name) = handlerOf("teeserver", name)
      BY <2>3 DEF handlerOf
  <2> QED BY <2>3, <2>5, <2>6 DEF Answer, Does
<1> QED BY <1>1, Invariance, PTL

-----------------------------------------------------------------------------
(* Sequences, and the fold of the parser over the lines of a file.         *)

(* A set of numbers has a least one.                                       *)
LEMMA FirstOf ==
    ASSUME NEW S \in SUBSET Nat, S # {}
    PROVE  \E i \in S : \A j \in S : i <= j
<1> DEFINE R == OpToRel(<, Nat)
<1>1. \A i, j \in Nat : <<i, j>> \in R <=> i < j
    BY DEF OpToRel
<1>2. IsWellFoundedOn(R, Nat)
    BY NatLessThanWellFounded
<1> HIDE DEF R
<1>3. PICK i \in S : \A j \in S : ~ (<<j, i>> \in R)
    BY <1>2, WFMin
<1>4. \A j \in S : i \in Nat /\ j \in Nat /\ ~ (j < i)
    BY <1>1, <1>3
<1> QED BY <1>3, <1>4

(* Induction over a set of numbers.                                        *)
LEMMA UpTo ==
    ASSUME NEW n \in Nat, NEW S, 0 \in S, \A k \in 0..(n - 1) : k \in S => k + 1 \in S
    PROVE  \A k \in 0..n : k \in S
<1> DEFINE Out == {k \in 0..n : k \notin S}
<1> SUFFICES ASSUME Out # {}
             PROVE  FALSE
    OBVIOUS
<1>1. PICK i \in Out : \A j \in Out : i <= j
  <2>1. Out \in SUBSET Nat
      OBVIOUS
  <2> HIDE DEF Out
  <2> QED BY <2>1, FirstOf
<1>2. i # 0 /\ i - 1 \in 0..(n - 1) /\ i - 1 \in 0..n
    OBVIOUS
<1>3. i - 1 \in S
    BY <1>1, <1>2
<1>4. (i - 1) + 1 \in S
    BY <1>2, <1>3
<1> QED BY <1>4

Good(s, base, n, g) ==
  g = [S \in SUBSET (1..n) |->
         IF S = {} THEN base
         ELSE Scan(g[S \ {Max(S)}], s[Max(S)])]

(* The greatest number of a set is its bound, if that is in it.            *)
LEMMA MaxLast ==
   ASSUME NEW n \in Nat, NEW S, S \subseteq 1..(n+1), n + 1 \in S
   PROVE Max(S) = n + 1
<1>1. \A y \in S : n + 1 >= y
   OBVIOUS
<1>2. \A x \in S : (\A y \in S : x >= y) => x = n + 1
   OBVIOUS
<1> QED BY <1>1, <1>2 DEF Max

(* The fold over a sequence has a value for each number of lines read.     *)
LEMMA FoldLeftDef ==
  ASSUME NEW s, NEW base, DOMAIN s = 1..Len(s), Len(s) \in Nat
  PROVE  \E g : /\ Good(s, base, Len(s), g)
                /\ FoldLeft(Scan, base, s) = g[1..Len(s)]
<1> DEFINE S == {n \in Nat : \E g : Good(s, base, n, g)}
<1>1. 0 \in S
  <2> DEFINE g == [T \in SUBSET (1..0) |-> base]
  <2>1. Good(s, base, 0, g)
     BY DEF Good
  <2> QED BY <2>1
<1>2. ASSUME NEW k \in Nat, k \in S
      PROVE  k + 1 \in S
  <2>1. PICK g : Good(s, base, k, g)
     BY <1>2
  <2> DEFINE h == [T \in SUBSET (1..(k + 1)) |-> 
                      IF k + 1 \in T THEN Scan(g[T \ {k + 1}], s[k + 1]) ELSE g[T]]
  <2>2. ASSUME NEW T \in SUBSET (1..(k + 1))
        PROVE  h[T] = IF T = {} THEN base ELSE Scan(h[T \ {Max(T)}], s[Max(T)])
    <3>1. CASE k + 1 \in T
      <4>1. Max(T) = k + 1
        BY <3>1, MaxLast
      <4>2. T \ {k + 1} \in SUBSET (1..(k + 1)) /\ k + 1 \notin T \ {k + 1} /\ T # {}
        BY <3>1
      <4> QED BY <3>1, <4>1, <4>2
    <3>2. CASE k + 1 \notin T
      <4>1. T \in SUBSET (1..k)
        BY <3>2
      <4>2. h[T] = g[T]
        BY <3>2
      <4>3. g[T] = IF T = {} THEN base ELSE Scan(g[T \ {Max(T)}], s[Max(T)])
        BY <2>1, <4>1 DEF Good
      <4>4. h[T \ {Max(T)}] = g[T \ {Max(T)}]
        BY <3>2
      <4> QED BY <4>2, <4>3, <4>4
    <3> QED BY <3>1, <3>2
  <2>3. Good(s, base, k + 1, h)
    <3> HIDE DEF h
    <3>1. h = [T \in SUBSET (1..(k + 1)) |-> h[T]]
      BY DEF h
    <3> QED BY <2>2, <3>1 DEF Good
  <2> QED BY <2>3
<1>3. Len(s) \in S
  <2> HIDE DEF S
  <2>1. \A k \in 0..Len(s) : k \in S
    BY <1>1, <1>2, UpTo
  <2> QED BY <2>1
<1>4. PICK g : Good(s, base, Len(s), g)
  BY <1>3
<1> DEFINE iter == CHOOSE it : Good(s, base, Len(s), it)
<1>5. FoldLeft(Scan, base, s) = iter[1..Len(s)]
  BY DEF FoldLeft, MapThenFoldSet, Good
<1>6. Good(s, base, Len(s), iter)
  BY <1>4
<1> QED BY <1>5, <1>6

(* Sequences are the functions on 1..n, whatever their elements are.       *)
LEMMA SequenceIs ==
    ASSUME NEW s
    PROVE  /\ IsSequence(s) => Len(s) \in Nat /\ DOMAIN s = 1..Len(s) /\ s = [i \in 1..Len(s) |-> s[i]]
           /\ \A S : s \in Seq(S) => IsSequence(s)
           /\ \A n \in Nat : s = [i \in 1..n |-> s[i]] => IsSequence(s) /\ Len(s) = n
<1>1. IsSequence(s) => Len(s) \in Nat /\ DOMAIN s = 1..Len(s) /\ s = [i \in 1..Len(s) |-> s[i]]
    BY DEF IsSequence
<1>2. ASSUME NEW n \in Nat, s = [i \in 1..n |-> s[i]]
      PROVE  IsSequence(s) /\ Len(s) = n
  <2>1. DOMAIN s = 1..n
      BY <1>2
  <2>2. \A i \in 1..n : s[i] \in ToSet(s)
      BY <2>1 DEF ToSet
  <2>3. s \in [1..n -> ToSet(s)]
      BY <1>2, <2>2
  <2>4. s \in Seq(ToSet(s))
      BY <2>3, SeqDef
  <2> QED BY <2>1, <2>4 DEF IsSequence
<1>3. ASSUME NEW S, s \in Seq(S)
      PROVE  IsSequence(s)
  <2>1. PICK n \in Nat : s \in [1..n -> S]
      BY <1>3, SeqDef
  <2> QED BY <1>2, <2>1
<1> QED BY <1>1, <1>2, <1>3

(* What the fold over the lines is.                                        *)
Read(p, lines) == FoldLeft(Scan, p, lines)

(* Reading goes from line to line...                                       *)
LEMMA ReadHas ==
    ASSUME NEW p, NEW s, IsSequence(s)
    PROVE  \E f : /\ f[0] = p
                  /\ \A k \in 0..(Len(s) - 1) : f[k + 1] = Scan(f[k], s[k + 1])
                  /\ Read(p, s) = f[Len(s)]
<1>1. PICK g : Good(s, p, Len(s), g) /\ FoldLeft(Scan, p, s) = g[1..Len(s)]
    BY FoldLeftDef, SequenceIs
<1> DEFINE f == [k \in 0..Len(s) |-> g[1..k]]
<1>2. Len(s) \in Nat
    BY SequenceIs
<1>3. f[0] = p
  <2>1. g[{}] = p
      BY <1>1 DEF Good
  <2> QED BY <1>2, <2>1
<1>4. ASSUME NEW k \in 0..(Len(s) - 1)
      PROVE  f[k + 1] = Scan(f[k], s[k + 1])
  <2>1. Max(1..(k + 1)) = k + 1
      BY <1>2, MaxLast
  <2>2. (1..(k + 1)) \ {k + 1} = 1..k
      BY <1>2
  <2>3. 1..(k + 1) \in SUBSET (1..Len(s)) /\ 1..(k + 1) # {}
      BY <1>2
  <2>4. g[1..(k + 1)] = Scan(g[1..k], s[k + 1])
      BY <1>1, <2>1, <2>2, <2>3 DEF Good
  <2> QED BY <1>2, <2>4
<1>5. Read(p, s) = f[Len(s)]
    BY <1>1, <1>2 DEF Read
<1> HIDE DEF f
<1> QED BY <1>3, <1>4, <1>5

(* ...and what goes from line to line like this is what is read.           *)
LEMMA ReadIs ==
    ASSUME NEW p, NEW s, IsSequence(s), NEW f, f[0] = p,
           \A k \in 0..(Len(s) - 1) : f[k + 1] = Scan(f[k], s[k + 1])
    PROVE  Read(p, s) = f[Len(s)]
<1>1. PICK g : /\ g[0] = p
               /\ \A k \in 0..(Len(s) - 1) : g[k + 1] = Scan(g[k], s[k + 1])
               /\ Read(p, s) = g[Len(s)]
    BY ReadHas
<1>2. Len(s) \in Nat
    BY SequenceIs
<1> DEFINE S == {k \in 0..Len(s) : f[k] = g[k]}
<1>3. 0 \in S
    BY <1>1, <1>2
<1>4. \A k \in 0..(Len(s) - 1) : k \in S => k + 1 \in S
    BY <1>1, <1>2
<1> HIDE DEF S
<1>5. \A k \in 0..Len(s) : k \in S
    BY <1>2, <1>3, <1>4, UpTo
<1> QED BY <1>1, <1>2, <1>5 DEF S

(* The elements of two sequences put together.                             *)
LEMMA Joined ==
    ASSUME NEW s, NEW t, IsSequence(s), IsSequence(t)
    PROVE  /\ IsSequence(s \o t)
           /\ Len(s \o t) = Len(s) + Len(t)
           /\ \A i \in 1..Len(s) : (s \o t)[i] = s[i]
           /\ \A i \in 1..Len(t) : (s \o t)[Len(s) + i] = t[i]
<1> DEFINE S == ToSet(s) \cup ToSet(t)
<1>1. s \in Seq(S) /\ t \in Seq(S)
  <2>1. \A i \in 1..Len(s) : s[i] \in S
      BY SequenceIs DEF ToSet
  <2>2. \A i \in 1..Len(t) : t[i] \in S
      BY SequenceIs DEF ToSet
  <2> HIDE DEF S
  <2>3. s \in [1..Len(s) -> S] /\ Len(s) \in Nat
      BY <2>1, SequenceIs
  <2>4. t \in [1..Len(t) -> S] /\ Len(t) \in Nat
      BY <2>2, SequenceIs
  <2> QED BY <2>3, <2>4, SeqDef
<1> HIDE DEF S
<1>2. s \o t \in Seq(S) /\ Len(s \o t) = Len(s) + Len(t)
    BY <1>1
<1>3. \A i \in 1..(Len(s) + Len(t)) : (s \o t)[i] = IF i <= Len(s) THEN s[i] ELSE t[i - Len(s)]
    BY <1>1, ConcatProperties
<1>4. Len(s) \in Nat /\ Len(t) \in Nat
    BY SequenceIs
<1>5. \A i \in 1..Len(t) : (s \o t)[Len(s) + i] = t[i]
  <2> SUFFICES ASSUME NEW i \in 1..Len(t)
               PROVE  (s \o t)[Len(s) + i] = t[i]
      OBVIOUS
  <2>1. Len(s) + i \in 1..(Len(s) + Len(t)) /\ ~(Len(s) + i <= Len(s)) /\ (Len(s) + i) - Len(s) = i
      BY <1>4
  <2> QED BY <1>3, <2>1
<1>6. \A i \in 1..Len(s) : (s \o t)[i] = s[i]
  <2> SUFFICES ASSUME NEW i \in 1..Len(s)
               PROVE  (s \o t)[i] = s[i]
      OBVIOUS
  <2>1. i \in 1..(Len(s) + Len(t)) /\ i <= Len(s)
      BY <1>4
  <2> QED BY <1>3, <2>1
<1>7. IsSequence(s \o t)
    BY <1>2, SequenceIs
<1> QED BY <1>2, <1>5, <1>6, <1>7

(* Reading two sequences of lines one behind the other.                    *)
LEMMA ReadConcat ==
    ASSUME NEW p, NEW s, NEW t, IsSequence(s), IsSequence(t)
    PROVE  Read(p, s \o t) = Read(Read(p, s), t)
<1>1. PICK f : /\ f[0] = p
               /\ \A k \in 0..(Len(s) - 1) : f[k + 1] = Scan(f[k], s[k + 1])
               /\ Read(p, s) = f[Len(s)]
    BY ReadHas
<1>2. PICK g : /\ g[0] = Read(p, s)
               /\ \A k \in 0..(Len(t) - 1) : g[k + 1] = Scan(g[k], t[k + 1])
               /\ Read(Read(p, s), t) = g[Len(t)]
    BY ReadHas
<1>3. Len(s) \in Nat /\ Len(t) \in Nat
    BY SequenceIs
<1> DEFINE h == [k \in 0..(Len(s) + Len(t)) |-> IF k <= Len(s) THEN f[k] ELSE g[k - Len(s)]]
<1>4. h[0] = p
    BY <1>1, <1>3
<1>5. ASSUME NEW k \in 0..(Len(s) + Len(t) - 1)
      PROVE  h[k + 1] = Scan(h[k], (s \o t)[k + 1])
  <2>1. CASE k < Len(s)
    <3>1. k \in 0..(Len(s) - 1) /\ k + 1 \in 1..Len(s)
        BY <1>3, <2>1
    <3>2. h[k + 1] = f[k + 1] /\ h[k] = f[k]
        BY <1>3, <3>1
    <3> HIDE DEF h
    <3> QED BY <1>1, <3>1, <3>2, Joined
  <2>2. CASE ~(k < Len(s))
    <3>1. PICK i \in 0..(Len(t) - 1) : k = Len(s) + i
      <4>1. k - Len(s) \in 0..(Len(t) - 1) /\ k = Len(s) + (k - Len(s))
          BY <1>3, <2>2
      <4> QED BY <4>1
    <3>2. h[k + 1] = g[i + 1]
      <4>1. k + 1 \in 0..(Len(s) + Len(t)) /\ ~(k + 1 <= Len(s)) /\ k + 1 - Len(s) = i + 1
          BY <1>3, <3>1
      <4> QED BY <4>1
    <3>3. h[k] = g[i]
      <4>1. CASE i = 0
          BY <1>1, <1>2, <1>3, <3>1, <4>1
      <4>2. CASE i # 0
        <5>1. k \in 0..(Len(s) + Len(t)) /\ ~(k <= Len(s)) /\ k - Len(s) = i
            BY <1>3, <3>1, <4>2
        <5> QED BY <5>1
      <4> QED BY <4>1, <4>2
    <3>4. (s \o t)[k + 1] = t[i + 1]
      <4>1. i + 1 \in 1..Len(t) /\ k + 1 = Len(s) + (i + 1)
          BY <1>3, <3>1
      <4> QED BY <4>1, Joined
    <3> HIDE DEF h
    <3> QED BY <1>2, <3>2, <3>3, <3>4
  <2> QED BY <2>1, <2>2
<1>6. h[Len(s) + Len(t)] = g[Len(t)]
  <2>1. CASE Len(t) = 0
      BY <1>1, <1>2, <1>3, <2>1
  <2>2. CASE Len(t) # 0
    <3>1. ~(Len(s) + Len(t) <= Len(s)) /\ Len(s) + Len(t) - Len(s) = Len(t)
        BY <1>3, <2>2
    <3> QED BY <1>3, <3>1
  <2> QED BY <2>1, <2>2
<1> HIDE DEF h
<1>7. Read(p, s \o t) = h[Len(s \o t)]
  <2>1. IsSequence(s \o t) /\ Len(s \o t) = Len(s) + Len(t)
      BY Joined
  <2>2. \A k \in 0..(Len(s \o t) - 1) : h[k + 1] = Scan(h[k], (s \o t)[k + 1])
      BY <1>5, <2>1
  <2> QED BY <1>4, <2>1, <2>2, ReadIs
<1> QED BY <1>2, <1>6, <1>7, Joined

(* Reading one line.                                                       *)
LEMMA ReadOne ==
    ASSUME NEW p, NEW l
    PROVE  IsSequence(<<l>>) /\ Read(p, <<l>>) = Scan(p, l)
<1>1. <<l>> \in Seq({l}) /\ Len(<<l>>) = 1 /\ <<l>>[1] = l
    OBVIOUS
<1>2. IsSequence(<<l>>)
    BY <1>1, SequenceIs
<1>3. PICK f : /\ f[0] = p
               /\ \A k \in 0..(Len(<<l>>) - 1) : f[k + 1] = Scan(f[k], <<l>>[k + 1])
               /\ Read(p, <<l>>) = f[Len(<<l>>)]
    BY <1>2, ReadHas
<1>4. f[0 + 1] = Scan(f[0], <<l>>[0 + 1])
    BY <1>1, <1>3
<1> QED BY <1>1, <1>2, <1>3, <1>4

(* No line is read.                                                        *)
LEMMA ReadNone ==
    ASSUME NEW p
    PROVE  IsSequence(<<>>) /\ Read(p, <<>>) = p
<1>1. <<>> \in Seq({}) /\ Len(<<>>) = 0
    OBVIOUS
<1>2. IsSequence(<<>>)
    BY <1>1, SequenceIs
<1>3. PICK f : f[0] = p /\ Read(p, <<>>) = f[Len(<<>>)]
    BY <1>2, ReadHas
<1> QED BY <1>1, <1>2, <1>3

-----------------------------------------------------------------------------
(* Sequences of sequences, put together.                                   *)

Parts(ss) == IsSequence(ss) /\ \A i \in 1..Len(ss) : IsSequence(ss[i])

FlatTo(ss, n, flat) == flat = [i \in 1..n |-> IF i = 1 THEN ss[i] ELSE flat[i - 1] \o ss[i]]

(* The parts put together, as FlattenSeq does it.                          *)
LEMMA FlattenDef ==
    ASSUME NEW ss, IsSequence(ss), Len(ss) # 0
    PROVE  \E flat : FlatTo(ss, Len(ss), flat) /\ FlattenSeq(ss) = flat[Len(ss)]
<1> DEFINE S == {n \in Nat : \E flat : FlatTo(ss, n, flat)}
<1>1. 0 \in S
  <2> DEFINE flat == [i \in 1..0 |-> i]
  <2>1. FlatTo(ss, 0, flat)
      BY DEF FlatTo
  <2> QED BY <2>1
<1>2. ASSUME NEW k \in Nat, k \in S
      PROVE  k + 1 \in S
  <2>1. PICK flat : FlatTo(ss, k, flat)
      BY <1>2
  <2> DEFINE next == [i \in 1..(k + 1) |->
                        IF i = k + 1 THEN IF i = 1 THEN ss[i] ELSE flat[i - 1] \o ss[i] ELSE flat[i]]
  <2>2. ASSUME NEW i \in 1..(k + 1)
        PROVE  next[i] = IF i = 1 THEN ss[i] ELSE next[i - 1] \o ss[i]
    <3>1. CASE i = k + 1
      <4>1. i # 1 => i - 1 \in 1..(k + 1) /\ i - 1 # k + 1
          BY <3>1
      <4> QED BY <3>1, <4>1
    <3>2. CASE i # k + 1
      <4>1. i \in 1..k
          BY <3>2
      <4>2. flat[i] = IF i = 1 THEN ss[i] ELSE flat[i - 1] \o ss[i]
          BY <2>1, <4>1 DEF FlatTo
      <4>3. i # 1 => i - 1 \in 1..(k + 1) /\ i - 1 # k + 1
          BY <4>1
      <4> QED BY <3>2, <4>2, <4>3
    <3> QED BY <3>1, <3>2
  <2>3. next = [i \in 1..(k + 1) |-> next[i]]
      OBVIOUS
  <2> HIDE DEF next
  <2>4. FlatTo(ss, k + 1, next)
      BY <2>2, <2>3 DEF FlatTo
  <2> QED BY <2>4
<1>3. Len(ss) \in S
  <2>1. Len(ss) \in Nat
      BY SequenceIs
  <2> HIDE DEF S
  <2>2. \A k \in 0..Len(ss) : k \in S
      BY <1>1, <1>2, <2>1, UpTo
  <2> QED BY <2>1, <2>2
<1> DEFINE f == CHOOSE flat : FlatTo(ss, Len(ss), flat)
<1>4. FlatTo(ss, Len(ss), f)
    BY <1>3
<1>5. FlattenSeq(ss) = f[Len(ss)]
    BY DEF FlattenSeq, FlatTo
<1> QED BY <1>4, <1>5

(* The parts put together from the first on.                               *)
LEMMA Flattened ==
    ASSUME NEW ss, Parts(ss)
    PROVE  \E flat : /\ flat[0] = <<>>
                     /\ \A k \in 0..Len(ss) : IsSequence(flat[k])
                     /\ \A k \in 0..(Len(ss) - 1) : flat[k + 1] = flat[k] \o ss[k + 1]
                     /\ FlattenSeq(ss) = flat[Len(ss)]
<1>1. IsSequence(ss) /\ Len(ss) \in Nat
    BY SequenceIs DEF Parts
<1>2. CASE Len(ss) = 0
  <2> DEFINE flat == [k \in 0..0 |-> <<>>]
  <2>1. FlattenSeq(ss) = <<>>
      BY <1>1, <1>2, SequenceIs DEF FlattenSeq
  <2>2. flat[0] = <<>> /\ IsSequence(flat[0])
      BY ReadNone
  <2> HIDE DEF flat
  <2> QED BY <1>2, <2>1, <2>2
<1>3. CASE Len(ss) # 0
  <2>1. PICK f : FlatTo(ss, Len(ss), f) /\ FlattenSeq(ss) = f[Len(ss)]
      BY <1>1, <1>3, FlattenDef
  <2> DEFINE flat == [k \in 0..Len(ss) |-> IF k = 0 THEN <<>> ELSE f[k]]
             S == {k \in 0..Len(ss) : IsSequence(flat[k])}
  <2>2. flat[0] = <<>> /\ 0 \in S
      BY <1>1, ReadNone
  <2>3. ASSUME NEW k \in 0..(Len(ss) - 1), k \in S
        PROVE  flat[k + 1] = flat[k] \o ss[k + 1] /\ k + 1 \in S
    <3>1. /\ k + 1 \in 1..Len(ss)
          /\ IsSequence(ss[k + 1])
          /\ IsSequence(flat[k])
        BY <1>1, <2>3 DEF Parts
    <3>2. f[k + 1] = IF k + 1 = 1 THEN ss[k + 1] ELSE f[(k + 1) - 1] \o ss[k + 1]
        BY <2>1, <3>1 DEF FlatTo
    <3>3. CASE k = 0
      <4>1. f[k + 1] = ss[k + 1]
          BY <3>2, <3>3
      <4>2. <<>> \o ss[k + 1] = ss[k + 1]
          BY <3>1, ConcatEmptySeq DEF IsSequence
      <4>3. flat[k + 1] = ss[k + 1] /\ flat[k] = <<>>
          BY <1>1, <3>1, <3>3, <4>1
      <4> QED BY <3>1, <4>2, <4>3
    <3>4. CASE k # 0
      <4>1. f[k + 1] = f[k] \o ss[k + 1]
        <5>1. (k + 1) - 1 = k /\ k + 1 # 1
            BY <3>4
        <5> QED BY <3>2, <5>1
      <4>2. flat[k + 1] = f[k + 1] /\ flat[k] = f[k]
          BY <1>1, <3>1, <3>4
      <4>3. IsSequence(flat[k] \o ss[k + 1])
          BY <3>1, Joined
      <4> HIDE DEF flat
      <4>4. flat[k + 1] = flat[k] \o ss[k + 1]
          BY <4>1, <4>2
      <4>5. k + 1 \in 0..Len(ss)
          BY <1>1, <3>1
      <4> QED BY <4>3, <4>4, <4>5
    <3> QED BY <3>3, <3>4
  <2>4. FlattenSeq(ss) = flat[Len(ss)]
      BY <1>1, <1>3, <2>1
  <2> HIDE DEF flat, S
  <2>5. \A k \in 0..Len(ss) : k \in S
      BY <1>1, <2>2, <2>3, UpTo
  <2>6. \A k \in 0..Len(ss) : IsSequence(flat[k])
      BY <2>5 DEF S
  <2>7. \A k \in 0..(Len(ss) - 1) : flat[k + 1] = flat[k] \o ss[k + 1]
    <3>1. \A k \in 0..(Len(ss) - 1) : k \in 0..Len(ss)
        BY <1>1
    <3> QED BY <2>3, <2>5, <3>1
  <2> QED BY <2>2, <2>4, <2>6, <2>7
<1> QED BY <1>2, <1>3

(* Reading part by part.                                                   *)
LEMMA ReadParts ==
    ASSUME NEW p, NEW ss, Parts(ss)
    PROVE  /\ IsSequence(FlattenSeq(ss))
           /\ \E f : /\ f[0] = p
                     /\ \A k \in 0..(Len(ss) - 1) : f[k + 1] = Read(f[k], ss[k + 1])
                     /\ Read(p, FlattenSeq(ss)) = f[Len(ss)]
<1>1. PICK flat : /\ flat[0] = <<>>
                  /\ \A k \in 0..Len(ss) : IsSequence(flat[k])
                  /\ \A k \in 0..(Len(ss) - 1) : flat[k + 1] = flat[k] \o ss[k + 1]
                  /\ FlattenSeq(ss) = flat[Len(ss)]
    BY Flattened
<1>2. Len(ss) \in Nat
    BY SequenceIs DEF Parts
<1> DEFINE f == [k \in 0..Len(ss) |-> Read(p, flat[k])]
<1>3. f[0] = p
    BY <1>1, <1>2, ReadNone
<1>4. ASSUME NEW k \in 0..(Len(ss) - 1)
      PROVE  f[k + 1] = Read(f[k], ss[k + 1])
  <2>1. k \in 0..Len(ss) /\ k + 1 \in 0..Len(ss) /\ k + 1 \in 1..Len(ss)
      BY <1>2
  <2>2. Read(p, flat[k] \o ss[k + 1]) = Read(Read(p, flat[k]), ss[k + 1])
      BY <1>1, <2>1, ReadConcat DEF Parts
  <2> QED BY <1>1, <2>1, <2>2
<1>5. Read(p, FlattenSeq(ss)) = f[Len(ss)] /\ IsSequence(FlattenSeq(ss))
    BY <1>1, <1>2
<1> HIDE DEF f
<1> QED BY <1>3, <1>4, <1>5

-----------------------------------------------------------------------------
(* States of the parser in a policy.  Append and some strings get names of *)
(* their own: what the proofs need of them is in a lemma.                  *)

(* A sequence with one more element.                                       *)
Plus(s, x) == Append(s, x)

(* States of the parser, and the state in which it reads policy q behind   *)
(* the policies of b.                                                      *)
State(p) ==
    /\ p = [x \in DOMAIN p |-> p[x]]
    /\ DOMAIN p = DOMAIN StartOfFile
    /\ IsSequence(p.policies)

At(b, level, sym, q) ==
    [b EXCEPT !.level = level, !.sym = sym, !.policies = Plus(b.policies, q)]

Blank == ""
OnPermit == "on permit"

(* The fields of a state of the parser.                                    *)
LEMMA FieldNames ==
    DOMAIN StartOfFile = {"level", "error", "namespace", "imported", "attributes", "conditions",
                          "categories", "obligations", "policies", "sym"}
  BY DEF StartOfFile

(* The last element of a sequence, and what an assignment to it does.      *)
LEMMA LastOfAppend ==
    ASSUME NEW s, IsSequence(s), NEW q
    PROVE  /\ IsSequence(Append(s, q))
           /\ Len(Append(s, q)) = Len(s) + 1
           /\ Len(s) + 1 \in DOMAIN Append(s, q)
           /\ Append(s, q)[Len(s) + 1] = q
           /\ \A i \in 1..Len(s) : Append(s, q)[i] = s[i]
           /\ \A r : [Append(s, q) EXCEPT ![Len(s) + 1] = r] = Append(s, r)
<1> DEFINE S(r) == ToSet(s) \cup {q, r}
<1>1. ASSUME NEW r
      PROVE  s \in Seq(S(r))
  <2>1. \A i \in 1..Len(s) : s[i] \in S(r)
      BY SequenceIs DEF ToSet
  <2> HIDE DEF S
  <2>2. s \in [1..Len(s) -> S(r)] /\ Len(s) \in Nat
      BY <2>1, SequenceIs
  <2> QED BY <2>2, SeqDef
<1>2. ASSUME NEW r
      PROVE  /\ Append(s, q) \in Seq(S(r)) /\ Append(s, r) \in Seq(S(r))
             /\ Len(Append(s, q)) = Len(s) + 1 /\ Len(Append(s, r)) = Len(s) + 1
             /\ Append(s, q)[Len(s) + 1] = q /\ Append(s, r)[Len(s) + 1] = r
             /\ \A i \in 1..Len(s) : Append(s, q)[i] = s[i] /\ Append(s, r)[i] = s[i]
  <2>1. s \in Seq(S(r)) /\ q \in S(r) /\ r \in S(r)
      BY <1>1
  <2> HIDE DEF S
  <2> QED BY <2>1, AppendProperties
<1> HIDE DEF S
<1>3. Len(s) \in Nat
    BY SequenceIs
<1>4. ASSUME NEW r
      PROVE  [Append(s, q) EXCEPT ![Len(s) + 1] = r] = Append(s, r)
  <2> DEFINE t == [Append(s, q) EXCEPT ![Len(s) + 1] = r]
  <2>1. /\ Append(s, q) = [i \in 1..(Len(s) + 1) |-> Append(s, q)[i]]
        /\ Append(s, r) = [i \in 1..(Len(s) + 1) |-> Append(s, r)[i]]
      BY <1>2, SequenceIs
  <2>2. \A i \in 1..(Len(s) + 1) : t[i] = Append(s, r)[i]
    <3>1. \A i \in 1..(Len(s) + 1) : i = Len(s) + 1 \/ i \in 1..Len(s)
        BY <1>3
    <3>2. DOMAIN Append(s, q) = 1..(Len(s) + 1)
        BY <2>1
    <3> QED BY <1>2, <3>1, <3>2
  <2>3. t = [i \in 1..(Len(s) + 1) |-> t[i]]
      BY <2>1
  <2> HIDE DEF t
  <2>4. t = Append(s, r)
      BY <2>1, <2>2, <2>3
  <2> QED BY <2>4 DEF t
<1>5. Append(s, q) \in Seq(S(q)) /\ Len(Append(s, q)) = Len(s) + 1 /\ Append(s, q)[Len(s) + 1] = q
      /\ \A i \in 1..Len(s) : Append(s, q)[i] = s[i]
    BY <1>2
<1>6. IsSequence(Append(s, q)) /\ DOMAIN Append(s, q) = 1..(Len(s) + 1)
    BY <1>5, SequenceIs
<1> QED BY <1>3, <1>4, <1>5, <1>6

(* The same for Plus.                                                      *)
LEMMA LastOf ==
    ASSUME NEW s, IsSequence(s), NEW q
    PROVE  /\ IsSequence(Plus(s, q))
           /\ Len(Plus(s, q)) = Len(s) + 1
           /\ Len(s) + 1 \in DOMAIN Plus(s, q)
           /\ Plus(s, q)[Len(s) + 1] = q
           /\ \A i \in 1..Len(s) : Plus(s, q)[i] = s[i]
           /\ \A r : [Plus(s, q) EXCEPT ![Len(s) + 1] = r] = Plus(s, r)
  BY LastOfAppend DEF Plus

MoveTo(p, level) == [p EXCEPT !.level = level]
MoveSym(p, level, sym) == [p EXCEPT !.level = level, !.sym = sym]

(* The fields of a state in policy q, and that q is the current policy.    *)
LEMMA AtFields ==
    ASSUME NEW b, State(b), NEW level, NEW sym, NEW q
    PROVE  /\ State(At(b, level, sym, q))
           /\ At(b, level, sym, q).level = level
           /\ At(b, level, sym, q).error = b.error
           /\ At(b, level, sym, q).sym = sym
           /\ At(b, level, sym, q).conditions = b.conditions
           /\ At(b, level, sym, q).policies = Plus(b.policies, q)
           /\ Current(At(b, level, sym, q)) = q
<1> DEFINE p == At(b, level, sym, q)
<1>1. /\ DOMAIN b = DOMAIN StartOfFile
      /\ b = [x \in DOMAIN StartOfFile |-> b[x]]
      /\ IsSequence(b.policies)
    BY DEF State
<1>2. /\ DOMAIN p = DOMAIN StartOfFile
      /\ p = [x \in DOMAIN p |-> p[x]]
      /\ p.level = level /\ p.error = b.error /\ p.sym = sym /\ p.conditions = b.conditions
      /\ p.policies = Plus(b.policies, q)
    BY <1>1, FieldNames DEF At
<1> HIDE DEF p
<1>3. IsSequence(p.policies)
    BY <1>1, <1>2, LastOf
<1>4. State(p)
    BY <1>2, <1>3 DEF State
<1>5. Current(p) = q
    BY <1>1, <1>2, LastOf DEF Current
<1> QED BY <1>2, <1>4, <1>5 DEF p

(* What the functions of the parser make of a state in policy q.           *)
LEMMA AtMoves ==
    ASSUME NEW b, State(b), NEW level, NEW sym, NEW q
    PROVE  /\ \A r : WithPolicy(At(b, level, sym, q), r) = At(b, level, sym, r)
           /\ \A l : MoveTo(At(b, level, sym, q), l) = At(b, l, sym, q)
           /\ \A l, s : MoveSym(At(b, level, sym, q), l, s) = At(b, l, s, q)
<1> DEFINE p == At(b, level, sym, q)
<1>1. /\ DOMAIN b = DOMAIN StartOfFile
      /\ b = [x \in DOMAIN StartOfFile |-> b[x]]
      /\ IsSequence(b.policies)
    BY DEF State
<1>2. p.policies = Plus(b.policies, q)
    BY AtFields
<1>5. ASSUME NEW r
      PROVE  WithPolicy(p, r) = At(b, level, sym, r)
  <2>1. [p.policies EXCEPT ![Len(p.policies)] = r] = Plus(b.policies, r)
      BY <1>1, <1>2, LastOf
  <2>2. WithPolicy(p, r) = [p EXCEPT !.policies = [p.policies EXCEPT ![Len(p.policies)] = r]]
      BY DEF WithPolicy
  <2>3. [p EXCEPT !.policies = Plus(b.policies, r)] = At(b, level, sym, r)
      BY <1>1, FieldNames DEF At
  <2> QED BY <2>1, <2>2, <2>3
<1>6. ASSUME NEW l
      PROVE  MoveTo(p, l) = At(b, l, sym, q)
    BY <1>1, FieldNames DEF At, MoveTo
<1>7. ASSUME NEW l, NEW s
      PROVE  MoveSym(p, l, s) = At(b, l, s, q)
    BY <1>1, FieldNames DEF At, MoveSym
<1> HIDE DEF p
<1>8. /\ \A r : WithPolicy(p, r) = At(b, level, sym, r)
      /\ \A l : MoveTo(p, l) = At(b, l, sym, q)
      /\ \A l, s : MoveSym(p, l, s) = At(b, l, s, q)
    BY <1>5, <1>6, <1>7
<1> QED BY <1>8 DEF p

-----------------------------------------------------------------------------
(* What each line of a policy does.                                        *)

Policy(action, struct, type, rules, obligations) ==
    [action |-> action, struct |-> struct, type |-> type, rules |-> rules,
     obligations |-> obligations]

Target(t) ==
    IF t.target THEN <<[kind |-> "target", ok |-> t.action # "", action |-> t.action,
                        struct |-> t.struct]>>
    ELSE <<>>

(* The line of a policy starts a new one wherever it stands.               *)
LEMMA ScanPolicy ==
    ASSUME NEW b, State(b), ~b.error
    PROVE  Scan(b, Line("policy")) = At(b, "policy", Blank, NoPolicy)
  BY FieldNames DEF State, Scan, StartPolicy, At, Line, Blank, Plus

(* Which function reads a line.                                            *)
LEMMA LevelNames ==
    ASSUME NEW p, ~p.error, NEW l, l.kind # "policy"
    PROVE  /\ p.level = "namespace" => Scan(p, l) = NamespaceLine(p, l)
           /\ p.level = "policy" => Scan(p, l) = PolicyLine(p, l)
           /\ p.level = "rule" => Scan(p, l) = RuleLine(p, l)
           /\ p.level = "on permit" => Scan(p, l) = OnPermitLine(p, l)
           /\ p.level = "obligation" => Scan(p, l) = ObligationLine(p, l)
  BY DEF Scan

(* The fields of a policy.                                                 *)
LEMMA QFields ==
    ASSUME NEW a, NEW st, NEW ty, NEW rs, NEW ob
    PROVE  LET q == Policy(a, st, ty, rs, ob)
           IN /\ q.action = a /\ q.struct = st /\ q.type = ty /\ q.rules = rs /\ q.obligations = ob
              /\ \A x : [q EXCEPT !.action = x] = Policy(x, st, ty, rs, ob)
              /\ \A x : [q EXCEPT !.struct = x] = Policy(a, x, ty, rs, ob)
              /\ \A x : [q EXCEPT !.type = x] = Policy(a, st, x, rs, ob)
              /\ \A x : [q EXCEPT !.rules = x] = Policy(a, st, ty, x, ob)
              /\ \A x : [q EXCEPT !.obligations = x] = Policy(a, st, ty, rs, x)
  BY DEF Policy

(* A policy at its start.                                                  *)
LEMMA NewPolicy == NoPolicy = Policy(Blank, Blank, Blank, <<>>, <<>>)
  BY DEF NoPolicy, Policy, Blank

(* The target sets action and struct.                                      *)
LEMMA TargetOf ==
    ASSUME NEW a, NEW s
    PROVE  [NoPolicy EXCEPT !.action = a, !.struct = IF s # Blank THEN s ELSE @] =
              Policy(a, s, Blank, <<>>, <<>>)
<1> DEFINE m == [NoPolicy EXCEPT !.action = a]
<1>1. m = Policy(a, Blank, Blank, <<>>, <<>>)
    BY NewPolicy, QFields
<1>2. [NoPolicy EXCEPT !.action = a, !.struct = IF s # Blank THEN s ELSE @] =
        [m EXCEPT !.struct = IF s # Blank THEN s ELSE NoPolicy.struct]
    OBVIOUS
<1>3. NoPolicy.struct = Blank
    BY NewPolicy, QFields
<1> HIDE DEF m
<1>4. (IF s # Blank THEN s ELSE NoPolicy.struct) = s
    BY <1>3
<1>5. [m EXCEPT !.struct = s] = Policy(a, s, Blank, <<>>, <<>>)
    BY <1>1, QFields
<1> QED BY <1>2, <1>4, <1>5

(* A target is read in a policy.                                           *)
LEMMA ScanTarget ==
    ASSUME NEW b, State(b), ~b.error, NEW a, NEW s
    PROVE  LET l == [kind |-> "target", ok |-> a # Blank, action |-> a, struct |-> s]
               p == At(b, "policy", Blank, NoPolicy)
           IN /\ a = Blank => Scan(p, l).error
              /\ a # Blank => Scan(p, l) = At(b, "policy", Blank, Policy(a, s, Blank, <<>>, <<>>))
<1> DEFINE l == [kind |-> "target", ok |-> a # Blank, action |-> a, struct |-> s]
           p == At(b, "policy", Blank, NoPolicy)
<1>1. l.kind = "target" /\ l.action = a /\ l.struct = s /\ (l.ok <=> a # Blank)
    OBVIOUS
<1>2. \A r : WithPolicy(p, r) = At(b, "policy", Blank, r)
    BY AtMoves
<1> HIDE DEF p, l
<1>3. p.level = "policy" /\ ~p.error /\ State(p) /\ Current(p) = NoPolicy
    BY AtFields DEF p
<1>4. Scan(p, l) = PolicyLine(p, l)
    BY <1>1, <1>3, LevelNames
<1>5. CASE a = Blank
  <2>1. Scan(p, l) = Failed(p)
      BY <1>1, <1>4, <1>5 DEF PolicyLine
  <2> QED BY <1>3, <1>5, <2>1, FieldNames DEF State, Failed, p, l
<1>6. CASE a # Blank
  <2>1. Scan(p, l) = WithPolicy(p, [Current(p) EXCEPT !.action = a, !.struct = IF s # Blank THEN s ELSE @])
      BY <1>1, <1>4, <1>6 DEF PolicyLine, Blank
  <2> QED BY <1>2, <1>3, <1>6, <2>1, TargetOf DEF p, l
<1> QED BY <1>5, <1>6 DEF p, l

(* The lines between the parts of a policy.                                *)
LEMMA PolicyLevel ==
    ASSUME NEW b, State(b), ~b.error, NEW q
    PROVE  LET p == At(b, "policy", Blank, q)
           IN /\ OnPermit # "policy"
              /\ Scan(p, Line("apply")) = p
              /\ Scan(p, Line(OnPermit)) = At(b, OnPermit, Blank, q)
              /\ Scan(p, Line("close")) = At(b, "namespace", Blank, q)
<1> DEFINE p == At(b, "policy", Blank, q)
<1> HIDE DEF p
<1>1. p.level = "policy" /\ ~p.error
    BY AtFields DEF p
<1>2. \A l : MoveTo(p, l) = At(b, l, Blank, q)
    BY AtMoves DEF p
<1>3. \A k : Line(k).kind = k
    BY DEF Line
<1>4. \A k : k # "policy" => Scan(p, Line(k)) = PolicyLine(p, Line(k))
    BY <1>1, <1>3, LevelNames
<1>5. PolicyLine(p, Line("apply")) = p
    BY <1>3 DEF PolicyLine
<1>6. PolicyLine(p, Line(OnPermit)) = MoveTo(p, OnPermit)
    BY <1>3 DEF PolicyLine, MoveTo, OnPermit
<1>7. PolicyLine(p, Line("close")) = MoveTo(p, "namespace")
    BY <1>3 DEF PolicyLine, MoveTo
<1>8. OnPermit # "policy"
    BY DEF OnPermit
<1> QED BY <1>2, <1>4, <1>5, <1>6, <1>7, <1>8 DEF p

(* Two elements.                                                           *)
LEMMA Pair ==
    ASSUME NEW x, NEW y
    PROVE  <<x>> \o <<y>> = <<x, y>>
<1>1. <<x>> \in Seq({x, y}) /\ <<y>> \in Seq({x, y}) /\ <<x, y>> \in Seq({x, y})
    OBVIOUS
<1>2. Len(<<x>>) = 1 /\ Len(<<y>>) = 1 /\ Len(<<x, y>>) = 2 /\ 1 - 0 = 1 /\ 2 - 1 = 1
    OBVIOUS
<1>3. Len(<<x>> \o <<y>>) = 2 /\ <<x>> \o <<y>> \in Seq({x, y})
      /\ (<<x>> \o <<y>>)[1] = x /\ (<<x>> \o <<y>>)[2] = y
    BY <1>1, <1>2, ConcatProperties
<1> DEFINE s == <<x>> \o <<y>>
           t == <<x, y>>
<1>4. t[1] = x /\ t[2] = y
    OBVIOUS
<1> HIDE DEF s, t
<1>5. \A i \in 1..2 : s[i] = t[i]
  <2>1. \A i \in 1..2 : i = 1 \/ i = 2
      OBVIOUS
  <2> QED BY <1>3, <1>4, <2>1 DEF s
<1>6. s = t
    BY <1>1, <1>2, <1>3, <1>5, SeqEqual DEF s, t
<1> QED BY <1>6 DEF s, t

(* A rule, without its last line.                                          *)
Rule(action, condition) == [action |-> action, condition |-> condition]

ReadRule(r, named) ==
    Rule(r.effect, [c \in DOMAIN r.conditions |-> expandCondition(r.conditions[c], named)])

Latest(type, ty) == IF type # Blank THEN type ELSE ty

RuleFits(r) ==
    /\ r.effect \in {"permit", "deny"}
    /\ IsSequence(r.conditions)
    /\ Len(r.conditions) <= 1

(* The fields of a rule.                                                   *)
LEMMA RFields ==
    ASSUME NEW a, NEW c
    PROVE  /\ Rule(a, c).action = a /\ Rule(a, c).condition = c
           /\ \A x : [Rule(a, c) EXCEPT !.action = x] = Rule(x, c)
           /\ \A x : [Rule(a, c) EXCEPT !.condition = x] = Rule(a, x)
  BY DEF Rule

(* A rule line adds a rule, and the type of the policy is its own.         *)
LEMMA ScanRule ==
    ASSUME NEW b, State(b), ~b.error, NEW type,
           NEW a, NEW st, NEW ty, NEW rs, NEW ob
    PROVE  Scan(At(b, "policy", Blank, Policy(a, st, ty, rs, ob)), [kind |-> "rule", type |-> type]) =
              At(b, "rule", Blank, Policy(a, st, Latest(type, ty), Plus(rs, Rule(Blank, <<>>)), ob))
<1> DEFINE q == Policy(a, st, ty, rs, ob)
           p == At(b, "policy", Blank, q)
           l == [kind |-> "rule", type |-> type]
           new == [action |-> "", condition |-> <<>>]
           q2 == [q EXCEPT !.rules = Plus(@, new), !.type = IF l.type # "" THEN l.type ELSE @]
<1>1. l.kind = "rule" /\ l.type = type
    OBVIOUS
<1>2. new = Rule(Blank, <<>>)
    BY DEF Rule, Blank
<1> HIDE DEF p, l, q, new
<1>3. p.level = "policy" /\ ~p.error /\ Current(p) = q
    BY AtFields DEF p
<1>4. Scan(p, l) = PolicyLine(p, l)
    BY <1>1, <1>3, LevelNames
<1>5. PolicyLine(p, l) = StartRule(p, l)
    BY <1>1 DEF PolicyLine
<1>6. StartRule(p, l) = MoveTo(WithPolicy(p, q2), "rule")
    BY <1>3 DEF StartRule, MoveTo, new, Plus
<1>7. q2 = Policy(a, st, Latest(type, ty), Plus(rs, Rule(Blank, <<>>)), ob)
  <2>5. q.rules = rs /\ q.type = ty /\ \A x : [q EXCEPT !.rules = x] = Policy(a, st, ty, x, ob)
      BY QFields DEF q
  <2> DEFINE m == [q EXCEPT !.rules = Plus(@, new)]
  <2>1. m = Policy(a, st, ty, Plus(rs, new), ob)
      BY <2>5
  <2>2. q2 = [m EXCEPT !.type = IF l.type # "" THEN l.type ELSE q.type]
      OBVIOUS
  <2> HIDE DEF m
  <2>3. (IF l.type # "" THEN l.type ELSE q.type) = Latest(type, ty)
      BY <1>1, <2>5 DEF Latest, Blank
  <2>4. [m EXCEPT !.type = Latest(type, ty)] = Policy(a, st, Latest(type, ty), Plus(rs, new), ob)
      BY <2>1, QFields
  <2> QED BY <1>2, <2>2, <2>3, <2>4
<1> HIDE DEF q2
<1>8. MoveTo(WithPolicy(p, q2), "rule") = At(b, "rule", Blank, q2)
    BY AtMoves DEF p
<1> QED BY <1>4, <1>5, <1>6, <1>7, <1>8 DEF p, q, l

(* What the last rule becomes in the record of a policy.                   *)
SetAction(q, y) == [q EXCEPT !.rules[Len(q.rules)].action = y]
AddCondition(q, y) == [q EXCEPT !.rules[Len(q.rules)].condition = Plus(@, y)]
ConditionLine(use) == [kind |-> "condition", use |-> use]

(* An assignment to the last rule.                                         *)
LEMMA LastRule ==
    ASSUME NEW a, NEW st, NEW ty, NEW rs, IsSequence(rs), NEW x, NEW c, NEW ob
    PROVE  /\ \A y : SetAction(Policy(a, st, ty, Plus(rs, Rule(x, c)), ob), y) =
                          Policy(a, st, ty, Plus(rs, Rule(y, c)), ob)
           /\ \A y : AddCondition(Policy(a, st, ty, Plus(rs, Rule(x, c)), ob), y) =
                          Policy(a, st, ty, Plus(rs, Rule(x, Plus(c, y))), ob)
<1> DEFINE rules == Plus(rs, Rule(x, c))
           q == Policy(a, st, ty, rules, ob)
<1> HIDE DEF rules
<1>1. q.rules = rules
    BY QFields
<1>2. /\ Len(rules) = Len(rs) + 1
      /\ rules[Len(rules)] = Rule(x, c)
      /\ \A r : [rules EXCEPT ![Len(rules)] = r] = Plus(rs, r)
    BY LastOf DEF rules
<1>3. \A new : [q EXCEPT !.rules = new] = Policy(a, st, ty, new, ob)
    BY QFields
<1> HIDE DEF q
<1>4. ASSUME NEW y
      PROVE  SetAction(q, y) = Policy(a, st, ty, Plus(rs, Rule(y, c)), ob)
  <2>1. SetAction(q, y) =
          [q EXCEPT !.rules = [q.rules EXCEPT ![Len(q.rules)] = [q.rules[Len(q.rules)] EXCEPT !.action = y]]]
      BY DEF SetAction
  <2>2. [Rule(x, c) EXCEPT !.action = y] = Rule(y, c)
      BY RFields
  <2> QED BY <1>1, <1>2, <1>3, <2>1, <2>2
<1>5. ASSUME NEW y
      PROVE  AddCondition(q, y) =
                Policy(a, st, ty, Plus(rs, Rule(x, Plus(c, y))), ob)
  <2>1. AddCondition(q, y) =
          [q EXCEPT !.rules = [q.rules EXCEPT ![Len(q.rules)] =
              [q.rules[Len(q.rules)] EXCEPT !.condition = Plus(q.rules[Len(q.rules)].condition, y)]]]
      BY DEF AddCondition
  <2>2. [Rule(x, c) EXCEPT !.condition = Plus(Rule(x, c).condition, y)] = Rule(x, Plus(c, y))
    <3>1. Rule(x, c).condition = c
        BY RFields
    <3> DEFINE cy == Plus(c, y)
    <3> HIDE DEF cy
    <3>2. [Rule(x, c) EXCEPT !.condition = cy] = Rule(x, cy)
        BY RFields
    <3> USE DEF cy
    <3> QED BY <3>1, <3>2
  <2> QED BY <1>1, <1>2, <1>3, <2>1, <2>2
<1> QED BY <1>4, <1>5 DEF q, rules

(* The lines of a rule.                                                    *)
LEMMA RuleLevel ==
    ASSUME NEW b, State(b), ~b.error,
           NEW a, NEW st, NEW ty, NEW rs, IsSequence(rs), NEW x, NEW c, NEW ob
    PROVE  /\ \A e \in {"permit", "deny"} :
                Scan(At(b, "rule", Blank, Policy(a, st, ty, Plus(rs, Rule(x, c)), ob)), Line(e)) =
                    At(b, "rule", Blank, Policy(a, st, ty, Plus(rs, Rule(e, c)), ob))
           /\ \A use :
                Scan(At(b, "rule", Blank, Policy(a, st, ty, Plus(rs, Rule(x, c)), ob)), ConditionLine(use)) =
                    At(b, "rule", Blank,
                       Policy(a, st, ty, Plus(rs, Rule(x, Plus(c, expandCondition(use, b.conditions)))), ob))
           /\ Scan(At(b, "rule", Blank, Policy(a, st, ty, Plus(rs, Rule(x, c)), ob)), Line("close")) =
                    At(b, "policy", Blank, Policy(a, st, ty, Plus(rs, Rule(x, c)), ob))
<1> DEFINE q == Policy(a, st, ty, Plus(rs, Rule(x, c)), ob)
           p == At(b, "rule", Blank, q)
<1>1. /\ \A y : SetAction(q, y) = Policy(a, st, ty, Plus(rs, Rule(y, c)), ob)
      /\ \A y : AddCondition(q, y) =
                          Policy(a, st, ty, Plus(rs, Rule(x, Plus(c, y))), ob)
  <2>1. \A y : SetAction(q, y) = Policy(a, st, ty, Plus(rs, Rule(y, c)), ob)
      BY LastRule
  <2>2. \A y : AddCondition(q, y) = Policy(a, st, ty, Plus(rs, Rule(x, Plus(c, y))), ob)
    <3> HIDE DEF q
    <3> SUFFICES ASSUME NEW y
                 PROVE  AddCondition(q, y) = Policy(a, st, ty, Plus(rs, Rule(x, Plus(c, y))), ob)
        OBVIOUS
    <3>1. AddCondition(Policy(a, st, ty, Plus(rs, Rule(x, c)), ob), y)
            = Policy(a, st, ty, Plus(rs, Rule(x, Plus(c, y))), ob)
        BY LastRule
    <3> QED BY <3>1 DEF q
  <2> QED BY <2>1, <2>2
<1> HIDE DEF p, q
<1>2. p.level = "rule" /\ ~p.error /\ Current(p) = q /\ p.conditions = b.conditions
    BY AtFields DEF p
<1>3. /\ \A r : WithPolicy(p, r) = At(b, "rule", Blank, r)
      /\ \A l : MoveTo(p, l) = At(b, l, Blank, q)
    BY AtMoves DEF p
<1>4. \A k : Line(k).kind = k
    BY DEF Line
<1>5. ASSUME NEW e \in {"permit", "deny"}
      PROVE  Scan(p, Line(e)) = At(b, "rule", Blank, Policy(a, st, ty, Plus(rs, Rule(e, c)), ob))
  <2>1. Scan(p, Line(e)) = RuleLine(p, Line(e))
      BY <1>2, <1>4, LevelNames
  <2>2. RuleLine(p, Line(e)) = WithPolicy(p, SetAction(q, e))
      BY <1>2, <1>4 DEF RuleLine, SetAction
  <2> QED BY <1>1, <1>3, <2>1, <2>2
<1>6. ASSUME NEW use
      PROVE  Scan(p, ConditionLine(use)) =
                At(b, "rule", Blank,
                   Policy(a, st, ty, Plus(rs, Rule(x, Plus(c, expandCondition(use, b.conditions)))), ob))
  <2> DEFINE l == ConditionLine(use)
             y == expandCondition(use, b.conditions)
  <2>1. l.kind = "condition" /\ l.use = use
      BY DEF ConditionLine
  <2> HIDE DEF l, y
  <2>2. Scan(p, l) = RuleLine(p, l)
      BY <1>2, <2>1, LevelNames
  <2>3. RuleLine(p, l) = WithPolicy(p, AddCondition(q, y))
      BY <1>2, <2>1 DEF RuleLine, y, AddCondition, Plus
  <2> QED BY <1>1, <1>3, <2>2, <2>3 DEF l, y
<1>7. Scan(p, Line("close")) = At(b, "policy", Blank, q)
  <2>1. Scan(p, Line("close")) = RuleLine(p, Line("close"))
      BY <1>2, <1>4, LevelNames
  <2>2. RuleLine(p, Line("close")) = MoveTo(p, "policy")
      BY <1>4 DEF RuleLine, MoveTo
  <2> QED BY <1>3, <2>1, <2>2
<1> QED BY <1>5, <1>6, <1>7 DEF p, q

(* A rule, without its last line, is kept with its condition expanded.     *)
LEMMA ReadRuleLines ==
    ASSUME NEW b, State(b), ~b.error, NEW t, NEW r, RuleFits(r),
           NEW a, NEW st, NEW ty, NEW rs, IsSequence(rs), NEW ob
    PROVE  /\ IsSequence(RenderRule(t, r))
           /\ Read(At(b, "policy", Blank, Policy(a, st, ty, rs, ob)), RenderRule(t, r)) =
                At(b, "rule", Blank,
                   Policy(a, st, Latest(r.type, ty), Plus(rs, ReadRule(r, b.conditions)), ob))
<1> DEFINE p0 == At(b, "policy", Blank, Policy(a, st, ty, rs, ob))
           p1 == At(b, "rule", Blank, Policy(a, st, Latest(r.type, ty), Plus(rs, Rule(Blank, <<>>)), ob))
           p2 == At(b, "rule", Blank, Policy(a, st, Latest(r.type, ty), Plus(rs, Rule(r.effect, <<>>)), ob))
           p3 == At(b, "rule", Blank,
                    Policy(a, st, Latest(r.type, ty), Plus(rs, ReadRule(r, b.conditions)), ob))
           first == [kind |-> "rule", type |-> r.type]
           uses == [i \in DOMAIN r.conditions |-> ConditionLine(r.conditions[i])]
<1>1. Scan(p0, first) = p1
    BY ScanRule
<1>2. Scan(p1, Line(r.effect)) = p2
    BY RuleLevel DEF RuleFits
<1>3. IsSequence(uses) /\ Len(uses) = Len(r.conditions) /\ Len(r.conditions) \in {0, 1}
  <2>1. /\ Len(r.conditions) \in Nat
        /\ DOMAIN r.conditions = 1..Len(r.conditions)
        /\ Len(r.conditions) <= 1
      BY SequenceIs DEF RuleFits
  <2>2. uses = [i \in 1..Len(r.conditions) |-> uses[i]]
      BY <2>1
  <2> HIDE DEF uses
  <2>3. IsSequence(uses) /\ Len(uses) = Len(r.conditions)
      BY <2>1, <2>2, SequenceIs
  <2> QED BY <2>1, <2>3
<1>4. Read(p2, uses) = p3
  <2>1. IsSequence(r.conditions) /\ DOMAIN r.conditions = 1..Len(r.conditions)
      BY SequenceIs DEF RuleFits
  <2>2. PICK f : /\ f[0] = p2
                 /\ \A k \in 0..(Len(uses) - 1) : f[k + 1] = Scan(f[k], uses[k + 1])
                 /\ Read(p2, uses) = f[Len(uses)]
    <3> HIDE DEF p2, uses
    <3> QED BY <1>3, ReadHas
  <2> DEFINE cs == [c \in DOMAIN r.conditions |-> expandCondition(r.conditions[c], b.conditions)]
  <2>3. CASE Len(r.conditions) = 0
    <3>1. cs = <<>>
      <4>1. DOMAIN cs = {} /\ IsSequence(cs)
        <5>1. DOMAIN r.conditions = 1..0
            BY <2>1, <2>3
        <5>2. cs = [c \in 1..0 |-> cs[c]]
            BY <5>1
        <5> HIDE DEF cs
        <5>3. DOMAIN cs = {}
          <6>1. 1..0 = {}
              OBVIOUS
          <6>2. DOMAIN cs = 1..0
              BY <5>2
          <6> QED BY <6>1, <6>2
        <5>4. IsSequence(cs)
            BY <5>2, SequenceIs
        <5> QED BY <5>3, <5>4
      <4>2. cs \in Seq(ToSet(cs)) /\ Len(cs) = 0
          BY <4>1, SequenceIs DEF IsSequence
      <4> HIDE DEF cs
      <4> QED BY <4>2, EmptySeq
    <3> QED BY <1>3, <2>2, <2>3, <3>1 DEF ReadRule
  <2>4. CASE Len(r.conditions) = 1
    <3>1. f[0 + 1] = Scan(f[0], uses[0 + 1])
        BY <1>3, <2>2, <2>4
    <3>2. uses[1] = ConditionLine(r.conditions[1])
        BY <2>1, <2>4
    <3>3. f[1] = At(b, "rule", Blank, Policy(a, st, Latest(r.type, ty), Plus(rs, Rule(r.effect,
                      Plus(<<>>, expandCondition(r.conditions[1], b.conditions)))), ob))
      <4> DEFINE l == ConditionLine(r.conditions[1])
                 q1 == At(b, "rule", Blank, Policy(a, st, Latest(r.type, ty), Plus(rs, Rule(r.effect,
                      Plus(<<>>, expandCondition(r.conditions[1], b.conditions)))), ob))
      <4>1. \A use :
                Scan(p2, ConditionLine(use)) =
                    At(b, "rule", Blank,
                       Policy(a, st, Latest(r.type, ty), Plus(rs, Rule(r.effect, Plus(<<>>, expandCondition(use, b.conditions)))), ob))
          BY RuleLevel
      <4>2. Scan(p2, l) = q1
          BY <4>1
      <4> HIDE DEF l, q1, p2, uses
      <4> QED BY <2>2, <3>1, <3>2, <4>2 DEF l, q1
    <3>4. cs = Plus(<<>>, expandCondition(r.conditions[1], b.conditions))
      <4> DEFINE one == expandCondition(r.conditions[1], b.conditions)
      <4>1. DOMAIN r.conditions = 1..1
          BY <2>1, <2>4
      <4>2. cs = [c \in 1..1 |-> one]
          BY <4>1
      <4> HIDE DEF one
      <4>3. cs \in Seq({one}) /\ Len(cs) = 1 /\ cs[1] = one
        <5>1. cs \in [1..1 -> {one}]
            BY <4>2
        <5> HIDE DEF cs
        <5> QED BY <4>2, <5>1, SeqDef
      <4> HIDE DEF cs
      <4>4. Plus(<<>>, one) \in Seq({one}) /\ Len(Plus(<<>>, one)) = 1 /\ Plus(<<>>, one)[1] = one
        <5>1. <<>> \in Seq({one}) /\ Len(<<>>) = 0 /\ one \in {one}
            OBVIOUS
        <5> QED BY <5>1, AppendProperties DEF Plus
      <4> QED BY <4>3, <4>4, SeqEqual DEF one
    <3> QED BY <1>3, <2>2, <2>4, <3>3, <3>4 DEF ReadRule
  <2> QED BY <1>3, <2>3, <2>4
<1> HIDE DEF p0, p1, p2, p3, first, uses
<1>5. IsSequence(<<first, Line(r.effect)>>) /\ Read(p0, <<first, Line(r.effect)>>) = p2
  <2>1. <<first>> \o <<Line(r.effect)>> = <<first, Line(r.effect)>>
      BY Pair
  <2>2. IsSequence(<<first>>) /\ IsSequence(<<Line(r.effect)>>)
      BY ReadOne
  <2>3. Read(p0, <<first>> \o <<Line(r.effect)>>) = p2
      BY <1>1, <1>2, <2>2, ReadOne, ReadConcat
  <2> QED BY <2>1, <2>2, <2>3, Joined
<1>6. RenderRule(t, r) = <<first, Line(r.effect)>> \o uses
    BY DEF RenderRule, first, uses, ConditionLine
<1>7. IsSequence(RenderRule(t, r)) /\ Read(p0, RenderRule(t, r)) = p3
    BY <1>3, <1>4, <1>5, <1>6, Joined, ReadConcat
<1> QED BY <1>7 DEF p0, p3

-----------------------------------------------------------------------------
(* Lines without effect, and lines that enter an obligation.               *)

(* Nothing is read behind an error.                                        *)
LEMMA ErrorStays ==
    ASSUME NEW p, p.error, NEW s, IsSequence(s)
    PROVE  Read(p, s) = p
<1>1. PICK f : /\ f[0] = p
               /\ \A k \in 0..(Len(s) - 1) : f[k + 1] = Scan(f[k], s[k + 1])
               /\ Read(p, s) = f[Len(s)]
    BY ReadHas
<1>2. Len(s) \in Nat
    BY SequenceIs
<1>3. \A l : Scan(p, l) = p
    BY DEF Scan
<1> DEFINE S == {k \in 0..Len(s) : f[k] = p}
<1>4. 0 \in S
    BY <1>1, <1>2
<1>5. \A k \in 0..(Len(s) - 1) : k \in S => k + 1 \in S
    BY <1>1, <1>2, <1>3
<1> HIDE DEF S
<1>6. \A k \in 0..Len(s) : k \in S
    BY <1>2, <1>4, <1>5, UpTo
<1> QED BY <1>1, <1>2, <1>6 DEF S

(* Lines that change nothing.                                              *)
LEMMA NothingRead ==
    ASSUME NEW p, NEW s, IsSequence(s), \A k \in 1..Len(s) : Scan(p, s[k]) = p
    PROVE  Read(p, s) = p
<1>1. PICK f : /\ f[0] = p
               /\ \A k \in 0..(Len(s) - 1) : f[k + 1] = Scan(f[k], s[k + 1])
               /\ Read(p, s) = f[Len(s)]
    BY ReadHas
<1>2. Len(s) \in Nat
    BY SequenceIs
<1> DEFINE S == {k \in 0..Len(s) : f[k] = p}
<1>4. 0 \in S
    BY <1>1, <1>2
<1>5. ASSUME NEW k \in 0..(Len(s) - 1), k \in S
      PROVE  k + 1 \in S
  <2>1. k + 1 \in 1..Len(s) /\ k + 1 \in 0..Len(s) /\ f[k] = p
      BY <1>2, <1>5
  <2>2. f[k + 1] = p
      BY <1>1, <2>1
  <2> QED BY <2>1, <2>2
<1> HIDE DEF S
<1>6. \A k \in 0..Len(s) : k \in S
    BY <1>2, <1>4, <1>5, UpTo
<1> QED BY <1>1, <1>2, <1>6 DEF S

(* Three parts read one behind the other.                                  *)
LEMMA ReadThree ==
    ASSUME NEW p, NEW s, NEW t, NEW u, IsSequence(s), IsSequence(t), IsSequence(u)
    PROVE  /\ IsSequence(s \o t \o u)
           /\ Read(p, s \o t \o u) = Read(Read(Read(p, s), t), u)
<1> DEFINE st == s \o t
<1>1. IsSequence(st) /\ Read(p, st) = Read(Read(p, s), t)
    BY Joined, ReadConcat
<1> HIDE DEF st
<1>2. IsSequence(st \o u) /\ Read(p, st \o u) = Read(Read(p, st), u)
    BY <1>1, Joined, ReadConcat
<1> QED BY <1>1, <1>2 DEF st

-----------------------------------------------------------------------------
(* Obligations.                                                            *)

BlockLine(sym) == [kind |-> "obligation block", sym |-> sym]
AssignLine(key) == [kind |-> "assignment", ok |-> TRUE, key |-> key]

Put(ob, sym, key) == [ob EXCEPT ![sym] = @ \cup {key}]

IsFcn(f) == f = [x \in DOMAIN f |-> f[x]]

(* A block adds an entry for its symbol, or keeps the one that is there.   *)
LEMMA OpenedIs ==
    ASSUME NEW ob, IsFcn(ob), NEW sym
    PROVE  /\ IsFcn(Opened(ob, sym))
           /\ DOMAIN Opened(ob, sym) = DOMAIN ob \cup {sym}
           /\ \A s \in DOMAIN ob : Opened(ob, sym)[s] = ob[s]
           /\ sym \notin DOMAIN ob => Opened(ob, sym)[sym] = {}
  BY DEF IsFcn, Opened, Store

(* An assignment adds to the entry of the symbol.                          *)
LEMMA PutIs ==
    ASSUME NEW ob, IsFcn(ob), NEW sym \in DOMAIN ob, NEW key
    PROVE  /\ IsFcn(Put(ob, sym, key))
           /\ DOMAIN Put(ob, sym, key) = DOMAIN ob
           /\ \A s \in DOMAIN ob : s # sym => Put(ob, sym, key)[s] = ob[s]
           /\ Put(ob, sym, key)[sym] = ob[sym] \cup {key}
  BY DEF IsFcn, Put

(* The lines of the obligations of a policy.                               *)
LEMMA ObligationLevels ==
    ASSUME NEW b, State(b), ~b.error,
           NEW a, NEW st, NEW ty, NEW rs, NEW ob
    PROVE  /\ \A sym :
                Scan(At(b, OnPermit, Blank, Policy(a, st, ty, rs, ob)), BlockLine(sym)) =
                    At(b, "obligation", sym, Policy(a, st, ty, rs, Opened(ob, sym)))
           /\ Scan(At(b, OnPermit, Blank, Policy(a, st, ty, rs, ob)), Line("close")) =
                    At(b, "policy", Blank, Policy(a, st, ty, rs, ob))
           /\ \A sym, key :
                Scan(At(b, "obligation", sym, Policy(a, st, ty, rs, ob)), AssignLine(key)) =
                    At(b, "obligation", sym, Policy(a, st, ty, rs, Put(ob, sym, key)))
           /\ \A sym :
                Scan(At(b, "obligation", sym, Policy(a, st, ty, rs, ob)), Line("close")) =
                    At(b, OnPermit, Blank, Policy(a, st, ty, rs, ob))
<1> DEFINE q == Policy(a, st, ty, rs, ob)
           p == At(b, OnPermit, Blank, q)
           o(sym) == At(b, "obligation", sym, q)
<1>1. q.obligations = ob /\ \A x : [q EXCEPT !.obligations = x] = Policy(a, st, ty, rs, x)
    BY QFields
<1> HIDE DEF p, q, o
<1>2. /\ p.level = OnPermit /\ ~p.error /\ Current(p) = q
      /\ \A r : WithPolicy(p, r) = At(b, OnPermit, Blank, r)
      /\ \A l : MoveTo(p, l) = At(b, l, Blank, q)
  <2>1. p.level = OnPermit /\ ~p.error /\ Current(p) = q
      BY AtFields DEF p
  <2>2. \A r : WithPolicy(p, r) = At(b, OnPermit, Blank, r)
      BY AtMoves DEF p
  <2>3. \A l : MoveTo(p, l) = At(b, l, Blank, q)
      BY AtMoves DEF p
  <2> QED BY <2>1, <2>2, <2>3
<1>3. ASSUME NEW sym
      PROVE  /\ o(sym).level = "obligation" /\ ~o(sym).error /\ Current(o(sym)) = q /\ o(sym).sym = sym
             /\ \A r : WithPolicy(o(sym), r) = At(b, "obligation", sym, r)
             /\ MoveSym(o(sym), OnPermit, Blank) = At(b, OnPermit, Blank, q)
  <2>1. o(sym).level = "obligation" /\ ~o(sym).error /\ Current(o(sym)) = q /\ o(sym).sym = sym
      BY AtFields DEF o
  <2>2. \A r : WithPolicy(o(sym), r) = At(b, "obligation", sym, r)
      BY AtMoves DEF o
  <2>3. MoveSym(o(sym), OnPermit, Blank) = At(b, OnPermit, Blank, q)
      BY AtMoves DEF o
  <2> QED BY <2>1, <2>2, <2>3
<1>4. \A k : Line(k).kind = k
    BY DEF Line
<1>5. ASSUME NEW sym
      PROVE  Scan(p, BlockLine(sym)) = At(b, "obligation", sym, Policy(a, st, ty, rs, Opened(ob, sym)))
  <2> DEFINE l == BlockLine(sym)
             w == WithPolicy(p, [Current(p) EXCEPT !.obligations = Opened(q.obligations, sym)])
  <2>1. l.kind = "obligation block" /\ l.sym = sym
      BY DEF BlockLine
  <2> HIDE DEF l
  <2>2. Scan(p, l) = OnPermitLine(p, l)
      BY <1>2, <2>1, LevelNames DEF OnPermit
  <2>3. OnPermitLine(p, l) = MoveSym(w, "obligation", sym)
      BY <1>2, <2>1 DEF OnPermitLine, MoveSym, OnPermit
  <2>4. w = At(b, OnPermit, Blank, Policy(a, st, ty, rs, Opened(ob, sym)))
      BY <1>1, <1>2
  <2> HIDE DEF w
  <2>5. MoveSym(w, "obligation", sym) = At(b, "obligation", sym, Policy(a, st, ty, rs, Opened(ob, sym)))
    <3> DEFINE r == Policy(a, st, ty, rs, Opened(ob, sym))
    <3> HIDE DEF r
    <3>1. MoveSym(At(b, OnPermit, Blank, r), "obligation", sym) = At(b, "obligation", sym, r)
        BY AtMoves
    <3> QED BY <2>4, <3>1 DEF r
  <2> QED BY <2>2, <2>3, <2>5 DEF l
<1>6. Scan(p, Line("close")) = At(b, "policy", Blank, q)
  <2>1. Scan(p, Line("close")) = OnPermitLine(p, Line("close"))
      BY <1>2, <1>4, LevelNames DEF OnPermit
  <2>2. OnPermitLine(p, Line("close")) = MoveTo(p, "policy")
      BY <1>4 DEF OnPermitLine, MoveTo
  <2> QED BY <1>2, <2>1, <2>2
<1>7. ASSUME NEW sym, NEW key
      PROVE  Scan(o(sym), AssignLine(key)) = At(b, "obligation", sym, Policy(a, st, ty, rs, Put(ob, sym, key)))
  <2> DEFINE l == AssignLine(key)
  <2>1. l.kind = "assignment" /\ l.ok = TRUE /\ l.key = key
      BY DEF AssignLine
  <2> HIDE DEF l
  <2>2. Scan(o(sym), l) = ObligationLine(o(sym), l)
      BY <1>3, <2>1, LevelNames
  <2>3. ObligationLine(o(sym), l) = WithPolicy(o(sym), [q EXCEPT !.obligations = Put(q.obligations, sym, key)])
      BY <1>3, <2>1 DEF ObligationLine, Put
  <2>4. [q EXCEPT !.obligations = Put(q.obligations, sym, key)] = Policy(a, st, ty, rs, Put(ob, sym, key))
      BY <1>1
  <2>5. \A r : WithPolicy(o(sym), r) = At(b, "obligation", sym, r)
      BY <1>3
  <2> QED BY <2>2, <2>3, <2>4, <2>5 DEF l
<1>8. ASSUME NEW sym
      PROVE  Scan(o(sym), Line("close")) = At(b, OnPermit, Blank, q)
  <2>1. Scan(o(sym), Line("close")) = ObligationLine(o(sym), Line("close"))
      BY <1>3, <1>4, LevelNames
  <2>2. ObligationLine(o(sym), Line("close")) = MoveSym(o(sym), OnPermit, Blank)
      BY <1>4 DEF ObligationLine, MoveSym, Blank, OnPermit
  <2> QED BY <1>3, <2>1, <2>2
<1> QED BY <1>5, <1>6, <1>7, <1>8 DEF p, q, o

-----------------------------------------------------------------------------
(* The lines of an obligation block.                                       *)

Assigned(params) == [j \in DOMAIN params |-> AssignLine(params[j])]

BlockPart(o) == <<BlockLine(o.sym)>> \o Assigned(o.params) \o <<Line("close")>>

(* The values of a symbol, none if it has no entry.                        *)
ValuesOf(ob, s) == IF s \in DOMAIN ob THEN ob[s] ELSE {}

Filled(ob, ob2, sym, values) ==
    /\ IsFcn(ob2)
    /\ DOMAIN ob2 = DOMAIN ob \cup {sym}
    /\ \A s \in DOMAIN ob2 :
          ob2[s] = ValuesOf(ob, s) \cup (IF s = sym THEN values ELSE {})

FirstOnes(params, k) == {params[j] : j \in 1..k}

(* The lines of the assignments.                                           *)
LEMMA AssignedIs ==
    ASSUME NEW params, IsSequence(params)
    PROVE  /\ IsSequence(Assigned(params))
           /\ Len(Assigned(params)) = Len(params)
           /\ \A k \in 1..Len(params) : Assigned(params)[k] = AssignLine(params[k])
<1>1. Len(params) \in Nat /\ DOMAIN params = 1..Len(params)
    BY SequenceIs
<1> DEFINE s == Assigned(params)
<1>2. s = [i \in 1..Len(params) |-> s[i]] /\ \A k \in 1..Len(params) : s[k] = AssignLine(params[k])
    BY <1>1 DEF Assigned
<1> HIDE DEF s
<1>3. IsSequence(s) /\ Len(s) = Len(params)
    BY <1>1, <1>2, SequenceIs
<1> QED BY <1>2, <1>3 DEF s

(* All assignments of a block are added to the entry of its symbol.        *)
LEMMA AssignsRead ==
    ASSUME NEW b, State(b), ~b.error, NEW params, IsSequence(params),
           NEW a, NEW st, NEW ty, NEW rs, NEW ob, IsFcn(ob), NEW sym \in DOMAIN ob
    PROVE  \E ob2 : /\ Filled(ob, ob2, sym, FirstOnes(params, Len(params)))
                    /\ Read(At(b, "obligation", sym, Policy(a, st, ty, rs, ob)), Assigned(params)) =
                          At(b, "obligation", sym, Policy(a, st, ty, rs, ob2))
<1> DEFINE P(o) == At(b, "obligation", sym, Policy(a, st, ty, rs, o))
           s == Assigned(params)
<1>1. Len(s) = Len(params) /\ Len(s) \in Nat /\ IsSequence(s)
      /\ \A k \in 1..Len(s) : s[k] = AssignLine(params[k])
    BY AssignedIs, SequenceIs
<1>2. \A o, key : Scan(P(o), AssignLine(key)) = P(Put(o, sym, key))
    BY ObligationLevels
<1> HIDE DEF P, s
<1>3. PICK f : /\ f[0] = P(ob)
               /\ \A k \in 0..(Len(s) - 1) : f[k + 1] = Scan(f[k], s[k + 1])
               /\ Read(P(ob), s) = f[Len(s)]
    BY <1>1, ReadHas
<1> DEFINE S == {k \in 0..Len(s) : \E o : /\ Filled(ob, o, sym, FirstOnes(params, k))
                                          /\ f[k] = P(o)}
<1>4. 0 \in S
  <2>1. FirstOnes(params, 0) = {}
      BY DEF FirstOnes
  <2>2. Filled(ob, ob, sym, {})
      BY DEF Filled, ValuesOf
  <2>3. Filled(ob, ob, sym, FirstOnes(params, 0))
      BY <2>1, <2>2
  <2>4. 0 \in 0..Len(s)
      BY <1>1
  <2> QED BY <1>3, <2>3, <2>4
<1>5. ASSUME NEW k \in 0..(Len(s) - 1), k \in S
      PROVE  k + 1 \in S
  <2>1. PICK o : Filled(ob, o, sym, FirstOnes(params, k)) /\ f[k] = P(o)
      BY <1>5
  <2>2. k + 1 \in 1..Len(s) /\ k + 1 \in 0..Len(s)
      BY <1>1
  <2>3. f[k + 1] = P(Put(o, sym, params[k + 1]))
      BY <1>1, <1>2, <1>3, <2>1, <2>2
  <2>4. FirstOnes(params, k + 1) = FirstOnes(params, k) \cup {params[k + 1]}
    <3>1. \A j : j \in 1..(k + 1) <=> j \in 1..k \/ j = k + 1
        OBVIOUS
    <3> QED BY <3>1 DEF FirstOnes
  <2>5. Filled(ob, Put(o, sym, params[k + 1]), sym, FirstOnes(params, k + 1))
    <3>1. IsFcn(o) /\ sym \in DOMAIN o
        BY <2>1 DEF Filled
    <3>2. /\ IsFcn(Put(o, sym, params[k + 1]))
          /\ DOMAIN Put(o, sym, params[k + 1]) = DOMAIN o
          /\ \A x \in DOMAIN o : x # sym => Put(o, sym, params[k + 1])[x] = o[x]
          /\ Put(o, sym, params[k + 1])[sym] = o[sym] \cup {params[k + 1]}
        BY <3>1, PutIs
    <3> DEFINE n == Put(o, sym, params[k + 1])
               old == FirstOnes(params, k)
               new == FirstOnes(params, k + 1)
    <3>3. new = old \cup {params[k + 1]}
        BY <2>4
    <3> HIDE DEF n, old, new
    <3>4. Filled(ob, n, sym, new)
        BY <2>1, <3>1, <3>2, <3>3 DEF Filled, ValuesOf, n, old
    <3> QED BY <3>4 DEF n, new
  <2> QED BY <2>2, <2>3, <2>5
<1> HIDE DEF S
<1>6. \A k \in 0..Len(s) : k \in S
    BY <1>1, <1>4, <1>5, UpTo
<1>7. Len(s) \in S
    BY <1>1, <1>6
<1>8. \E o : Filled(ob, o, sym, FirstOnes(params, Len(params))) /\ Read(P(ob), s) = P(o)
    BY <1>1, <1>3, <1>7 DEF S
<1> QED BY <1>8 DEF P, s

(* A block adds its parameters to the entry of its symbol.                 *)
LEMMA BlockRead ==
    ASSUME NEW b, State(b), ~b.error, NEW o, IsSequence(o.params),
           NEW a, NEW st, NEW ty, NEW rs, NEW ob, IsFcn(ob)
    PROVE  /\ IsSequence(BlockPart(o))
           /\ \E ob2 : /\ Filled(ob, ob2, o.sym, ToSet(o.params))
                       /\ Read(At(b, OnPermit, Blank, Policy(a, st, ty, rs, ob)), BlockPart(o)) =
                             At(b, OnPermit, Blank, Policy(a, st, ty, rs, ob2))
<1> DEFINE p == At(b, OnPermit, Blank, Policy(a, st, ty, rs, ob))
           ob1 == Opened(ob, o.sym)
           p1 == At(b, "obligation", o.sym, Policy(a, st, ty, rs, ob1))
           first == <<BlockLine(o.sym)>>
           last == <<Line("close")>>
           s == Assigned(o.params)
<1>1. Scan(p, BlockLine(o.sym)) = p1
    BY ObligationLevels
<1>2. /\ IsFcn(ob1)
      /\ DOMAIN ob1 = DOMAIN ob \cup {o.sym}
      /\ \A x \in DOMAIN ob1 : ob1[x] = ValuesOf(ob, x)
  <2>1. /\ IsFcn(Opened(ob, o.sym))
        /\ DOMAIN Opened(ob, o.sym) = DOMAIN ob \cup {o.sym}
        /\ \A x \in DOMAIN ob : Opened(ob, o.sym)[x] = ob[x]
        /\ o.sym \notin DOMAIN ob => Opened(ob, o.sym)[o.sym] = {}
      BY OpenedIs
  <2> HIDE DEF ob1
  <2> QED BY <2>1 DEF ValuesOf, ob1
<1> HIDE DEF ob1
<1>3. PICK ob2 : /\ Filled(ob1, ob2, o.sym, FirstOnes(o.params, Len(o.params)))
                 /\ Read(p1, s) = At(b, "obligation", o.sym, Policy(a, st, ty, rs, ob2))
  <2>1. o.sym \in DOMAIN ob1 /\ IsFcn(ob1)
      BY <1>2
  <2> DEFINE lines == Read(p1, s)
             new == FirstOnes(o.params, Len(o.params))
  <2>2. lines = Read(At(b, "obligation", o.sym, Policy(a, st, ty, rs, ob1)), Assigned(o.params))
      OBVIOUS
  <2>3. new = FirstOnes(o.params, Len(o.params))
      OBVIOUS
  <2> HIDE DEF lines, new
  <2>4. \E ob2 : /\ Filled(ob1, ob2, o.sym, new)
                 /\ lines = At(b, "obligation", o.sym, Policy(a, st, ty, rs, ob2))
      BY <2>1, <2>2, <2>3, AssignsRead
  <2> QED BY <2>4 DEF lines, new
<1>4. Scan(At(b, "obligation", o.sym, Policy(a, st, ty, rs, ob2)), Line("close")) =
        At(b, OnPermit, Blank, Policy(a, st, ty, rs, ob2))
    BY ObligationLevels
<1>5. FirstOnes(o.params, Len(o.params)) = ToSet(o.params)
    BY SequenceIs DEF FirstOnes, ToSet
<1>6. Filled(ob, ob2, o.sym, ToSet(o.params))
    BY <1>2, <1>3, <1>5 DEF Filled, ValuesOf
<1>7. IsSequence(first) /\ IsSequence(last) /\ IsSequence(s)
    BY ReadOne, AssignedIs
<1>8. Read(p, first) = p1
    BY <1>1, ReadOne
<1>9. Read(Read(p1, s), last) = At(b, OnPermit, Blank, Policy(a, st, ty, rs, ob2))
    BY <1>3, <1>4, ReadOne
<1>10. BlockPart(o) = first \o s \o last
    BY DEF BlockPart
<1> HIDE DEF p, p1, first, last, s
<1>11. IsSequence(BlockPart(o)) /\ Read(p, BlockPart(o)) = Read(Read(Read(p, first), s), last)
    BY <1>7, <1>10, ReadThree
<1> QED BY <1>6, <1>8, <1>9, <1>11 DEF p

-----------------------------------------------------------------------------
(* All obligations of a policy.                                            *)

ObligationsFit(t) ==
    IsSequence(t.obligations) /\ \A i \in DOMAIN t.obligations : IsSequence(t.obligations[i].params)

Collected(t, n, ob) ==
    /\ IsFcn(ob)
    /\ DOMAIN ob = {t.obligations[i].sym : i \in 1..n}
    /\ \A s \in DOMAIN ob :
          ob[s] = UNION {ToSet(t.obligations[i].params) :
                            i \in {j \in 1..n : t.obligations[j].sym = s}}

(* What the blocks have added, one block after the other.                  *)
LEMMA Collects ==
    ASSUME NEW t, NEW k \in Nat, NEW ob, NEW ob2, Collected(t, k, ob),
           Filled(ob, ob2, t.obligations[k + 1].sym, ToSet(t.obligations[k + 1].params))
    PROVE  Collected(t, k + 1, ob2)
<1> DEFINE sym == t.obligations[k + 1].sym
           U(n, s) == UNION {ToSet(t.obligations[i].params) :
                               i \in {j \in 1..n : t.obligations[j].sym = s}}
           new == ToSet(t.obligations[k + 1].params)
<1>1. \A j : j \in 1..(k + 1) <=> j \in 1..k \/ j = k + 1
    OBVIOUS
<1>2. {t.obligations[i].sym : i \in 1..(k + 1)} = {t.obligations[i].sym : i \in 1..k} \cup {sym}
    BY <1>1
<1>3. \A s : U(k + 1, s) = U(k, s) \cup (IF s = sym THEN new ELSE {})
  <2> SUFFICES ASSUME NEW s
               PROVE  U(k + 1, s) = U(k, s) \cup (IF s = sym THEN new ELSE {})
      OBVIOUS
  <2>1. {j \in 1..(k + 1) : t.obligations[j].sym = s} =
          {j \in 1..k : t.obligations[j].sym = s} \cup (IF s = sym THEN {k + 1} ELSE {})
      BY <1>1
  <2>2. \A x : x \in U(k + 1, s) <=>
          \E j \in {i \in 1..(k + 1) : t.obligations[i].sym = s} : x \in ToSet(t.obligations[j].params)
      OBVIOUS
  <2>3. \A x : x \in U(k, s) <=>
          \E j \in {i \in 1..k : t.obligations[i].sym = s} : x \in ToSet(t.obligations[j].params)
      OBVIOUS
  <2> QED BY <2>1, <2>2, <2>3
<1>4. \A s : s \notin DOMAIN ob => U(k, s) = {}
    BY DEF Collected
<1>5. \A s \in DOMAIN ob : ob[s] = U(k, s)
    BY DEF Collected
<1>6. \A s : ValuesOf(ob, s) = U(k, s)
    BY <1>4, <1>5 DEF ValuesOf
<1>7. /\ IsFcn(ob2)
      /\ DOMAIN ob2 = DOMAIN ob \cup {sym}
      /\ \A s \in DOMAIN ob2 : ob2[s] = ValuesOf(ob, s) \cup (IF s = sym THEN new ELSE {})
    BY DEF Filled
<1>8. \A s \in DOMAIN ob2 : ob2[s] = U(k + 1, s)
    BY <1>3, <1>6, <1>7
<1> QED BY <1>2, <1>7, <1>8 DEF Collected

BlocksOf(t) == [i \in DOMAIN t.obligations |-> BlockPart(t.obligations[i])]

(* The lines of the obligations, block by block.                           *)
LEMMA RenderedObligations ==
    ASSUME NEW t, ObligationsFit(t), t.obligations # <<>>
    PROVE  /\ Parts(BlocksOf(t))
           /\ Len(BlocksOf(t)) = Len(t.obligations)
           /\ Len(t.obligations) \in Nat \ {0}
           /\ \A k \in 1..Len(t.obligations) :
                /\ BlocksOf(t)[k] = BlockPart(t.obligations[k])
                /\ IsSequence(t.obligations[k].params)
           /\ RenderObligations(t) = <<Line(OnPermit)>> \o FlattenSeq(BlocksOf(t)) \o <<Line("close")>>
<1> DEFINE ss == BlocksOf(t)
           n == Len(t.obligations)
<1>1. /\ n \in Nat
      /\ DOMAIN t.obligations = 1..n
      /\ \A k \in 1..n : IsSequence(t.obligations[k].params)
    BY SequenceIs DEF ObligationsFit
<1>2. n # 0
    BY EmptySeq DEF ObligationsFit, IsSequence
<1>3. ss = [i \in 1..n |-> ss[i]] /\ \A k \in 1..n : ss[k] = BlockPart(t.obligations[k])
    BY <1>1 DEF BlocksOf
<1>4. RenderObligations(t) = <<Line(OnPermit)>> \o FlattenSeq(ss) \o <<Line("close")>>
    BY DEF RenderObligations, BlocksOf, BlockPart, Assigned, AssignLine, BlockLine, OnPermit
<1> HIDE DEF ss
<1>5. IsSequence(ss) /\ Len(ss) = n
    BY <1>1, <1>3, SequenceIs
<1>6. \A k \in 1..n : IsSequence(BlockPart(t.obligations[k]))
  <2> SUFFICES ASSUME NEW k \in 1..n
               PROVE  IsSequence(BlockPart(t.obligations[k]))
      OBVIOUS
  <2>1. IsSequence(Assigned(t.obligations[k].params))
      BY <1>1, AssignedIs
  <2>2. IsSequence(<<BlockLine(t.obligations[k].sym)>>) /\ IsSequence(<<Line("close")>>)
      BY ReadOne
  <2> QED BY <2>1, <2>2, ReadThree DEF BlockPart
<1>7. Parts(ss)
    BY <1>3, <1>5, <1>6 DEF Parts
<1> QED BY <1>1, <1>2, <1>3, <1>4, <1>5, <1>7 DEF ss

(* Obligations behind the rules are all kept, those of a symbol as one.    *)
LEMMA ObligationsRead ==
    ASSUME NEW b, State(b), ~b.error, NEW t, ObligationsFit(t), t.obligations # <<>>,
           NEW a, NEW st, NEW ty, NEW rs
    PROVE  /\ IsSequence(RenderObligations(t))
           /\ \E ob : /\ Collected(t, Len(t.obligations), ob)
                      /\ Read(At(b, "policy", Blank, Policy(a, st, ty, rs, <<>>)), RenderObligations(t)) =
                            At(b, "policy", Blank, Policy(a, st, ty, rs, ob))
<1> DEFINE p == At(b, "policy", Blank, Policy(a, st, ty, rs, <<>>))
           P(ob) == At(b, OnPermit, Blank, Policy(a, st, ty, rs, ob))
           ss == BlocksOf(t)
           n == Len(t.obligations)
           first == <<Line(OnPermit)>>
           last == <<Line("close")>>
<1>1. /\ Parts(ss) /\ Len(ss) = n /\ n \in Nat
      /\ \A k \in 1..n : ss[k] = BlockPart(t.obligations[k]) /\ IsSequence(t.obligations[k].params)
      /\ RenderObligations(t) = first \o FlattenSeq(ss) \o last
    BY RenderedObligations
<1>2. Read(p, first) = P(<<>>)
    BY PolicyLevel, ReadOne
<1>3. ASSUME NEW ob, IsFcn(ob), NEW k \in 1..n
      PROVE  \E ob2 : /\ Filled(ob, ob2, t.obligations[k].sym, ToSet(t.obligations[k].params))
                      /\ Read(P(ob), ss[k]) = P(ob2)
  <2> DEFINE o == t.obligations[k]
  <2>1. IsSequence(o.params) /\ ss[k] = BlockPart(o)
      BY <1>1, <1>3
  <2> HIDE DEF o
  <2> DEFINE lines == Read(P(ob), BlockPart(o))
  <2>4. lines = Read(At(b, OnPermit, Blank, Policy(a, st, ty, rs, ob)), BlockPart(o))
      OBVIOUS
  <2> HIDE DEF lines
  <2>5. \E ob2 : /\ Filled(ob, ob2, o.sym, ToSet(o.params))
                 /\ lines = At(b, OnPermit, Blank, Policy(a, st, ty, rs, ob2))
      BY <1>3, <2>1, <2>4, BlockRead
  <2>2. \E ob2 : /\ Filled(ob, ob2, o.sym, ToSet(o.params))
                 /\ Read(P(ob), BlockPart(o)) = P(ob2)
      BY <2>5 DEF lines
  <2> HIDE DEF ss, P
  <2>3. \E ob2 : /\ Filled(ob, ob2, o.sym, ToSet(o.params))
                 /\ Read(P(ob), ss[k]) = P(ob2)
      BY <2>1, <2>2
  <2> QED BY <2>3 DEF o
<1>4. ASSUME NEW ob
      PROVE  Read(P(ob), last) = At(b, "policy", Blank, Policy(a, st, ty, rs, ob))
    BY ObligationLevels, ReadOne
<1>5. IsSequence(first) /\ IsSequence(last)
    BY ReadOne
<1> HIDE DEF p, P, ss, n, first, last
<1>6. PICK f : /\ f[0] = P(<<>>)
               /\ \A k \in 0..(Len(ss) - 1) : f[k + 1] = Read(f[k], ss[k + 1])
               /\ Read(P(<<>>), FlattenSeq(ss)) = f[Len(ss)]
  <2> DEFINE p0 == P(<<>>)
  <2> HIDE DEF p0
  <2> DEFINE all == Read(p0, FlattenSeq(ss))
  <2>2. all = Read(p0, FlattenSeq(ss))
      OBVIOUS
  <2> HIDE DEF all
  <2>3. \E f : /\ f[0] = p0
               /\ \A k \in 0..(Len(ss) - 1) : f[k + 1] = Read(f[k], ss[k + 1])
               /\ all = f[Len(ss)]
      BY <1>1, <2>2, ReadParts
  <2>1. \E f : /\ f[0] = p0
               /\ \A k \in 0..(Len(ss) - 1) : f[k + 1] = Read(f[k], ss[k + 1])
               /\ Read(p0, FlattenSeq(ss)) = f[Len(ss)]
      BY <2>2, <2>3
  <2> QED BY <2>1 DEF p0
<1>7. IsSequence(FlattenSeq(ss))
    BY <1>1, ReadParts
<1> DEFINE S == {k \in 0..n : \E ob : Collected(t, k, ob) /\ f[k] = P(ob)}
<1>8. 0 \in S
  <2>1. Collected(t, 0, <<>>)
      BY DEF Collected, IsFcn
  <2> QED BY <1>1, <1>6, <2>1
<1>9. ASSUME NEW k \in 0..(n - 1), k \in S
      PROVE  k + 1 \in S
  <2>1. PICK ob : Collected(t, k, ob) /\ f[k] = P(ob)
      BY <1>9
  <2>2. k + 1 \in 1..n /\ k + 1 \in 0..n /\ k \in 0..(Len(ss) - 1) /\ k \in Nat
      BY <1>1
  <2>3. PICK ob2 : /\ Filled(ob, ob2, t.obligations[k + 1].sym, ToSet(t.obligations[k + 1].params))
                   /\ Read(P(ob), ss[k + 1]) = P(ob2)
      BY <1>3, <2>1, <2>2 DEF Collected
  <2>4. Collected(t, k + 1, ob2)
      BY <2>1, <2>2, <2>3, Collects
  <2>5. f[k + 1] = P(ob2)
      BY <1>6, <2>1, <2>2, <2>3
  <2> QED BY <2>2, <2>4, <2>5
<1> HIDE DEF S
<1>10. \A k \in 0..n : k \in S
    BY <1>1, <1>8, <1>9, UpTo
<1>11. PICK ob : Collected(t, n, ob) /\ f[n] = P(ob)
  <2>1. n \in S
      BY <1>1, <1>10
  <2> QED BY <2>1 DEF S
<1>12. IsSequence(RenderObligations(t))
       /\ Read(p, RenderObligations(t)) = Read(Read(Read(p, first), FlattenSeq(ss)), last)
    BY <1>1, <1>5, <1>7, ReadThree
<1>13. Read(p, RenderObligations(t)) = At(b, "policy", Blank, Policy(a, st, ty, rs, ob))
    BY <1>1, <1>2, <1>4, <1>6, <1>11, <1>12
<1> QED BY <1>11, <1>12, <1>13 DEF n, p

-----------------------------------------------------------------------------
(* The rules of a policy.                                                  *)

Inside(t) == IF t.place = "rule" THEN RenderObligations(t) ELSE <<>>

RulePart(t, i) == RenderRule(t, t.rules[i]) \o Inside(t) \o <<Line("close")>>
RulesOf(t) == [i \in DOMAIN t.rules |-> RulePart(t, i)]

RulesFit(t) == IsSequence(t.rules) /\ \A i \in DOMAIN t.rules : RuleFits(t.rules[i])

ReadRules(t, n, named, rs) ==
    IsSequence(rs) /\ Len(rs) = n /\ \A i \in 1..n : rs[i] = ReadRule(t.rules[i], named)

(* One more rule.                                                          *)
LEMMA ReadRulesMore ==
    ASSUME NEW t, NEW n \in Nat, NEW named, NEW rs, ReadRules(t, n, named, rs)
    PROVE  ReadRules(t, n + 1, named, Plus(rs, ReadRule(t.rules[n + 1], named)))
<1> DEFINE r == ReadRule(t.rules[n + 1], named)
           more == Plus(rs, r)
<1>1. IsSequence(rs) /\ Len(rs) = n /\ \A i \in 1..n : rs[i] = ReadRule(t.rules[i], named)
    BY DEF ReadRules
<1> HIDE DEF r
<1>2. /\ IsSequence(more)
      /\ Len(more) = n + 1
      /\ more[n + 1] = r
      /\ \A i \in 1..n : more[i] = rs[i]
    BY <1>1, LastOf
<1> HIDE DEF more
<1>3. \A i \in 1..(n + 1) : i \in 1..n \/ i = n + 1
    OBVIOUS
<1>4. \A i \in 1..(n + 1) : more[i] = ReadRule(t.rules[i], named)
    BY <1>1, <1>2, <1>3 DEF r
<1> QED BY <1>2, <1>4 DEF ReadRules, more, r

(* A rule without obligations in it is added to its policy.                *)
LEMMA RuleRead ==
    ASSUME NEW b, State(b), ~b.error, NEW t, NEW r, RuleFits(r),
           NEW a, NEW st, NEW ty, NEW rs, IsSequence(rs), NEW ob
    PROVE  Read(At(b, "policy", Blank, Policy(a, st, ty, rs, ob)), RenderRule(t, r) \o <<>> \o <<Line("close")>>) =
              At(b, "policy", Blank,
                 Policy(a, st, Latest(r.type, ty), Plus(rs, ReadRule(r, b.conditions)), ob))
<1> DEFINE c == [i \in DOMAIN r.conditions |-> expandCondition(r.conditions[i], b.conditions)]
           p == At(b, "policy", Blank, Policy(a, st, ty, rs, ob))
           q == Policy(a, st, Latest(r.type, ty), Plus(rs, Rule(r.effect, c)), ob)
           lines == RenderRule(t, r)
           last == <<Line("close")>>
<1>1. ReadRule(r, b.conditions) = Rule(r.effect, c)
    BY DEF ReadRule
<1> HIDE DEF c
<1>2. IsSequence(lines) /\ Read(p, lines) = At(b, "rule", Blank, q)
    BY <1>1, ReadRuleLines
<1>3. Read(At(b, "rule", Blank, q), last) = At(b, "policy", Blank, q)
    BY RuleLevel, ReadOne
<1>4. IsSequence(last) /\ IsSequence(<<>>)
    BY ReadOne, ReadNone
<1> HIDE DEF p, q, lines, last
<1> DEFINE none == <<>>
<1>5. IsSequence(none) /\ \A x : Read(x, none) = x
    BY ReadNone
<1> HIDE DEF none
<1>6. Read(p, lines \o none \o last) = Read(Read(Read(p, lines), none), last)
    BY <1>2, <1>4, <1>5, ReadThree
<1>7. Read(p, lines \o none \o last) = At(b, "policy", Blank, q)
    BY <1>2, <1>3, <1>5, <1>6
<1> QED BY <1>1, <1>7 DEF p, q, lines, last, none

(* The lines of the rules, rule by rule.                                   *)
LEMMA RulePartsAre ==
    ASSUME NEW t, RulesFit(t), IsSequence(Inside(t))
    PROVE  /\ Parts(RulesOf(t))
           /\ Len(RulesOf(t)) = Len(t.rules)
           /\ Len(t.rules) \in Nat
           /\ \A k \in 1..Len(t.rules) :
                /\ RulesOf(t)[k] = RulePart(t, k)
                /\ RuleFits(t.rules[k])
                /\ IsSequence(RenderRule(t, t.rules[k]))
<1> DEFINE ss == RulesOf(t)
           n == Len(t.rules)
<1>1. /\ n \in Nat
      /\ DOMAIN t.rules = 1..n
      /\ \A k \in 1..n : RuleFits(t.rules[k])
    BY SequenceIs DEF RulesFit
<1>2. ss = [i \in 1..n |-> ss[i]] /\ \A k \in 1..n : ss[k] = RulePart(t, k)
    BY <1>1 DEF RulesOf
<1> HIDE DEF ss
<1>3. IsSequence(ss) /\ Len(ss) = n
    BY <1>1, <1>2, SequenceIs
<1>4. \A k \in 1..n : IsSequence(RenderRule(t, t.rules[k])) /\ IsSequence(RulePart(t, k))
  <2> SUFFICES ASSUME NEW k \in 1..n
               PROVE  IsSequence(RenderRule(t, t.rules[k])) /\ IsSequence(RulePart(t, k))
      OBVIOUS
  <2>1. IsSequence(RenderRule(t, t.rules[k]))
    <3>1. IsSequence([i \in DOMAIN t.rules[k].conditions |->
                         [kind |-> "condition", use |-> t.rules[k].conditions[i]]])
      <4> DEFINE cs == t.rules[k].conditions
                 s == [i \in DOMAIN cs |-> [kind |-> "condition", use |-> cs[i]]]
      <4>1. Len(cs) \in Nat /\ DOMAIN cs = 1..Len(cs)
          BY <1>1, SequenceIs DEF RuleFits
      <4> HIDE DEF cs
      <4>2. s = [i \in 1..Len(cs) |-> s[i]]
          BY <4>1
      <4> HIDE DEF s
      <4>3. IsSequence(s)
          BY <4>1, <4>2, SequenceIs
      <4> QED BY <4>3 DEF s, cs
    <3> DEFINE first == [kind |-> "rule", type |-> t.rules[k].type]
               second == Line(t.rules[k].effect)
    <3> HIDE DEF first, second
    <3>2. IsSequence(<<first, second>>)
      <4>1. <<first>> \o <<second>> = <<first, second>>
          BY Pair
      <4>2. IsSequence(<<first>>) /\ IsSequence(<<second>>)
          BY ReadOne
      <4>3. IsSequence(<<first>> \o <<second>>)
          BY <4>2, Joined
      <4> QED BY <4>1, <4>3
    <3>3. IsSequence(<<first, second>> \o [i \in DOMAIN t.rules[k].conditions |->
                         [kind |-> "condition", use |-> t.rules[k].conditions[i]]])
        BY <3>1, <3>2, Joined
    <3> QED BY <3>3 DEF RenderRule, first, second
  <2>2. IsSequence(<<Line("close")>>)
      BY ReadOne
  <2> QED BY <2>1, <2>2, ReadThree DEF RulePart
<1>5. Parts(ss)
    BY <1>2, <1>3, <1>4 DEF Parts
<1> QED BY <1>1, <1>2, <1>3, <1>4, <1>5 DEF ss

(* Rules without obligations in them are all kept.                         *)
LEMMA RulesRead ==
    ASSUME NEW b, State(b), ~b.error, NEW t, RulesFit(t), Inside(t) = <<>>,
           NEW a, NEW st
    PROVE  /\ IsSequence(FlattenSeq(RulesOf(t)))
           /\ \E rs, ty :
                /\ ReadRules(t, Len(t.rules), b.conditions, rs)
                /\ Len(t.rules) = 1 => ty = t.rules[1].type
                /\ Read(At(b, "policy", Blank, Policy(a, st, Blank, <<>>, <<>>)), FlattenSeq(RulesOf(t))) =
                      At(b, "policy", Blank, Policy(a, st, ty, rs, <<>>))
<1> DEFINE ss == RulesOf(t)
           n == Len(t.rules)
           named == b.conditions
           P(rs, ty) == At(b, "policy", Blank, Policy(a, st, ty, rs, <<>>))
           p0 == P(<<>>, Blank)
<1>1. /\ Parts(ss) /\ Len(ss) = n /\ n \in Nat
      /\ \A k \in 1..n : ss[k] = RulePart(t, k) /\ RuleFits(t.rules[k])
    BY RulePartsAre, ReadNone
<1>2. ASSUME NEW rs, IsSequence(rs), NEW ty, NEW k \in 1..n
      PROVE  Read(P(rs, ty), ss[k]) =
                P(Plus(rs, ReadRule(t.rules[k], named)), Latest(t.rules[k].type, ty))
  <2>1. ss[k] = RenderRule(t, t.rules[k]) \o <<>> \o <<Line("close")>>
      BY <1>1 DEF RulePart
  <2>2. RuleFits(t.rules[k])
      BY <1>1
  <2> DEFINE r == t.rules[k]
             lines == RenderRule(t, r) \o <<>> \o <<Line("close")>>
             to == Read(At(b, "policy", Blank, Policy(a, st, ty, rs, <<>>)), lines)
  <2> HIDE DEF r
  <2>3. to = At(b, "policy", Blank,
                 Policy(a, st, Latest(r.type, ty), Plus(rs, ReadRule(r, b.conditions)), <<>>))
    <3>1. RuleFits(r)
        BY <2>2 DEF r
    <3> QED BY <1>2, <3>1, RuleRead
  <2> HIDE DEF ss
  <2> QED BY <2>1, <2>3 DEF r
<1> HIDE DEF ss, n, P, p0, named
<1>3. PICK f : /\ f[0] = p0
               /\ \A k \in 0..(Len(ss) - 1) : f[k + 1] = Read(f[k], ss[k + 1])
               /\ Read(p0, FlattenSeq(ss)) = f[Len(ss)]
  <2> DEFINE all == Read(p0, FlattenSeq(ss))
  <2>1. all = Read(p0, FlattenSeq(ss))
      OBVIOUS
  <2> HIDE DEF all
  <2>2. \E f : /\ f[0] = p0
               /\ \A k \in 0..(Len(ss) - 1) : f[k + 1] = Read(f[k], ss[k + 1])
               /\ all = f[Len(ss)]
      BY <1>1, <2>1, ReadParts
  <2> QED BY <2>1, <2>2
<1>4. IsSequence(FlattenSeq(ss))
    BY <1>1, ReadParts
<1> DEFINE Holds(k, rs, ty) == /\ ReadRules(t, k, named, rs)
                               /\ k = 0 => ty = Blank
                               /\ k = 1 => ty = t.rules[1].type
                               /\ f[k] = P(rs, ty)
           S == {k \in 0..n : \E rs, ty : Holds(k, rs, ty)}
<1>5. 0 \in S
  <2>1. ReadRules(t, 0, named, <<>>)
    <3>1. IsSequence(<<>>) /\ Len(<<>>) = 0
        BY ReadNone
    <3> QED BY <3>1 DEF ReadRules
  <2>2. Holds(0, <<>>, Blank)
      BY <1>3, <2>1 DEF p0
  <2> HIDE DEF Holds
  <2> QED BY <1>1, <2>2
<1>6. ASSUME NEW k \in 0..(n - 1), k \in S
      PROVE  k + 1 \in S
  <2>1. PICK rs, ty : Holds(k, rs, ty)
      BY <1>6
  <2>2. k + 1 \in 1..n /\ k + 1 \in 0..n /\ k \in 0..(Len(ss) - 1) /\ k \in Nat
      BY <1>1
  <2> DEFINE rs2 == Plus(rs, ReadRule(t.rules[k + 1], named))
             ty2 == Latest(t.rules[k + 1].type, ty)
  <2>3. f[k + 1] = P(rs2, ty2)
    <3>1. f[k] = P(rs, ty) /\ IsSequence(rs)
        BY <2>1 DEF ReadRules
    <3>2. Read(P(rs, ty), ss[k + 1]) = P(rs2, ty2)
        BY <1>2, <2>2, <3>1
    <3> HIDE DEF rs2, ty2
    <3> QED BY <1>3, <2>2, <3>1, <3>2
  <2>4. ReadRules(t, k + 1, named, rs2)
      BY <2>1, <2>2, ReadRulesMore
  <2>5. k + 1 = 1 => ty2 = t.rules[1].type
      BY <2>1, <2>2 DEF Latest
  <2> HIDE DEF rs2, ty2
  <2>6. Holds(k + 1, rs2, ty2)
      BY <2>2, <2>3, <2>4, <2>5
  <2> HIDE DEF Holds
  <2> QED BY <2>2, <2>6
<1> HIDE DEF S
<1>7. \A k \in 0..n : k \in S
    BY <1>1, <1>5, <1>6, UpTo
<1>8. PICK rs, ty : Holds(n, rs, ty)
  <2>1. n \in S
      BY <1>1, <1>7
  <2> HIDE DEF Holds
  <2> QED BY <2>1 DEF S
<1>9. Read(p0, FlattenSeq(ss)) = P(rs, ty)
    BY <1>1, <1>3, <1>8
<1>10. ReadRules(t, n, named, rs) /\ (n = 1 => ty = t.rules[1].type)
    BY <1>8
<1> QED BY <1>4, <1>9, <1>10 DEF ss, n, P, p0, named

-----------------------------------------------------------------------------
(* Obligations at the end of a rule: their blocks close the rule and       *)
(* then the policy, so that none of them is kept.                          *)

ObligationBlock == "obligation block"
RuleFirst(type) == [kind |-> "rule", type |-> type]

(* The kinds of the lines of a rule.                                       *)
LEMMA KindsOf ==
    /\ \A k : Line(k).kind = k
    /\ \A sym : BlockLine(sym).kind = ObligationBlock
    /\ \A key : AssignLine(key).kind = "assignment"
    /\ \A use : ConditionLine(use).kind = "condition"
    /\ \A type : RuleFirst(type).kind = "rule"
    /\ ObligationBlock # "policy"
    /\ OnPermit # "policy"
  BY DEF Line, BlockLine, AssignLine, ConditionLine, RuleFirst, ObligationBlock, OnPermit

(* Lines that are not looked for where they stand.                         *)
LEMMA QuietLines ==
    ASSUME NEW b, State(b), ~b.error, NEW q, NEW l
    PROVE  /\ l.kind \in {OnPermit, ObligationBlock, "assignment"} =>
                 Scan(At(b, "rule", Blank, q), l) = At(b, "rule", Blank, q)
           /\ l.kind \in {ObligationBlock, "assignment"} =>
                 Scan(At(b, "policy", Blank, q), l) = At(b, "policy", Blank, q)
           /\ l.kind \in {OnPermit, "assignment", "close", "permit", "deny", "rule", "condition"} =>
                 Scan(At(b, "namespace", Blank, q), l) = At(b, "namespace", Blank, q)
           /\ l.kind = ObligationBlock => Scan(At(b, "namespace", Blank, q), l).error
<1> DEFINE p1 == At(b, "rule", Blank, q)
           p2 == At(b, "policy", Blank, q)
           p3 == At(b, "namespace", Blank, q)
<1>1. /\ p1.level = "rule" /\ ~p1.error
      /\ p2.level = "policy" /\ ~p2.error
      /\ p3.level = "namespace" /\ ~p3.error /\ State(p3)
    BY AtFields
<1> HIDE DEF p1, p2, p3
<1>2. l.kind \in {OnPermit, ObligationBlock, "assignment"} => Scan(p1, l) = p1
  <2> SUFFICES ASSUME l.kind \in {OnPermit, ObligationBlock, "assignment"}
               PROVE  Scan(p1, l) = p1
      OBVIOUS
  <2>1. l.kind # "policy"
      BY KindsOf
  <2>2. Scan(p1, l) = RuleLine(p1, l)
      BY <1>1, <2>1, LevelNames
  <2> QED BY <2>2 DEF RuleLine, OnPermit, ObligationBlock
<1>3. l.kind \in {ObligationBlock, "assignment"} => Scan(p2, l) = p2
  <2> SUFFICES ASSUME l.kind \in {ObligationBlock, "assignment"}
               PROVE  Scan(p2, l) = p2
      OBVIOUS
  <2>1. l.kind # "policy"
      BY KindsOf
  <2>2. Scan(p2, l) = PolicyLine(p2, l)
      BY <1>1, <2>1, LevelNames
  <2> QED BY <2>2 DEF PolicyLine, ObligationBlock
<1>4. l.kind \in {OnPermit, "assignment", "close", "permit", "deny", "rule", "condition"} =>
        Scan(p3, l) = p3
  <2> SUFFICES ASSUME l.kind \in {OnPermit, "assignment", "close", "permit", "deny", "rule", "condition"}
               PROVE  Scan(p3, l) = p3
      OBVIOUS
  <2>1. l.kind # "policy"
      BY KindsOf
  <2>2. Scan(p3, l) = NamespaceLine(p3, l)
      BY <1>1, <2>1, LevelNames
  <2> QED BY <2>2 DEF NamespaceLine, OnPermit
<1>5. l.kind = ObligationBlock => Scan(p3, l).error
  <2> SUFFICES ASSUME l.kind = ObligationBlock
               PROVE  Scan(p3, l).error
      OBVIOUS
  <2>1. l.kind # "policy"
      BY KindsOf
  <2>2. Scan(p3, l) = NamespaceLine(p3, l)
      BY <1>1, <2>1, LevelNames
  <2>3. NamespaceLine(p3, l) = Failed(p3)
      BY DEF NamespaceLine, ObligationBlock
  <2>4. Failed(p3).error
      BY <1>1, FieldNames DEF State, Failed
  <2> QED BY <2>2, <2>3, <2>4
<1> QED BY <1>2, <1>3, <1>4, <1>5 DEF p1, p2, p3

(* A block in a rule closes the rule, the next one the policy.             *)
LEMMA BlockWithin ==
    ASSUME NEW b, State(b), ~b.error, NEW o, IsSequence(o.params),
           NEW a, NEW st, NEW ty, NEW rs, IsSequence(rs), NEW x, NEW c, NEW ob
    PROVE  LET q == Policy(a, st, ty, Plus(rs, Rule(x, c)), ob)
           IN /\ Read(At(b, "rule", Blank, q), BlockPart(o)) = At(b, "policy", Blank, q)
              /\ Read(At(b, "policy", Blank, q), BlockPart(o)) = At(b, "namespace", Blank, q)
              /\ Read(At(b, "namespace", Blank, q), BlockPart(o)).error
<1> DEFINE q == Policy(a, st, ty, Plus(rs, Rule(x, c)), ob)
           p1 == At(b, "rule", Blank, q)
           p2 == At(b, "policy", Blank, q)
           p3 == At(b, "namespace", Blank, q)
           l == BlockLine(o.sym)
           first == <<l>>
           last == <<Line("close")>>
           s == Assigned(o.params)
<1>1. /\ l.kind = ObligationBlock
      /\ \A k \in 1..Len(s) : s[k].kind = "assignment"
      /\ IsSequence(s)
  <2>1. Len(s) = Len(o.params) /\ IsSequence(s)
      BY AssignedIs
  <2>2. \A k \in 1..Len(o.params) : s[k] = AssignLine(o.params[k])
      BY AssignedIs
  <2> HIDE DEF s
  <2> QED BY <2>1, <2>2, KindsOf
<1>2. Scan(p1, Line("close")) = p2
    BY RuleLevel
<1>3. Scan(p2, Line("close")) = p3
    BY PolicyLevel
<1> HIDE DEF q, l, s
<1>4. /\ Scan(p1, l) = p1 /\ Scan(p2, l) = p2 /\ Scan(p3, l).error
      /\ \A k \in 1..Len(s) : Scan(p1, s[k]) = p1 /\ Scan(p2, s[k]) = p2
  <2>1. Scan(p1, l) = p1
      BY <1>1, QuietLines
  <2>2. Scan(p2, l) = p2
      BY <1>1, QuietLines
  <2>3. Scan(p3, l).error
      BY <1>1, QuietLines
  <2>4. \A k \in 1..Len(s) : Scan(p1, s[k]) = p1
      BY <1>1, QuietLines
  <2>5. \A k \in 1..Len(s) : Scan(p2, s[k]) = p2
      BY <1>1, QuietLines
  <2> QED BY <2>1, <2>2, <2>3, <2>4, <2>5
<1>5. IsSequence(first) /\ IsSequence(last)
    BY ReadOne
<1>6. /\ \A p : Read(p, first) = Scan(p, l)
      /\ \A p : Read(p, last) = Scan(p, Line("close"))
    BY ReadOne
<1>7. BlockPart(o) = first \o s \o last
    BY DEF BlockPart, l, s
<1> HIDE DEF p1, p2, p3, first, last
<1>8. \A p : Read(p, BlockPart(o)) = Read(Read(Read(p, first), s), last)
    BY <1>1, <1>5, <1>7, ReadThree
<1>9. Read(p1, s) = p1 /\ Read(p2, s) = p2
    BY <1>1, <1>4, NothingRead
<1>10. Read(p1, BlockPart(o)) = p2 /\ Read(p2, BlockPart(o)) = p3
    BY <1>2, <1>3, <1>4, <1>6, <1>8, <1>9
<1>11. Read(p3, BlockPart(o)).error
  <2> DEFINE e == Scan(p3, l)
  <2>1. e.error
      BY <1>4
  <2> HIDE DEF e
  <2>2. Read(e, s) = e /\ Read(e, last) = e
      BY <1>1, <1>5, <2>1, ErrorStays
  <2>3. Read(p3, BlockPart(o)) = e
      BY <1>6, <1>8, <2>2 DEF e
  <2> QED BY <2>1, <2>3
<1> QED BY <1>10, <1>11 DEF p1, p2, p3, q

(* The obligations at the end of a rule close rule and policy, or fail.    *)
LEMMA ObligationsWithin ==
    ASSUME NEW b, State(b), ~b.error, NEW t, ObligationsFit(t), t.obligations # <<>>,
           NEW a, NEW st, NEW ty, NEW rs, IsSequence(rs), NEW x, NEW c, NEW ob
    PROVE  LET q == Policy(a, st, ty, Plus(rs, Rule(x, c)), ob)
               lines == RenderObligations(t)
           IN /\ IsSequence(lines)
              /\ \/ Read(At(b, "rule", Blank, q), lines) = At(b, "namespace", Blank, q)
                 \/ Read(At(b, "rule", Blank, q), lines).error
              /\ Read(At(b, "namespace", Blank, q), lines).error
<1> DEFINE q == Policy(a, st, ty, Plus(rs, Rule(x, c)), ob)
           p1 == At(b, "rule", Blank, q)
           p2 == At(b, "policy", Blank, q)
           p3 == At(b, "namespace", Blank, q)
           ss == BlocksOf(t)
           n == Len(t.obligations)
           first == <<Line(OnPermit)>>
           last == <<Line("close")>>
<1>1. /\ Parts(ss) /\ Len(ss) = n /\ n \in Nat /\ n # 0
      /\ \A k \in 1..n : ss[k] = BlockPart(t.obligations[k]) /\ IsSequence(t.obligations[k].params)
      /\ RenderObligations(t) = first \o FlattenSeq(ss) \o last
    BY RenderedObligations
<1>2. ASSUME NEW k \in 1..n
      PROVE  Read(p1, ss[k]) = p2 /\ Read(p2, ss[k]) = p3 /\ Read(p3, ss[k]).error
  <2> DEFINE o == t.obligations[k]
  <2>1. IsSequence(o.params) /\ ss[k] = BlockPart(o)
      BY <1>1, <1>2
  <2> HIDE DEF o, ss
  <2>2. Read(p1, BlockPart(o)) = p2
      BY <2>1, BlockWithin
  <2>3. Read(p2, BlockPart(o)) = p3
      BY <2>1, BlockWithin
  <2>4. Read(p3, BlockPart(o)).error
      BY <2>1, BlockWithin
  <2> HIDE DEF p1, p2, p3
  <2> QED BY <2>1, <2>2, <2>3, <2>4
<1> HIDE DEF q
<1>3. Read(p1, first) = p1 /\ Read(p3, first) = p3 /\ IsSequence(first)
  <2>1. Line(OnPermit).kind = OnPermit
      BY KindsOf
  <2>2. Scan(p1, Line(OnPermit)) = p1
      BY <2>1, QuietLines
  <2>3. Scan(p3, Line(OnPermit)) = p3
      BY <2>1, QuietLines
  <2> HIDE DEF p1, p3
  <2> QED BY <2>2, <2>3, ReadOne
<1>4. Read(p2, last) = p3 /\ Read(p3, last) = p3 /\ IsSequence(last)
  <2>1. Line("close").kind = "close"
      BY KindsOf
  <2>2. Scan(p2, Line("close")) = p3
      BY PolicyLevel
  <2>3. Scan(p3, Line("close")) = p3
      BY <2>1, QuietLines
  <2> HIDE DEF p2, p3
  <2> QED BY <2>2, <2>3, ReadOne
<1> HIDE DEF p1, p2, p3, ss, n, first, last
<1>5. ASSUME NEW p
      PROVE  \E f : /\ f[0] = p
                    /\ \A k \in 0..(n - 1) : f[k + 1] = Read(f[k], ss[k + 1])
                    /\ Read(p, FlattenSeq(ss)) = f[n]
  <2> DEFINE all == Read(p, FlattenSeq(ss))
  <2>1. all = Read(p, FlattenSeq(ss))
      OBVIOUS
  <2> HIDE DEF all
  <2>2. \E f : /\ f[0] = p
               /\ \A k \in 0..(Len(ss) - 1) : f[k + 1] = Read(f[k], ss[k + 1])
               /\ all = f[Len(ss)]
    <3>1. Parts(ss)
        BY <1>1
    <3> QED BY <2>1, <3>1, ReadParts
  <2> QED BY <1>1, <2>1, <2>2
<1>6. IsSequence(FlattenSeq(ss))
    BY <1>1, ReadParts
<1>7. ASSUME NEW e, e.error, NEW k \in 1..n
      PROVE  Read(e, ss[k]) = e
    BY <1>1, <1>7, ErrorStays DEF Parts
<1>8. \/ Read(p1, FlattenSeq(ss)) = p2
      \/ Read(p1, FlattenSeq(ss)) = p3
      \/ Read(p1, FlattenSeq(ss)).error
  <2>1. PICK f : /\ f[0] = p1
                 /\ \A k \in 0..(n - 1) : f[k + 1] = Read(f[k], ss[k + 1])
                 /\ Read(p1, FlattenSeq(ss)) = f[n]
      BY <1>5
  <2> DEFINE S == {k \in 0..n : \/ k = 0 /\ f[k] = p1
                                \/ k # 0 /\ (f[k] = p2 \/ f[k] = p3 \/ f[k].error)}
  <2>2. 0 \in S
      BY <1>1, <2>1
  <2>3. ASSUME NEW k \in 0..(n - 1), k \in S
        PROVE  k + 1 \in S
    <3>1. k + 1 \in 1..n /\ k + 1 \in 0..n /\ k + 1 # 0
        BY <1>1
    <3>2. f[k + 1] = Read(f[k], ss[k + 1])
        BY <2>1
    <3>3. f[k] = p1 \/ f[k] = p2 \/ f[k] = p3 \/ f[k].error
        BY <2>3
    <3>4. f[k + 1] = p2 \/ f[k + 1] = p3 \/ f[k + 1].error
        BY <1>2, <1>7, <3>1, <3>2, <3>3
    <3> QED BY <3>1, <3>4
  <2> HIDE DEF S
  <2>4. \A k \in 0..n : k \in S
      BY <1>1, <2>2, <2>3, UpTo
  <2>5. n \in S
      BY <1>1, <2>4
  <2> QED BY <1>1, <2>1, <2>5 DEF S
<1>9. Read(p3, FlattenSeq(ss)).error
  <2>1. PICK f : /\ f[0] = p3
                 /\ \A k \in 0..(n - 1) : f[k + 1] = Read(f[k], ss[k + 1])
                 /\ Read(p3, FlattenSeq(ss)) = f[n]
      BY <1>5
  <2> DEFINE S == {k \in 0..n : \/ k = 0 /\ f[k] = p3
                                \/ k # 0 /\ f[k].error}
  <2>2. 0 \in S
      BY <1>1, <2>1
  <2>3. ASSUME NEW k \in 0..(n - 1), k \in S
        PROVE  k + 1 \in S
    <3>1. k + 1 \in 1..n /\ k + 1 \in 0..n /\ k + 1 # 0
        BY <1>1
    <3>2. f[k + 1] = Read(f[k], ss[k + 1])
        BY <2>1
    <3>3. f[k] = p3 \/ f[k].error
        BY <2>3
    <3>4. f[k + 1].error
        BY <1>2, <1>7, <3>1, <3>2, <3>3
    <3> QED BY <3>1, <3>4
  <2> HIDE DEF S
  <2>4. \A k \in 0..n : k \in S
      BY <1>1, <2>2, <2>3, UpTo
  <2>5. n \in S
      BY <1>1, <2>4
  <2> QED BY <1>1, <2>1, <2>5 DEF S
<1>10. /\ IsSequence(RenderObligations(t))
       /\ \A p : Read(p, RenderObligations(t)) = Read(Read(Read(p, first), FlattenSeq(ss)), last)
  <2> DEFINE lines == first \o FlattenSeq(ss) \o last
  <2>1. RenderObligations(t) = lines
      BY <1>1
  <2>2. IsSequence(lines)
      BY <1>3, <1>4, <1>6, ReadThree
  <2>3. ASSUME NEW p
        PROVE  Read(p, lines) = Read(Read(Read(p, first), FlattenSeq(ss)), last)
      BY <1>3, <1>4, <1>6, ReadThree
  <2> HIDE DEF lines
  <2> QED BY <2>1, <2>2, <2>3
<1>11. \A e : e.error => Read(e, last) = e
    BY <1>4, ErrorStays
<1>12. \/ Read(p1, RenderObligations(t)) = p3
       \/ Read(p1, RenderObligations(t)).error
    BY <1>3, <1>4, <1>8, <1>10, <1>11
<1>13. Read(p3, RenderObligations(t)).error
    BY <1>3, <1>9, <1>10, <1>11
<1> QED BY <1>10, <1>12, <1>13 DEF p1, p3, q

-----------------------------------------------------------------------------
(* Rules that are read outside of a policy.                                *)

(* A rule that is read outside of a policy changes nothing.                *)
LEMMA QuietRule ==
    ASSUME NEW b, State(b), ~b.error, NEW q, NEW t, NEW r, RuleFits(r)
    PROVE  /\ IsSequence(RenderRule(t, r))
           /\ Read(At(b, "namespace", Blank, q), RenderRule(t, r)) = At(b, "namespace", Blank, q)
<1> DEFINE p == At(b, "namespace", Blank, q)
           first == RuleFirst(r.type)
           second == Line(r.effect)
           uses == [i \in DOMAIN r.conditions |-> ConditionLine(r.conditions[i])]
<1>1. IsSequence(uses) /\ \A k \in 1..Len(uses) : uses[k].kind = "condition"
  <2>1. Len(r.conditions) \in Nat /\ DOMAIN r.conditions = 1..Len(r.conditions)
      BY SequenceIs DEF RuleFits
  <2>2. /\ uses = [i \in 1..Len(r.conditions) |-> uses[i]]
        /\ \A k \in 1..Len(r.conditions) : uses[k] = ConditionLine(r.conditions[k])
      BY <2>1
  <2> HIDE DEF uses
  <2>3. IsSequence(uses) /\ Len(uses) = Len(r.conditions)
      BY <2>1, <2>2, SequenceIs
  <2> QED BY <2>2, <2>3, KindsOf
<1>2. first.kind = "rule" /\ second.kind \in {"permit", "deny"}
    BY KindsOf DEF RuleFits
<1>3. RenderRule(t, r) = <<first, second>> \o uses
    BY DEF RenderRule, RuleFirst, ConditionLine
<1> HIDE DEF first, second, uses
<1>4. Scan(p, first) = p /\ Scan(p, second) = p /\ \A k \in 1..Len(uses) : Scan(p, uses[k]) = p
  <2>1. Scan(p, first) = p
      BY <1>2, QuietLines
  <2>2. Scan(p, second) = p
      BY <1>2, QuietLines
  <2>3. \A k \in 1..Len(uses) : Scan(p, uses[k]) = p
      BY <1>1, QuietLines
  <2> QED BY <2>1, <2>2, <2>3
<1> HIDE DEF p
<1>5. IsSequence(<<first, second>>) /\ Read(p, <<first, second>>) = p
  <2>1. <<first>> \o <<second>> = <<first, second>>
      BY Pair
  <2>2. IsSequence(<<first>>) /\ IsSequence(<<second>>)
      BY ReadOne
  <2>3. Read(p, <<first>> \o <<second>>) = p
      BY <1>4, <2>2, ReadOne, ReadConcat
  <2> QED BY <2>1, <2>2, <2>3, Joined
<1>6. Read(p, uses) = p
    BY <1>1, <1>4, NothingRead
<1>7. IsSequence(RenderRule(t, r)) /\ Read(p, RenderRule(t, r)) = p
    BY <1>1, <1>3, <1>5, <1>6, Joined, ReadConcat
<1> QED BY <1>7 DEF p

(* One rule with obligations in it is kept, without the obligations; more  *)
(* than one is an error.                                                   *)
LEMMA RulesWithin ==
    ASSUME NEW b, State(b), ~b.error, NEW t, RulesFit(t), ObligationsFit(t),
           t.place = "rule", t.obligations # <<>>, NEW a, NEW st
    PROVE  LET p0 == At(b, "policy", Blank, Policy(a, st, Blank, <<>>, <<>>))
               all == Read(p0, FlattenSeq(RulesOf(t)))
           IN /\ IsSequence(FlattenSeq(RulesOf(t)))
              /\ \/ all.error
                 \/ Len(t.rules) = 0 /\ all = p0
                 \/ /\ Len(t.rules) = 1
                    /\ \E rs : /\ ReadRules(t, 1, b.conditions, rs)
                               /\ all = At(b, "namespace", Blank, Policy(a, st, t.rules[1].type, rs, <<>>))
<1> DEFINE ss == RulesOf(t)
           n == Len(t.rules)
           named == b.conditions
           p0 == At(b, "policy", Blank, Policy(a, st, Blank, <<>>, <<>>))
           rs1 == Plus(<<>>, ReadRule(t.rules[1], named))
           q1 == Policy(a, st, t.rules[1].type, rs1, <<>>)
           p1 == At(b, "rule", Blank, q1)
           p3 == At(b, "namespace", Blank, q1)
           lines == RenderObligations(t)
           last == <<Line("close")>>
<1>1. Inside(t) = lines /\ IsSequence(lines)
  <2>1. IsSequence(lines)
      BY ObligationsRead
  <2> QED BY <2>1 DEF Inside
<1>2. /\ Parts(ss) /\ Len(ss) = n /\ n \in Nat
      /\ \A k \in 1..n : /\ ss[k] = RenderRule(t, t.rules[k]) \o lines \o last
                         /\ RuleFits(t.rules[k])
                         /\ IsSequence(RenderRule(t, t.rules[k]))
    BY <1>1, RulePartsAre DEF RulePart
<1>3. IsSequence(<<>>)
    BY ReadNone
<1>4. 1 \in 1..n => Read(p0, RenderRule(t, t.rules[1])) = p1
  <2> SUFFICES ASSUME 1 \in 1..n
               PROVE  Read(p0, RenderRule(t, t.rules[1])) = p1
      OBVIOUS
  <2> DEFINE r == t.rules[1]
             rs0 == <<>>
             ob == <<>>
             to == Read(At(b, "policy", Blank, Policy(a, st, Blank, rs0, ob)), RenderRule(t, r))
  <2>1. RuleFits(r)
      BY <1>2
  <2>2. IsSequence(rs0)
      BY <1>3
  <2> HIDE DEF r, rs0, ob
  <2>3. to = At(b, "rule", Blank, Policy(a, st, Latest(r.type, Blank), Plus(rs0, ReadRule(r, b.conditions)), ob))
      BY <2>1, <2>2, ReadRuleLines
  <2>4. Latest(r.type, Blank) = r.type
      BY DEF Latest
  <2> QED BY <2>3, <2>4 DEF r, rs0, ob
<1>5. /\ Read(p1, lines) = p3 \/ Read(p1, lines).error
      /\ Read(p3, lines).error
  <2> DEFINE c == [i \in DOMAIN t.rules[1].conditions |-> expandCondition(t.rules[1].conditions[i], named)]
             x == t.rules[1].effect
             ty == t.rules[1].type
             rs0 == <<>>
             ob == <<>>
             q == Policy(a, st, ty, Plus(rs0, Rule(x, c)), ob)
             to == Read(At(b, "rule", Blank, q), lines)
             too == Read(At(b, "namespace", Blank, q), lines)
  <2>1. q1 = q
      BY DEF ReadRule
  <2>2. IsSequence(rs0)
      BY <1>3
  <2> HIDE DEF c, x, ty, rs0, ob
  <2>3. to = At(b, "namespace", Blank, q) \/ to.error
      BY <2>2, ObligationsWithin
  <2>4. too.error
      BY <2>2, ObligationsWithin
  <2> HIDE DEF q, q1
  <2> QED BY <2>1, <2>3, <2>4
<1>6. \A k \in 1..n : Read(p3, RenderRule(t, t.rules[k])) = p3
  <2> HIDE DEF q1
  <2> QED BY <1>2, QuietRule
<1>7. Read(p3, last) = p3 /\ IsSequence(last)
  <2>1. Line("close").kind = "close"
      BY KindsOf
  <2> HIDE DEF q1
  <2>2. Scan(p3, Line("close")) = p3
      BY <2>1, QuietLines
  <2> HIDE DEF p3
  <2> QED BY <2>2, ReadOne
<1>8. ReadRules(t, 1, named, rs1)
  <2>1. ReadRules(t, 0, named, <<>>)
    <3>1. Len(<<>>) = 0
        OBVIOUS
    <3> QED BY <1>3, <3>1 DEF ReadRules
  <2> DEFINE rs0 == <<>>
  <2> HIDE DEF rs0
  <2>2. ReadRules(t, 0 + 1, named, Plus(rs0, ReadRule(t.rules[0 + 1], named)))
      BY <2>1, ReadRulesMore DEF rs0
  <2> QED BY <2>2 DEF rs0
<1> HIDE DEF ss, n, p0, p1, p3, lines, last
<1>9. ASSUME NEW k \in 1..n, NEW p
      PROVE  Read(p, ss[k]) = Read(Read(Read(p, RenderRule(t, t.rules[k])), lines), last)
  <2> DEFINE rule == RenderRule(t, t.rules[k])
  <2>1. IsSequence(rule) /\ ss[k] = rule \o lines \o last
      BY <1>2
  <2> HIDE DEF rule
  <2> QED BY <1>1, <1>7, <2>1, ReadThree DEF rule
<1>10. \A e : e.error => Read(e, last) = e
    BY <1>7, ErrorStays
<1>11. 1 \in 1..n => Read(p0, ss[1]) = p3 \/ Read(p0, ss[1]).error
    BY <1>4, <1>5, <1>7, <1>9, <1>10
<1>12. \A k \in 1..n : Read(p3, ss[k]).error
    BY <1>5, <1>6, <1>9, <1>10
<1>13. \A k \in 1..n : \A e : e.error => Read(e, ss[k]) = e
    BY <1>2, ErrorStays DEF Parts
<1>14. PICK f : /\ f[0] = p0
                /\ \A k \in 0..(n - 1) : f[k + 1] = Read(f[k], ss[k + 1])
                /\ Read(p0, FlattenSeq(ss)) = f[n]
  <2> DEFINE all == Read(p0, FlattenSeq(ss))
  <2>1. all = Read(p0, FlattenSeq(ss))
      OBVIOUS
  <2>3. Parts(ss)
      BY <1>2
  <2> HIDE DEF all
  <2>2. \E f : /\ f[0] = p0
               /\ \A k \in 0..(Len(ss) - 1) : f[k + 1] = Read(f[k], ss[k + 1])
               /\ all = f[Len(ss)]
      BY <2>1, <2>3, ReadParts
  <2> QED BY <1>2, <2>1, <2>2
<1>15. IsSequence(FlattenSeq(ss))
    BY <1>2, ReadParts
<1> DEFINE S == {k \in 0..n : \/ k = 0 /\ f[k] = p0
                              \/ k = 1 /\ f[k] = p3
                              \/ k # 0 /\ f[k].error}
<1>16. 0 \in S
    BY <1>2, <1>14
<1>17. ASSUME NEW k \in 0..(n - 1), k \in S
       PROVE  k + 1 \in S
  <2>1. k + 1 \in 1..n /\ k + 1 \in 0..n /\ k + 1 # 0
      BY <1>2
  <2>2. f[k + 1] = Read(f[k], ss[k + 1])
      BY <1>14
  <2>3. CASE k = 0 /\ f[k] = p0
    <3>1. 1 \in 1..n /\ k + 1 = 1
        BY <2>1, <2>3
    <3> QED BY <1>11, <2>1, <2>2, <2>3, <3>1
  <2>4. CASE f[k] = p3
      BY <1>12, <2>1, <2>2, <2>4
  <2>5. CASE f[k].error
      BY <1>13, <2>1, <2>2, <2>5
  <2> QED BY <1>17, <2>3, <2>4, <2>5
<1> HIDE DEF S
<1>18. \A k \in 0..n : k \in S
    BY <1>2, <1>16, <1>17, UpTo
<1>19. n \in S
    BY <1>2, <1>18
<1>20. \/ Read(p0, FlattenSeq(ss)).error
       \/ n = 0 /\ Read(p0, FlattenSeq(ss)) = p0
       \/ n = 1 /\ Read(p0, FlattenSeq(ss)) = p3
    BY <1>14, <1>19 DEF S
<1> QED BY <1>8, <1>15, <1>20 DEF ss, n, p0, p3

-----------------------------------------------------------------------------
(* A policy.                                                               *)

PolicyFits(t) == RulesFit(t) /\ ObligationsFit(t)

(* What is kept of a policy.                                               *)
PolicyOf(t, named, q) ==
    /\ t.target => t.action # Blank
    /\ q.action = IF t.target THEN t.action ELSE Blank
    /\ q.struct = IF t.target THEN t.struct ELSE Blank
    /\ ReadRules(t, Len(t.rules), named, q.rules)
    /\ Len(t.rules) = 1 => q.type = t.rules[1].type
    /\ IF t.place = "rule" \/ t.obligations = <<>> THEN q.obligations = <<>>
       ELSE Collected(t, Len(t.obligations), q.obligations)

Behind(t) == IF t.place = "rule" THEN <<>> ELSE RenderObligations(t)

(* The target, which is an error if it has no action.                      *)
LEMMA TargetRead ==
    ASSUME NEW b, State(b), ~b.error, NEW t
    PROVE  LET to == Read(At(b, "policy", Blank, NoPolicy), Target(t))
           IN /\ IsSequence(Target(t))
              /\ \/ to.error
                 \/ /\ t.target => t.action # Blank
                    /\ to = At(b, "policy", Blank,
                               Policy(IF t.target THEN t.action ELSE Blank,
                                 IF t.target THEN t.struct ELSE Blank, Blank, <<>>, <<>>))
<1> DEFINE p == At(b, "policy", Blank, NoPolicy)
<1>1. CASE t.target
  <2> DEFINE a == t.action
             s == t.struct
             l == [kind |-> "target", ok |-> a # Blank, action |-> a, struct |-> s]
  <2>1. Target(t) = <<l>>
      BY <1>1 DEF Target, Blank
  <2> HIDE DEF a, s
  <2>2. /\ a = Blank => Scan(p, l).error
        /\ a # Blank => Scan(p, l) = At(b, "policy", Blank, Policy(a, s, Blank, <<>>, <<>>))
      BY ScanTarget
  <2> HIDE DEF l, p
  <2>3. IsSequence(<<l>>) /\ Read(p, <<l>>) = Scan(p, l)
      BY ReadOne
  <2> QED BY <1>1, <2>1, <2>2, <2>3 DEF p, a, s
<1>2. CASE ~t.target
  <2>1. Target(t) = <<>>
      BY <1>2 DEF Target
  <2>2. NoPolicy = Policy(Blank, Blank, Blank, <<>>, <<>>)
      BY NewPolicy
  <2> DEFINE none == <<>>
  <2>3. IsSequence(none) /\ Read(p, none) = p
      BY ReadNone
  <2> HIDE DEF p
  <2> QED BY <1>2, <2>1, <2>2, <2>3 DEF p
<1> QED BY <1>1, <1>2

(* Rules and obligations.                                                  *)
LEMMA BodyRead ==
    ASSUME NEW b, State(b), ~b.error, NEW t, PolicyFits(t), NEW a, NEW st
    PROVE  LET p == At(b, "policy", Blank, Policy(a, st, Blank, <<>>, <<>>))
               to == Scan(Read(Read(p, FlattenSeq(RulesOf(t))), Behind(t)), Line("close"))
           IN /\ IsSequence(FlattenSeq(RulesOf(t)))
              /\ IsSequence(Behind(t))
              /\ \/ to.error
                 \/ \E rs, ty, ob :
                      /\ ReadRules(t, Len(t.rules), b.conditions, rs)
                      /\ Len(t.rules) = 1 => ty = t.rules[1].type
                      /\ IF t.place = "rule" \/ t.obligations = <<>> THEN ob = <<>>
                         ELSE Collected(t, Len(t.obligations), ob)
                      /\ to = At(b, "namespace", Blank, Policy(a, st, ty, rs, ob))
<1> DEFINE p == At(b, "policy", Blank, Policy(a, st, Blank, <<>>, <<>>))
           rules == FlattenSeq(RulesOf(t))
           behind == Behind(t)
           to == Scan(Read(Read(p, rules), behind), Line("close"))
           Is(rs, ty, ob) ==
               /\ ReadRules(t, Len(t.rules), b.conditions, rs)
               /\ Len(t.rules) = 1 => ty = t.rules[1].type
               /\ IF t.place = "rule" \/ t.obligations = <<>> THEN ob = <<>>
                  ELSE Collected(t, Len(t.obligations), ob)
           PL(rs, ty, ob) == At(b, "policy", Blank, Policy(a, st, ty, rs, ob))
           NS(rs, ty, ob) == At(b, "namespace", Blank, Policy(a, st, ty, rs, ob))
<1>1. \A rs, ty, ob : Scan(PL(rs, ty, ob), Line("close")) = NS(rs, ty, ob)
    BY PolicyLevel
<1>2. \A e : e.error => Scan(e, Line("close")) = e
    BY DEF Scan
<1>3. Read(Read(p, rules), <<>>) = Read(p, rules) /\ IsSequence(<<>>)
    BY ReadNone
<1>4. RulesFit(t) /\ ObligationsFit(t)
    BY DEF PolicyFits
<1>5. CASE t.place = "rule" /\ t.obligations # <<>>
  <2>1. behind = <<>>
      BY <1>5 DEF Behind
  <2>2. /\ IsSequence(rules)
        /\ \/ Read(p, rules).error
           \/ Len(t.rules) = 0 /\ Read(p, rules) = p
           \/ /\ Len(t.rules) = 1
              /\ \E rs : /\ ReadRules(t, 1, b.conditions, rs)
                         /\ Read(p, rules) = At(b, "namespace", Blank, Policy(a, st, t.rules[1].type, rs, <<>>))
      BY <1>4, <1>5, RulesWithin
  <2>3. CASE Read(p, rules).error
    <3>1. to.error
      <4> HIDE DEF p, rules, behind
      <4> QED BY <1>2, <1>3, <2>1, <2>3
    <3>2. IsSequence(behind)
        BY <1>3, <2>1
    <3> QED BY <2>2, <3>1, <3>2
  <2>4. CASE Len(t.rules) = 0 /\ Read(p, rules) = p
    <3>1. ReadRules(t, 0, b.conditions, <<>>)
      <4>1. IsSequence(<<>>) /\ Len(<<>>) = 0
          BY ReadNone
      <4> QED BY <4>1 DEF ReadRules
    <3>2. Is(<<>>, Blank, <<>>)
        BY <1>5, <2>4, <3>1
    <3>3. to = NS(<<>>, Blank, <<>>)
      <4>1. p = PL(<<>>, Blank, <<>>)
          OBVIOUS
      <4> HIDE DEF p, rules, PL, NS, behind
      <4> QED BY <1>1, <1>3, <2>1, <2>4, <4>1
    <3>4. \E rs, ty, ob : Is(rs, ty, ob) /\ to = NS(rs, ty, ob)
      <4> HIDE DEF Is, to, NS
      <4> QED BY <3>2, <3>3
    <3> QED BY <2>1, <2>2, <1>3, <3>4
  <2>5. CASE Len(t.rules) = 1 /\ ~Read(p, rules).error
    <3>1. PICK rs : /\ ReadRules(t, 1, b.conditions, rs)
                    /\ Read(p, rules) = At(b, "namespace", Blank, Policy(a, st, t.rules[1].type, rs, <<>>))
        BY <2>2, <2>5
    <3>2. Is(rs, t.rules[1].type, <<>>)
        BY <1>5, <2>5, <3>1
    <3>3. to = NS(rs, t.rules[1].type, <<>>)
      <4> DEFINE q == Policy(a, st, t.rules[1].type, rs, <<>>)
      <4>1. Line("close").kind = "close"
          BY KindsOf
      <4> HIDE DEF q
      <4>2. Scan(At(b, "namespace", Blank, q), Line("close")) = At(b, "namespace", Blank, q)
          BY <4>1, QuietLines
      <4>3. Read(p, rules) = At(b, "namespace", Blank, q)
          BY <3>1 DEF q
      <4> HIDE DEF p, rules, behind
      <4>4. to = At(b, "namespace", Blank, q)
          BY <1>3, <2>1, <4>2, <4>3
      <4> QED BY <4>4 DEF q
    <3>4. \E r, ty, ob : Is(r, ty, ob) /\ to = NS(r, ty, ob)
      <4> HIDE DEF Is, to, NS
      <4> QED BY <3>2, <3>3
    <3> QED BY <2>1, <2>2, <1>3, <3>4
  <2> QED BY <2>2, <2>3, <2>4, <2>5
<1>6. CASE ~(t.place = "rule" /\ t.obligations # <<>>)
  <2>1. Inside(t) = <<>>
      BY <1>6 DEF Inside, RenderObligations
  <2>2. IsSequence(rules)
      BY <1>4, <2>1, RulesRead
  <2>3. PICK rs, ty :
                /\ ReadRules(t, Len(t.rules), b.conditions, rs)
                /\ Len(t.rules) = 1 => ty = t.rules[1].type
                /\ Read(p, rules) = At(b, "policy", Blank, Policy(a, st, ty, rs, <<>>))
    <3> DEFINE all == Read(p, rules)
    <3>1. all = Read(At(b, "policy", Blank, Policy(a, st, Blank, <<>>, <<>>)), FlattenSeq(RulesOf(t)))
        OBVIOUS
    <3> HIDE DEF all
    <3>2. \E rs, ty :
                /\ ReadRules(t, Len(t.rules), b.conditions, rs)
                /\ Len(t.rules) = 1 => ty = t.rules[1].type
                /\ all = At(b, "policy", Blank, Policy(a, st, ty, rs, <<>>))
        BY <1>4, <2>1, <3>1, RulesRead
    <3> QED BY <3>2 DEF all
  <2>4. CASE t.place = "rule" \/ t.obligations = <<>>
    <3>1. behind = <<>>
        BY <2>4 DEF Behind, RenderObligations
    <3>2. Is(rs, ty, <<>>)
        BY <2>3, <2>4
    <3>3. to = NS(rs, ty, <<>>)
      <4>1. Read(p, rules) = PL(rs, ty, <<>>)
          BY <2>3
      <4> HIDE DEF p, rules, PL, NS, behind
      <4> QED BY <1>1, <1>3, <3>1, <4>1
    <3>4. \E r, y, ob : Is(r, y, ob) /\ to = NS(r, y, ob)
      <4> HIDE DEF Is, to, NS
      <4> QED BY <3>2, <3>3
    <3> QED BY <2>2, <3>1, <1>3, <3>4
  <2>5. CASE ~(t.place = "rule" \/ t.obligations = <<>>)
    <3>1. behind = RenderObligations(t)
        BY <2>5 DEF Behind
    <3>2. IsSequence(behind)
        BY <1>4, <2>5, <3>1, ObligationsRead
    <3>3. PICK ob : /\ Collected(t, Len(t.obligations), ob)
                    /\ Read(At(b, "policy", Blank, Policy(a, st, ty, rs, <<>>)), RenderObligations(t)) =
                            At(b, "policy", Blank, Policy(a, st, ty, rs, ob))
      <4> DEFINE all == Read(At(b, "policy", Blank, Policy(a, st, ty, rs, <<>>)), RenderObligations(t))
      <4>1. all = Read(At(b, "policy", Blank, Policy(a, st, ty, rs, <<>>)), RenderObligations(t))
          OBVIOUS
      <4> HIDE DEF all
      <4>2. \E ob : /\ Collected(t, Len(t.obligations), ob)
                    /\ all = At(b, "policy", Blank, Policy(a, st, ty, rs, ob))
          BY <1>4, <2>5, <4>1, ObligationsRead
      <4> QED BY <4>2 DEF all
    <3>4. Is(rs, ty, ob)
        BY <2>3, <2>5, <3>3
    <3>5. to = NS(rs, ty, ob)
      <4>1. Read(Read(p, rules), behind) = PL(rs, ty, ob)
          BY <2>3, <3>1, <3>3
      <4> HIDE DEF p, rules, PL, NS, behind
      <4> QED BY <1>1, <4>1
    <3>6. \E r, y, o : Is(r, y, o) /\ to = NS(r, y, o)
      <4> HIDE DEF Is, to, NS
      <4> QED BY <3>4, <3>5
    <3> QED BY <2>2, <3>2, <3>6
  <2> QED BY <2>4, <2>5
<1> QED BY <1>5, <1>6

(* A policy is read as it is written, or there is an error.                *)
LEMMA PolicyRead ==
    ASSUME NEW b, State(b), ~b.error, NEW t, PolicyFits(t)
    PROVE  LET to == Read(b, RenderPolicy(t))
           IN /\ IsSequence(RenderPolicy(t))
              /\ \/ to.error
                 \/ \E q : PolicyOf(t, b.conditions, q) /\ to = At(b, "namespace", Blank, q)
<1> DEFINE s1 == <<Line("policy")>>
           s2 == Target(t)
           s3 == <<Line("apply")>>
           s4 == FlattenSeq(RulesOf(t))
           s5 == Behind(t)
           s6 == <<Line("close")>>
           a == IF t.target THEN t.action ELSE Blank
           st == IF t.target THEN t.struct ELSE Blank
           p1 == At(b, "policy", Blank, NoPolicy)
           p2 == At(b, "policy", Blank, Policy(a, st, Blank, <<>>, <<>>))
           to == Read(b, RenderPolicy(t))
           done == Scan(Read(Read(p2, s4), s5), Line("close"))
<1>1. RenderPolicy(t) = s1 \o s2 \o s3 \o s4 \o s5 \o s6
    BY DEF RenderPolicy, Target, RulesOf, RulePart, Inside, Behind
<1>2. Read(b, s1) = p1 /\ IsSequence(s1)
    BY ReadOne, ScanPolicy
<1>3. /\ IsSequence(s2)
      /\ Read(p1, s2).error \/ ((t.target => t.action # Blank) /\ Read(p1, s2) = p2)
    BY TargetRead
<1>4. Read(p2, s3) = p2 /\ IsSequence(s3)
  <2>1. Scan(p2, Line("apply")) = p2
      BY PolicyLevel
  <2> HIDE DEF p2
  <2> QED BY <2>1, ReadOne
<1>5. /\ IsSequence(s4) /\ IsSequence(s5)
      /\ \/ done.error
         \/ \E rs, ty, ob :
              /\ ReadRules(t, Len(t.rules), b.conditions, rs)
              /\ Len(t.rules) = 1 => ty = t.rules[1].type
              /\ IF t.place = "rule" \/ t.obligations = <<>> THEN ob = <<>>
                 ELSE Collected(t, Len(t.obligations), ob)
              /\ done = At(b, "namespace", Blank, Policy(a, st, ty, rs, ob))
  <2> HIDE DEF a, st
  <2> QED BY BodyRead
<1>6. IsSequence(s6) /\ \A x : Read(x, s6) = Scan(x, Line("close"))
    BY ReadOne
<1> HIDE DEF s1, s2, s3, s4, s5, s6, a, st, p1, p2
<1>7. IsSequence(RenderPolicy(t)) /\ to = Read(Read(Read(Read(Read(Read(b, s1), s2), s3), s4), s5), s6)
  <2> DEFINE u == s1 \o s2 \o s3
             v == u \o s4 \o s5
  <2>1. IsSequence(u) /\ Read(b, u) = Read(Read(Read(b, s1), s2), s3)
    <3>1. IsSequence(s1) /\ IsSequence(s2) /\ IsSequence(s3)
        BY <1>2, <1>3, <1>4
    <3> QED BY <3>1, ReadThree
  <2> HIDE DEF u
  <2>2. IsSequence(v) /\ Read(b, v) = Read(Read(Read(b, u), s4), s5)
      BY <1>5, <2>1, ReadThree
  <2> HIDE DEF v
  <2>3. IsSequence(v \o s6) /\ Read(b, v \o s6) = Read(Read(b, v), s6)
      BY <1>6, <2>2, Joined, ReadConcat
  <2> QED BY <1>1, <2>1, <2>2, <2>3 DEF u, v
<1>8. CASE Read(p1, s2).error
  <2> DEFINE e == Read(p1, s2)
  <2>1. Read(e, s3) = e /\ Read(e, s4) = e /\ Read(e, s5) = e /\ Read(e, s6) = e
    <3> HIDE DEF e
    <3>1. e.error
        BY <1>8 DEF e
    <3> QED BY <1>4, <1>5, <1>6, <3>1, ErrorStays
  <2>2. to = e
      BY <1>2, <1>7, <2>1
  <2> QED BY <1>7, <1>8, <2>2
<1>9. CASE ~Read(p1, s2).error
  <2>1. to = done
      BY <1>2, <1>3, <1>4, <1>6, <1>7, <1>9
  <2>2. CASE ~done.error
    <3>1. PICK rs, ty, ob :
              /\ ReadRules(t, Len(t.rules), b.conditions, rs)
              /\ Len(t.rules) = 1 => ty = t.rules[1].type
              /\ IF t.place = "rule" \/ t.obligations = <<>> THEN ob = <<>>
                 ELSE Collected(t, Len(t.obligations), ob)
              /\ done = At(b, "namespace", Blank, Policy(a, st, ty, rs, ob))
        BY <1>5, <2>2
    <3> DEFINE q == Policy(a, st, ty, rs, ob)
    <3>2. q.action = a /\ q.struct = st /\ q.type = ty /\ q.rules = rs /\ q.obligations = ob
        BY QFields
    <3> HIDE DEF q
    <3>3. PolicyOf(t, b.conditions, q)
        BY <1>3, <1>9, <3>1, <3>2 DEF PolicyOf, a, st
    <3>4. to = At(b, "namespace", Blank, q)
        BY <2>1, <3>1 DEF q
    <3> HIDE DEF to
    <3>5. \E x : PolicyOf(t, b.conditions, x) /\ to = At(b, "namespace", Blank, x)
        BY <3>3, <3>4
    <3> QED BY <1>7, <3>5 DEF to
  <2> QED BY <1>7, <2>1, <2>2
<1> QED BY <1>8, <1>9

-----------------------------------------------------------------------------
(* The lines of the namespace.                                             *)

NamedCondition == "named condition"

(* The fields of a state between two items.                                *)
LEMMA StateFields ==
    ASSUME NEW b, State(b)
    PROVE  /\ DOMAIN b = DOMAIN StartOfFile
           /\ b = [x \in DOMAIN StartOfFile |-> b[x]]
           /\ IsSequence(b.policies)
  BY DEF State

(* A line of the namespace: only a named condition changes the conditions. *)
LEMMA NamespaceRead ==
    ASSUME NEW b, State(b), ~b.error, b.level = "namespace",
           NEW l, l.kind \in NamespaceKinds
    PROVE  LET p == Scan(b, l)
           IN \/ p.error
              \/ /\ State(p) /\ ~p.error /\ p.level = "namespace" /\ p.policies = b.policies
                 /\ p.conditions = IF l.kind = NamedCondition /\ l.name # Blank
                                   THEN Store(b.conditions, l.name, l.expr)
                                   ELSE b.conditions
<1> DEFINE p == Scan(b, l)
<1>1. l.kind # "policy" /\ l.kind # "obligation block" /\ l.kind # "close"
    BY DEF NamespaceKinds
<1>2. p = NamespaceLine(b, l)
    BY <1>1, LevelNames
<1>3. /\ DOMAIN b = DOMAIN StartOfFile
      /\ b = [x \in DOMAIN StartOfFile |-> b[x]]
      /\ IsSequence(b.policies)
    BY StateFields
<1> HIDE DEF p
<1>4. CASE l.kind = "named condition" /\ l.name # Blank
  <2>1. p = [b EXCEPT !.conditions = Store(b.conditions, l.name, l.expr)]
      BY <1>2, <1>4 DEF NamespaceLine, Blank
  <2> DEFINE cs == Store(b.conditions, l.name, l.expr)
  <2> HIDE DEF cs
  <2>2. p = [b EXCEPT !.conditions = cs]
      BY <2>1 DEF cs
  <2>3. /\ p.level = b.level /\ p.error = b.error /\ p.policies = b.policies /\ p.conditions = cs
        /\ DOMAIN p = DOMAIN StartOfFile /\ p = [x \in DOMAIN p |-> p[x]]
      BY <1>3, <2>2, FieldNames
  <2>4. State(p)
      BY <1>3, <2>3 DEF State
  <2> QED BY <1>4, <2>3, <2>4 DEF p, cs, NamedCondition
<1>5. CASE ~(l.kind = "named condition" /\ l.name # Blank)
  <2>1. \/ p = b
        \/ p = Failed(b)
        \/ p = [b EXCEPT !.namespace = TRUE]
        \/ p = [b EXCEPT !.imported = b.imported \/ l.mandatory]
        \/ p = [b EXCEPT !.attributes = Store(b.attributes, l.name, l.category)]
        \/ p = [b EXCEPT !.categories = Store(b.categories, l.sym, l.uri)]
        \/ p = [b EXCEPT !.obligations = Store(b.obligations, l.sym, l.uri)]
    <3>1. CASE l.kind = "namespace"
        BY <1>2, <3>1 DEF NamespaceLine
    <3>2. CASE l.kind = "import"
        BY <1>2, <3>2 DEF NamespaceLine
    <3>3. CASE l.kind = "attribute"
        BY <1>2, <3>3 DEF NamespaceLine
    <3>4. CASE l.kind = "category"
        BY <1>2, <3>4 DEF NamespaceLine
    <3>5. CASE l.kind = "obligation"
        BY <1>2, <3>5 DEF NamespaceLine
    <3>6. CASE l.kind = "named condition" /\ l.name = Blank
        BY <1>2, <3>6 DEF NamespaceLine, Blank
    <3> QED BY <1>5, <3>1, <3>2, <3>3, <3>4, <3>5, <3>6 DEF NamespaceKinds
  <2>4. CASE p = Failed(b)
      BY <1>3, <2>4, FieldNames DEF Failed, p
  <2>5. CASE p # Failed(b)
    <3>1. /\ p.level = b.level /\ p.error = b.error /\ p.policies = b.policies
          /\ p.conditions = b.conditions
          /\ DOMAIN p = DOMAIN StartOfFile /\ p = [x \in DOMAIN p |-> p[x]]
      <4>1. CASE p = b
          BY <1>3, <4>1
      <4>2. CASE p = [b EXCEPT !.namespace = TRUE]
          BY <1>3, <4>2, FieldNames
      <4>3. CASE p = [b EXCEPT !.imported = b.imported \/ l.mandatory]
          BY <1>3, <4>3, FieldNames
      <4>4. CASE p = [b EXCEPT !.attributes = Store(b.attributes, l.name, l.category)]
          BY <1>3, <4>4, FieldNames
      <4>5. CASE p = [b EXCEPT !.categories = Store(b.categories, l.sym, l.uri)]
          BY <1>3, <4>5, FieldNames
      <4>6. CASE p = [b EXCEPT !.obligations = Store(b.obligations, l.sym, l.uri)]
          BY <1>3, <4>6, FieldNames
      <4> QED BY <2>1, <2>5, <4>1, <4>2, <4>3, <4>4, <4>5, <4>6
    <3>2. State(p)
        BY <1>3, <3>1 DEF State
    <3> QED BY <1>5, <3>1, <3>2 DEF p, NamedCondition
  <2> QED BY <2>4, <2>5
<1> QED BY <1>4, <1>5

-----------------------------------------------------------------------------
(* What has been read of a file after k items.                             *)

Decl(file, k, name) ==
    {j \in 1..k : file[j].kind = NamedCondition /\ file[j].name = name}

ConditionsAt(file, k, named) ==
    /\ Blank \notin DOMAIN named
    /\ \A name :
        /\ name # Blank => (name \in DOMAIN named <=> Decl(file, k, name) # {})
        /\ name \in DOMAIN named => named[name] = file[Max(Decl(file, k, name))].expr

PlacedAt(file, i, q) ==
    \E named : ConditionsAt(file, i - 1, named) /\ PolicyOf(file[i], named, q)

Placed(file, k, pos, policies) ==
    /\ IsSequence(pos)
    /\ IsSequence(policies)
    /\ Len(pos) = Len(policies)
    /\ \A j \in 1..Len(pos) :
        /\ pos[j] \in 1..k
        /\ IsPolicy(file[pos[j]])
        /\ PlacedAt(file, pos[j], policies[j])
    /\ \A i, j \in 1..Len(pos) : pos[i] = pos[j] => i = j
    /\ \A i \in 1..k : IsPolicy(file[i]) => \E j \in 1..Len(pos) : pos[j] = i

(* The declarations of a name, one line further.                           *)
LEMMA DeclMore ==
    ASSUME NEW file, NEW k \in Nat, NEW name
    PROVE  Decl(file, k + 1, name) =
              Decl(file, k, name) \cup
              (IF file[k + 1].kind = NamedCondition /\ file[k + 1].name = name THEN {k + 1} ELSE {})
<1>1. \A j : j \in 1..(k + 1) <=> j \in 1..k \/ j = k + 1
    OBVIOUS
<1> QED BY <1>1 DEF Decl

(* The conditions behind a line that declares none...                      *)
LEMMA ConditionsSame ==
    ASSUME NEW file, NEW k \in Nat, NEW named, ConditionsAt(file, k, named),
           file[k + 1].kind # NamedCondition \/ file[k + 1].name = Blank
    PROVE  ConditionsAt(file, k + 1, named)
<1>1. ASSUME NEW name, name # Blank
      PROVE  Decl(file, k + 1, name) = Decl(file, k, name)
  <2>1. ~(file[k + 1].kind = NamedCondition /\ file[k + 1].name = name)
      BY <1>1
  <2>2. Decl(file, k + 1, name) = Decl(file, k, name) \cup {}
      BY <2>1, DeclMore
  <2> QED BY <2>2
<1> QED BY <1>1 DEF ConditionsAt

(* ...and behind one that does.                                            *)
LEMMA ConditionsMore ==
    ASSUME NEW file, NEW k \in Nat, NEW named, ConditionsAt(file, k, named),
           file[k + 1].kind = NamedCondition, file[k + 1].name # Blank
    PROVE  ConditionsAt(file, k + 1, Store(named, file[k + 1].name, file[k + 1].expr))
<1> DEFINE n == file[k + 1].name
           e == file[k + 1].expr
           new == Store(named, n, e)
<1>1. /\ DOMAIN new = DOMAIN named \cup {n}
      /\ new[n] = e
      /\ \A x \in DOMAIN named : x # n => new[x] = named[x]
    BY DEF Store
<1>2. ASSUME NEW name, name # n
      PROVE  Decl(file, k + 1, name) = Decl(file, k, name)
  <2>1. ~(file[k + 1].kind = NamedCondition /\ file[k + 1].name = name)
      BY <1>2
  <2>2. Decl(file, k + 1, name) = Decl(file, k, name) \cup {}
      BY <2>1, DeclMore
  <2> QED BY <2>2
<1>3. Decl(file, k + 1, n) = Decl(file, k, n) \cup {k + 1}
    BY DeclMore
<1>4. Max(Decl(file, k + 1, n)) = k + 1
  <2>1. Decl(file, k + 1, n) \subseteq 1..(k + 1)
      BY DEF Decl
  <2> QED BY <1>3, <2>1, MaxLast
<1> HIDE DEF new
<1>5. Blank \notin DOMAIN new
    BY <1>1 DEF ConditionsAt
<1>6. ASSUME NEW name
      PROVE  /\ name # Blank => (name \in DOMAIN new <=> Decl(file, k + 1, name) # {})
             /\ name \in DOMAIN new => new[name] = file[Max(Decl(file, k + 1, name))].expr
  <2>1. CASE name = n
    <3> HIDE DEF n, e
    <3>1. file[k + 1].expr = e
        BY DEF e
    <3> QED BY <1>1, <1>3, <1>4, <2>1, <3>1
  <2>2. CASE name # n
    <3> HIDE DEF n, e
    <3>1. Decl(file, k + 1, name) = Decl(file, k, name)
        BY <1>2, <2>2
    <3>2. name \in DOMAIN new <=> name \in DOMAIN named
        BY <1>1, <2>2
    <3>3. name \in DOMAIN named => new[name] = named[name]
        BY <1>1, <2>2
    <3> QED BY <3>1, <3>2, <3>3 DEF ConditionsAt
  <2> QED BY <2>1, <2>2
<1> QED BY <1>5, <1>6 DEF ConditionsAt, new

(* The policies behind an item that is none...                             *)
LEMMA PlacedSame ==
    ASSUME NEW file, NEW k \in Nat, NEW pos, NEW policies, Placed(file, k, pos, policies),
           ~IsPolicy(file[k + 1])
    PROVE  Placed(file, k + 1, pos, policies)
<1>1. \A j : j \in 1..(k + 1) <=> j \in 1..k \/ j = k + 1
    OBVIOUS
<1> QED BY <1>1 DEF Placed

(* ...and behind one that is.                                              *)
LEMMA PlacedMore ==
    ASSUME NEW file, NEW k \in Nat, NEW pos, NEW policies, Placed(file, k, pos, policies),
           IsPolicy(file[k + 1]), NEW q, PlacedAt(file, k + 1, q)
    PROVE  Placed(file, k + 1, Plus(pos, k + 1), Plus(policies, q))
<1> DEFINE pos2 == Plus(pos, k + 1)
           pol2 == Plus(policies, q)
           n == Len(pos)
<1>1. \A j : j \in 1..(k + 1) <=> j \in 1..k \/ j = k + 1
    OBVIOUS
<1>2. IsSequence(pos) /\ IsSequence(policies) /\ Len(policies) = n /\ n \in Nat
    BY SequenceIs DEF Placed
<1>3. \A j : j \in 1..(n + 1) <=> j \in 1..n \/ j = n + 1
    BY <1>2
<1>4. /\ IsSequence(pos2) /\ Len(pos2) = n + 1 /\ pos2[n + 1] = k + 1
      /\ \A i \in 1..n : pos2[i] = pos[i]
    BY <1>2, LastOf
<1>5. /\ IsSequence(pol2) /\ Len(pol2) = n + 1 /\ pol2[n + 1] = q
      /\ \A i \in 1..n : pol2[i] = policies[i]
    BY <1>2, LastOf
<1> HIDE DEF pos2, pol2, n
<1>6. \A j \in 1..n : pos[j] \in 1..k /\ IsPolicy(file[pos[j]]) /\ PlacedAt(file, pos[j], policies[j])
    BY DEF Placed, n
<1>7. \A i, j \in 1..n : pos[i] = pos[j] => i = j
    BY DEF Placed, n
<1>8. \A i \in 1..k : IsPolicy(file[i]) => \E j \in 1..n : pos[j] = i
    BY DEF Placed, n
<1>9. ASSUME NEW j \in 1..(n + 1)
      PROVE  pos2[j] \in 1..(k + 1) /\ IsPolicy(file[pos2[j]]) /\ PlacedAt(file, pos2[j], pol2[j])
  <2>1. CASE j \in 1..n
    <3>1. pos2[j] = pos[j] /\ pol2[j] = policies[j]
        BY <1>4, <1>5, <2>1
    <3> QED BY <1>1, <1>6, <2>1, <3>1
  <2>2. CASE j = n + 1
    <3>1. pos2[j] = k + 1 /\ pol2[j] = q
        BY <1>4, <1>5, <2>2
    <3> QED BY <1>1, <3>1
  <2> QED BY <1>3, <2>1, <2>2
<1>10. ASSUME NEW i \in 1..(n + 1), NEW j \in 1..(n + 1), pos2[i] = pos2[j]
       PROVE  i = j
  <2>1. \A x \in 1..n : pos2[x] # k + 1
    <3>1. \A y \in 1..k : y # k + 1
        OBVIOUS
    <3> QED BY <1>4, <1>6, <3>1
  <2>2. CASE i \in 1..n /\ j \in 1..n
      BY <1>4, <1>7, <1>10, <2>2
  <2>3. CASE ~(i \in 1..n /\ j \in 1..n)
      BY <1>3, <1>4, <1>10, <2>1, <2>3
  <2> QED BY <2>2, <2>3
<1>11. ASSUME NEW i \in 1..(k + 1), IsPolicy(file[i])
       PROVE  \E j \in 1..(n + 1) : pos2[j] = i
  <2>1. CASE i \in 1..k
    <3>1. PICK j \in 1..n : pos[j] = i
        BY <1>8, <1>11, <2>1
    <3> QED BY <1>3, <1>4, <3>1
  <2>2. CASE i = k + 1
      BY <1>3, <1>4, <2>2
  <2> QED BY <1>1, <2>1, <2>2
<1>12. Len(pos2) = Len(pol2)
    BY <1>4, <1>5
<1>13. /\ \A j \in 1..Len(pos2) : pos2[j] \in 1..(k + 1) /\ IsPolicy(file[pos2[j]]) /\ PlacedAt(file, pos2[j], pol2[j])
       /\ \A i, j \in 1..Len(pos2) : pos2[i] = pos2[j] => i = j
       /\ \A i \in 1..(k + 1) : IsPolicy(file[i]) => \E j \in 1..Len(pos2) : pos2[j] = i
    BY <1>4, <1>9, <1>10, <1>11
<1> QED BY <1>4, <1>5, <1>12, <1>13 DEF Placed, pos2, pol2

-----------------------------------------------------------------------------
(* A file.                                                                 *)

ItemLines(item) == IF IsPolicy(item) THEN RenderPolicy(item) ELSE <<item>>
ItemsOf(file) == [i \in DOMAIN file |-> ItemLines(file[i])]

(* A file is as FileAssumption has it.                                     *)
LEMMA FileFits ==
    ASSUME NEW file \in Files
    PROVE  /\ IsSequence(file)
           /\ Len(file) \in Nat
           /\ DOMAIN file = 1..Len(file)
           /\ \A i \in 1..Len(file) :
                /\ ~IsPolicy(file[i]) => file[i].kind \in NamespaceKinds
                /\ IsPolicy(file[i]) => PolicyFits(file[i])
<1>1. IsSequence(file)
    BY FileAssumption
<1>2. Len(file) \in Nat /\ DOMAIN file = 1..Len(file)
    BY <1>1, SequenceIs
<1>3. \A i \in DOMAIN file : ~IsPolicy(file[i]) => file[i].kind \in NamespaceKinds
    BY FileAssumption
<1>4. \A i \in DOMAIN file : IsPolicy(file[i]) => PolicyFits(file[i])
  <2> SUFFICES ASSUME NEW i \in DOMAIN file, IsPolicy(file[i])
               PROVE  PolicyFits(file[i])
      OBVIOUS
  <2>1. /\ IsSequence(file[i].rules)
        /\ \A r \in DOMAIN file[i].rules :
                /\ file[i].rules[r].effect \in {"permit", "deny"}
                /\ IsSequence(file[i].rules[r].conditions)
                /\ Len(file[i].rules[r].conditions) <= 1
        /\ IsSequence(file[i].obligations)
        /\ \A b \in DOMAIN file[i].obligations : IsSequence(file[i].obligations[b].params)
      BY FileAssumption
  <2> QED BY <2>1 DEF PolicyFits, RulesFit, RuleFits, ObligationsFit
<1> QED BY <1>1, <1>2, <1>3, <1>4

(* The parser between two items.                                           *)
Between(file, k, p) ==
    \/ p.error
    \/ /\ State(p) /\ ~p.error /\ p.level = "namespace"
       /\ ConditionsAt(file, k, p.conditions)
       /\ \E pos : Placed(file, k, pos, p.policies)

(* Before the first item.                                                  *)
LEMMA StartBetween ==
    ASSUME NEW file
    PROVE  Between(file, 0, StartOfFile)
<1> DEFINE b == StartOfFile
           none == <<>>
<1>1. /\ b = [x \in DOMAIN b |-> b[x]]
      /\ ~b.error /\ b.level = "namespace" /\ b.conditions = none /\ b.policies = none
    BY DEF StartOfFile
<1>2. DOMAIN none = {} /\ Len(none) = 0 /\ IsSequence(none)
    BY ReadNone
<1> HIDE DEF b, none
<1>3. State(b)
    BY <1>1, <1>2 DEF State, b
<1>4. ConditionsAt(file, 0, none)
    BY <1>2 DEF ConditionsAt, Decl
<1>5. Placed(file, 0, none, none)
    BY <1>2 DEF Placed
<1> QED BY <1>1, <1>3, <1>4, <1>5 DEF Between, b

(* From one item to the next.                                              *)
LEMMA ItemRead ==
    ASSUME NEW file \in Files, NEW k \in 0..(Len(file) - 1), NEW p, Between(file, k, p)
    PROVE  /\ IsSequence(ItemLines(file[k + 1]))
           /\ Between(file, k + 1, Read(p, ItemLines(file[k + 1])))
<1> DEFINE l == file[k + 1]
           to == Read(p, ItemLines(l))
<1>1. /\ k + 1 \in 1..Len(file) /\ k \in Nat
      /\ ~IsPolicy(l) => l.kind \in NamespaceKinds
      /\ IsPolicy(l) => PolicyFits(l)
    BY FileFits
<1>2. CASE p.error
  <2>1. IsSequence(ItemLines(l))
    <3>1. CASE ~IsPolicy(l)
        BY <3>1, ReadOne DEF ItemLines
    <3>2. CASE IsPolicy(l)
      <4>1. State(StartOfFile) /\ ~StartOfFile.error
        <5>1. Between(file, 0, StartOfFile)
            BY StartBetween
        <5>2. ~StartOfFile.error
            BY DEF StartOfFile
        <5> QED BY <5>1, <5>2 DEF Between
      <4>2. IsSequence(RenderPolicy(l))
          BY <1>1, <3>2, <4>1, PolicyRead
      <4> QED BY <3>2, <4>2 DEF ItemLines
    <3> QED BY <3>1, <3>2
  <2> HIDE DEF l
  <2>2. Read(p, ItemLines(l)) = p
      BY <1>2, <2>1, ErrorStays
  <2> QED BY <1>2, <2>1, <2>2 DEF Between, l
<1>3. CASE ~p.error
  <2>1. /\ State(p) /\ p.level = "namespace" /\ ConditionsAt(file, k, p.conditions)
        /\ \E pos : Placed(file, k, pos, p.policies)
      BY <1>3 DEF Between
  <2>2. PICK pos : Placed(file, k, pos, p.policies)
      BY <2>1
  <2>3. CASE IsPolicy(l)
    <3>1. ItemLines(l) = RenderPolicy(l)
        BY <2>3 DEF ItemLines
    <3>2. /\ IsSequence(RenderPolicy(l))
          /\ \/ Read(p, RenderPolicy(l)).error
             \/ \E q : PolicyOf(l, p.conditions, q) /\ Read(p, RenderPolicy(l)) = At(p, "namespace", Blank, q)
      <4> DEFINE x == Read(p, RenderPolicy(l))
      <4>1. PolicyFits(l)
          BY <1>1, <2>3
      <4> HIDE DEF l
      <4>2. x = Read(p, RenderPolicy(l))
          OBVIOUS
      <4> HIDE DEF x
      <4>3. IsSequence(RenderPolicy(l))
          BY <1>3, <2>1, <4>1, PolicyRead
      <4>4. x.error \/ \E q : PolicyOf(l, p.conditions, q) /\ x = At(p, "namespace", Blank, q)
          BY <1>3, <2>1, <4>1, <4>2, PolicyRead
      <4> QED BY <4>3, <4>4 DEF x
    <3>3. CASE to.error
        BY <3>1, <3>2, <3>3 DEF Between
    <3>4. CASE ~to.error
      <4>1. PICK q : PolicyOf(l, p.conditions, q) /\ to = At(p, "namespace", Blank, q)
          BY <3>1, <3>2, <3>4
      <4>2. /\ State(to) /\ ~to.error /\ to.level = "namespace" /\ to.conditions = p.conditions
            /\ to.policies = Plus(p.policies, q)
        <5> HIDE DEF to
        <5> QED BY <1>3, <2>1, <4>1, AtFields
      <4>3. ConditionsAt(file, k + 1, p.conditions)
        <5>1. l.kind # NamedCondition
            BY <2>3 DEF IsPolicy, NamedCondition
        <5> QED BY <1>1, <2>1, <5>1, ConditionsSame
      <4>4. PlacedAt(file, k + 1, q)
        <5>1. (k + 1) - 1 = k
            BY <1>1
        <5> QED BY <2>1, <4>1, <5>1 DEF PlacedAt
      <4>5. Placed(file, k + 1, Plus(pos, k + 1), Plus(p.policies, q))
          BY <1>1, <2>2, <2>3, <4>4, PlacedMore
      <4> HIDE DEF to
      <4>6. Between(file, k + 1, to)
          BY <4>2, <4>3, <4>5 DEF Between
      <4> QED BY <3>1, <3>2, <4>6 DEF to
    <3> QED BY <3>3, <3>4
  <2>4. CASE ~IsPolicy(l)
    <3>1. ItemLines(l) = <<l>>
        BY <2>4 DEF ItemLines
    <3>2. IsSequence(<<l>>) /\ Read(p, <<l>>) = Scan(p, l)
      <4> HIDE DEF l
      <4> QED BY ReadOne
    <3>3. to = Scan(p, l)
        BY <3>1, <3>2
    <3>4. \/ to.error
          \/ /\ State(to) /\ ~to.error /\ to.level = "namespace" /\ to.policies = p.policies
             /\ to.conditions = IF l.kind = NamedCondition /\ l.name # Blank
                                   THEN Store(p.conditions, l.name, l.expr)
                                   ELSE p.conditions
      <4>1. l.kind \in NamespaceKinds
          BY <1>1, <2>4
      <4> HIDE DEF to, l
      <4> QED BY <1>3, <2>1, <3>3, <4>1, NamespaceRead
    <3> HIDE DEF to
    <3>5. Placed(file, k + 1, pos, p.policies)
        BY <1>1, <2>2, <2>4, PlacedSame
    <3>6. CASE ~to.error
      <4>1. CASE l.kind = NamedCondition /\ l.name # Blank
        <5>1. ConditionsAt(file, k + 1, Store(p.conditions, l.name, l.expr))
            BY <1>1, <2>1, <4>1, ConditionsMore
        <5> QED BY <3>1, <3>2, <3>4, <3>5, <3>6, <4>1, <5>1 DEF Between, to
      <4>2. CASE ~(l.kind = NamedCondition /\ l.name # Blank)
        <5>1. ConditionsAt(file, k + 1, p.conditions)
            BY <1>1, <2>1, <4>2, ConditionsSame
        <5> QED BY <3>1, <3>2, <3>4, <3>5, <3>6, <4>2, <5>1 DEF Between, to
      <4> QED BY <4>1, <4>2
    <3>7. CASE to.error
        BY <3>1, <3>2, <3>7 DEF Between, to
    <3> QED BY <3>6, <3>7
  <2> QED BY <2>3, <2>4
<1> QED BY <1>2, <1>3

(* What the parser keeps of a file it does not refuse: each policy of the  *)
(* file once, with its action and struct, its rules, each with its         *)
(* condition as the lines before the policy declare it, and its            *)
(* obligations, those of a symbol as one, or none if they stand in rules.  *)
THEOREM FileRead ==
    ASSUME NEW file \in Files
    PROVE  LET p == parsePolicySet(file)
           IN \/ p.error
              \/ /\ IsSequence(p.policies)
                 /\ \E pos : Placed(file, Len(file), pos, p.policies)
<1> DEFINE ss == ItemsOf(file)
           n == Len(file)
           last == <<Line("close")>>
           p == parsePolicySet(file)
<1>1. n \in Nat /\ DOMAIN file = 1..n
    BY FileFits
<1>2. ss = [i \in 1..n |-> ss[i]] /\ \A i \in 1..n : ss[i] = ItemLines(file[i])
    BY <1>1 DEF ItemsOf
<1>3. p = Read(StartOfFile, FlattenSeq(ss) \o last)
    BY DEF parsePolicySet, Render, Read, ItemsOf, ItemLines
<1>4. Between(file, 0, StartOfFile)
    BY StartBetween
<1> HIDE DEF ss, last, p
<1>5. IsSequence(ss) /\ Len(ss) = n
    BY <1>1, <1>2, SequenceIs
<1>6. \A i \in 1..n : IsSequence(ss[i])
  <2> SUFFICES ASSUME NEW i \in 1..n
               PROVE  IsSequence(ss[i])
      OBVIOUS
  <2> DEFINE e == Failed(StartOfFile)
  <2>1. i - 1 \in 0..(n - 1) /\ (i - 1) + 1 = i
      BY <1>1
  <2>2. e.error
      BY DEF Failed, StartOfFile
  <2>3. Between(file, i - 1, e)
      BY <2>2 DEF Between
  <2> HIDE DEF e
  <2>4. IsSequence(ItemLines(file[(i - 1) + 1]))
      BY <2>1, <2>3, ItemRead
  <2>5. IsSequence(ItemLines(file[i]))
      BY <2>1, <2>4
  <2> QED BY <1>2, <2>5
<1>7. Parts(ss)
    BY <1>5, <1>6 DEF Parts
<1> DEFINE all == Read(StartOfFile, FlattenSeq(ss))
<1>8. all = Read(StartOfFile, FlattenSeq(ss))
    OBVIOUS
<1> HIDE DEF all
<1>9. PICK f : /\ f[0] = StartOfFile
               /\ \A k \in 0..(Len(ss) - 1) : f[k + 1] = Read(f[k], ss[k + 1])
               /\ all = f[Len(ss)]
    BY <1>7, <1>8, ReadParts
<1> DEFINE S == {k \in 0..n : Between(file, k, f[k])}
<1>10. 0 \in S
    BY <1>1, <1>4, <1>9
<1>11. ASSUME NEW k \in 0..(n - 1), k \in S
       PROVE  k + 1 \in S
  <2>1. k + 1 \in 1..n /\ k + 1 \in 0..n /\ k \in 0..(Len(ss) - 1) /\ k \in 0..(Len(file) - 1)
      BY <1>1, <1>5
  <2>2. Between(file, k, f[k])
      BY <1>11
  <2>3. f[k + 1] = Read(f[k], ItemLines(file[k + 1]))
      BY <1>2, <1>9, <2>1
  <2>4. Between(file, k + 1, f[k + 1])
      BY <2>1, <2>2, <2>3, ItemRead
  <2> QED BY <2>1, <2>4
<1> HIDE DEF S
<1>12. n \in S
  <2>1. \A k \in 0..n : k \in S
      BY <1>1, <1>10, <1>11, UpTo
  <2> QED BY <1>1, <2>1
<1>13. Between(file, n, all)
    BY <1>5, <1>9, <1>12 DEF S
<1>14. p = Scan(all, Line("close"))
  <2>1. IsSequence(FlattenSeq(ss))
      BY <1>7, ReadParts
  <2>2. IsSequence(last) /\ Read(all, last) = Scan(all, Line("close"))
      BY ReadOne DEF last
  <2> QED BY <1>3, <1>8, <2>1, <2>2, ReadConcat
<1>15. p = all
  <2>1. CASE all.error
      BY <1>14, <2>1 DEF Scan
  <2>2. CASE ~all.error
    <3>1. all.level = "namespace"
        BY <1>13, <2>2 DEF Between
    <3>2. Line("close").kind = "close"
        BY KindsOf
    <3>3. Scan(all, Line("close")) = NamespaceLine(all, Line("close"))
        BY <2>2, <3>1, <3>2, LevelNames
    <3>4. NamespaceLine(all, Line("close")) = all
        BY <3>2 DEF NamespaceLine
    <3> QED BY <1>14, <3>3, <3>4
  <2> QED BY <2>1, <2>2
<1>16. p.error \/ (IsSequence(p.policies) /\ \E pos : Placed(file, n, pos, p.policies))
    BY <1>13, <1>15 DEF Between, State
<1> QED BY <1>16 DEF p

-----------------------------------------------------------------------------
(* Least and greatest numbers of a set.                                    *)

(* The least number of a set is in it.                                     *)
LEMMA MinIn ==
    ASSUME NEW S \in SUBSET Nat, S # {}
    PROVE  Min(S) \in S
  BY FirstOf DEF Min

(* So is the greatest number of a bounded set.                             *)
LEMMA MaxIn ==
    ASSUME NEW k \in Nat, NEW S \in SUBSET (1..k), S # {}
    PROVE  Max(S) \in S
<1> DEFINE T == {k - j : j \in S}
<1>1. T \in SUBSET Nat /\ T # {}
  <2>1. \A j \in S : k - j \in Nat
      OBVIOUS
  <2>2. PICK j \in S : TRUE
      OBVIOUS
  <2>3. k - j \in T
      OBVIOUS
  <2> QED BY <2>1, <2>3
<1>2. PICK d \in T : \A e \in T : d <= e
  <2> HIDE DEF T
  <2> QED BY <1>1, FirstOf
<1>3. PICK i \in S : d = k - i
    BY <1>2
<1>4. \A j \in S : i >= j
  <2> SUFFICES ASSUME NEW j \in S
               PROVE  i >= j
      OBVIOUS
  <2>1. k - j \in T
      OBVIOUS
  <2>2. k - i <= k - j
      BY <1>2, <1>3, <2>1
  <2>3. i \in Nat /\ j \in Nat
      OBVIOUS
  <2> QED BY <2>2, <2>3
<1> QED BY <1>4 DEF Max

-----------------------------------------------------------------------------
(* Expressions.                                                            *)

(* The first element that differs decides.                                 *)
LEMMA FirstNotIs ==
    ASSUME NEW s, DOMAIN s \in SUBSET Nat, NEW neutral
    PROVE  \/ FirstNot(s, neutral) = neutral /\ \A i \in DOMAIN s : s[i] = neutral
           \/ \E i \in DOMAIN s : s[i] # neutral /\ FirstNot(s, neutral) = s[i]
<1> DEFINE others == {i \in DOMAIN s : s[i] # neutral}
<1>1. others \in SUBSET Nat
    OBVIOUS
<1>2. CASE others = {}
    BY <1>2 DEF FirstNot
<1>3. CASE others # {}
  <2>1. Min(others) \in others
    <3> HIDE DEF others
    <3> QED BY <1>1, <1>3, MinIn
  <2>2. FirstNot(s, neutral) = s[Min(others)]
      BY <1>3 DEF FirstNot
  <2> DEFINE m == Min(others)
  <2>3. m \in DOMAIN s /\ s[m] # neutral
      BY <2>1
  <2> HIDE DEF m
  <2>4. FirstNot(s, neutral) = s[m]
      BY <2>2 DEF m
  <2> QED BY <2>3, <2>4
<1> QED BY <1>2, <1>3

PlainTest(t) == t.value.type = "text" => ParseValue(t.value.value) = t.value

(* A test is true if the attribute is what it asks for, and the reverse if *)
(* a text in quotes stays one; it always has a truth value if it compares  *)
(* an attribute of the certificate.                                        *)
LEMMA TestIs ==
    ASSUME NEW t, NEW attributes
    PROVE  /\ TestValue(t, attributes) = "true" =>
                 t.attribute \in DOMAIN attributes /\ Fulfilled(t, attributes[t.attribute])
           /\ t.attribute \in DOMAIN attributes /\ Fulfilled(t, attributes[t.attribute]) /\ PlainTest(t)
                 => TestValue(t, attributes) = "true"
           /\ t.attribute \in DOMAIN attributes /\ t.value \in Literal
                 => TestValue(t, attributes) \in {"true", "false"}
           /\ TestValue(t, attributes) = "no bool" => t.value \notin Literal
<1> DEFINE text == attributes[t.attribute]
           value == ParseValue(text)
<1>1. t.attribute \notin DOMAIN attributes => TestValue(t, attributes) = "error"
    BY DEF TestValue
<1>2. t.attribute \in DOMAIN attributes =>
          TestValue(t, attributes) =
              IF t.value # NoLiteral THEN IF value = t.value THEN "true" ELSE "false"
              ELSE IF value.type = "bool" THEN value.value ELSE "no bool"
    BY DEF TestValue
<1>3. NoLiteral.type = "none" /\ NoLiteral \notin Literal
    BY DEF NoLiteral, Literal
<1>4. /\ value.type = "text" => value = [type |-> "text", value |-> text]
      /\ value.type = "bool" => \/ value = [type |-> "bool", value |-> "true"]
                                \/ value = [type |-> "bool", value |-> "false"]
    BY DEF ParseValue
<1>5. Fulfilled(t, text) <=>
          IF t.value.type = "text" THEN text = t.value.value
          ELSE IF t.value # NoLiteral THEN value = t.value
          ELSE value = [type |-> "bool", value |-> "true"]
    BY DEF Fulfilled
<1>6. t.value.type = "text" /\ text = t.value.value /\ PlainTest(t) => value = t.value
    BY DEF PlainTest
<1> HIDE DEF value, text
<1>7. CASE t.attribute \notin DOMAIN attributes
    BY <1>1, <1>7
<1>8. CASE t.attribute \in DOMAIN attributes /\ t.value.type = "text"
  <2>1. t.value # NoLiteral
      BY <1>3, <1>8
  <2>2. value = t.value => text = t.value.value
      BY <1>4, <1>8
  <2> QED BY <1>2, <1>5, <1>6, <1>8, <2>1, <2>2 DEF text
<1>9. CASE t.attribute \in DOMAIN attributes /\ t.value.type # "text" /\ t.value # NoLiteral
    BY <1>2, <1>5, <1>9 DEF text
<1>10. CASE t.attribute \in DOMAIN attributes /\ t.value.type # "text" /\ t.value = NoLiteral
  <2>1. t.value \notin Literal
      BY <1>3, <1>10
  <2>2. TestValue(t, attributes) = IF value.type = "bool" THEN value.value ELSE "no bool"
      BY <1>2, <1>10
  <2>3. Fulfilled(t, text) <=> value = [type |-> "bool", value |-> "true"]
      BY <1>5, <1>10
  <2>4. TestValue(t, attributes) = "true" => value = [type |-> "bool", value |-> "true"]
    <3>1. CASE value.type = "bool" /\ value = [type |-> "bool", value |-> "true"]
        BY <3>1
    <3>2. CASE value.type = "bool" /\ value = [type |-> "bool", value |-> "false"]
      <4>1. value.value = "false"
          BY <3>2
      <4> QED BY <2>2, <3>2, <4>1
    <3>3. CASE value.type # "bool"
        BY <2>2, <3>3
    <3> QED BY <1>4, <3>1, <3>2, <3>3
  <2>5. value = [type |-> "bool", value |-> "true"] => TestValue(t, attributes) = "true"
    <3> SUFFICES ASSUME value = [type |-> "bool", value |-> "true"]
                 PROVE  TestValue(t, attributes) = "true"
        OBVIOUS
    <3>1. value.type = "bool" /\ value.value = "true"
        OBVIOUS
    <3> QED BY <2>2, <3>1
  <2> QED BY <1>10, <2>1, <2>3, <2>4, <2>5 DEF text
<1> QED BY <1>7, <1>8, <1>9, <1>10

(* A clause is true if a test in it is; and it is one if the attributes of *)
(* all its tests are there.                                                *)
LEMMA ClauseIs ==
    ASSUME NEW c, IsSequence(c), NEW attributes
    PROVE  /\ ClauseValue(c, attributes) = "true" =>
                 \E j \in DOMAIN c : /\ c[j].attribute \in DOMAIN attributes
                                     /\ Fulfilled(c[j], attributes[c[j].attribute])
           /\ (\A j \in DOMAIN c : /\ c[j].attribute \in DOMAIN attributes
                                   /\ c[j].value \in Literal /\ PlainTest(c[j]))
              /\ (\E j \in DOMAIN c : Fulfilled(c[j], attributes[c[j].attribute]))
                => ClauseValue(c, attributes) = "true"
           /\ ClauseValue(c, attributes) = "no bool" => \E j \in DOMAIN c : c[j].value \notin Literal
<1> DEFINE s == [i \in DOMAIN c |-> TestValue(c[i], attributes)]
<1>1. DOMAIN s \in SUBSET Nat /\ DOMAIN s = DOMAIN c
    BY SequenceIs
<1>2. \A i \in DOMAIN c :
        /\ s[i] = "true" => /\ c[i].attribute \in DOMAIN attributes
                            /\ Fulfilled(c[i], attributes[c[i].attribute])
        /\ c[i].attribute \in DOMAIN attributes /\ Fulfilled(c[i], attributes[c[i].attribute])
              /\ PlainTest(c[i])
             => s[i] = "true"
        /\ c[i].attribute \in DOMAIN attributes /\ c[i].value \in Literal => s[i] \in {"true", "false"}
        /\ s[i] = "no bool" => c[i].value \notin Literal
  <2> SUFFICES ASSUME NEW i \in DOMAIN c
               PROVE  /\ s[i] = "true" => /\ c[i].attribute \in DOMAIN attributes
                                          /\ Fulfilled(c[i], attributes[c[i].attribute])
                      /\ c[i].attribute \in DOMAIN attributes /\ Fulfilled(c[i], attributes[c[i].attribute])
                            /\ PlainTest(c[i])
                           => s[i] = "true"
                      /\ c[i].attribute \in DOMAIN attributes /\ c[i].value \in Literal
                           => s[i] \in {"true", "false"}
                      /\ s[i] = "no bool" => c[i].value \notin Literal
      OBVIOUS
  <2> DEFINE t == c[i]
             v == TestValue(t, attributes)
  <2>1. s[i] = v
      OBVIOUS
  <2> HIDE DEF s
  <2>2. /\ v = "true" => t.attribute \in DOMAIN attributes /\ Fulfilled(t, attributes[t.attribute])
        /\ t.attribute \in DOMAIN attributes /\ Fulfilled(t, attributes[t.attribute]) /\ PlainTest(t)
              => v = "true"
        /\ t.attribute \in DOMAIN attributes /\ t.value \in Literal => v \in {"true", "false"}
        /\ v = "no bool" => t.value \notin Literal
    <3> HIDE DEF t
    <3> QED BY TestIs DEF v
  <2> HIDE DEF v
  <2> QED BY <2>1, <2>2 DEF t
<1>3. ClauseValue(c, attributes) = FirstNot(s, "false")
    BY DEF ClauseValue
<1> HIDE DEF s
<1>4. \/ FirstNot(s, "false") = "false" /\ \A i \in DOMAIN s : s[i] = "false"
      \/ \E i \in DOMAIN s : s[i] # "false" /\ FirstNot(s, "false") = s[i]
    BY <1>1, FirstNotIs
<1> QED BY <1>1, <1>2, <1>3, <1>4

(* An expression that is evaluated to true is satisfied.  The converse     *)
(* needs all attributes that are tested: one that is missing is an error,  *)
(* and what follows it is not evaluated.  Comparisons have truth values.   *)
LEMMA EvaluateIs ==
    ASSUME NEW expr, IsExpression(expr), NEW attributes
    PROVE  /\ Evaluate(expr, attributes) = "true" => Satisfied(expr, attributes)
           /\ Satisfied(expr, attributes) /\ Attributes(expr) \subseteq DOMAIN attributes
              /\ HasValues(expr) /\ Plain(expr)
                 => Evaluate(expr, attributes) = "true"
           /\ Evaluate(expr, attributes) = "no bool" => ~HasValues(expr)
<1> DEFINE s == [i \in DOMAIN expr |-> ClauseValue(expr[i], attributes)]
<1>1. DOMAIN s \in SUBSET Nat /\ DOMAIN s = DOMAIN expr
    BY SequenceIs DEF IsExpression
<1>2. \A i \in DOMAIN expr : s[i] = ClauseValue(expr[i], attributes) /\ IsSequence(expr[i])
    BY DEF IsExpression
<1>3. Evaluate(expr, attributes) = FirstNot(s, "true")
    BY DEF Evaluate
<1> HIDE DEF s
<1>4. \/ FirstNot(s, "true") = "true" /\ \A i \in DOMAIN s : s[i] = "true"
      \/ \E i \in DOMAIN s : s[i] # "true" /\ FirstNot(s, "true") = s[i]
    BY <1>1, FirstNotIs
<1>5. /\ Evaluate(expr, attributes) = "true" <=> \A i \in DOMAIN expr : s[i] = "true"
      /\ Evaluate(expr, attributes) = "no bool" => \E i \in DOMAIN expr : s[i] = "no bool"
    BY <1>1, <1>3, <1>4
<1>6. ASSUME NEW i \in DOMAIN expr, s[i] = "true"
      PROVE  \E j \in DOMAIN expr[i] :
                 /\ expr[i][j].attribute \in DOMAIN attributes
                 /\ Fulfilled(expr[i][j], attributes[expr[i][j].attribute])
  <2> DEFINE c == expr[i]
  <2>1. IsSequence(c) /\ ClauseValue(c, attributes) = "true"
      BY <1>2, <1>6
  <2> HIDE DEF c
  <2>2. \E j \in DOMAIN c : /\ c[j].attribute \in DOMAIN attributes
                            /\ Fulfilled(c[j], attributes[c[j].attribute])
      BY <2>1, ClauseIs
  <2> QED BY <2>2 DEF c
<1>7. ASSUME NEW i \in DOMAIN expr, Satisfied(expr, attributes), Attributes(expr) \subseteq DOMAIN attributes,
             HasValues(expr), Plain(expr)
      PROVE  s[i] = "true"
  <2> DEFINE c == expr[i]
  <2>1. \E j \in DOMAIN c : Fulfilled(c[j], attributes[c[j].attribute])
      BY <1>7 DEF Satisfied
  <2>2. \A j \in DOMAIN c : c[j].attribute \in DOMAIN attributes
      BY <1>7 DEF Attributes
  <2>3. \A j \in DOMAIN c : c[j].value \in Literal /\ PlainTest(c[j])
      BY <1>7 DEF HasValues, Plain, PlainTest
  <2>4. IsSequence(c) /\ s[i] = ClauseValue(c, attributes)
      BY <1>2
  <2> HIDE DEF c
  <2> QED BY <2>1, <2>2, <2>3, <2>4, ClauseIs
<1>8. ASSUME NEW i \in DOMAIN expr, s[i] = "no bool"
      PROVE  ~HasValues(expr)
  <2> DEFINE c == expr[i]
  <2>1. IsSequence(c) /\ ClauseValue(c, attributes) = "no bool"
      BY <1>2, <1>8
  <2> HIDE DEF c
  <2>2. \E j \in DOMAIN c : c[j].value \notin Literal
      BY <2>1, ClauseIs
  <2> QED BY <2>2 DEF c, HasValues
<1> QED BY <1>5, <1>6, <1>7, <1>8 DEF Satisfied

-----------------------------------------------------------------------------
(* Positions of the elements of sequences put together.                    *)

(* Where the elements of the parts stand when they are put together.       *)
LEMMA Positions ==
    ASSUME NEW ss, Parts(ss)
    PROVE  \E off :
             /\ off[0] = 0
             /\ \A k \in 0..Len(ss) : off[k] \in Nat
             /\ \A k \in 1..Len(ss) : off[k] = off[k - 1] + Len(ss[k])
             /\ IsSequence(FlattenSeq(ss))
             /\ Len(FlattenSeq(ss)) = off[Len(ss)]
             /\ \A k \in 1..Len(ss) : \A i \in 1..Len(ss[k]) :
                   /\ off[k - 1] + i \in DOMAIN FlattenSeq(ss)
                   /\ FlattenSeq(ss)[off[k - 1] + i] = ss[k][i]
             /\ \A x \in DOMAIN FlattenSeq(ss) :
                   \E k \in 1..Len(ss) : \E i \in 1..Len(ss[k]) : x = off[k - 1] + i
<1> DEFINE n == Len(ss)
<1>1. PICK flat : /\ flat[0] = <<>>
                  /\ \A k \in 0..n : IsSequence(flat[k])
                  /\ \A k \in 0..(n - 1) : flat[k + 1] = flat[k] \o ss[k + 1]
                  /\ FlattenSeq(ss) = flat[n]
    BY Flattened
<1>2. n \in Nat /\ \A k \in 1..n : IsSequence(ss[k])
    BY SequenceIs DEF Parts
<1> HIDE DEF n
<1> DEFINE off == [k \in 0..n |-> Len(flat[k])]
<1>3. \A k \in 0..n : off[k] = Len(flat[k]) /\ off[k] \in Nat /\ DOMAIN flat[k] = 1..off[k]
    BY <1>1, SequenceIs
<1>4. off[0] = 0
    BY <1>1, <1>2, <1>3
<1> HIDE DEF off
<1>5. ASSUME NEW k \in 0..(n - 1)
      PROVE  /\ k + 1 \in 1..n /\ k \in 0..n /\ k + 1 \in 0..n /\ (k + 1) - 1 = k
             /\ Len(ss[k + 1]) \in Nat
             /\ off[k + 1] = off[k] + Len(ss[k + 1])
             /\ \A i \in 1..off[k] : flat[k + 1][i] = flat[k][i]
             /\ \A i \in 1..Len(ss[k + 1]) : flat[k + 1][off[k] + i] = ss[k + 1][i]
  <2>1. k + 1 \in 1..n /\ k \in 0..n /\ k + 1 \in 0..n /\ (k + 1) - 1 = k
      BY <1>2
  <2> DEFINE s == flat[k]
             t == ss[k + 1]
  <2>2. IsSequence(s) /\ IsSequence(t)
      BY <1>1, <1>2, <2>1
  <2>3. flat[k + 1] = s \o t
      BY <1>1
  <2>4. Len(s) = off[k] /\ Len(flat[k + 1]) = off[k + 1]
      BY <1>3, <2>1
  <2> HIDE DEF s, t
  <2>5. /\ Len(s \o t) = Len(s) + Len(t)
        /\ \A i \in 1..Len(s) : (s \o t)[i] = s[i]
        /\ \A i \in 1..Len(t) : (s \o t)[Len(s) + i] = t[i]
        /\ Len(t) \in Nat
      BY <2>2, Joined, SequenceIs
  <2>6. /\ off[k + 1] = off[k] + Len(t)
        /\ \A i \in 1..off[k] : flat[k + 1][i] = s[i]
        /\ \A i \in 1..Len(t) : flat[k + 1][off[k] + i] = t[i]
      BY <2>3, <2>4, <2>5
  <2> QED BY <2>1, <2>5, <2>6 DEF s, t
<1>6. \A k \in 1..n : off[k] = off[k - 1] + Len(ss[k])
  <2> SUFFICES ASSUME NEW k \in 1..n
               PROVE  off[k] = off[k - 1] + Len(ss[k])
      OBVIOUS
  <2>1. k - 1 \in 0..(n - 1) /\ (k - 1) + 1 = k
      BY <1>2
  <2>2. off[(k - 1) + 1] = off[k - 1] + Len(ss[(k - 1) + 1])
      BY <1>5, <2>1
  <2> QED BY <2>1, <2>2
<1> DEFINE In(k) == \A j \in 1..k : \A i \in 1..Len(ss[j]) :
                       off[j - 1] + i \in 1..off[k] /\ flat[k][off[j - 1] + i] = ss[j][i]
           Onto(k) == \A x \in 1..off[k] :
                         \E j \in 1..k : \E i \in 1..Len(ss[j]) : x = off[j - 1] + i
           S == {k \in 0..n : In(k) /\ Onto(k)}
<1>7. 0 \in S
    BY <1>2, <1>4
<1>8. ASSUME NEW k \in 0..(n - 1), k \in S
      PROVE  k + 1 \in S
  <2>1. /\ k + 1 \in 1..n /\ k \in 0..n /\ k + 1 \in 0..n /\ (k + 1) - 1 = k
        /\ Len(ss[k + 1]) \in Nat /\ off[k] \in Nat
        /\ off[k + 1] = off[k] + Len(ss[k + 1])
        /\ \A i \in 1..off[k] : flat[k + 1][i] = flat[k][i]
        /\ \A i \in 1..Len(ss[k + 1]) : flat[k + 1][off[k] + i] = ss[k + 1][i]
      BY <1>3, <1>5
  <2>2. In(k) /\ Onto(k)
      BY <1>8
  <2>3. In(k + 1)
    <3> SUFFICES ASSUME NEW j \in 1..(k + 1), NEW i \in 1..Len(ss[j])
                 PROVE  off[j - 1] + i \in 1..off[k + 1] /\ flat[k + 1][off[j - 1] + i] = ss[j][i]
        OBVIOUS
    <3>1. CASE j = k + 1
        BY <2>1, <3>1
    <3>2. CASE j # k + 1
      <4>1. j \in 1..k
          BY <3>2
      <4>2. off[j - 1] + i \in 1..off[k] /\ flat[k][off[j - 1] + i] = ss[j][i]
          BY <2>2, <4>1
      <4> DEFINE x == off[j - 1] + i
      <4> HIDE DEF x
      <4>3. x \in 1..off[k] /\ flat[k][x] = ss[j][i]
          BY <4>2 DEF x
      <4>4. x \in 1..off[k + 1] /\ flat[k + 1][x] = ss[j][i]
          BY <2>1, <4>3
      <4> QED BY <4>4 DEF x
    <3> QED BY <3>1, <3>2
  <2>4. Onto(k + 1)
    <3> SUFFICES ASSUME NEW x \in 1..off[k + 1]
                 PROVE  \E j \in 1..(k + 1) : \E i \in 1..Len(ss[j]) : x = off[j - 1] + i
        OBVIOUS
    <3>1. CASE x <= off[k]
      <4>1. x \in 1..off[k]
          BY <2>1, <3>1
      <4>2. PICK j \in 1..k : \E i \in 1..Len(ss[j]) : x = off[j - 1] + i
          BY <2>2, <4>1
      <4>3. j \in 1..(k + 1)
          OBVIOUS
      <4> QED BY <4>2, <4>3
    <3>2. CASE ~(x <= off[k])
      <4>1. x - off[k] \in 1..Len(ss[k + 1]) /\ x = off[k] + (x - off[k])
          BY <2>1, <3>2
      <4>2. x = off[(k + 1) - 1] + (x - off[k])
          BY <2>1, <4>1
      <4>3. k + 1 \in 1..(k + 1)
          OBVIOUS
      <4> QED BY <4>1, <4>2, <4>3
    <3> QED BY <3>1, <3>2
  <2> HIDE DEF In, Onto
  <2> QED BY <2>1, <2>3, <2>4
<1> HIDE DEF S
<1>9. n \in S
  <2>1. \A k \in 0..n : k \in S
      BY <1>2, <1>7, <1>8, UpTo
  <2> QED BY <1>2, <2>1
<1>10. In(n) /\ Onto(n)
  <2> HIDE DEF In, Onto
  <2> QED BY <1>9 DEF S
<1>11. n \in 0..n
    BY <1>2
<1>12. /\ IsSequence(FlattenSeq(ss))
       /\ Len(FlattenSeq(ss)) = off[n]
       /\ DOMAIN FlattenSeq(ss) = 1..off[n]
    BY <1>1, <1>3, <1>11
<1>13. /\ \A k \in 1..n : \A i \in 1..Len(ss[k]) :
                   /\ off[k - 1] + i \in DOMAIN FlattenSeq(ss)
                   /\ FlattenSeq(ss)[off[k - 1] + i] = ss[k][i]
       /\ \A x \in DOMAIN FlattenSeq(ss) :
                   \E k \in 1..n : \E i \in 1..Len(ss[k]) : x = off[k - 1] + i
    BY <1>1, <1>10, <1>12
<1>14. \A k \in 0..n : off[k] \in Nat
    BY <1>3
<1> DEFINE Fits(o) ==
             /\ o[0] = 0
             /\ \A k \in 0..Len(ss) : o[k] \in Nat
             /\ \A k \in 1..Len(ss) : o[k] = o[k - 1] + Len(ss[k])
             /\ IsSequence(FlattenSeq(ss))
             /\ Len(FlattenSeq(ss)) = o[Len(ss)]
             /\ \A k \in 1..Len(ss) : \A i \in 1..Len(ss[k]) :
                   /\ o[k - 1] + i \in DOMAIN FlattenSeq(ss)
                   /\ FlattenSeq(ss)[o[k - 1] + i] = ss[k][i]
             /\ \A x \in DOMAIN FlattenSeq(ss) :
                   \E k \in 1..Len(ss) : \E i \in 1..Len(ss[k]) : x = o[k - 1] + i
<1>15. Fits(off)
  <2>1. n = Len(ss)
      BY DEF n
  <2> QED BY <1>4, <1>6, <1>12, <1>13, <1>14, <2>1
<1>16. \E o : Fits(o)
  <2> HIDE DEF Fits
  <2> QED BY <1>15
<1> QED BY <1>16

-----------------------------------------------------------------------------
(* What a file says of its policies.                                       *)

(* A condition is expanded to what the lines before the policy say.        *)
LEMMA WrittenIs ==
    ASSUME NEW file \in Files, NEW i \in 1..Len(file), NEW named,
           ConditionsAt(file, i - 1, named),
           NEW use
    PROVE  expandCondition(use, named) = Written(file, i, use)
<1> DEFINE D == Declarations(file, i, use.name)
<1>1. Declarations(file, i, use.name) = Decl(file, i - 1, use.name)
    BY DEF Declarations, Decl, NamedCondition
<1>2. CASE use.name = Blank
  <2>1. use.name \notin DOMAIN named
      BY <1>2 DEF ConditionsAt
  <2> QED BY <1>2, <2>1 DEF expandCondition, Written, Defined, Blank
<1>3. CASE use.name # Blank
  <2> DEFINE n == use.name
             m == Max(Decl(file, i - 1, n))
  <2>1. n \in DOMAIN named <=> Decl(file, i - 1, n) # {}
      BY <1>3 DEF ConditionsAt
  <2>2. n \in DOMAIN named => named[n] = file[m].expr
      BY DEF ConditionsAt
  <2>3. CASE n \in DOMAIN named
    <3>1. expandCondition(use, named) = named[n]
        BY <2>3 DEF expandCondition
    <3>2. Declarations(file, i, n) # {}
        BY <1>1, <2>1, <2>3
    <3>3. Written(file, i, use) = file[Max(Declarations(file, i, n))].expr
        BY <1>3, <3>2 DEF Written, Defined, Blank
    <3> QED BY <1>1, <2>2, <2>3, <3>1, <3>3
  <2>4. CASE n \notin DOMAIN named
    <3>1. Declarations(file, i, n) = {}
        BY <1>1, <2>1, <2>4
    <3> QED BY <1>3, <2>4, <3>1 DEF expandCondition, Written, Defined, Blank
  <2> QED BY <2>3, <2>4
<1> QED BY <1>2, <1>3

(* What is written there is an expression.                                 *)
LEMMA WrittenExpression ==
    ASSUME NEW file \in Files, NEW i \in 1..Len(file), IsPolicy(file[i]),
           NEW r \in DOMAIN file[i].rules, NEW c \in DOMAIN file[i].rules[r].conditions
    PROVE  LET use == file[i].rules[r].conditions[c] IN
           /\ IsExpression(Written(file, i, use))
           /\ Defined(file, i, use) => HasValues(Written(file, i, use))
<1> DEFINE use == file[i].rules[r].conditions[c]
           D == Declarations(file, i, use.name)
<1>1. i \in DOMAIN file /\ DOMAIN file = 1..Len(file) /\ Len(file) \in Nat
    BY FileFits
<1>2. IsExpression(use.expr) /\ HasValues(use.expr)
    BY <1>1, FileAssumption
<1>3. CASE ~Defined(file, i, use)
  <2> DEFINE a == Bare(use.name)
             w == Written(file, i, use)
  <2>1. w = <<<<a>>>>
      BY <1>3 DEF Written
  <2> HIDE DEF a, w
  <2>2. IsSequence(<<a>>)
      BY ReadOne
  <2>3. IsSequence(<<<<a>>>>)
      BY ReadOne
  <2>4. DOMAIN <<<<a>>>> = {1} /\ <<<<a>>>>[1] = <<a>>
      OBVIOUS
  <2>5. IsExpression(w)
      BY <2>1, <2>2, <2>3, <2>4 DEF IsExpression
  <2> QED BY <1>3, <2>5 DEF w
<1>4. CASE Defined(file, i, use) /\ use.name = ""
    BY <1>2, <1>4 DEF Written
<1>5. CASE Defined(file, i, use) /\ use.name # ""
  <2>1. D # {} /\ D \subseteq 1..(i - 1)
      BY <1>5 DEF Defined, Declarations
  <2> DEFINE m == Max(D)
  <2>2. m \in D
    <3> HIDE DEF D
    <3>1. i - 1 \in Nat
        BY <1>1
    <3> QED BY <2>1, <3>1, MaxIn
  <2>3. file[m].kind = "named condition" /\ m \in 1..(i - 1)
      BY <2>2 DEF Declarations
  <2>4. Written(file, i, use) = file[m].expr
      BY <1>5 DEF Written
  <2> HIDE DEF m, D
  <2>5. m \in DOMAIN file
    <3> DEFINE n == Len(file)
    <3>1. n \in Nat /\ i \in 1..n /\ DOMAIN file = 1..n
        BY <1>1
    <3> HIDE DEF n
    <3>2. m \in 1..(i - 1)
        BY <2>3
    <3>3. \A x \in 1..(i - 1) : x \in 1..n
        BY <3>1
    <3>4. m \in 1..n
        BY <3>2, <3>3
    <3> QED BY <3>1, <3>4
  <2>6. ~IsPolicy(file[m])
      BY <2>3 DEF IsPolicy
  <2>7. IsExpression(file[m].expr) /\ HasValues(file[m].expr)
      BY <2>3, <2>5, <2>6, FileAssumption
  <2> QED BY <2>4, <2>7
<1> QED BY <1>3, <1>4, <1>5

(* The first symbol of a set is in it.                                     *)
LEMMA FirstSymbolIn ==
    ASSUME NEW S, S # {}, S \subseteq ToSet(SymbolOrder)
    PROVE  FirstSymbol(S) \in S
<1> DEFINE I == {i \in DOMAIN SymbolOrder : SymbolOrder[i] \in S}
<1>1. DOMAIN SymbolOrder \in SUBSET Nat
    BY SymbolAssumption, SequenceIs
<1>2. I \in SUBSET Nat
    BY <1>1
<1>3. I # {}
    BY DEF ToSet
<1>4. Min(I) \in I
  <2> HIDE DEF I
  <2> QED BY <1>2, <1>3, MinIn
<1>5. FirstSymbol(S) = SymbolOrder[Min(I)]
    BY DEF FirstSymbol
<1> QED BY <1>4, <1>5

(* What the code picks for an aggregation is what the file says.           *)
LEMMA AggregationIs ==
    ASSUME NEW file \in Files, NEW i \in 1..Len(file), IsPolicy(file[i]),
           NEW named, NEW q, PolicyOf(file[i], named, q),
           q.type = "decisionwithaggregation", Len(q.rules) = 1, ~NothingToAggregate(q)
    PROVE  pickAggregationObligation(q) = AggregatesOf(file[i])
<1> DEFINE t == file[i]
           ob == q.obligations
           n == Len(t.obligations)
           S == ObligationSyms(t)
<1>1. i \in DOMAIN file
    BY FileFits
<1>2. /\ IsSequence(t.obligations)
      /\ \A b \in DOMAIN t.obligations : t.obligations[b].sym \in ToSet(SymbolOrder)
    BY <1>1, FileAssumption
<1>3. n \in Nat /\ DOMAIN t.obligations = 1..n
    BY <1>2, SequenceIs
<1>4. q.rules # <<>>
    OBVIOUS
<1>5. ob # <<>>
    BY <1>4 DEF NothingToAggregate
<1>6. Collected(t, n, ob) /\ t.obligations # <<>>
    BY <1>5 DEF PolicyOf
<1>7. DOMAIN ob = S
    BY <1>3, <1>6 DEF Collected, ObligationSyms
<1>8. \A s \in S : ob[s] = ParamsOf(t, s)
    BY <1>3, <1>6, <1>7 DEF Collected, ParamsOf
<1>9. S \subseteq ToSet(SymbolOrder)
    BY <1>2 DEF ObligationSyms
<1>10. S # {}
  <2>1. n # 0
    <3>1. SUFFICES ASSUME n = 0 PROVE FALSE
        OBVIOUS
    <3>2. t.obligations = [k \in 1..n |-> t.obligations[k]]
        BY <1>2, SequenceIs
    <3>3. t.obligations = <<>>
        BY <3>1, <3>2
    <3> QED BY <1>6, <3>3
  <2>2. 1 \in 1..n
      BY <1>3, <2>1
  <2>3. t.obligations[1].sym \in S
      BY <1>3, <2>2 DEF ObligationSyms
  <2> QED BY <2>3
<1>11. FirstSymbol(S) \in S
  <2> HIDE DEF S
  <2> QED BY <1>9, <1>10, FirstSymbolIn
<1> HIDE DEF S, ob
<1>12. CASE "AggregationSpec" \in S
  <2>1. pickAggregationObligation(q) = ob["AggregationSpec"]
      BY <1>7, <1>12 DEF pickAggregationObligation, ob
  <2>2. AggregatesOf(t) = ParamsOf(t, "AggregationSpec")
      BY <1>12 DEF AggregatesOf, S
  <2> QED BY <1>8, <1>12, <2>1, <2>2
<1>13. CASE "AggregationSpec" \notin S
  <2>1. pickAggregationObligation(q) = ob[FirstSymbol(S)]
      BY <1>7, <1>13 DEF pickAggregationObligation, ob
  <2>2. AggregatesOf(t) = ParamsOf(t, FirstSymbol(S))
      BY <1>13 DEF AggregatesOf, S
  <2> QED BY <1>8, <1>11, <2>1, <2>2
<1> QED BY <1>12, <1>13

-----------------------------------------------------------------------------
(* The handlers of a file, policy by policy.                               *)

HandlerOf(q, i) ==
    [name |-> q.action, type |-> q.type, struct |-> q.struct,
     condition |-> q.rules[i].condition,
     aggregates |-> IF q.type = "decisionwithaggregation"
                    THEN pickAggregationObligation(q) ELSE {}]

HandlersIn(q) == IF q.type \in HandledTypes THEN Len(q.rules) ELSE 0

(* The handlers of a policy, rule by rule.                                 *)
LEMMA HandlersAre ==
    ASSUME NEW q, IsSequence(q.rules)
    PROVE  /\ HandlersIn(q) \in Nat
           /\ IsSequence(Handlers(q))
           /\ Len(Handlers(q)) = HandlersIn(q)
           /\ \A i \in 1..HandlersIn(q) : Handlers(q)[i] = HandlerOf(q, i)
<1> DEFINE n == Len(q.rules)
           h == Handlers(q)
<1>1. n \in Nat /\ DOMAIN q.rules = 1..n
    BY SequenceIs
<1>2. CASE q.type \in HandledTypes
  <2>1. h = [i \in DOMAIN q.rules |-> HandlerOf(q, i)]
      BY <1>2 DEF Handlers, HandlerOf
  <2>2. h = [i \in 1..n |-> h[i]] /\ \A i \in 1..n : h[i] = HandlerOf(q, i)
      BY <1>1, <2>1
  <2>3. HandlersIn(q) = n
      BY <1>2 DEF HandlersIn
  <2> HIDE DEF n, h
  <2>4. IsSequence(h) /\ Len(h) = n
      BY <1>1, <2>2, SequenceIs
  <2> QED BY <1>1, <2>2, <2>3, <2>4 DEF h
<1>3. CASE q.type \notin HandledTypes
  <2>1. Handlers(q) = <<>> /\ HandlersIn(q) = 0
      BY <1>3 DEF Handlers, HandlersIn
  <2>2. IsSequence(<<>>) /\ Len(<<>>) = 0
      BY ReadNone
  <2> QED BY <2>1, <2>2
<1> QED BY <1>2, <1>3

(* The handlers D of a file whose policies stand at pos, those of policy k *)
(* behind the first off[k - 1].                                            *)
Handling(file, pos, policies, off, D) ==
    /\ Placed(file, Len(file), pos, policies)
    /\ \A k \in 1..Len(policies) : ~NothingToAggregate(policies[k])
    /\ off[0] = 0
    /\ \A k \in 0..Len(policies) : off[k] \in Nat
    /\ \A k \in 1..Len(policies) : off[k] = off[k - 1] + HandlersIn(policies[k])
    /\ IsSequence(D)
    /\ Len(D) = off[Len(policies)]
    /\ \A k \in 1..Len(policies) : \A i \in 1..HandlersIn(policies[k]) :
          /\ off[k - 1] + i \in DOMAIN D
          /\ D[off[k - 1] + i] = HandlerOf(policies[k], i)
    /\ \A x \in DOMAIN D :
          \E k \in 1..Len(policies) : \E i \in 1..HandlersIn(policies[k]) : x = off[k - 1] + i

(* All handlers of a file that was not refused, policy by policy.          *)
LEMMA HandledFile ==
    ASSUME NEW file \in Files, Code[file].ok
    PROVE  /\ \E pos, policies, off : Handling(file, pos, policies, off, Code[file].handlers)
           /\ Code[file].cases =
                 {Code[file].handlers[x].name : x \in DOMAIN Code[file].handlers} \ {Blank}
<1> DEFINE p == parsePolicySet(file)
           ps == p.policies
           n == Len(ps)
           hs == [i \in DOMAIN ps |-> Handlers(ps[i])]
           D == FlattenSeq(hs)
<1>1. Handled(p) /\ Code[file].handlers = desobjCode(p) /\ Code[file].cases = switchCases(p)
  <2>1. Code[file] = IF Handled(p)
                     THEN [ok |-> TRUE, cases |-> switchCases(p), handlers |-> desobjCode(p)]
                     ELSE [ok |-> FALSE, cases |-> {}, handlers |-> <<>>]
      BY DEF Code
  <2> HIDE DEF p
  <2> QED BY <2>1
<1>2. desobjCode(p) = D
    BY DEF desobjCode
<1>3. Code[file].cases = {Code[file].handlers[x].name : x \in DOMAIN Code[file].handlers} \ {Blank}
    BY <1>1 DEF switchCases, Blank
<1>4. ~p.error /\ \A k \in DOMAIN ps : ~NothingToAggregate(ps[k])
    BY <1>1 DEF Handled, Accepted, Generates
<1>5. IsSequence(ps) /\ \E pos : Placed(file, Len(file), pos, ps)
    BY <1>4, FileRead
<1> HIDE DEF p
<1>6. PICK pos : Placed(file, Len(file), pos, ps)
    BY <1>5
<1> HIDE DEF ps
<1>7. n \in Nat /\ DOMAIN ps = 1..n
    BY <1>5, SequenceIs
<1>8. \A k \in 1..n : IsSequence(ps[k].rules)
  <2> SUFFICES ASSUME NEW k \in 1..n
               PROVE  IsSequence(ps[k].rules)
      OBVIOUS
  <2>1. PlacedAt(file, pos[k], ps[k])
      BY <1>6 DEF Placed
  <2> QED BY <2>1 DEF PlacedAt, PolicyOf, ReadRules
<1>9. \A k \in 1..n : /\ IsSequence(hs[k])
                      /\ Len(hs[k]) = HandlersIn(ps[k])
                      /\ \A i \in 1..HandlersIn(ps[k]) : hs[k][i] = HandlerOf(ps[k], i)
  <2> SUFFICES ASSUME NEW k \in 1..n
               PROVE  /\ IsSequence(hs[k])
                      /\ Len(hs[k]) = HandlersIn(ps[k])
                      /\ \A i \in 1..HandlersIn(ps[k]) : hs[k][i] = HandlerOf(ps[k], i)
      OBVIOUS
  <2>1. hs[k] = Handlers(ps[k])
      BY <1>7
  <2> HIDE DEF hs
  <2> QED BY <1>8, <2>1, HandlersAre
<1>10. hs = [i \in 1..n |-> hs[i]]
    BY <1>7
<1> HIDE DEF hs
<1>11. IsSequence(hs) /\ Len(hs) = n
  <2> HIDE DEF n
  <2> QED BY <1>7, <1>10, SequenceIs
<1>12. Parts(hs)
    BY <1>9, <1>11 DEF Parts
<1>13. PICK off :
             /\ off[0] = 0
             /\ \A k \in 0..Len(hs) : off[k] \in Nat
             /\ \A k \in 1..Len(hs) : off[k] = off[k - 1] + Len(hs[k])
             /\ IsSequence(FlattenSeq(hs))
             /\ Len(FlattenSeq(hs)) = off[Len(hs)]
             /\ \A k \in 1..Len(hs) : \A i \in 1..Len(hs[k]) :
                   /\ off[k - 1] + i \in DOMAIN FlattenSeq(hs)
                   /\ FlattenSeq(hs)[off[k - 1] + i] = hs[k][i]
             /\ \A x \in DOMAIN FlattenSeq(hs) :
                   \E k \in 1..Len(hs) : \E i \in 1..Len(hs[k]) : x = off[k - 1] + i
    BY <1>12, Positions
<1>14. D = FlattenSeq(hs)
    OBVIOUS
<1> HIDE DEF D
<1>15. /\ off[0] = 0
       /\ \A k \in 0..n : off[k] \in Nat
       /\ IsSequence(D)
       /\ Len(D) = off[n]
    BY <1>11, <1>13, <1>14
<1>16. \A k \in 1..n : off[k] = off[k - 1] + HandlersIn(ps[k])
    BY <1>9, <1>11, <1>13
<1>17. \A k \in 1..n : \A i \in 1..HandlersIn(ps[k]) :
                   /\ off[k - 1] + i \in DOMAIN D
                   /\ D[off[k - 1] + i] = HandlerOf(ps[k], i)
  <2> SUFFICES ASSUME NEW k \in 1..n, NEW i \in 1..HandlersIn(ps[k])
               PROVE  /\ off[k - 1] + i \in DOMAIN D
                      /\ D[off[k - 1] + i] = HandlerOf(ps[k], i)
      OBVIOUS
  <2>1. i \in 1..Len(hs[k]) /\ k \in 1..Len(hs) /\ hs[k][i] = HandlerOf(ps[k], i)
      BY <1>9, <1>11
  <2> QED BY <1>13, <1>14, <2>1
<1>18. \A x \in DOMAIN D :
                   \E k \in 1..n : \E i \in 1..HandlersIn(ps[k]) : x = off[k - 1] + i
  <2> SUFFICES ASSUME NEW x \in DOMAIN D
               PROVE  \E k \in 1..n : \E i \in 1..HandlersIn(ps[k]) : x = off[k - 1] + i
      OBVIOUS
  <2>1. PICK k \in 1..Len(hs) : \E i \in 1..Len(hs[k]) : x = off[k - 1] + i
      BY <1>13, <1>14
  <2>2. k \in 1..n /\ Len(hs[k]) = HandlersIn(ps[k])
      BY <1>9, <1>11
  <2> QED BY <2>1, <2>2
<1>19. \A k \in 1..n : ~NothingToAggregate(ps[k])
    BY <1>4, <1>7
<1>20. Handling(file, pos, ps, off, D)
    BY <1>6, <1>15, <1>16, <1>17, <1>18, <1>19 DEF Handling
<1>21. Handling(file, pos, ps, off, Code[file].handlers)
    BY <1>1, <1>2, <1>20
<1> HIDE DEF n
<1> QED BY <1>3, <1>21

-----------------------------------------------------------------------------
(* The handler of a policy with one rule.                                  *)

Uses(file, i) == file[i].rules[1].conditions

Effect(h) == [type |-> h.type, struct |-> h.struct, aggregates |-> h.aggregates]

UniqueNames(D) == \A i, j \in DOMAIN D : D[i].name = D[j].name => i = j

(* The handler h of a policy with one rule.                                *)
HandlerSays(file, i, h) ==
    /\ i \in DOMAIN file
    /\ IsPolicy(file[i])
    /\ Len(file[i].rules) = 1
    /\ h.name = IF file[i].target THEN file[i].action ELSE Blank
    /\ file[i].target => file[i].action # Blank
    /\ h.type = file[i].rules[1].type
    /\ file[i].target => h.struct = file[i].struct
    /\ h.aggregates = IF h.type = "decisionwithaggregation" THEN AggregatesOf(file[i]) ELSE {}
    /\ h.condition = [c \in DOMAIN Uses(file, i) |-> Written(file, i, Uses(file, i)[c])]

(* The handler of a policy with one rule does what the policy says...      *)
LEMMA HandlerIsOf ==
    ASSUME NEW file \in Files, NEW pos, NEW policies, NEW off, NEW D,
           Handling(file, pos, policies, off, D),
           NEW k \in 1..Len(policies), HandlersIn(policies[k]) = 1,
           Len(policies[k].rules) = 1
    PROVE  HandlerSays(file, pos[k], D[off[k - 1] + 1])
<1> DEFINE q == policies[k]
           i == pos[k]
           h == D[off[k - 1] + 1]
           t == file[i]
<1>1. h = HandlerOf(q, 1)
    BY DEF Handling
<1>2. Len(pos) = Len(policies) /\ i \in 1..Len(file) /\ IsPolicy(t) /\ PlacedAt(file, i, q)
    BY DEF Handling, Placed
<1>3. ~NothingToAggregate(q) /\ Len(q.rules) = 1
    BY DEF Handling
<1> HIDE DEF q, i, h
<1>4. PICK named : ConditionsAt(file, i - 1, named) /\ PolicyOf(t, named, q)
    BY <1>2 DEF PlacedAt
<1>5. /\ h.name = q.action /\ h.type = q.type /\ h.struct = q.struct
      /\ h.condition = q.rules[1].condition
      /\ h.aggregates = IF q.type = "decisionwithaggregation"
                        THEN pickAggregationObligation(q) ELSE {}
    BY <1>1 DEF HandlerOf
<1>6. Len(t.rules) = 1
    BY <1>3, <1>4 DEF PolicyOf, ReadRules
<1>7. q.type = t.rules[1].type /\ q.action = (IF t.target THEN t.action ELSE Blank)
      /\ q.struct = (IF t.target THEN t.struct ELSE Blank) /\ (t.target => t.action # Blank)
    BY <1>4, <1>6 DEF PolicyOf
<1>8. q.rules[1] = ReadRule(t.rules[1], named)
    BY <1>4, <1>6 DEF PolicyOf, ReadRules
<1>9. h.condition = [c \in DOMAIN Uses(file, i) |-> expandCondition(Uses(file, i)[c], named)]
    BY <1>5, <1>8, RFields DEF ReadRule, Uses
<1>10. \A use : expandCondition(use, named) = Written(file, i, use)
    BY <1>2, <1>4, WrittenIs
<1>11. h.condition = [c \in DOMAIN Uses(file, i) |-> Written(file, i, Uses(file, i)[c])]
    BY <1>9, <1>10
<1>12. q.type = "decisionwithaggregation" => pickAggregationObligation(q) = AggregatesOf(t)
    BY <1>2, <1>3, <1>4, AggregationIs
<1>13. i \in DOMAIN file
    BY <1>2, FileFits
<1>14. h.aggregates = IF h.type = "decisionwithaggregation" THEN AggregatesOf(t) ELSE {}
    BY <1>5, <1>12
<1> QED BY <1>2, <1>5, <1>6, <1>7, <1>11, <1>13, <1>14 DEF HandlerSays, h, q, i

(* ...for those whose certificates satisfy its condition; it ends the CCU  *)
(* only by a condition that is not declared...                             *)
LEMMA CallableIs ==
    ASSUME NEW file \in Files, NEW i, NEW h, HandlerSays(file, i, h), NEW attributes
    PROVE  /\ CheckCallability(h.condition, attributes) = "true" =>
                 \E c \in DOMAIN Uses(file, i) : Satisfied(Written(file, i, Uses(file, i)[c]), attributes)
           /\ \A c \in DOMAIN Uses(file, i) :
                 /\ Satisfied(Written(file, i, Uses(file, i)[c]), attributes)
                 /\ Attributes(Written(file, i, Uses(file, i)[c])) \subseteq DOMAIN attributes
                 /\ Defined(file, i, Uses(file, i)[c])
                 /\ Plain(Written(file, i, Uses(file, i)[c]))
               => CheckCallability(h.condition, attributes) = "true"
           /\ CheckCallability(h.condition, attributes) = "no bool" =>
                 \E c \in DOMAIN Uses(file, i) : ~Defined(file, i, Uses(file, i)[c])
<1> DEFINE s == Uses(file, i)
           W(c) == Written(file, i, s[c])
<1>1. i \in DOMAIN file /\ IsPolicy(file[i]) /\ Len(file[i].rules) = 1
      /\ h.condition = [c \in DOMAIN s |-> W(c)]
    BY DEF HandlerSays
<1>2. IsSequence(file[i].rules)
    BY <1>1, FileAssumption
<1>3. 1 \in DOMAIN file[i].rules
  <2>1. DOMAIN file[i].rules = 1..1
      BY <1>1, <1>2, SequenceIs
  <2> QED BY <2>1
<1>4. IsSequence(s) /\ Len(s) <= 1
    BY <1>1, <1>3, FileAssumption DEF Uses
<1>5. Len(s) \in Nat /\ DOMAIN s = 1..Len(s)
    BY <1>4, SequenceIs
<1>6. \A c \in DOMAIN s : IsExpression(W(c)) /\ (Defined(file, i, s[c]) => HasValues(W(c)))
  <2>1. i \in 1..Len(file)
      BY <1>1, FileFits
  <2> QED BY <1>1, <1>3, <2>1, WrittenExpression DEF Uses
<1> HIDE DEF s, W
<1>7. DOMAIN h.condition = DOMAIN s /\ \A c \in DOMAIN s : h.condition[c] = W(c)
    BY <1>1
<1>8. CASE Len(s) = 0
  <2>1. DOMAIN s = {}
      BY <1>5, <1>8
  <2>2. h.condition = <<>>
      BY <1>1, <2>1
  <2> QED BY <2>1, <2>2 DEF CheckCallability, s
<1>9. CASE Len(s) # 0
  <2>1. DOMAIN s = {1}
      BY <1>4, <1>5, <1>9
  <2>2. h.condition # <<>>
      BY <1>7, <2>1
  <2> DEFINE e == W(1)
             declared == Defined(file, i, s[1])
  <2>3. IsExpression(e) /\ h.condition[1] = e /\ (declared => HasValues(e))
      BY <1>6, <1>7, <2>1
  <2> HIDE DEF e, declared
  <2>4. CheckCallability(h.condition, attributes) = Evaluate(e, attributes)
      BY <2>2, <2>3 DEF CheckCallability
  <2>5. /\ Evaluate(e, attributes) = "true" => Satisfied(e, attributes)
        /\ Satisfied(e, attributes) /\ Attributes(e) \subseteq DOMAIN attributes /\ HasValues(e) /\ Plain(e)
                 => Evaluate(e, attributes) = "true"
        /\ Evaluate(e, attributes) = "no bool" => ~HasValues(e)
      BY <2>3, EvaluateIs
  <2>6. /\ CheckCallability(h.condition, attributes) = "true" =>
              \E c \in DOMAIN s : Satisfied(W(c), attributes)
        /\ \A c \in DOMAIN s :
              Satisfied(W(c), attributes) /\ Attributes(W(c)) \subseteq DOMAIN attributes
              /\ Defined(file, i, s[c]) /\ Plain(W(c))
                 => CheckCallability(h.condition, attributes) = "true"
        /\ CheckCallability(h.condition, attributes) = "no bool" =>
              \E c \in DOMAIN s : ~Defined(file, i, s[c])
      BY <2>1, <2>3, <2>4, <2>5 DEF e, declared
  <2> USE DEF s, W
  <2>7. CheckCallability(h.condition, attributes) = "true" =>
              \E c \in DOMAIN Uses(file, i) : Satisfied(Written(file, i, Uses(file, i)[c]), attributes)
      BY ONLY <2>6 DEF s, W
  <2>8. \A c \in DOMAIN Uses(file, i) :
              /\ Satisfied(Written(file, i, Uses(file, i)[c]), attributes)
              /\ Attributes(Written(file, i, Uses(file, i)[c])) \subseteq DOMAIN attributes
              /\ Defined(file, i, Uses(file, i)[c])
              /\ Plain(Written(file, i, Uses(file, i)[c]))
            => CheckCallability(h.condition, attributes) = "true"
      BY ONLY <2>6 DEF s, W
  <2>9. CheckCallability(h.condition, attributes) = "no bool" =>
              \E c \in DOMAIN Uses(file, i) : ~Defined(file, i, Uses(file, i)[c])
      BY ONLY <2>6 DEF s, W
  <2> QED BY ONLY <2>7, <2>8, <2>9
<1> QED BY <1>8, <1>9

(* ...so that it is one of the effects the file gives its name.            *)
LEMMA SaysIt ==
    ASSUME NEW file \in Files, NEW i, NEW h, HandlerSays(file, i, h), h.name # Blank, NEW cert,
           CheckCallability(h.condition, cert.attributes) = "true"
    PROVE  Effect(h) \in Says(file, h.name, cert)
<1> DEFINE t == file[i]
           a == IF t.rules[1].type = "decisionwithaggregation" THEN AggregatesOf(t) ELSE {}
<1>1. /\ i \in DOMAIN file /\ IsPolicy(t) /\ Len(t.rules) = 1
      /\ t.target /\ h.name = t.action
      /\ h.type = t.rules[1].type /\ h.struct = t.struct /\ h.aggregates = a
    BY DEF HandlerSays
<1>2. \E c \in DOMAIN t.rules[1].conditions :
          Satisfied(Written(file, i, t.rules[1].conditions[c]), cert.attributes)
    BY CallableIs DEF Uses
<1>3. Effect(h) = [type |-> t.rules[1].type, struct |-> t.struct, aggregates |-> a]
    BY <1>1 DEF Effect
<1> QED BY <1>1, <1>2, <1>3 DEF Says

-----------------------------------------------------------------------------
(* All handlers of a file.                                                 *)

(* The names of a receiver are actions of policies, and have a handler.    *)
LEMMA NamesOf ==
    ASSUME NEW file \in Files, Code[file].ok, NEW name \in Code[file].cases
    PROVE  /\ name # Blank
           /\ name \in NamesIn(file)
           /\ \E x \in DOMAIN Code[file].handlers : Code[file].handlers[x].name = name
<1> DEFINE D == Code[file].handlers
<1>1. PICK pos, policies, off : Handling(file, pos, policies, off, D)
    BY HandledFile
<1>2. Code[file].cases = {D[x].name : x \in DOMAIN D} \ {Blank}
    BY HandledFile
<1> HIDE DEF D
<1>3. PICK x \in DOMAIN D : D[x].name = name
    BY <1>2
<1>4. name # Blank
    BY <1>2
<1>5. PICK k \in 1..Len(policies) : \E i \in 1..HandlersIn(policies[k]) : x = off[k - 1] + i
    BY <1>1, <1>3 DEF Handling
<1>6. PICK i \in 1..HandlersIn(policies[k]) : x = off[k - 1] + i
    BY <1>5
<1>7. D[x] = HandlerOf(policies[k], i)
    BY <1>1, <1>6 DEF Handling
<1>8. name = policies[k].action
    BY <1>3, <1>7 DEF HandlerOf
<1>9. Len(pos) = Len(policies) /\ pos[k] \in 1..Len(file) /\ IsPolicy(file[pos[k]])
      /\ PlacedAt(file, pos[k], policies[k])
    BY <1>1 DEF Handling, Placed
<1>10. policies[k].action = IF file[pos[k]].target THEN file[pos[k]].action ELSE Blank
    BY <1>9 DEF PlacedAt, PolicyOf
<1>11. pos[k] \in DOMAIN file
    BY <1>9, FileFits
<1>12. name \in NamesIn(file)
    BY <1>4, <1>8, <1>9, <1>10, <1>11 DEF NamesIn
<1> QED BY <1>3, <1>4, <1>12 DEF D

(* If no two handlers have one name, every handled policy has one rule.    *)
LEMMA OneRule ==
    ASSUME NEW file \in Files, Code[file].ok, UniqueNames(Code[file].handlers),
           NEW x \in DOMAIN Code[file].handlers
    PROVE  \E i : HandlerSays(file, i, Code[file].handlers[x])
<1> DEFINE D == Code[file].handlers
<1>1. PICK pos, policies, off : Handling(file, pos, policies, off, D)
    BY HandledFile
<1>2. UniqueNames(D) /\ x \in DOMAIN D
    OBVIOUS
<1> HIDE DEF D
<1>3. PICK k \in 1..Len(policies) : \E i \in 1..HandlersIn(policies[k]) : x = off[k - 1] + i
    BY <1>1, <1>2 DEF Handling
<1>4. PICK i \in 1..HandlersIn(policies[k]) : x = off[k - 1] + i
    BY <1>3
<1> DEFINE q == policies[k]
           m == HandlersIn(q)
           o == off[k - 1]
<1>5. /\ IsSequence(policies)
      /\ Len(pos) = Len(policies)
      /\ PlacedAt(file, pos[k], q)
    BY <1>1 DEF Handling, Placed
<1>6. Len(policies) \in Nat
    BY <1>5, SequenceIs
<1>7. o \in Nat
  <2>1. k - 1 \in 0..Len(policies)
      BY <1>6
  <2> QED BY <1>1, <2>1 DEF Handling
<1>8. IsSequence(q.rules)
    BY <1>5 DEF PlacedAt, PolicyOf, ReadRules
<1>9. m \in Nat
    BY <1>8, HandlersAre
<1>10. \A r \in 1..m : o + r \in DOMAIN D /\ D[o + r].name = q.action
  <2> SUFFICES ASSUME NEW r \in 1..m
               PROVE  o + r \in DOMAIN D /\ D[o + r].name = q.action
      OBVIOUS
  <2>1. o + r \in DOMAIN D /\ D[o + r] = HandlerOf(q, r)
      BY <1>1 DEF Handling
  <2> QED BY <2>1 DEF HandlerOf
<1>11. m = Len(q.rules)
    BY <1>4 DEF HandlersIn
<1> HIDE DEF m, o, q
<1>12. i \in 1..m
    BY <1>4 DEF m, q
<1>13. \A r, r2 \in 1..m : o + r = o + r2
    BY <1>2, <1>10 DEF UniqueNames
<1>14. m = 1
  <2>1. SUFFICES ASSUME m # 1 PROVE FALSE
      OBVIOUS
  <2>2. 1 \in 1..m /\ 2 \in 1..m
      BY <1>9, <1>12, <2>1
  <2>3. o + 1 = o + 2
      BY <1>13, <2>2
  <2> QED BY <1>7, <2>3
<1>15. x = off[k - 1] + 1
    BY <1>4, <1>12, <1>14
<1>16. HandlersIn(policies[k]) = 1 /\ Len(policies[k].rules) = 1
    BY <1>11, <1>14 DEF m, q
<1>17. HandlerSays(file, pos[k], D[off[k - 1] + 1])
    BY <1>1, <1>16, HandlerIsOf
<1> QED BY <1>15, <1>17 DEF D

(* In a clear file every policy has the one handler of its name.           *)
LEMMA ClearFile ==
    ASSUME NEW file \in Files, Code[file].ok, Clear(file)
    PROVE  /\ UniqueNames(Code[file].handlers)
           /\ \A i \in DOMAIN file : IsPolicy(file[i]) =>
                 \E x \in DOMAIN Code[file].handlers :
                    /\ HandlerSays(file, i, Code[file].handlers[x])
                    /\ Code[file].handlers[x].name = file[i].action
                    /\ file[i].action # Blank
<1> DEFINE D == Code[file].handlers
<1>1. PICK pos, policies, off : Handling(file, pos, policies, off, D)
    BY HandledFile
<1> HIDE DEF D
<1> DEFINE n == Len(policies)
<1>2. /\ IsSequence(policies)
      /\ Len(pos) = n
      /\ \A k \in 1..n : /\ pos[k] \in 1..Len(file)
                         /\ IsPolicy(file[pos[k]])
                         /\ PlacedAt(file, pos[k], policies[k])
      /\ \A i, j \in 1..n : pos[i] = pos[j] => i = j
      /\ \A i \in 1..Len(file) : IsPolicy(file[i]) => \E j \in 1..n : pos[j] = i
    BY <1>1 DEF Handling, Placed
<1>3. n \in Nat
    BY <1>2, SequenceIs
<1>4. DOMAIN file = 1..Len(file)
    BY FileFits
<1>5. /\ \A i \in DOMAIN file : IsPolicy(file[i]) =>
            /\ file[i].target
            /\ Len(file[i].rules) = 1
            /\ file[i].rules[1].type \in HandledTypes
      /\ \A i, j \in DOMAIN file : IsPolicy(file[i]) /\ IsPolicy(file[j]) =>
            (file[i].action = file[j].action => i = j)
    BY DEF Clear
<1>6. \A k \in 1..n : Len(policies[k].rules) = 1 /\ HandlersIn(policies[k]) = 1
  <2> SUFFICES ASSUME NEW k \in 1..n
               PROVE  Len(policies[k].rules) = 1 /\ HandlersIn(policies[k]) = 1
      OBVIOUS
  <2> DEFINE t == file[pos[k]]
  <2>1. Len(t.rules) = 1 /\ t.rules[1].type \in HandledTypes
      BY <1>2, <1>4, <1>5
  <2>2. PICK named : PolicyOf(t, named, policies[k])
      BY <1>2 DEF PlacedAt
  <2> HIDE DEF t
  <2>3. Len(policies[k].rules) = 1 /\ policies[k].type = t.rules[1].type
      BY <2>1, <2>2 DEF PolicyOf, ReadRules
  <2> QED BY <2>1, <2>3 DEF HandlersIn
<1> DEFINE S == {k \in 0..n : off[k] = k}
<1>7. 0 \in S
    BY <1>1, <1>3 DEF Handling
<1>8. ASSUME NEW k \in 0..(n - 1), k \in S
      PROVE  k + 1 \in S
  <2>1. k + 1 \in 1..n /\ k + 1 \in 0..n /\ (k + 1) - 1 = k
      BY <1>3
  <2>2. off[k + 1] = off[(k + 1) - 1] + HandlersIn(policies[k + 1])
      BY <1>1, <2>1 DEF Handling
  <2>3. off[k + 1] = k + 1
      BY <1>6, <1>8, <2>1, <2>2
  <2> QED BY <2>1, <2>3
<1> HIDE DEF S
<1>9. \A k \in 0..n : off[k] = k
  <2>1. \A k \in 0..n : k \in S
      BY <1>3, <1>7, <1>8, UpTo
  <2> QED BY <2>1 DEF S
<1>10. \A k \in 1..n : off[k - 1] + 1 = k
  <2> SUFFICES ASSUME NEW k \in 1..n
               PROVE  off[k - 1] + 1 = k
      OBVIOUS
  <2>1. k - 1 \in 0..n /\ (k - 1) + 1 = k
      BY <1>3
  <2> QED BY <1>9, <2>1
<1>11. DOMAIN D = 1..n
  <2>1. IsSequence(D) /\ Len(D) = off[n]
      BY <1>1 DEF Handling
  <2>2. off[n] = n
    <3>1. n \in 0..n
        BY <1>3
    <3> QED BY <1>9, <3>1
  <2> QED BY <2>1, <2>2, SequenceIs
<1>12. \A k \in 1..n : HandlerSays(file, pos[k], D[k])
  <2> SUFFICES ASSUME NEW k \in 1..n
               PROVE  HandlerSays(file, pos[k], D[k])
      OBVIOUS
  <2>1. HandlersIn(policies[k]) = 1 /\ Len(policies[k].rules) = 1
      BY <1>6
  <2>2. HandlerSays(file, pos[k], D[off[k - 1] + 1])
      BY <1>1, <2>1, HandlerIsOf
  <2> QED BY <1>10, <2>2
<1>13. \A k \in 1..n : /\ pos[k] \in DOMAIN file
                       /\ IsPolicy(file[pos[k]])
                       /\ D[k].name = file[pos[k]].action
                       /\ file[pos[k]].action # Blank
    BY <1>2, <1>4, <1>5, <1>12 DEF HandlerSays
<1>14. UniqueNames(D)
  <2> SUFFICES ASSUME NEW i \in 1..n, NEW j \in 1..n, D[i].name = D[j].name
               PROVE  i = j
      BY <1>11 DEF UniqueNames
  <2>1. file[pos[i]].action = file[pos[j]].action
      BY <1>13
  <2>2. pos[i] = pos[j]
      BY <1>5, <1>13, <2>1
  <2> QED BY <1>2, <2>2
<1>15. ASSUME NEW i \in DOMAIN file, IsPolicy(file[i])
       PROVE  \E x \in DOMAIN D : /\ HandlerSays(file, i, D[x])
                                  /\ D[x].name = file[i].action
                                  /\ file[i].action # Blank
  <2>1. PICK j \in 1..n : pos[j] = i
      BY <1>2, <1>4, <1>15
  <2>2. HandlerSays(file, i, D[j]) /\ D[j].name = file[i].action /\ file[i].action # Blank
      BY <1>12, <1>13, <2>1
  <2> QED BY <1>11, <2>2
<1> QED BY <1>14, <1>15 DEF D

-----------------------------------------------------------------------------
(* What a CCU answers.                                                     *)

(* The handler that a name stands for, in a CCU that can be built.         *)
LEMMA Handler ==
    ASSUME NEW u \in CCUs, Builds(u), NEW x \in DOMAIN desobj[u].handlers
    PROVE  handlerOf(u, desobj[u].handlers[x].name) = desobj[u].handlers[x]
<1> DEFINE D == desobj[u].handlers
           c == CHOOSE i \in DOMAIN D : D[i].name = D[x].name
<1>1. c \in DOMAIN D /\ D[c].name = D[x].name
    OBVIOUS
<1>2. UniqueNames(D)
    BY DEF Builds, UniqueNames
<1>3. handlerOf(u, D[x].name) = D[c]
    BY DEF handlerOf
<1> HIDE DEF c
<1>4. c = x
    BY <1>1, <1>2 DEF UniqueNames
<1> QED BY <1>3, <1>4

(* Whatever the policy files are and wherever runs were stopped, a CCU     *)
(* that can be built does for a user only what the policy of that name in  *)
(* the file of its handlers says, under the condition written there, and   *)
(* ends only where this condition is not declared.                         *)
THEOREM NothingElseDone == Spec => []OnlyAsWritten
<1>1. IInv => OnlyAsWritten
  <2> SUFFICES ASSUME IInv, NEW u \in CCUs, Builds(u), NEW name, NEW cert
               PROVE  /\ Answer(u, name, cert) = "done" =>
                            /\ cert.valid
                            /\ name \in NamesIn(switchOf[u])
                            /\ Does(u, name) \in Says(handlersOf[u], name, cert)
                      /\ Answer(u, name, cert) = "ended" => HasUndeclared(handlersOf[u], name)
      BY DEF OnlyAsWritten
  <2> DEFINE file == handlersOf[u]
             D == desobj[u].handlers
             h == handlerOf(u, name)
             callable == CheckCallability(h.condition, cert.attributes)
  <2>1. /\ Answer(u, name, cert) \in {"done", "ended"} => name \in receiver[u].cases /\ cert.valid
        /\ Answer(u, name, cert) = "done" => callable = "true"
        /\ Answer(u, name, cert) = "ended" => callable = "no bool"
    <3> HIDE DEF callable
    <3>1. Answer(u, name, cert) =
              IF name \notin receiver[u].cases THEN "unknown function"
              ELSE IF ~cert.valid THEN "invalid certificate"
              ELSE IF callable = "true" THEN "done"
              ELSE IF callable = "no bool" THEN "ended" ELSE "refused"
        BY DEF Answer, callable
    <3> QED BY <3>1
  <2>2. /\ receiver[u].cases = Code[switchOf[u]].cases
        /\ D = Code[file].handlers
        /\ Code[switchOf[u]].ok /\ Code[file].ok
        /\ switchOf[u] \in Files /\ file \in Files
      BY WholeFiles DEF Builds, IInv, Origin, Readable, TypeOK
  <2> SUFFICES ASSUME name \in receiver[u].cases
               PROVE  /\ callable = "true" =>
                            /\ name \in NamesIn(switchOf[u])
                            /\ Does(u, name) \in Says(handlersOf[u], name, cert)
                      /\ callable = "no bool" => HasUndeclared(handlersOf[u], name)
    <3> HIDE DEF callable
    <3> QED BY <2>1
  <2>3. UniqueNames(D) /\ receiver[u].cases \subseteq HandlerNames(u)
      BY DEF Builds, UniqueNames
  <2>4. name # Blank /\ name \in NamesIn(switchOf[u])
      BY <2>2, NamesOf
  <2>5. PICK x \in DOMAIN D : D[x].name = name
      BY <2>3 DEF HandlerNames
  <2>6. h = D[x]
      BY <2>5, Handler
  <2>7. Does(u, name) = Effect(h)
      BY DEF Does, Effect
  <2> HIDE DEF D, h, file
  <2>8. PICK i : HandlerSays(file, i, h)
      BY <2>2, <2>3, <2>5, <2>6, OneRule
  <2>9. callable = "true" => Effect(h) \in Says(file, name, cert)
      BY <2>2, <2>4, <2>5, <2>6, <2>8, SaysIt
  <2>10. ASSUME callable = "no bool" PROVE HasUndeclared(file, name)
    <3>1. \E c \in DOMAIN Uses(file, i) : ~Defined(file, i, Uses(file, i)[c])
        BY <2>2, <2>8, <2>10, CallableIs
    <3>2. i \in DOMAIN file /\ IsPolicy(file[i]) /\ file[i].action = name /\ Len(file[i].rules) = 1
        BY <2>4, <2>5, <2>6, <2>8 DEF HandlerSays
    <3>3. IsSequence(file[i].rules)
        BY <2>2, <3>2, FileAssumption
    <3>4. DOMAIN file[i].rules = 1..1
        BY <3>2, <3>3, SequenceIs
    <3>5. 1 \in DOMAIN file[i].rules
        BY <3>4
    <3> QED BY <3>1, <3>2, <3>5 DEF HasUndeclared, Uses
  <2> QED BY <2>4, <2>7, <2>9, <2>10 DEF file
<1> QED BY <1>1, Invariance, PTL

(* Once a run over a clear file, whose rules permit, has written           *)
(* everything, a user whose certificate has what the condition asks for    *)
(* gets what the file says.                                                *)
THEOREM AllDone == Spec => []AllThatIsWritten
<1>1. IInv => AllThatIsWritten
  <2> SUFFICES ASSUME IInv, complete, NEW u \in CCUs, Clear(handlersOf[u])
               PROVE  /\ Builds(u)
                      /\ \A i \in DOMAIN handlersOf[u], cert \in Certificates :
                          IsPolicy(handlersOf[u][i]) /\ cert.valid =>
                            LET expr == Written(handlersOf[u], i, handlersOf[u][i].rules[1].conditions[1])
                            IN Satisfied(expr, cert.attributes)
                                 /\ Attributes(expr) \subseteq DOMAIN cert.attributes
                               => /\ Answer(u, handlersOf[u][i].action, cert) = "done"
                                  /\ Does(u, handlersOf[u][i].action)
                                        \in Says(handlersOf[u], handlersOf[u][i].action, cert)
      BY DEF AllThatIsWritten
  <2>1. PICK file \in Files :
              /\ receiver[u] = Receiver(Code[file].cases)
              /\ desobj[u] = Desobj(u, Code[file].handlers)
              /\ handlersOf[u] = file
      BY OneFile
  <2> DEFINE D == Code[file].handlers
  <2>2. Code[file].ok /\ Clear(file)
      BY <2>1 DEF IInv, Readable
  <2>3. /\ receiver[u].whole /\ receiver[u].cases = Code[file].cases
        /\ desobj[u].whole /\ desobj[u].package = u /\ desobj[u].handlers = D
      BY <2>1, WholeFiles
  <2>4. /\ UniqueNames(D)
        /\ \A i \in DOMAIN file : IsPolicy(file[i]) =>
              \E x \in DOMAIN D : /\ HandlerSays(file, i, D[x])
                                  /\ D[x].name = file[i].action
                                  /\ file[i].action # Blank
      BY <2>2, ClearFile
  <2>5. Code[file].cases = {D[x].name : x \in DOMAIN D} \ {Blank}
      BY <2>2, HandledFile
  <2> HIDE DEF D
  <2>6. Builds(u)
    <3>1. PICK i \in DOMAIN file : IsPolicy(file[i]) /\ file[i].rules[1].type = "decisionwithaggregation"
        BY <2>2 DEF Clear
    <3>2. PICK x \in DOMAIN D : HandlerSays(file, i, D[x])
        BY <2>4, <3>1
    <3>3. D[x].type = "decisionwithaggregation"
        BY <3>1, <3>2 DEF HandlerSays
    <3>4. receiver[u].cases \subseteq HandlerNames(u)
        BY <2>3, <2>5 DEF HandlerNames
    <3>5. \A i1, j1 \in DOMAIN desobj[u].handlers :
              desobj[u].handlers[i1].name = desobj[u].handlers[j1].name => i1 = j1
        BY <2>3, <2>4 DEF UniqueNames
    <3>6. \E i1 \in DOMAIN desobj[u].handlers :
              desobj[u].handlers[i1].type = "decisionwithaggregation"
        BY <2>3, <3>3
    <3> QED BY <2>3, <3>4, <3>5, <3>6 DEF Builds
  <2>7. ASSUME NEW i \in DOMAIN file, NEW cert, IsPolicy(file[i]), cert.valid,
               Satisfied(Written(file, i, file[i].rules[1].conditions[1]), cert.attributes),
               Attributes(Written(file, i, file[i].rules[1].conditions[1]))
                  \subseteq DOMAIN cert.attributes
        PROVE  /\ Answer(u, file[i].action, cert) = "done"
               /\ Does(u, file[i].action) \in Says(file, file[i].action, cert)
    <3> DEFINE name == file[i].action
    <3>1. PICK x \in DOMAIN D : HandlerSays(file, i, D[x]) /\ D[x].name = name /\ name # Blank
        BY <2>4, <2>7
    <3> DEFINE h == D[x]
    <3>2. handlerOf(u, name) = h
        BY <2>3, <2>6, <3>1, Handler
    <3>3. name \in receiver[u].cases
        BY <2>3, <2>5, <3>1
    <3>4. 1 \in DOMAIN Uses(file, i)
      <4> DEFINE s == Uses(file, i)
                 rs == file[i].rules
      <4>1. Len(s) = 1 /\ Len(rs) = 1
          BY <2>2, <2>7 DEF Clear, Uses
      <4>2. IsSequence(rs)
          BY <2>7, FileAssumption
      <4>3. 1 \in DOMAIN rs
        <5> HIDE DEF rs
        <5>1. DOMAIN rs = 1..1
            BY <4>1, <4>2, SequenceIs
        <5> QED BY <5>1
      <4>4. IsSequence(s)
          BY <2>7, <4>3, FileAssumption DEF Uses
      <4> HIDE DEF s
      <4>5. DOMAIN s = 1..1
          BY <4>1, <4>4, SequenceIs
      <4>6. 1 \in DOMAIN s
          BY <4>5
      <4> QED BY <4>6 DEF s
    <3> HIDE DEF h
    <3>5. HandlerSays(file, i, h) /\ h.name = name
        BY <3>1 DEF h
    <3>6. CheckCallability(h.condition, cert.attributes) = "true"
      <4>1. /\ Satisfied(Written(file, i, Uses(file, i)[1]), cert.attributes)
            /\ Attributes(Written(file, i, Uses(file, i)[1])) \subseteq DOMAIN cert.attributes
          BY <2>7 DEF Uses
      <4>2. /\ Defined(file, i, Uses(file, i)[1])
            /\ Plain(Written(file, i, Uses(file, i)[1]))
          BY <2>2, <2>7 DEF Clear, Uses
      <4> QED BY <3>4, <3>5, <4>1, <4>2, CallableIs
    <3>7. Answer(u, name, cert) = "done"
        BY <2>7, <3>2, <3>3, <3>6 DEF Answer
    <3>8. Does(u, name) = Effect(h)
        BY <3>2 DEF Does, Effect
    <3> HIDE DEF name
    <3>9. Effect(h) \in Says(file, name, cert)
        BY <3>1, <3>5, <3>6, SaysIt
    <3> QED BY <3>7, <3>8, <3>9 DEF name
  <2>8. \A i \in DOMAIN file, cert \in Certificates :
            IsPolicy(file[i]) /\ cert.valid =>
              LET expr == Written(file, i, file[i].rules[1].conditions[1])
              IN Satisfied(expr, cert.attributes)
                   /\ Attributes(expr) \subseteq DOMAIN cert.attributes
                 => /\ Answer(u, file[i].action, cert) = "done"
                    /\ Does(u, file[i].action) \in Says(file, file[i].action, cert)
      BY <2>7
  <2> QED BY <2>1, <2>6, <2>8
<1> QED BY <1>1, Invariance, PTL
=============================================================================
