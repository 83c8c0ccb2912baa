----------------------- MODULE DecisionTablesProofs -----------------------
(***************************************************************************)
(* Proofs about the generator of decision functions, for any XML files,    *)
(* tables and values.  The condition of a rule is built one entry at a     *)
(* time in whatever order Go's map gives; the invariant says that it means *)
(* the entries it has taken, and stays one disjunct until it is complete.  *)
(***************************************************************************)
EXTENDS DecisionTables, WellFoundedInduction, TLAPS

-----------------------------------------------------------------------------
(* Sequences.                                                              *)

LEMMA TailIsSeq ==
    ASSUME NEW s, IsSeq(s), s # <<>>
    PROVE  IsSeq(Tail(s)) /\ \A i \in DOMAIN Tail(s) : i + 1 \in DOMAIN s /\ Tail(s)[i] = s[i + 1]
<1> DEFINE S == {s[i] : i \in DOMAIN s}
           A == Tail(s)
           T == {A[i] : i \in DOMAIN A}
<1>1. s \in Seq(S)
    BY DEF IsSeq
<1>2. /\ A \in Seq(S) /\ DOMAIN A = 1..(Len(s) - 1) /\ DOMAIN s = 1..Len(s) /\ Len(s) \in Nat
      /\ Len(A) = Len(s) - 1 /\ Len(A) \in Nat
      /\ \A i \in 1..(Len(s) - 1) : A[i] = s[i + 1]
  <2> HIDE DEF S
  <2> QED BY <1>1
<1>3. A \in Seq(T)
  <2>1. A = [i \in 1..Len(A) |-> A[i]] /\ Len(A) \in Nat /\ DOMAIN A = 1..Len(A)
    <3> HIDE DEF S, A
    <3> QED BY <1>2
  <2>2. \A i \in 1..Len(A) : A[i] \in T
    <3> HIDE DEF A
    <3> QED BY <2>1
  <2> HIDE DEF T, A, S
  <2>3. A \in [1..Len(A) -> T]
      BY <2>1, <2>2
  <2> QED BY <2>3, <2>1
<1>4. IsSeq(A)
    BY <1>3 DEF IsSeq
<1> HIDE DEF S, T
<1> QED BY <1>2, <1>4

LEMMA AppendIsSeq ==
    ASSUME NEW s, IsSeq(s), NEW e
    PROVE  /\ IsSeq(Append(s, e))
           /\ DOMAIN s = 1..Len(s) /\ Len(s) \in Nat /\ Len(Append(s, e)) = Len(s) + 1
           /\ DOMAIN Append(s, e) = 1..(Len(s) + 1)
           /\ \A i \in 1..Len(s) : Append(s, e)[i] = s[i]
           /\ Append(s, e)[Len(s) + 1] = e
<1> DEFINE S == {s[i] : i \in DOMAIN s} \cup {e}
           A == Append(s, e)
           T == {A[i] : i \in DOMAIN A}
<1>1. s \in Seq(S) /\ e \in S
  <2>1. s \in Seq({s[i] : i \in DOMAIN s})
      BY DEF IsSeq
  <2> QED BY <2>1
<1>2. /\ A \in Seq(S) /\ DOMAIN A = 1..(Len(s) + 1) /\ DOMAIN s = 1..Len(s) /\ Len(s) \in Nat
      /\ Len(A) = Len(s) + 1
      /\ \A i \in 1..Len(s) : A[i] = s[i]
      /\ A[Len(s) + 1] = e
  <2> HIDE DEF S
  <2> QED BY <1>1
<1>3. A \in Seq(T)
  <2>1. A = [i \in 1..Len(A) |-> A[i]] /\ Len(A) \in Nat /\ DOMAIN A = 1..Len(A)
    <3> HIDE DEF S, A
    <3> QED BY <1>2
  <2>2. \A i \in 1..Len(A) : A[i] \in T
    <3> HIDE DEF A
    <3> QED BY <2>1
  <2> HIDE DEF T, A, S
  <2>3. A \in [1..Len(A) -> T]
      BY <2>1, <2>2
  <2> QED BY <2>3, <2>1
<1> QED BY <1>2, <1>3 DEF IsSeq

LEMMA IsSeqFacts ==
    ASSUME NEW s, IsSeq(s)
    PROVE  /\ Len(s) \in Nat /\ DOMAIN s = 1..Len(s)
           /\ s # <<>> => 1 \in DOMAIN s /\ Head(s) = s[1]
  BY DEF IsSeq

-----------------------------------------------------------------------------
(* Conditions of one and of two disjuncts.                                 *)

OneDisjunct(c) == c = <<c[1]>>

LEMMA OneCondition ==
    ASSUME NEW F
    PROVE  /\ \A in : Holds(<<F>>, in) <=> \A f \in F : \E a \in f : AtomHolds(a, in)
           /\ \A a : a \in Atoms(<<F>>) <=> \E f \in F : a \in f
           /\ <<F>> # <<>> /\ OneDisjunct(<<F>>)
<1>1. DOMAIN <<F>> = {1} /\ <<F>>[1] = F
    OBVIOUS
<1>2. ASSUME NEW in
      PROVE  Holds(<<F>>, in) <=> \A f \in F : \E a \in f : AtomHolds(a, in)
    BY <1>1 DEF Holds
<1>3. \A a : a \in Atoms(<<F>>) <=> \E f \in F : a \in f
    BY <1>1 DEF Atoms
<1> QED BY <1>2, <1>3 DEF OneDisjunct

LEMMA TwoCondition ==
    ASSUME NEW F, NEW G
    PROVE  /\ \A in : Holds(<<F, G>>, in) <=>
                \/ \A f \in F : \E a \in f : AtomHolds(a, in)
                \/ \A f \in G : \E a \in f : AtomHolds(a, in)
           /\ \A a : a \in Atoms(<<F, G>>) <=> \E f \in F \cup G : a \in f
           /\ <<F, G>> # <<>>
<1>1. DOMAIN <<F, G>> = {1, 2} /\ <<F, G>>[1] = F /\ <<F, G>>[2] = G
    OBVIOUS
<1>2. ASSUME NEW in
      PROVE  Holds(<<F, G>>, in) <=>
                \/ \A f \in F : \E a \in f : AtomHolds(a, in)
                \/ \A f \in G : \E a \in f : AtomHolds(a, in)
    BY <1>1 DEF Holds
<1>3. \A a : a \in Atoms(<<F, G>>) <=> \E f \in F \cup G : a \in f
    BY <1>1 DEF Atoms
<1> QED BY <1>2, <1>3

LEMMA JoinOne ==
    ASSUME NEW F, NEW G
    PROVE  Join(<<F>>, <<G>>) = <<F \cup G>>
<1>1. Len(<<F>>) = 1 /\ Len(<<G>>) = 1 /\ <<F>> # <<>> /\ <<G>> # <<>> /\ <<F>>[1] = F /\ <<G>>[1] = G
    OBVIOUS
<1> DEFINE J == [i \in 1..1 |-> IF i < 1 THEN <<F>>[i] ELSE IF i = 1 THEN <<F>>[i] \cup <<G>>[1] ELSE <<G>>[i - 1 + 1]]
<1>2. Join(<<F>>, <<G>>) = J
    BY <1>1 DEF Join
<1>3. J = <<F \cup G>>
    BY <1>1
<1> QED BY <1>2, <1>3

LEMMA SingleMeans ==
    ASSUME NEW a
    PROVE  /\ Single(a) # <<>> /\ OneDisjunct(Single(a)) /\ Atoms(Single(a)) = {a}
           /\ \A in : Holds(Single(a), in) <=> AtomHolds(a, in)
<1> DEFINE F == {{a}}
<1>1. /\ \A x : (\E f \in F : x \in f) <=> x = a
      /\ \A in : (\A f \in F : \E x \in f : AtomHolds(x, in)) <=> AtomHolds(a, in)
    OBVIOUS
<1> HIDE DEF F
<1>2. /\ <<F>> # <<>> /\ OneDisjunct(<<F>>) /\ Atoms(<<F>>) = {a}
      /\ \A in : Holds(<<F>>, in) <=> AtomHolds(a, in)
  <2>1. \A x : x \in Atoms(<<F>>) <=> x = a
      BY <1>1, OneCondition
  <2>2. \A in : Holds(<<F>>, in) <=> AtomHolds(a, in)
      BY <1>1, OneCondition
  <2> QED BY <2>1, <2>2, OneCondition
<1> QED BY <1>2 DEF Single, F

LEMMA BothMeans ==
    ASSUME NEW a, NEW b
    PROVE  /\ Both(a, b) # <<>> /\ OneDisjunct(Both(a, b)) /\ Atoms(Both(a, b)) = {a, b}
           /\ \A in : Holds(Both(a, b), in) <=> AtomHolds(a, in) /\ AtomHolds(b, in)
<1> DEFINE F == {{a}, {b}}
<1>1. /\ \A x : (\E f \in F : x \in f) <=> x = a \/ x = b
      /\ \A in : (\A f \in F : \E x \in f : AtomHolds(x, in))
                    <=> AtomHolds(a, in) /\ AtomHolds(b, in)
    OBVIOUS
<1> HIDE DEF F
<1>2. /\ <<F>> # <<>> /\ OneDisjunct(<<F>>) /\ Atoms(<<F>>) = {a, b}
      /\ \A in : Holds(<<F>>, in) <=> AtomHolds(a, in) /\ AtomHolds(b, in)
  <2>1. \A x : x \in Atoms(<<F>>) <=> x = a \/ x = b
      BY <1>1, OneCondition
  <2>2. \A in : Holds(<<F>>, in) <=> AtomHolds(a, in) /\ AtomHolds(b, in)
      BY <1>1, OneCondition
  <2> QED BY <2>1, <2>2, OneCondition
<1> QED BY <1>2 DEF Both, F

(* What one comparison of the generated code says.                         *)
LEMMA AtomMeans ==
    ASSUME NEW l, NEW v, NEW in
    PROVE  /\ AtomHolds(Atom(l, "==", v), in) <=> in[l] = v
           /\ AtomHolds(Atom(l, "<", v), in) <=> in[l] < v
           /\ AtomHolds(Atom(l, "<=", v), in) <=> in[l] <= v
           /\ AtomHolds(Atom(l, ">", v), in) <=> in[l] > v
           /\ AtomHolds(Atom(l, ">=", v), in) <=> in[l] >= v
           /\ \A r : Atom(l, r, v).label = l /\ Atom(l, r, v).rel = r
  BY DEF AtomHolds, Atom

-----------------------------------------------------------------------------
(* The condition of one entry means its test.                              *)

Means(c, label, type, test) ==
    /\ c # <<>>
    /\ OneDisjunct(c) \/ (type = "dateTime" /\ test.kind = "cmp" /\ test.op \in OrEqual)
    /\ \A a \in Atoms(c) : a.rel # "broken" /\ a.label = label
    /\ type = "dateTime" => \E a \in Atoms(c) : a.label = label
    /\ \A in : in[label] \in ValuesOf[type] =>
            (Holds(c, in) <=> Satisfies(type, test, in[label]))

DateTest(test) ==
    /\ test.kind = "cmp" => test.value.at \in Int
    /\ test.kind = "interval" => test.low.at \in Int /\ test.high.at \in Int

LEMMA NumberMeans ==
    ASSUME NEW label, NEW type \in Numeric, NEW test, Understood(type, test), test.kind # "blank"
    PROVE  Means(processNumberCondition(label, test), label, type, test)
<1> DEFINE c == processNumberCondition(label, test)
<1>0. type # "dateTime" /\ type # "string" /\ type # "boolean"
    BY DEF Numeric
<1>1. CASE test.kind = "interval"
  <2> DEFINE a == Atom(label, IF test.open = "[" THEN ">=" ELSE ">", test.low)
             b == Atom(label, IF test.close = "]" THEN "<=" ELSE "<", test.high)
  <2>1. c = Both(a, b)
      BY <1>1 DEF processNumberCondition, processIntervalCondition
  <2>2. a.label = label /\ a.rel # "broken" /\ b.label = label /\ b.rel # "broken"
      BY DEF Atom
  <2>3. ASSUME NEW in
        PROVE  AtomHolds(a, in) /\ AtomHolds(b, in) <=> Satisfies(type, test, in[label])
    <3>1. AtomHolds(a, in) <=>
            IF test.open = "[" THEN in[label] >= test.low ELSE in[label] > test.low
        BY AtomMeans
    <3>2. AtomHolds(b, in) <=>
            IF test.close = "]" THEN in[label] <= test.high ELSE in[label] < test.high
        BY AtomMeans
    <3> QED BY <3>1, <3>2, <1>0, <1>1 DEF Satisfies
  <2> HIDE DEF a, b
  <2> QED BY <2>1, <2>2, <2>3, BothMeans, <1>0 DEF Means
<1>2. CASE test.kind = "cmp" /\ test.op \in Comparisons
  <2> DEFINE a == Atom(label, IF test.op = "" THEN "==" ELSE test.op, test.value)
  <2>1. c = Single(a)
      BY <1>2 DEF processNumberCondition, Comparisons
  <2>2. a.label = label /\ a.rel # "broken"
      BY <1>2 DEF Comparisons, Atom
  <2>3. ASSUME NEW in
        PROVE  AtomHolds(a, in) <=> Satisfies(type, test, in[label])
    <3>1. CASE test.op = ""
        BY <3>1, <1>0, <1>2 DEF Satisfies, AtomHolds, Atom
    <3>2. CASE test.op = "<"
        BY <3>2, AtomMeans, <1>0, <1>2 DEF Satisfies
    <3>3. CASE test.op = "<="
        BY <3>3, AtomMeans, <1>0, <1>2 DEF Satisfies
    <3>4. CASE test.op = ">"
        BY <3>4, AtomMeans, <1>0, <1>2 DEF Satisfies
    <3>5. CASE test.op = ">="
        BY <3>5, AtomMeans, <1>0, <1>2 DEF Satisfies
    <3> QED BY <3>1, <3>2, <3>3, <3>4, <3>5, <1>2 DEF Comparisons
  <2> HIDE DEF a
  <2> QED BY <2>1, <2>2, <2>3, SingleMeans, <1>0 DEF Means
<1> QED BY <1>0, <1>1, <1>2 DEF Understood

LEMMA StringMeans ==
    ASSUME NEW label, NEW test, Understood("string", test), test.kind # "blank"
    PROVE  Means(processStringCondition(label, test), label, "string", test)
<1> DEFINE F == {Atom(label, "==", p) : p \in UNION {Pieces[s] : s \in test.values}}
<1>1. test.kind = "list" /\ \A s \in test.values : Pieces[s] = {s}
    BY DEF Understood, Numeric
<1>2. processStringCondition(label, test) = <<{F}>>
    BY <1>1 DEF processStringCondition
<1>3. UNION {Pieces[s] : s \in test.values} = test.values
    BY <1>1
<1>4. \A a \in F : a.rel # "broken" /\ a.label = label
    BY DEF Atom
<1>5. ASSUME NEW in
      PROVE  (\E a \in F : AtomHolds(a, in)) <=> Satisfies("string", test, in[label])
  <2>1. F = {Atom(label, "==", p) : p \in test.values}
      BY <1>3
  <2>2. (\E a \in F : AtomHolds(a, in)) <=> in[label] \in test.values
    <3>1. \A p : AtomHolds(Atom(label, "==", p), in) <=> in[label] = p
        BY DEF AtomHolds, Atom
    <3> HIDE DEF F
    <3> QED BY <2>1, <3>1
  <2> QED BY <2>2, <1>1 DEF Satisfies
<1> HIDE DEF F
<1>6. \A in : Holds(<<{F}>>, in) <=> \E a \in F : AtomHolds(a, in)
    BY OneCondition
<1>7. \A a : a \in Atoms(<<{F}>>) <=> a \in F
    BY OneCondition
<1>8. <<{F}>> # <<>> /\ OneDisjunct(<<{F}>>)
    BY OneCondition
<1> QED BY <1>2, <1>4, <1>5, <1>6, <1>7, <1>8 DEF Means

LEMMA BooleanMeans ==
    ASSUME NEW label, NEW test, Understood("boolean", test), test.kind # "blank"
    PROVE  Means(CopiedCondition(label, "boolean", test), label, "boolean", test)
<1>1. test.kind = "cmp" /\ test.op = ""
    BY DEF Understood, Numeric
<1> DEFINE a == Atom(label, "==", test.value)
<1>2. CopiedCondition(label, "boolean", test) = Single(a)
    BY <1>1 DEF CopiedCondition
<1>3. a.label = label /\ a.rel # "broken"
    BY DEF Atom
<1>4. ASSUME NEW in
      PROVE  AtomHolds(a, in) <=> Satisfies("boolean", test, in[label])
    BY <1>1 DEF Satisfies, AtomHolds, Atom
<1> HIDE DEF a
<1> QED BY <1>2, <1>3, <1>4, SingleMeans DEF Means

LEMMA TimeMeans ==
    ASSUME NEW label, NEW test, Understood("dateTime", test), test.kind # "blank", DateTest(test)
    PROVE  Means(processTimeCondition(label, test), label, "dateTime", test)
<1> DEFINE c == processTimeCondition(label, test)
<1>0. ValuesOf["dateTime"] \subseteq Int
    BY FilesAssumption
<1>1. CASE test.kind = "interval" /\ test.open = "[" /\ test.close = "]"
           /\ test.low.zone = 0 /\ test.high.zone = 0
  <2> DEFINE lo == test.low.at
             hi == test.high.at
             F == {Atom(label, ">", lo), Atom(label, "==", lo)}
             G == {Atom(label, "<", hi), Atom(label, "==", hi)}
  <2>1. lo \in Int /\ hi \in Int /\ extractTime(test.low) = lo /\ extractTime(test.high) = hi
      BY <1>1 DEF DateTest, extractTime
  <2>2. c = <<{F, G}>>
      BY <1>1, <2>1 DEF processTimeCondition
  <2>3. \A a \in F \cup G : a.rel # "broken" /\ a.label = label
      BY DEF Atom
  <2>4. ASSUME NEW in, in[label] \in Int
        PROVE  (\E a \in F : AtomHolds(a, in)) /\ (\E a \in G : AtomHolds(a, in))
                  <=> Satisfies("dateTime", test, in[label])
    <3>1. (\E a \in F : AtomHolds(a, in)) <=> in[label] >= lo
        BY AtomMeans, <2>1, <2>4
    <3>2. (\E a \in G : AtomHolds(a, in)) <=> in[label] <= hi
        BY AtomMeans, <2>1, <2>4
    <3>3. Satisfies("dateTime", test, in[label]) <=> in[label] >= lo /\ in[label] <= hi
        BY <1>1 DEF Satisfies
    <3> QED BY <3>1, <3>2, <3>3
  <2>5. \E a \in F : a.label = label
      BY DEF Atom
  <2> HIDE DEF F, G
  <2>6. \A in : Holds(<<{F, G}>>, in) <=>
            (\E a \in F : AtomHolds(a, in)) /\ (\E a \in G : AtomHolds(a, in))
      BY OneCondition
  <2>7. \A a : a \in Atoms(<<{F, G}>>) <=> a \in F \cup G
      BY OneCondition
  <2>8. <<{F, G}>> # <<>> /\ OneDisjunct(<<{F, G}>>)
      BY OneCondition
  <2> QED BY <1>0, <2>2, <2>3, <2>4, <2>5, <2>6, <2>7, <2>8 DEF Means
<1>2. CASE test.kind = "cmp" /\ test.op \in Comparisons /\ test.value.zone = 0
  <2> DEFINE v == test.value.at
  <2>1. v \in Int /\ extractTime(test.value) = v
      BY <1>2 DEF DateTest, extractTime
  <2>2. CASE test.op \in OrEqual
    <3> DEFINE a == Atom(label, IF test.op = "<=" THEN "<" ELSE ">", v)
               b == Atom(label, "==", v)
    <3>1. c = <<{{a}}, {{b}}>>
      <4>1. CASE test.op = "<="
          BY <4>1, <1>2, <2>1 DEF processTimeCondition, OrEqual
      <4>2. CASE test.op = ">="
          BY <4>2, <1>2, <2>1 DEF processTimeCondition, OrEqual
      <4> QED BY <4>1, <4>2, <2>2 DEF OrEqual
    <3>2. a.label = label /\ a.rel # "broken" /\ b.label = label /\ b.rel # "broken"
        BY DEF Atom
    <3>3. ASSUME NEW in, in[label] \in Int
          PROVE  AtomHolds(a, in) \/ AtomHolds(b, in) <=> Satisfies("dateTime", test, in[label])
      <4>1. CASE test.op = "<="
          BY <4>1, AtomMeans, <1>2, <2>1, <3>3 DEF Satisfies
      <4>2. CASE test.op = ">="
          BY <4>2, AtomMeans, <1>2, <2>1, <3>3 DEF Satisfies
      <4> QED BY <4>1, <4>2, <2>2 DEF OrEqual
    <3> HIDE DEF a, b
    <3> DEFINE P == {{a}}
               Q == {{b}}
    <3>4. /\ \A x : (\E f \in P \cup Q : x \in f) <=> x = a \/ x = b
          /\ \A in : (\A f \in P : \E x \in f : AtomHolds(x, in)) <=> AtomHolds(a, in)
          /\ \A in : (\A f \in Q : \E x \in f : AtomHolds(x, in)) <=> AtomHolds(b, in)
        OBVIOUS
    <3>5. c = <<P, Q>>
        BY <3>1
    <3> HIDE DEF P, Q
    <3>6. \A in : Holds(<<P, Q>>, in) <=> AtomHolds(a, in) \/ AtomHolds(b, in)
        BY <3>4, TwoCondition
    <3>7. \A d : d \in Atoms(<<P, Q>>) <=> d = a \/ d = b
        BY <3>4, TwoCondition
    <3>8. <<P, Q>> # <<>>
        BY TwoCondition
    <3> QED BY <1>0, <1>2, <2>2, <3>2, <3>3, <3>5, <3>6, <3>7, <3>8 DEF Means
  <2>3. CASE test.op \notin OrEqual
    <3> DEFINE a == Atom(label, IF test.op = "" THEN "==" ELSE test.op, v)
    <3>1. c = Single(a)
        BY <1>2, <2>1, <2>3 DEF processTimeCondition, Comparisons, OrEqual
    <3>2. a.label = label /\ a.rel # "broken"
        BY <1>2 DEF Comparisons, Atom
    <3>3. ASSUME NEW in, in[label] \in Int
          PROVE  AtomHolds(a, in) <=> Satisfies("dateTime", test, in[label])
      <4>1. CASE test.op = ""
          BY <4>1, <1>2, <2>1 DEF Satisfies, AtomHolds, Atom
      <4>2. CASE test.op = "<"
          BY <4>2, AtomMeans, <1>2, <2>1 DEF Satisfies
      <4>3. CASE test.op = ">"
          BY <4>3, AtomMeans, <1>2, <2>1 DEF Satisfies
      <4> QED BY <4>1, <4>2, <4>3, <1>2, <2>3 DEF Comparisons, OrEqual
    <3> HIDE DEF a
    <3> QED BY <1>0, <3>1, <3>2, <3>3, SingleMeans DEF Means
  <2> QED BY <2>2, <2>3
<1> QED BY <1>1, <1>2 DEF Understood, Numeric

LEMMA ConditionMeans ==
    ASSUME NEW label, NEW type, NEW test, Understood(type, test), test.kind # "blank",
           type = "dateTime" => DateTest(test)
    PROVE  Means(Condition(label, type, test), label, type, test)
<1>1. CASE type \in Numeric
    BY <1>1, NumberMeans DEF Condition, Numeric
<1>2. CASE type = "boolean"
    BY <1>2, BooleanMeans DEF Condition, Numeric
<1>3. CASE type = "string"
    BY <1>3, StringMeans DEF Condition, Numeric
<1>4. CASE type = "dateTime"
    BY <1>4, TimeMeans DEF Condition, Numeric
<1> QED BY <1>1, <1>2, <1>3, <1>4 DEF Understood

-----------------------------------------------------------------------------
(* The condition of a rule, and of the entries V it has been given so far. *)

Distinct(t) == \A i, j \in DOMAIN t.inputs : t.inputs[i].label = t.inputs[j].label => i = j

PartMeans(t, rule, V, c) ==
    /\ V = {} <=> c = <<>>
    /\ V # {} =>
        /\ OneDisjunct(c) \/ (V = Filled(rule) /\ \E i \in V : V = {i})
        /\ \A a \in Atoms(c) : a.rel # "broken" /\ \E i \in V : a.label = t.inputs[i].label
        /\ \A i \in V : t.inputs[i].type = "dateTime" =>
                \E a \in Atoms(c) : a.label = t.inputs[i].label
        /\ \A in \in InputsOf(t) : Holds(c, in) <=>
                \A i \in V : Satisfies(t.inputs[i].type, rule.entries[i], in[t.inputs[i].label])

Fits(t, rule) == DOMAIN rule.entries \subseteq DOMAIN t.inputs

Visited(t, rule, left) == {i \in Filled(rule) : t.inputs[i].label \notin left}

LEMMA EntryUnique ==
    ASSUME NEW t, NEW rule, Fits(t, rule), Distinct(t), NEW i \in DOMAIN rule.entries
    PROVE  EntryOf(t, rule, t.inputs[i].label) = i
<1> DEFINE P(k) == /\ t.inputs[k].label = t.inputs[i].label
                   /\ \A j \in DOMAIN rule.entries : t.inputs[j].label = t.inputs[i].label => j <= k
<1>1. \A k \in DOMAIN rule.entries : t.inputs[k].label = t.inputs[i].label => k = i
    BY DEF Fits, Distinct
<1> QED BY <1>1 DEF EntryOf

(* Joining one more condition of one disjunct to one of one disjunct.      *)
LEMMA JoinMeans ==
    ASSUME NEW c, NEW d, OneDisjunct(c), OneDisjunct(d)
    PROVE  /\ Join(c, d) # <<>> /\ OneDisjunct(Join(c, d))
           /\ \A a : a \in Atoms(Join(c, d)) <=> a \in Atoms(c) \/ a \in Atoms(d)
           /\ \A in : Holds(Join(c, d), in) <=> Holds(c, in) /\ Holds(d, in)
<1> DEFINE F == c[1]
           G == d[1]
<1>1. c = <<F>> /\ d = <<G>>
    BY DEF OneDisjunct
<1> HIDE DEF F, G
<1>2. Join(c, d) = <<F \cup G>>
    BY <1>1, JoinOne
<1>3. \A a : a \in Atoms(<<F \cup G>>) <=> a \in Atoms(<<F>>) \/ a \in Atoms(<<G>>)
    BY OneCondition
<1>4. \A in : Holds(<<F \cup G>>, in) <=> Holds(<<F>>, in) /\ Holds(<<G>>, in)
    BY OneCondition
<1>5. <<F \cup G>> # <<>> /\ OneDisjunct(<<F \cup G>>)
    BY OneCondition
<1> QED BY <1>1, <1>2, <1>3, <1>4, <1>5

(* One round of generateConditions keeps the meaning.                      *)
LEMMA PartGrows ==
    ASSUME NEW t, NEW rule, Fits(t, rule), Distinct(t), ClearRule(t, rule),
           \A i \in DOMAIN rule.entries : t.inputs[i].type = "dateTime" => DateTest(rule.entries[i]),
           NEW left, NEW label \in left, left \subseteq Labels(t, rule), NEW c,
           PartMeans(t, rule, Visited(t, rule, left), c)
    PROVE  PartMeans(t, rule, Visited(t, rule, left \ {label}), Join(c, RuleCondition(t, rule, label)))
<1> DEFINE V == Visited(t, rule, left)
           W == Visited(t, rule, left \ {label})
<1>1. PICK i \in DOMAIN rule.entries : t.inputs[i].label = label
    BY DEF Labels
<1> DEFINE type == t.inputs[i].type
           test == rule.entries[i]
           d == Condition(label, type, test)
<1>2. RuleCondition(t, rule, label) = d
    BY <1>1, EntryUnique DEF RuleCondition
<1>3. \A j \in DOMAIN rule.entries : t.inputs[j].label = label => j = i
    BY <1>1 DEF Fits, Distinct
<1>4. i \notin V
    BY <1>1 DEF Visited
<1>5. CASE test.kind = "blank"
  <2>1. W = V
      BY <1>1, <1>3, <1>5 DEF Visited, Filled
  <2>2. d = <<>>
      BY <1>5 DEF Condition
  <2>3. Join(c, d) = c
      BY <2>2 DEF Join
  <2> QED BY <1>2, <2>1, <2>3
<1>6. CASE test.kind # "blank"
  <2>1. W = V \cup {i} /\ i \in Filled(rule)
      BY <1>1, <1>3, <1>6 DEF Visited, Filled
  <2>2. Means(d, label, type, test)
    <3>1. Understood(type, test)
        BY DEF ClearRule
    <3> HIDE DEF type, test
    <3>2. type = "dateTime" => DateTest(test)
        BY DEF type, test
    <3> QED BY <3>1, <3>2, <1>6, ConditionMeans
  <2>3. (type = "dateTime" /\ test.kind = "cmp" /\ test.op \in OrEqual) => Filled(rule) = {i}
      BY <2>1 DEF ClearRule
  <2>4. \A in \in InputsOf(t) : in[label] \in ValuesOf[type]
      BY <1>1 DEF InputsOf, Fits
  <2>5. V \subseteq Filled(rule)
      BY DEF Visited
  <2> HIDE DEF type, test, d, V, W
  <2>6. CASE V = {}
    <3>1. c = <<>> /\ W = {i}
        BY <2>1, <2>6 DEF PartMeans, V
    <3>2. Join(c, d) = d
        BY <3>1 DEF Join
    <3>3. PartMeans(t, rule, {i}, d)
      <4>1. OneDisjunct(d) \/ ({i} = Filled(rule) /\ \E j \in {i} : {i} = {j})
          BY <2>2, <2>3 DEF Means
      <4>2. d # <<>>
          BY <2>2 DEF Means
      <4>3. \A a \in Atoms(d) : a.rel # "broken" /\ \E j \in {i} : a.label = t.inputs[j].label
          BY <1>1, <2>2 DEF Means
      <4>4. \A j \in {i} : t.inputs[j].type = "dateTime" =>
                \E a \in Atoms(d) : a.label = t.inputs[j].label
          BY <1>1, <2>2 DEF Means, type
      <4>5. \A in \in InputsOf(t) : Holds(d, in) <=>
                \A j \in {i} : Satisfies(t.inputs[j].type, rule.entries[j], in[t.inputs[j].label])
          BY <1>1, <2>2, <2>4 DEF Means, type, test
      <4> QED BY <4>1, <4>2, <4>3, <4>4, <4>5 DEF PartMeans
    <3> QED BY <1>2, <3>1, <3>2, <3>3 DEF W
  <2>7. CASE V # {}
    <3>1. OneDisjunct(c) /\ OneDisjunct(d)
      <4>1. Filled(rule) # {i} /\ V # Filled(rule)
          BY <1>4, <2>1, <2>5, <2>7 DEF V
      <4> QED BY <4>1, <2>2, <2>3, <2>7 DEF Means, PartMeans, V
    <3> DEFINE e == Join(c, d)
    <3>2. /\ e # <<>> /\ OneDisjunct(e)
          /\ \A a : a \in Atoms(e) <=> a \in Atoms(c) \/ a \in Atoms(d)
          /\ \A in : Holds(e, in) <=> Holds(c, in) /\ Holds(d, in)
        BY <3>1, JoinMeans
    <3> HIDE DEF e
    <3>3. /\ \A a \in Atoms(c) : a.rel # "broken" /\ \E j \in V : a.label = t.inputs[j].label
          /\ \A j \in V : t.inputs[j].type = "dateTime" =>
                \E a \in Atoms(c) : a.label = t.inputs[j].label
          /\ \A in \in InputsOf(t) : Holds(c, in) <=>
                \A j \in V : Satisfies(t.inputs[j].type, rule.entries[j], in[t.inputs[j].label])
        BY <2>7 DEF PartMeans, V
    <3>4. \A a \in Atoms(e) : a.rel # "broken" /\ \E j \in W : a.label = t.inputs[j].label
        BY <1>1, <2>1, <2>2, <3>2, <3>3 DEF Means
    <3>5. \A j \in W : t.inputs[j].type = "dateTime" =>
                \E a \in Atoms(e) : a.label = t.inputs[j].label
        BY <1>1, <2>1, <2>2, <3>2, <3>3 DEF Means, type
    <3>6. \A in \in InputsOf(t) : Holds(e, in) <=>
                \A j \in W : Satisfies(t.inputs[j].type, rule.entries[j], in[t.inputs[j].label])
      <4> TAKE in \in InputsOf(t)
      <4>1. Holds(d, in) <=> Satisfies(type, test, in[label])
          BY <2>2, <2>4 DEF Means
      <4> QED BY <1>1, <2>1, <3>2, <3>3, <4>1 DEF type, test
    <3>7. W # {}
        BY <2>1
    <3> QED BY <1>2, <3>2, <3>4, <3>5, <3>6, <3>7 DEF PartMeans, W, e
  <2> QED BY <2>6, <2>7
<1> QED BY <1>5, <1>6

-----------------------------------------------------------------------------
(* The inductive invariant.                                                *)

Readable == \A d \in DOMAIN defs : defs[d].name \in Names /\ WellFormed(defs[d].table)

Backed(m) == functions[m].state = "whole" \/ m \in failed

Backing == \A m \in registry.names \cup fresh \cup merged : Backed(m)

(* A generated rule has the outputs of its rule and a condition that means *)
(* the rule's entries.                                                     *)
RuleMade(t, r, g) ==
    /\ g.outputs = t.rules[r].outputs
    /\ Fits(t, t.rules[r])
    /\ Clear(t) => PartMeans(t, t.rules[r], Filled(t.rules[r]), g.condition)

RulesMade ==
    /\ defs = <<>> => code = <<>>
    /\ defs # <<>> => Len(code) <= Len(table.rules)
    /\ pc = "writing" => Len(code) = Len(table.rules)
    /\ pc = "writing" => method \in failed
    /\ \A r \in DOMAIN code : RuleMade(table, r, code[r])

RuleUnderway ==
    pc = "entries" =>
        LET rule == table.rules[Len(code) + 1]
        IN /\ Fits(table, rule)
           /\ rest \subseteq Labels(table, rule)
           /\ Clear(table) => PartMeans(table, rule, Visited(table, rule, rest), cond)

FilesMade ==
    \A m \in Methods : functions[m].state = "whole" =>
        /\ DOMAIN functions[m].rules = DOMAIN functions[m].table.rules
        /\ DOMAIN functions[m].rules \subseteq Nat
        /\ \A r \in DOMAIN functions[m].rules :
                RuleMade(functions[m].table, r, functions[m].rules[r])

(* What is about to be written holds what was read, which had entries.     *)
MergeKeeps ==
    /\ pc = "registry" => registry.names \subseteq merged /\ parseExistingRegistry
    /\ pc = "rewriting" => registry = EmptyFile

IInv == TypeOK /\ Readable /\ Backing /\ RulesMade /\ RuleUnderway /\ FilesMade /\ MergeKeeps

LEMMA EmptyIsSeq == IsSeq(<<>>) /\ Len(<<>>) = 0 /\ DOMAIN <<>> = {}
  BY DEF IsSeq

LEMMA InitIInv == Init => IInv
<1> SUFFICES ASSUME Init PROVE IInv
    OBVIOUS
<1>1. TypeOK
    BY EmptyIsSeq DEF Init, TypeOK, Positions, NoFile, NoRegistry
<1>2. Readable /\ Backing /\ RulesMade /\ RuleUnderway /\ FilesMade
    BY EmptyIsSeq DEF Init, Readable, Backing, RulesMade, RuleUnderway, FilesMade, NoFile, NoRegistry
<1>3. MergeKeeps
    BY DEF Init, MergeKeeps
<1> QED BY <1>1, <1>2, <1>3 DEF IInv

(* The decision at hand, while there is one.                               *)
LEMMA AtHand ==
    ASSUME IInv, defs # <<>>
    PROVE  /\ WellFormed(table) /\ method \in Methods
           /\ Len(table.rules) \in Nat /\ DOMAIN table.rules = 1..Len(table.rules)
           /\ Len(code) \in Nat /\ DOMAIN code = 1..Len(code)
<1>1. IsSeq(defs) /\ IsSeq(code)
    BY DEF IInv, TypeOK
<1>2. 1 \in DOMAIN defs /\ Head(defs) = defs[1]
    BY <1>1, IsSeqFacts
<1>3. WellFormed(table) /\ Head(defs).name \in Names
    BY <1>2 DEF IInv, Readable, table
<1> QED BY <1>1, <1>3, IsSeqFacts, NamesAssumption DEF WellFormed, method

(* Between runs nothing is left of the last one.                           *)
LEMMA IdleIInv ==
    ASSUME IInv, Idle, UNCHANGED <<functions, failed>>,
           registry'.state \in {"none", "empty", "whole"}, registry'.names \subseteq Methods,
           registry'.state # "whole" => registry'.names = {},
           \A m \in registry'.names : Backed(m)
    PROVE  IInv'
<1>1. TypeOK'
    BY EmptyIsSeq DEF IInv, TypeOK, Idle, Positions
<1>2. Readable' /\ RulesMade' /\ RuleUnderway'
    BY EmptyIsSeq DEF Idle, Readable, RulesMade, RuleUnderway
<1>3. Backing'
    BY DEF Idle, Backing, Backed
<1>4. FilesMade'
    BY DEF IInv, FilesMade
<1>5. MergeKeeps'
    BY DEF Idle, MergeKeeps
<1> QED BY <1>1, <1>2, <1>3, <1>4, <1>5 DEF IInv

LEMMA StartIInv ==
    ASSUME IInv, NEW file \in Files, Start(file)
    PROVE  IInv'
<1>1. IsSeq(file) /\ \A d \in DOMAIN file : file[d].name \in Names /\ WellFormed(file[d].table)
    BY FilesAssumption
<1>2. defs' = file /\ code = <<>> /\ code' = <<>> /\ pc' = "rules"
    BY DEF IInv, TypeOK, Start
<1>3. TypeOK'
    BY <1>1, <1>2 DEF IInv, TypeOK, Start, diskVars, Positions
<1>4. Readable'
    BY <1>1, <1>2 DEF Readable
<1>5. RulesMade'
  <2>1. defs' # <<>> => IsSeq(table'.rules)
    <3>1. defs' # <<>> => Head(defs') = file[1] /\ 1 \in DOMAIN file
        BY <1>1, <1>2, IsSeqFacts
    <3> QED BY <1>1, <3>1 DEF table, WellFormed
  <2>2. defs' # <<>> => Len(table'.rules) \in Nat
      BY <2>1, IsSeqFacts
  <2> QED BY <1>2, <2>2, EmptyIsSeq DEF RulesMade
<1>6. RuleUnderway'
    BY <1>2 DEF RuleUnderway
<1>7. Backing' /\ FilesMade'
    BY DEF IInv, Start, diskVars, Backing, Backed, FilesMade
<1>8. MergeKeeps'
    BY <1>2 DEF MergeKeeps
<1> QED BY <1>3, <1>4, <1>5, <1>6, <1>7, <1>8 DEF IInv

LEMMA BeginRuleIInv ==
    ASSUME IInv, BeginRule
    PROVE  IInv'
<1> DEFINE rule == table.rules[Len(code) + 1]
<1>1. table' = table /\ code' = code /\ defs' = defs /\ pc' = "entries" /\ cond' = <<>>
      /\ rest' = Labels(table, rule) /\ defs # <<>>
      /\ Len(code) < Len(table.rules) /\ Fits(table, rule)
    BY DEF BeginRule, table, Fits
<1>2. TypeOK'
    BY <1>1 DEF IInv, TypeOK, BeginRule, diskVars, Positions
<1>3. Readable' /\ Backing' /\ FilesMade' /\ RulesMade'
    BY <1>1 DEF IInv, BeginRule, diskVars, Readable, Backing, Backed, FilesMade, RulesMade
<1>4. RuleUnderway'
  <2>1. Visited(table, rule, rest') = {}
      BY <1>1 DEF Visited, Filled, Labels
  <2>2. PartMeans(table, rule, {}, <<>>)
      BY DEF PartMeans
  <2> QED BY <1>1, <2>1, <2>2 DEF RuleUnderway
<1>5. MergeKeeps'
    BY <1>1 DEF MergeKeeps
<1> QED BY <1>2, <1>3, <1>4, <1>5 DEF IInv

LEMMA AddConditionIInv ==
    ASSUME IInv, NEW label, AddCondition(label)
    PROVE  IInv'
<1> DEFINE rule == table.rules[Len(code) + 1]
<1>1. table' = table /\ code' = code /\ defs' = defs /\ pc = "entries" /\ pc' = "entries"
      /\ label \in rest /\ rest' = rest \ {label}
      /\ cond' = Join(cond, RuleCondition(table, rule, label)) /\ defs # <<>>
    BY DEF AddCondition, table, IInv, TypeOK
<1>2. TypeOK'
    BY <1>1 DEF IInv, TypeOK, AddCondition, diskVars
<1>3. Readable' /\ Backing' /\ FilesMade' /\ RulesMade'
    BY <1>1 DEF IInv, AddCondition, diskVars, Readable, Backing, Backed, FilesMade, RulesMade
<1>4. RuleUnderway'
  <2>1. Fits(table, rule) /\ rest \subseteq Labels(table, rule)
      BY <1>1 DEF IInv, RuleUnderway
  <2>2. Len(code) + 1 \in DOMAIN table.rules
      BY <1>1, AtHand DEF IInv, TypeOK
  <2>3. ASSUME Clear(table)
        PROVE  PartMeans(table, rule, Visited(table, rule, rest \ {label}), cond')
    <3>1. ClearRule(table, rule) /\ Distinct(table)
        BY <2>2, <2>3 DEF Clear, Distinct
    <3>2. \A i \in DOMAIN rule.entries : table.inputs[i].type = "dateTime" => DateTest(rule.entries[i])
        BY <1>1, <2>1, <2>2, AtHand DEF WellFormed, DateTest, Fits
    <3>3. PartMeans(table, rule, Visited(table, rule, rest), cond)
        BY <1>1, <2>3 DEF IInv, RuleUnderway
    <3> HIDE DEF rule
    <3> QED BY <1>1, <2>1, <3>1, <3>2, <3>3, PartGrows
  <2> QED BY <1>1, <2>1, <2>3 DEF RuleUnderway
<1>5. MergeKeeps'
    BY <1>1 DEF MergeKeeps
<1> QED BY <1>2, <1>3, <1>4, <1>5 DEF IInv

LEMMA EndRuleIInv ==
    ASSUME IInv, EndRule
    PROVE  IInv'
<1> DEFINE rule == table.rules[Len(code) + 1]
           g == [condition |-> cond, outputs |-> rule.outputs]
<1>1. table' = table /\ code' = Append(code, g) /\ defs' = defs /\ pc = "entries" /\ pc' = "rules"
      /\ rest = {} /\ defs # <<>> /\ Len(code) < Len(table.rules) /\ IsSeq(code)
    BY DEF EndRule, table, IInv, TypeOK
<1>2. /\ IsSeq(code') /\ Len(code') = Len(code) + 1
      /\ DOMAIN code = 1..Len(code) /\ Len(code) \in Nat
      /\ DOMAIN code' = 1..(Len(code) + 1)
      /\ \A i \in 1..Len(code) : code'[i] = code[i]
      /\ code'[Len(code) + 1] = g
    BY <1>1, AppendIsSeq
<1>3. TypeOK'
    BY <1>1, <1>2 DEF IInv, TypeOK, EndRule, diskVars, Positions
<1>4. RuleMade(table, Len(code) + 1, g)
  <2>1. Visited(table, rule, {}) = Filled(rule)
      BY DEF Visited
  <2>2. /\ Fits(table, rule)
        /\ Clear(table) => PartMeans(table, rule, Filled(rule), cond)
      BY <1>1, <2>1 DEF IInv, RuleUnderway
  <2> QED BY <2>2 DEF RuleMade
<1>5. RulesMade'
  <2>1. \A r \in DOMAIN code' : RuleMade(table, r, code'[r])
      BY <1>2, <1>4 DEF IInv, RulesMade
  <2>2. Len(code') <= Len(table.rules)
      BY <1>1, <1>2, AtHand
  <2> QED BY <1>1, <2>1, <2>2 DEF RulesMade
<1>6. RuleUnderway'
    BY <1>1 DEF RuleUnderway
<1>7. Readable' /\ Backing' /\ FilesMade'
    BY <1>1 DEF IInv, EndRule, diskVars, Readable, Backing, Backed, FilesMade
<1>8. MergeKeeps'
    BY <1>1 DEF MergeKeeps
<1> QED BY <1>3, <1>5, <1>6, <1>7, <1>8 DEF IInv

(* What is common to the two ways of coming to the next decision.          *)
LEMMA NextDecisionIInv ==
    ASSUME IInv, NextDecision, defs # <<>>, FilesMade',
           DOMAIN functions' = Methods,
           \A m \in Methods : functions'[m].state \in {"none", "cut", "whole"},
           failed' \subseteq Methods,
           \A m \in Methods : Backed(m) \/ m = method =>
                functions'[m].state = "whole" \/ m \in failed'
    PROVE  IInv'
<1>1. /\ IsSeq(defs) /\ defs' = Tail(defs) /\ code' = <<>> /\ pc' = "rules"
      /\ fresh' = fresh \cup {method} /\ merged' = merged /\ registry' = registry
    BY DEF IInv, TypeOK, NextDecision
<1>2. IsSeq(defs') /\ \A i \in DOMAIN defs' : i + 1 \in DOMAIN defs /\ defs'[i] = defs[i + 1]
    BY <1>1, TailIsSeq
<1>3. Readable'
    BY <1>2 DEF IInv, Readable
<1>4. TypeOK'
    BY <1>1, <1>2, EmptyIsSeq, AtHand DEF IInv, TypeOK, Positions
<1>5. RulesMade'
  <2>1. defs' # <<>> => WellFormed(table')
    <3>1. defs' # <<>> => 1 \in DOMAIN defs' /\ Head(defs') = defs'[1]
        BY <1>2, IsSeqFacts
    <3> QED BY <1>3, <3>1 DEF Readable, table
  <2>2. defs' # <<>> => Len(table'.rules) \in Nat
      BY <2>1, IsSeqFacts DEF WellFormed
  <2> QED BY <1>1, <2>2, EmptyIsSeq DEF RulesMade
<1>6. RuleUnderway'
    BY <1>1 DEF RuleUnderway
<1>7. Backing'
  <2>1. registry.names \cup fresh \cup merged \subseteq Methods
      BY DEF IInv, TypeOK
  <2>2. \A m \in registry.names \cup fresh \cup merged \cup {method} :
            functions'[m].state = "whole" \/ m \in failed'
      BY <2>1, AtHand DEF IInv, Backing
  <2> QED BY <1>1, <2>2 DEF Backing, Backed
<1>8. MergeKeeps'
    BY <1>1 DEF MergeKeeps
<1> QED BY <1>3, <1>4, <1>5, <1>6, <1>7, <1>8 DEF IInv

LEMMA CreateFileIInv ==
    ASSUME IInv, CreateFile
    PROVE  IInv'
<1>1. /\ table' = table /\ method' = method
      /\ code' = code /\ defs' = defs /\ pc' = "writing" /\ defs # <<>>
      /\ Len(code) = Len(table.rules) /\ method \in Methods
      /\ functions' = [functions EXCEPT ![method] = CutOff] /\ failed' = failed \cup {method}
      /\ fresh' = fresh /\ merged' = merged /\ registry' = registry
    BY AtHand DEF CreateFile, table, method
<1>2. TypeOK'
    BY <1>1 DEF IInv, TypeOK, Positions, CutOff
<1>3. Readable' /\ RulesMade' /\ RuleUnderway'
    BY <1>1 DEF IInv, Readable, RulesMade, RuleUnderway
<1>4. Backing'
  <2>1. \A m \in registry.names \cup fresh \cup merged : m \in Methods /\ Backed(m)
      BY DEF IInv, TypeOK, Backing
  <2> QED BY <1>1, <2>1 DEF Backing, Backed, IInv, TypeOK
<1>5. FilesMade'
    BY <1>1 DEF IInv, TypeOK, FilesMade, CutOff
<1>6. MergeKeeps'
    BY <1>1 DEF MergeKeeps
<1> QED BY <1>2, <1>3, <1>4, <1>5, <1>6 DEF IInv

LEMMA WriteFileIInv ==
    ASSUME IInv, WriteFile
    PROVE  IInv'
<1>1. /\ defs # <<>> /\ pc = "writing" /\ NextDecision /\ method \in Methods
      /\ functions' = [functions EXCEPT ![method] = Whole(table, code)]
      /\ failed' = failed \ {method}
    BY AtHand DEF WriteFile, IInv, TypeOK
<1>2. FilesMade'
  <2>1. Len(code) = Len(table.rules) /\ \A r \in DOMAIN code : RuleMade(table, r, code[r])
      BY <1>1 DEF IInv, RulesMade
  <2>2. DOMAIN code = DOMAIN table.rules /\ DOMAIN code \subseteq Nat
      BY <1>1, <2>1, AtHand
  <2>3. \A m \in Methods : functions'[m] = IF m = method THEN Whole(table, code) ELSE functions[m]
      BY <1>1 DEF IInv, TypeOK
  <2>4. Whole(table, code).table = table /\ Whole(table, code).rules = code
      BY DEF Whole
  <2>5. ASSUME NEW m \in Methods, functions'[m].state = "whole"
        PROVE  /\ DOMAIN functions'[m].rules = DOMAIN functions'[m].table.rules
               /\ DOMAIN functions'[m].rules \subseteq Nat
               /\ \A r \in DOMAIN functions'[m].rules :
                    RuleMade(functions'[m].table, r, functions'[m].rules[r])
    <3>1. CASE m = method
        BY <2>1, <2>2, <2>3, <2>4, <3>1
    <3>2. CASE m # method
        BY <2>3, <2>5, <3>2 DEF IInv, FilesMade
    <3> QED BY <3>1, <3>2
  <2> QED BY <2>5 DEF FilesMade
<1>3. \A m \in Methods : Backed(m) \/ m = method =>
            functions'[m].state = "whole" \/ m \in failed'
    BY <1>1 DEF IInv, TypeOK, Backed, Whole
<1>4. /\ DOMAIN functions' = Methods /\ failed' \subseteq Methods
      /\ \A m \in Methods : functions'[m].state \in {"none", "cut", "whole"}
    BY <1>1 DEF IInv, TypeOK, Whole
<1> QED BY <1>1, <1>2, <1>3, <1>4, NextDecisionIInv

LEMMA FileErrorIInv ==
    ASSUME IInv, CreateFileError \/ WriteFileError
    PROVE  IInv'
<1>1. defs # <<>> /\ NextDecision /\ method \in Methods /\ functions' = functions
    BY AtHand DEF CreateFileError, WriteFileError, IInv, TypeOK
<1>2. FilesMade'
    BY <1>1 DEF IInv, FilesMade
<1>3. /\ DOMAIN functions' = Methods
      /\ \A m \in Methods : functions'[m].state \in {"none", "cut", "whole"}
    BY <1>1 DEF IInv, TypeOK
<1>4. CASE CreateFileError
  <2>1. failed' = failed \cup {method}
      BY <1>4 DEF CreateFileError
  <2>2. failed' \subseteq Methods
      BY <1>1, <2>1 DEF IInv, TypeOK
  <2>3. \A m \in Methods : Backed(m) \/ m = method =>
            functions'[m].state = "whole" \/ m \in failed'
      BY <1>1, <2>1 DEF Backed
  <2> QED BY <1>1, <1>2, <1>3, <2>2, <2>3, NextDecisionIInv
<1>5. CASE WriteFileError
  <2>1. failed' = failed /\ failed' \subseteq Methods /\ method \in failed
      BY <1>5 DEF WriteFileError, IInv, TypeOK, RulesMade
  <2>3. \A m \in Methods : Backed(m) \/ m = method =>
            functions'[m].state = "whole" \/ m \in failed'
      BY <1>1, <2>1 DEF Backed
  <2> QED BY <1>1, <1>2, <1>3, <2>1, <2>3, NextDecisionIInv
<1> QED BY <1>4, <1>5

LEMMA RegistryIInv ==
    ASSUME IInv, ReadRegistry \/ TruncateRegistry
    PROVE  IInv'
<1>1. /\ table' = table /\ code' = code /\ defs' = defs
      /\ functions' = functions /\ failed' = failed /\ fresh' = fresh
      /\ pc' \in {"registry", "rewriting"}
      /\ registry' \in {registry, EmptyFile} /\ merged' \subseteq registry.names \cup fresh \cup merged
    BY DEF ReadRegistry, TruncateRegistry, diskVars, table
<1>2. TypeOK'
    BY <1>1 DEF IInv, TypeOK, Positions, EmptyFile
<1>3. Readable' /\ RulesMade' /\ RuleUnderway' /\ FilesMade'
    BY <1>1 DEF IInv, Readable, RulesMade, RuleUnderway, FilesMade
<1>4. Backing'
    BY <1>1 DEF IInv, Backing, Backed, EmptyFile
<1>5. MergeKeeps'
    BY DEF ReadRegistry, TruncateRegistry, MergeKeeps, diskVars, parseExistingRegistry
<1> QED BY <1>2, <1>3, <1>4, <1>5 DEF IInv

LEMMA BackToIdleIInv ==
    ASSUME IInv, RefuseRegistry \/ WriteRegistry \/ Stop
    PROVE  IInv'
<1>1. Idle /\ UNCHANGED <<functions, failed>> /\ registry' \in {registry, Registry(merged)}
    BY DEF RefuseRegistry, WriteRegistry, Stop, diskVars
<1>2. /\ registry'.state \in {"none", "empty", "whole"} /\ registry'.names \subseteq Methods
      /\ registry'.state # "whole" => registry'.names = {}
      /\ \A m \in registry'.names : Backed(m)
    BY <1>1 DEF IInv, TypeOK, Backing, Registry
<1> QED BY <1>1, <1>2, IdleIInv

LEMMA NextIInv == IInv /\ [Next]_vars => IInv'
<1> SUFFICES ASSUME IInv, [Next]_vars PROVE IInv'
    OBVIOUS
<1>1. ASSUME NEW file \in Files, Start(file) PROVE IInv'
    BY <1>1, StartIInv
<1>2. CASE BeginRule
    BY <1>2, BeginRuleIInv
<1>3. ASSUME NEW label \in rest, AddCondition(label) PROVE IInv'
    BY <1>3, AddConditionIInv
<1>4. CASE EndRule
    BY <1>4, EndRuleIInv
<1>5. CASE CreateFile
    BY <1>5, CreateFileIInv
<1>6. CASE WriteFile
    BY <1>6, WriteFileIInv
<1>7. CASE CreateFileError \/ WriteFileError
    BY <1>7, FileErrorIInv
<1>8. CASE ReadRegistry \/ TruncateRegistry
    BY <1>8, RegistryIInv
<1>9. CASE RefuseRegistry \/ WriteRegistry \/ Stop
    BY <1>9, BackToIdleIInv
<1>10. CASE UNCHANGED vars
  <2>1. table' = table /\ method' = method
      BY <1>10 DEF vars, runVars, table, method
  <2> QED BY <1>10, <2>1 DEF vars, runVars, diskVars, IInv, TypeOK, Readable, Backing, Backed,
                 RulesMade, RuleUnderway, FilesMade, MergeKeeps, parseExistingRegistry
<1> QED BY <1>1, <1>2, <1>3, <1>4, <1>5, <1>6, <1>7, <1>8, <1>9, <1>10 DEF Next

(* The inductive invariant of the generator.                               *)
THEOREM Invariance == Spec => []IInv
<1> QED BY InitIInv, NextIInv, PTL DEF Spec

(* The generator's state and files keep their shape.                       *)
THEOREM TypeCorrect == Spec => []TypeOK
<1>1. IInv => TypeOK
    BY DEF IInv
<1> QED BY <1>1, Invariance, PTL

(* Every registered method has a whole file or one that failed.            *)
THEOREM RegisteredIsBacked == Spec => []RegistryBacked
<1>1. IInv => RegistryBacked
    BY DEF IInv, Backing, Backed, RegistryBacked
<1> QED BY <1>1, Invariance, PTL

-----------------------------------------------------------------------------
(* Whole files decide by the first rule that matches.                      *)

LEMMA RuleDecides ==
    ASSUME NEW t, Clear(t), NEW r \in DOMAIN t.rules, NEW g, RuleMade(t, r, g)
    PROVE  /\ g.condition # <<>>
           /\ \A a \in Atoms(g.condition) :
                /\ a.rel # "broken"
                /\ \E i \in Filled(t.rules[r]) : a.label = t.inputs[i].label
           /\ \A i \in Filled(t.rules[r]) : t.inputs[i].type = "dateTime" =>
                \E a \in Atoms(g.condition) : a.label = t.inputs[i].label
           /\ \A in \in InputsOf(t) : Holds(g.condition, in) <=> Matches(t, t.rules[r], in)
<1> DEFINE rule == t.rules[r]
           c == g.condition
<1>1. ClearRule(t, rule) /\ PartMeans(t, rule, Filled(rule), c)
    BY DEF Clear, RuleMade
<1>2. Filled(rule) # {}
    BY <1>1 DEF ClearRule
<1>3. ASSUME NEW in
      PROVE  Matches(t, rule, in) <=>
                \A i \in Filled(rule) : Satisfies(t.inputs[i].type, rule.entries[i], in[t.inputs[i].label])
  <2>1. \A i \in DOMAIN rule.entries : rule.entries[i].kind = "blank" =>
            Satisfies(t.inputs[i].type, rule.entries[i], in[t.inputs[i].label])
      BY DEF Satisfies
  <2> HIDE DEF rule
  <2> QED BY <2>1 DEF Matches, Filled
<1> HIDE DEF rule, c
<1>4. /\ c # <<>>
      /\ \A a \in Atoms(c) : a.rel # "broken" /\ \E i \in Filled(rule) : a.label = t.inputs[i].label
      /\ \A i \in Filled(rule) : t.inputs[i].type = "dateTime" =>
                \E a \in Atoms(c) : a.label = t.inputs[i].label
      /\ \A in \in InputsOf(t) : Holds(c, in) <=>
                \A i \in Filled(rule) : Satisfies(t.inputs[i].type, rule.entries[i], in[t.inputs[i].label])
    BY <1>1, <1>2 DEF PartMeans
<1>5. \A in \in InputsOf(t) : Holds(c, in) <=> Matches(t, rule, in)
    BY <1>3, <1>4
<1> QED BY <1>4, <1>5 DEF rule, c

LEMMA LeastIsIn ==
    ASSUME NEW S \in SUBSET Nat, S # {}
    PROVE  LeastOf(S) \in S
<1> DEFINE R == OpToRel(<, Nat)
<1>1. \A i, j \in Nat : <<i, j>> \in R <=> i < j
    BY DEF OpToRel
<1>2. IsWellFoundedOn(R, Nat)
    BY NatLessThanWellFounded
<1> HIDE DEF R
<1>3. \E i \in S : \A j \in S : ~ (<<j, i>> \in R)
    BY <1>2, WFMin
<1>4. \E i \in S : \A j \in S : i <= j
  <2>1. PICK i \in S : \A j \in S : ~ (<<j, i>> \in R)
      BY <1>3
  <2>2. \A j \in S : i \in Nat /\ j \in Nat /\ ~ (j < i)
      BY <1>1, <2>1
  <2> QED BY <2>2
<1> QED BY <1>4 DEF LeastOf

LEMMA TypeOfInput ==
    ASSUME NEW t, Distinct(t), NEW i \in DOMAIN t.inputs
    PROVE  TypeOf(t, t.inputs[i].label) = t.inputs[i].type
<1>1. \A k \in DOMAIN t.inputs : t.inputs[k].label = t.inputs[i].label => k = i
    BY DEF Distinct
<1> QED BY <1>1 DEF TypeOf

LEMMA FilesDecide == IInv => FunctionDecides
<1> SUFFICES ASSUME IInv, NEW m \in Methods,
                    functions[m].state = "whole", Clear(functions[m].table)
             PROVE  /\ Compiles(functions[m].table, functions[m].rules)
                    /\ \A in \in InputsOf(functions[m].table) :
                        Run(functions[m].rules, in) = Meaning(functions[m].table, in)
    BY DEF FunctionDecides
<1> DEFINE t == functions[m].table
           g == functions[m].rules
<1>1. /\ DOMAIN g = DOMAIN t.rules
      /\ \A r \in DOMAIN g : RuleMade(t, r, g[r])
    BY DEF IInv, FilesMade
<1>2. Clear(t) /\ Distinct(t)
    BY DEF Clear, Distinct
<1> HIDE DEF t, g
<1>3. \A r \in DOMAIN g : Fits(t, t.rules[r]) /\ g[r].outputs = t.rules[r].outputs
    BY <1>1 DEF RuleMade
<1>4. Compiles(t, g)
  <2>1. TimeUsed(t, g) <=>
            \E r \in DOMAIN t.rules : \E i \in Filled(t.rules[r]) : t.inputs[i].type = "dateTime"
    <3>1. \A r \in DOMAIN g : Filled(t.rules[r]) \subseteq DOMAIN t.inputs
        BY <1>3 DEF Filled, Fits
    <3>2. \A r \in DOMAIN g : \A a \in Atoms(g[r].condition) :
            \E i \in Filled(t.rules[r]) : a.label = t.inputs[i].label
        BY <1>1, <1>2, RuleDecides
    <3>3. \A r \in DOMAIN g : \A i \in Filled(t.rules[r]) : t.inputs[i].type = "dateTime" =>
            \E a \in Atoms(g[r].condition) : a.label = t.inputs[i].label
        BY <1>1, <1>2, RuleDecides
    <3>4. \A i \in DOMAIN t.inputs : TypeOf(t, t.inputs[i].label) = t.inputs[i].type
        BY <1>2, TypeOfInput
    <3>5. ASSUME TimeUsed(t, g)
          PROVE  \E r \in DOMAIN t.rules : \E i \in Filled(t.rules[r]) : t.inputs[i].type = "dateTime"
      <4>1. PICK r \in DOMAIN g : \E a \in Atoms(g[r].condition) : TypeOf(t, a.label) = "dateTime"
          BY <3>5 DEF TimeUsed
      <4> PICK a \in Atoms(g[r].condition) : TypeOf(t, a.label) = "dateTime"
          BY <4>1
      <4>2. PICK i \in Filled(t.rules[r]) : a.label = t.inputs[i].label
          BY <3>2
      <4> QED BY <1>1, <3>1, <3>4, <4>1, <4>2
    <3>6. ASSUME NEW r \in DOMAIN t.rules, NEW i \in Filled(t.rules[r]), t.inputs[i].type = "dateTime"
          PROVE  TimeUsed(t, g)
      <4>1. PICK a \in Atoms(g[r].condition) : a.label = t.inputs[i].label
          BY <1>1, <3>3, <3>6
      <4> QED BY <1>1, <3>1, <3>4, <3>6, <4>1 DEF TimeUsed
    <3> QED BY <3>5, <3>6
  <2>2. TimeImported(t) <=> TimeUsed(t, g)
      BY <1>2, <2>1 DEF Clear
  <2>3. \A r \in DOMAIN g :
            g[r].condition # <<>> /\ \A a \in Atoms(g[r].condition) : a.rel # "broken"
      BY <1>1, <1>2, RuleDecides
  <2> QED BY <2>2, <2>3 DEF Compiles
<1>5. ASSUME NEW in \in InputsOf(t)
      PROVE  Run(g, in) = Meaning(t, in)
  <2> DEFINE ran == {r \in DOMAIN g : Holds(g[r].condition, in)}
             meant == {r \in DOMAIN t.rules : Matches(t, t.rules[r], in)}
  <2>1. \A r \in DOMAIN g : Holds(g[r].condition, in) <=> Matches(t, t.rules[r], in)
      BY <1>1, <1>2, RuleDecides
  <2>2. ran = meant
      BY <1>1, <2>1
  <2>3. Run(g, in) = IF ran = {} THEN NoOutput ELSE g[LeastOf(ran)].outputs
      BY DEF Run
  <2>4. Meaning(t, in) = IF meant = {} THEN NoOutput ELSE t.rules[LeastOf(meant)].outputs
      BY DEF Meaning
  <2>5. ran # {} => LeastOf(ran) \in ran
    <3>1. ran \subseteq Nat
      <4>1. DOMAIN functions[m].rules \subseteq Nat
          BY DEF IInv, FilesMade
      <4> QED BY <4>1 DEF g
    <3> HIDE DEF ran
    <3> QED BY <3>1, LeastIsIn
  <2>6. ran # {} => g[LeastOf(ran)].outputs = t.rules[LeastOf(ran)].outputs
      BY <1>3, <2>5
  <2> HIDE DEF ran, meant
  <2> QED BY <2>2, <2>3, <2>4, <2>6
<1> QED BY <1>4, <1>5 DEF t, g

(* Whatever order Go's map gives the tests of a rule in, the function made *)
(* of a clear table compiles and returns the outputs of the first rule     *)
(* that matches, for all tables and inputs.                                *)
THEOREM DecidesByFirstMatch == Spec => []FunctionDecides
  BY FilesDecide, Invariance, PTL

(* Only a run stopped while it rewrites registry.go loses entries.         *)
THEOREM RegistryGrows == Spec => RegistryKept
<1>1. IInv /\ [Next]_vars =>
        [Registered \subseteq Registered' \/ (pc = "rewriting" /\ registry' = EmptyFile)]_vars
  <2> SUFFICES ASSUME IInv, Next
               PROVE  Registered \subseteq Registered' \/ (pc = "rewriting" /\ registry' = EmptyFile)
      OBVIOUS
  <2>1. (\E file \in Files : Start(file)) \/ BeginRule \/ (\E label \in rest : AddCondition(label))
            \/ EndRule \/ CreateFile => Registered' = Registered
      BY DEF Start, BeginRule, AddCondition, EndRule, CreateFile, Registered, diskVars
  <2>2. CreateFileError \/ WriteFile \/ WriteFileError => Registered' = Registered
      BY DEF CreateFileError, WriteFile, WriteFileError, NextDecision, Registered
  <2>3. ReadRegistry => Registered' = Registered
      BY DEF ReadRegistry, Registered, diskVars
  <2>4. TruncateRegistry => Registered \subseteq Registered'
      BY DEF TruncateRegistry, Registered, IInv, MergeKeeps
  <2>5. RefuseRegistry => Registered' = Registered
      BY DEF RefuseRegistry, Idle, Registered, diskVars
  <2>6. WriteRegistry => Registered' = Registered
      BY DEF WriteRegistry, Idle, Registered, Registry
  <2>7. Stop => Registered' = Registered \/ (pc = "rewriting" /\ registry' = EmptyFile)
      BY DEF Stop, Idle, Registered, diskVars, IInv, MergeKeeps
  <2> QED BY <2>1, <2>2, <2>3, <2>4, <2>5, <2>6, <2>7 DEF Next
<1> QED BY <1>1, Invariance, PTL DEF Spec, RegistryKept

(* A registry without entries is never written again.                      *)
THEOREM EmptyRegistryFinal == Spec => EmptyRegistryStays
<1>1. IInv /\ [Next]_vars => [registry = Registry({}) => registry' = registry]_vars
  <2> SUFFICES ASSUME IInv, Next, registry = Registry({})
               PROVE  registry' = registry
      OBVIOUS
  <2>0. pc \notin {"registry", "rewriting"} /\ ~parseExistingRegistry
      BY DEF IInv, MergeKeeps, Registry, EmptyFile, parseExistingRegistry
  <2> QED BY <2>0 DEF Next, Start, BeginRule, AddCondition, EndRule, CreateFile, CreateFileError,
            WriteFile, WriteFileError, NextDecision, ReadRegistry, RefuseRegistry, TruncateRegistry,
            WriteRegistry, Stop, diskVars
<1> QED BY <1>1, Invariance, PTL DEF Spec, EmptyRegistryStays
=============================================================================
