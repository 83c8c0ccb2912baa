----------------------------- MODULE PolicyCode -----------------------------
(***************************************************************************)
(* The generator of request handlers, src/src/alfaparser: it reads an ALFA *)
(* policy file line by line, puts a new handleFunction into the receivers  *)
(* of both CCUs, and a file desobj.go with one handler per rule beside     *)
(* each.  It is run by hand, and may be stopped between any two writes.    *)
(* What a CCU built from these files answers is part of the module.        *)
(*                                                                         *)
(* A line is a record that tells apart what the parser tells apart: its    *)
(* kind is the keyword that starts it, its fields are what the functions   *)
(* typeFromRuleName, parseActionFromTargetClause, parseAssignmentString    *)
(* and parseSymbolEqualsString read in it, ok is FALSE if they cannot.  A  *)
(* condition is a sequence of clauses joined by "and", a clause one test   *)
(* Attribute==value or several, in parentheses and joined by "or"; a value *)
(* is a text in quotes (not a date), a number or a truth value.  A         *)
(* condition in a rule is a name (not true or false), or a single test,    *)
(* which has no blank.  A rule has at most one: several would become one   *)
(* text without an operator in between.  The attributes of a certificate   *)
(* are texts.                                                              *)
(***************************************************************************)
EXTENDS Naturals, Sequences, SequencesExt

CONSTANTS
    Files,          \* policy files, see FileAssumption
    FirstFile,      \* the file the sources were first generated from
    SymbolOrder,    \* names of obligations, as sort.Strings orders them
    Certificates,   \* of users: [valid, attributes]
    Atoi,           \* strconv.Atoi: the numbers that texts spell, as texts
    MaxRuns         \* bound: runs of the generator

CCUs == {"teeserver", "tee"}

HandledTypes == {"write", "decision", "decisionwithaggregation"}
RuleTypes == HandledTypes \cup {"read", ""}

VARIABLES
    receiver,   \* receiver[u]: the receiver of u, its handleFunction
    desobj,     \* desobj[u]: the generated handlers of u
    gen,        \* the run of the generator
    runs,       \* number of runs
    switchOf,   \* history: file receiver[u] was last generated from
    handlersOf, \* history: file desobj[u] was last generated from
    complete    \* history: every run ended by writing all files or none

vars == <<receiver, desobj, gen, runs, switchOf, handlersOf, complete>>

-----------------------------------------------------------------------------
(* A policy file: lines of the namespace, and policies in a tree.          *)

Line(kind) == [kind |-> kind]

RenderRule(p, r) ==
    <<[kind |-> "rule", type |-> r.type], Line(r.effect)>>
      \o [i \in DOMAIN r.conditions |-> [kind |-> "condition", use |-> r.conditions[i]]]

RenderObligations(p) ==
    IF p.obligations = <<>> THEN <<>>
    ELSE <<Line("on permit")>>
           \o FlattenSeq([i \in DOMAIN p.obligations |->
                 <<[kind |-> "obligation block", sym |-> p.obligations[i].sym]>>
                   \o [j \in DOMAIN p.obligations[i].params |->
                         [kind |-> "assignment", ok |-> TRUE, key |-> p.obligations[i].params[j]]]
                   \o <<Line("close")>>])
           \o <<Line("close")>>

(* The obligations stand behind the rules, or at the end of each rule.     *)
RenderPolicy(p) ==
    LET inside == IF p.place = "rule" THEN RenderObligations(p) ELSE <<>>
    IN <<Line("policy")>>
         \o (IF p.target THEN <<[kind |-> "target", ok |-> p.action # "", action |-> p.action,
                                 struct |-> p.struct]>>
             ELSE <<>>)
         \o <<Line("apply")>>
         \o FlattenSeq([i \in DOMAIN p.rules |->
               RenderRule(p, p.rules[i]) \o inside \o <<Line("close")>>])
         \o (IF p.place = "rule" THEN <<>> ELSE RenderObligations(p))
         \o <<Line("close")>>

IsPolicy(item) == item.kind = "tree"

Render(file) ==
    FlattenSeq([i \in DOMAIN file |->
        IF IsPolicy(file[i]) THEN RenderPolicy(file[i]) ELSE <<file[i]>>]) \o <<Line("close")>>

NamespaceKinds ==
    {"namespace", "import", "attribute", "named condition", "category", "obligation"}

(* What a test compares with: "Italy", 3 or true.                          *)
Literal == [type : {"text", "number", "bool"}, value : STRING]

IsSequence(s) == s \in Seq(ToSet(s))
IsExpression(e) == IsSequence(e) /\ \A i \in DOMAIN e : IsSequence(e[i])
HasValues(e) == \A i \in DOMAIN e : \A j \in DOMAIN e[i] : e[i][j].value \in Literal

ASSUME FileAssumption ==
    /\ FirstFile \in Files
    /\ \A file \in Files :
        /\ IsSequence(file)
        /\ \A i \in DOMAIN file : ~IsPolicy(file[i]) =>
            /\ file[i].kind \in NamespaceKinds
            /\ file[i].kind = "named condition" =>
                  IsExpression(file[i].expr) /\ HasValues(file[i].expr)
        /\ \A i \in DOMAIN file : IsPolicy(file[i]) =>
            /\ IsSequence(file[i].rules)
            /\ \A r \in DOMAIN file[i].rules :
                /\ file[i].rules[r].type \in RuleTypes
                /\ file[i].rules[r].effect \in {"permit", "deny"}
                /\ IsSequence(file[i].rules[r].conditions)
                /\ Len(file[i].rules[r].conditions) <= 1
                /\ \A c \in DOMAIN file[i].rules[r].conditions :
                      /\ IsExpression(file[i].rules[r].conditions[c].expr)
                      /\ HasValues(file[i].rules[r].conditions[c].expr)
            /\ IsSequence(file[i].obligations)
            /\ \A b \in DOMAIN file[i].obligations :
                /\ file[i].obligations[b].sym \in ToSet(SymbolOrder)
                /\ IsSequence(file[i].obligations[b].params)

ASSUME SymbolAssumption == IsSequence(SymbolOrder)
ASSUME RunsAssumption == MaxRuns \in Nat

-----------------------------------------------------------------------------
(* parsePolicySet.  The flags inPolicy, inRule, inOnPermit and             *)
(* inObligationBlock are one level: each is set only under the one before. *)

NoPolicy == [action |-> "", struct |-> "", type |-> "", rules |-> <<>>, obligations |-> <<>>]

StartOfFile ==
    [level |-> "namespace", error |-> FALSE, namespace |-> FALSE, imported |-> FALSE,
     attributes |-> <<>>, conditions |-> <<>>, categories |-> <<>>, obligations |-> <<>>,
     policies |-> <<>>, sym |-> ""]

Failed(p) == [p EXCEPT !.error = TRUE]

Current(p) == p.policies[Len(p.policies)]
WithPolicy(p, q) == [p EXCEPT !.policies[Len(p.policies)] = q]

(* An assignment to an entry of a map.                                     *)
Store(map, key, value) ==
    [x \in DOMAIN map \cup {key} |-> IF x = key THEN value ELSE map[x]]

NamespaceLine(p, l) ==
    CASE l.kind = "namespace" -> [p EXCEPT !.namespace = TRUE]
      [] l.kind = "import" -> [p EXCEPT !.imported = @ \/ l.mandatory]
      [] l.kind = "named condition" /\ l.name # "" ->
           [p EXCEPT !.conditions = Store(@, l.name, l.expr)]
      [] l.kind \in {"attribute", "category", "obligation"} /\ ~l.ok -> Failed(p)
      [] l.kind = "attribute" /\ l.ok ->
           [p EXCEPT !.attributes = Store(@, l.name, l.category)]
      [] l.kind = "category" /\ l.ok -> [p EXCEPT !.categories = Store(@, l.sym, l.uri)]
      [] l.kind = "obligation" /\ l.ok -> [p EXCEPT !.obligations = Store(@, l.sym, l.uri)]
      [] l.kind = "obligation block" -> Failed(p)
      [] OTHER -> p

StartPolicy(p) ==
    [p EXCEPT !.level = "policy", !.sym = "", !.policies = Append(@, NoPolicy)]

StartRule(p, l) ==
    LET q == Current(p)
    IN [WithPolicy(p, [q EXCEPT !.rules = Append(@, [action |-> "", condition |-> <<>>]),
                                !.type = IF l.type # "" THEN l.type ELSE @])
          EXCEPT !.level = "rule"]

PolicyLine(p, l) ==
    CASE l.kind = "target" /\ ~l.ok -> Failed(p)
      [] l.kind = "target" /\ l.ok ->
           WithPolicy(p, [Current(p) EXCEPT !.action = l.action,
                                            !.struct = IF l.struct # "" THEN l.struct ELSE @])
      [] l.kind = "rule" -> StartRule(p, l)
      [] l.kind = "on permit" -> [p EXCEPT !.level = "on permit"]
      [] l.kind = "close" -> [p EXCEPT !.level = "namespace"]
      [] OTHER -> p

Test(attribute, value) == [attribute |-> attribute, value |-> value]

(* An attribute alone, without a comparison.                               *)
NoLiteral == [type |-> "none", value |-> "none"]
Bare(attribute) == Test(attribute, NoLiteral)

(* A name that is not declared (yet) stays in the text.                    *)
expandCondition(use, named) ==
    IF use.name \in DOMAIN named THEN named[use.name]
    ELSE IF use.name # "" THEN <<<<Bare(use.name)>>>> ELSE use.expr

RuleLine(p, l) ==
    LET q == Current(p)
        last == Len(q.rules)
    IN CASE l.kind \in {"permit", "deny"} ->
              WithPolicy(p, [q EXCEPT !.rules[last].action = l.kind])
         [] l.kind = "condition" ->
              WithPolicy(p, [q EXCEPT !.rules[last].condition =
                               Append(@, expandCondition(l.use, p.conditions))])
         [] l.kind = "close" -> [p EXCEPT !.level = "policy"]
         [] OTHER -> p

Opened(obligations, sym) ==
    IF sym \in DOMAIN obligations THEN obligations ELSE Store(obligations, sym, {})

OnPermitLine(p, l) ==
    CASE l.kind = "obligation block" ->
           [WithPolicy(p, [Current(p) EXCEPT !.obligations = Opened(@, l.sym)])
              EXCEPT !.level = "obligation", !.sym = l.sym]
      [] l.kind = "close" -> [p EXCEPT !.level = "policy"]
      [] OTHER -> p

ObligationLine(p, l) ==
    CASE l.kind = "assignment" /\ ~l.ok -> Failed(p)
      [] l.kind = "assignment" /\ l.ok ->
           WithPolicy(p, [Current(p) EXCEPT !.obligations[p.sym] = @ \cup {l.key}])
      [] l.kind = "close" -> [p EXCEPT !.level = "on permit", !.sym = ""]
      [] OTHER -> p

Scan(p, l) ==
    CASE p.error -> p
      [] ~p.error /\ l.kind = "policy" -> StartPolicy(p)
      [] OTHER ->
           CASE p.level = "namespace" -> NamespaceLine(p, l)
             [] p.level = "policy" -> PolicyLine(p, l)
             [] p.level = "rule" -> RuleLine(p, l)
             [] p.level = "on permit" -> OnPermitLine(p, l)
             [] p.level = "obligation" -> ObligationLine(p, l)

(* The checks behind the last line.                                        *)
ObligationsMatch(p, q) ==
    \A sym \in DOMAIN q.obligations :
        /\ sym \in DOMAIN p.obligations
        /\ LET allowed == {c \in DOMAIN p.categories : p.categories[c] = p.obligations[sym]}
           IN /\ allowed # {}
              /\ \A param \in q.obligations[sym] :
                    param \in DOMAIN p.attributes /\ p.attributes[param] \in allowed

Accepted(p) ==
    /\ ~p.error
    /\ p.namespace
    /\ p.imported
    /\ \A a \in DOMAIN p.attributes :
          p.attributes[a] \in DOMAIN p.categories \cup {"environmentCat"}
    /\ \A i \in DOMAIN p.policies : ObligationsMatch(p, p.policies[i])

parsePolicySet(file) == FoldLeft(Scan, StartOfFile, Render(file))

-----------------------------------------------------------------------------
(* GenerateHandleFunctionAndDesobj: a handler per rule of a policy with a  *)
(* handled type, a case per name that has one.  The action of a rule is    *)
(* not used.                                                               *)

FirstSymbol(syms) == SymbolOrder[Min({i \in DOMAIN SymbolOrder : SymbolOrder[i] \in syms})]

pickAggregationObligation(q) ==
    IF "AggregationSpec" \in DOMAIN q.obligations THEN q.obligations["AggregationSpec"]
    ELSE q.obligations[FirstSymbol(DOMAIN q.obligations)]

Handlers(q) ==
    IF q.type \notin HandledTypes THEN <<>>
    ELSE [i \in DOMAIN q.rules |->
            [name |-> q.action, type |-> q.type, struct |-> q.struct,
             condition |-> q.rules[i].condition,
             aggregates |-> IF q.type = "decisionwithaggregation"
                            THEN pickAggregationObligation(q) ELSE {}]]

NothingToAggregate(q) ==
    q.type = "decisionwithaggregation" /\ q.rules # <<>> /\ q.obligations = <<>>

Generates(p) == \A i \in DOMAIN p.policies : ~NothingToAggregate(p.policies[i])

desobjCode(p) == FlattenSeq([i \in DOMAIN p.policies |-> Handlers(p.policies[i])])

switchCases(p) == {desobjCode(p)[i].name : i \in DOMAIN desobjCode(p)} \ {""}

Handled(p) == Accepted(p) /\ Generates(p)

ASSUME FirstFileAssumption == Handled(parsePolicySet(FirstFile))

(* What a run makes of each file, or nothing if it refuses the file.       *)
Code ==
    [file \in Files |->
        LET p == parsePolicySet(file)
        IN IF Handled(p)
           THEN [ok |-> TRUE, cases |-> switchCases(p), handlers |-> desobjCode(p)]
           ELSE [ok |-> FALSE, cases |-> {}, handlers |-> <<>>]]

-----------------------------------------------------------------------------
(* A run of the generator.  os.WriteFile empties a file and then writes.   *)

(* Mutant: only the first CCU gets its desobj.go.                          *)
Steps_OneDesobj ==
    << [kind |-> "receiver", ccu |-> "teeserver"], [kind |-> "receiver", ccu |-> "tee"],
       [kind |-> "desobj", ccu |-> "teeserver"] >>

Steps == << [kind |-> "receiver", ccu |-> "teeserver"], [kind |-> "receiver", ccu |-> "tee"],
            [kind |-> "desobj", ccu |-> "teeserver"], [kind |-> "desobj", ccu |-> "tee"] >>

Receiver(cases) == [whole |-> TRUE, cases |-> cases]

(* Mutant: the package clause of the first receiver for both.              *)
Desobj_FirstPackage(u, handlers) ==
    [whole |-> TRUE, package |-> "teeserver", handlers |-> handlers]

Desobj(u, handlers) == [whole |-> TRUE, package |-> u, handlers |-> handlers]
CutReceiver == [whole |-> FALSE, cases |-> {}]
CutDesobj == [whole |-> FALSE, package |-> "", handlers |-> <<>>]

NoRun == [todo |-> <<>>, open |-> FALSE, file |-> FirstFile]

Init ==
    /\ receiver = [u \in CCUs |-> Receiver(Code[FirstFile].cases)]
    /\ desobj = [u \in CCUs |-> Desobj(u, Code[FirstFile].handlers)]
    /\ gen = NoRun
    /\ runs = 0
    /\ switchOf = [u \in CCUs |-> FirstFile]
    /\ handlersOf = [u \in CCUs |-> FirstFile]
    /\ complete = TRUE

Idle == gen.todo = <<>>

(* The handlers are generated once before anything is written, for the     *)
(* package that the first receiver names.                                  *)
Start(file) ==
    /\ Idle
    /\ runs < MaxRuns
    /\ runs' = runs + 1
    /\ gen' = IF Code[file].ok /\ receiver["teeserver"].whole
              THEN [todo |-> Steps, open |-> FALSE, file |-> file]
              ELSE NoRun
    /\ UNCHANGED <<receiver, desobj, switchOf, handlersOf, complete>>

(* Mutant: the old text of the receiver is not needed.                     *)
Truncate_AnyText ==
    /\ ~Idle
    /\ ~gen.open
    /\ gen' = [gen EXCEPT !.open = TRUE]
    /\ LET step == Head(gen.todo)
       IN IF step.kind = "receiver"
          THEN receiver' = [receiver EXCEPT ![step.ccu] = CutReceiver] /\ UNCHANGED desobj
          ELSE desobj' = [desobj EXCEPT ![step.ccu] = CutDesobj] /\ UNCHANGED receiver
    /\ complete' = FALSE
    /\ UNCHANGED <<runs, switchOf, handlersOf>>

(* ReplaceHandleFunction needs the old function, parsePackageName the      *)
(* package clause: neither is in an empty file.                            *)
Truncate ==
    /\ ~Idle
    /\ ~gen.open
    /\ receiver[Head(gen.todo).ccu].whole
    /\ gen' = [gen EXCEPT !.open = TRUE]
    /\ LET step == Head(gen.todo)
       IN IF step.kind = "receiver"
          THEN receiver' = [receiver EXCEPT ![step.ccu] = CutReceiver] /\ UNCHANGED desobj
          ELSE desobj' = [desobj EXCEPT ![step.ccu] = CutDesobj] /\ UNCHANGED receiver
    /\ complete' = FALSE
    /\ UNCHANGED <<runs, switchOf, handlersOf>>

ReplaceError ==
    /\ ~Idle
    /\ ~gen.open
    /\ ~receiver[Head(gen.todo).ccu].whole
    /\ gen' = NoRun
    /\ UNCHANGED <<receiver, desobj, runs, switchOf, handlersOf, complete>>

Write ==
    LET step == Head(gen.todo)
        u == step.ccu
    IN /\ gen.open
       /\ IF step.kind = "receiver"
          THEN /\ receiver' = [receiver EXCEPT ![u] = Receiver(Code[gen.file].cases)]
               /\ switchOf' = [switchOf EXCEPT ![u] = gen.file]
               /\ UNCHANGED <<desobj, handlersOf>>
          ELSE /\ desobj' = [desobj EXCEPT ![u] = Desobj(u, Code[gen.file].handlers)]
               /\ handlersOf' = [handlersOf EXCEPT ![u] = gen.file]
               /\ UNCHANGED <<receiver, switchOf>>
       /\ gen' = IF Len(gen.todo) = 1 THEN NoRun
                 ELSE [gen EXCEPT !.todo = Tail(@), !.open = FALSE]
       /\ complete' = (Len(gen.todo) = 1)
       /\ UNCHANGED runs

(* Mutant: the write goes on after the failure.                            *)
Stop_StillOpen ==
    /\ ~Idle
    /\ gen' = [NoRun EXCEPT !.open = gen.open]
    /\ UNCHANGED <<receiver, desobj, runs, switchOf, handlersOf, complete>>

(* The run is stopped, or a write fails.                                   *)
Stop ==
    /\ ~Idle
    /\ gen' = NoRun
    /\ UNCHANGED <<receiver, desobj, runs, switchOf, handlersOf, complete>>

Next == (\E file \in Files : Start(file)) \/ Truncate \/ ReplaceError \/ Write \/ Stop

Spec == Init /\ [][Next]_vars

-----------------------------------------------------------------------------
(* A CCU built from the sources (prepare_ccu.sh) and what it answers.      *)

HandlerNames(u) == {desobj[u].handlers[i].name : i \in DOMAIN desobj[u].handlers}

(* Go refuses a call of a missing function, two functions of one name, and *)
(* the import of reflect if no handler aggregates.                         *)
Builds(u) ==
    LET h == desobj[u].handlers
    IN /\ receiver[u].whole
       /\ desobj[u].whole
       /\ desobj[u].package = u
       /\ receiver[u].cases \subseteq HandlerNames(u)
       /\ \A i, j \in DOMAIN h : h[i].name = h[j].name => i = j
       /\ \E i \in DOMAIN h : h[i].type = "decisionwithaggregation"

(* ParseAttributes: an attribute becomes a number or a truth value if its  *)
(* text spells one.                                                        *)
TrueTexts == {"t", "T", "true", "TRUE", "True"}
FalseTexts == {"f", "F", "false", "FALSE", "False"}

ParseValue(text) ==
    IF text \in DOMAIN Atoi THEN [type |-> "number", value |-> Atoi[text]]
    ELSE IF text \in TrueTexts THEN [type |-> "bool", value |-> "true"]
    ELSE IF text \in FalseTexts THEN [type |-> "bool", value |-> "false"]
    ELSE [type |-> "text", value |-> text]

(* Expressions are evaluated from the left, no further than needed.  An    *)
(* attribute the certificate lacks is an error.  Values of two types are   *)
(* not equal.                                                              *)
FirstNot(s, neutral) ==
    LET others == {i \in DOMAIN s : s[i] # neutral}
    IN IF others = {} THEN neutral ELSE s[Min(others)]

TestValue(t, attributes) ==
    IF t.attribute \notin DOMAIN attributes THEN "error"
    ELSE LET value == ParseValue(attributes[t.attribute])
         IN IF t.value # NoLiteral THEN IF value = t.value THEN "true" ELSE "false"
            ELSE IF value.type = "bool" THEN value.value ELSE "no bool"

ClauseValue(c, attributes) ==
    FirstNot([i \in DOMAIN c |-> TestValue(c[i], attributes)], "false")

Evaluate(expr, attributes) ==
    FirstNot([i \in DOMAIN expr |-> ClauseValue(expr[i], attributes)], "true")

(* Mutant: an error of the evaluation passes for TRUE.                      *)
CheckCallability_ErrorPasses(condition, attributes) ==
    IF condition = <<>> THEN "error"
    ELSE IF Evaluate(condition[1], attributes) = "error" THEN "true"
    ELSE Evaluate(condition[1], attributes)

(* A rule without a condition leaves an empty text, which is an error.     *)
CheckCallability(condition, attributes) ==
    IF condition = <<>> THEN "error" ELSE Evaluate(condition[1], attributes)

handlerOf(u, name) ==
    desobj[u].handlers[CHOOSE i \in DOMAIN desobj[u].handlers :
                         desobj[u].handlers[i].name = name]

(* handleFunction and the handler it calls: what is done for a user, or    *)
(* why nothing is.  An error is a refusal.  Where the result of the        *)
(* evaluation is no truth value, result.(bool) panics, in a goroutine      *)
(* that does not recover: the CCU ends.                                    *)
Answer(u, name, cert) ==
    IF name \notin receiver[u].cases THEN "unknown function"
    ELSE IF ~cert.valid THEN "invalid certificate"
    ELSE LET callable == CheckCallability(handlerOf(u, name).condition, cert.attributes)
         IN IF callable = "true" THEN "done"
            ELSE IF callable = "no bool" THEN "ended" ELSE "refused"

Does(u, name) ==
    [type |-> handlerOf(u, name).type, struct |-> handlerOf(u, name).struct,
     aggregates |-> handlerOf(u, name).aggregates]
-----------------------------------------------------------------------------
(* Properties.                                                             *)

Generator == [todo : {<<>>} \cup {SubSeq(Steps, i, Len(Steps)) : i \in DOMAIN Steps},
              open : BOOLEAN, file : Files]

TypeOK ==
    /\ \A u \in CCUs :
        /\ receiver[u] \in {CutReceiver} \cup {Receiver(Code[file].cases) : file \in Files}
        /\ desobj[u] \in {CutDesobj} \cup {Desobj(u, Code[file].handlers) : file \in Files}
    /\ gen \in Generator
    /\ gen.open => ~Idle
    /\ runs \in 0..MaxRuns
    /\ switchOf \in [CCUs -> Files]
    /\ handlersOf \in [CCUs -> Files]
    /\ complete \in BOOLEAN

(* The condition a rule of item i of a file uses: its own test, or the     *)
(* last one declared under its name before the policy.  A name that is not *)
(* declared there can only be that of an attribute.                        *)
Declarations(file, i, name) ==
    {j \in 1..(i - 1) : file[j].kind = "named condition" /\ file[j].name = name}

Defined(file, i, use) == use.name = "" \/ Declarations(file, i, use.name) # {}

Written(file, i, use) ==
    IF ~Defined(file, i, use) THEN <<<<Bare(use.name)>>>>
    ELSE IF use.name = "" THEN use.expr
    ELSE file[Max(Declarations(file, i, use.name))].expr

(* A text in quotes asks for this text; a number or a truth value for an   *)
(* attribute that spells it; an attribute alone should be true.            *)
Fulfilled(t, text) ==
    IF t.value.type = "text" THEN text = t.value.value
    ELSE IF t.value # NoLiteral THEN ParseValue(text) = t.value
    ELSE ParseValue(text) = [type |-> "bool", value |-> "true"]

Satisfied(expr, attributes) ==
    \A i \in DOMAIN expr : \E j \in DOMAIN expr[i] :
        /\ expr[i][j].attribute \in DOMAIN attributes
        /\ Fulfilled(expr[i][j], attributes[expr[i][j].attribute])

(* Obligations of one name in a policy count as one.                       *)
ObligationSyms(p) == {p.obligations[i].sym : i \in DOMAIN p.obligations}

ParamsOf(p, sym) ==
    UNION {ToSet(p.obligations[i].params) :
             i \in {j \in DOMAIN p.obligations : p.obligations[j].sym = sym}}

AggregatesOf(p) ==
    IF "AggregationSpec" \in ObligationSyms(p) THEN ParamsOf(p, "AggregationSpec")
    ELSE ParamsOf(p, FirstSymbol(ObligationSyms(p)))

(* What the file says a function with this name does for a user: the set   *)
(* of its effects, one for each policy that lets the user call it.         *)
Says(file, name, cert) ==
    { [type |-> file[i].rules[1].type, struct |-> file[i].struct,
       aggregates |-> IF file[i].rules[1].type = "decisionwithaggregation"
                      THEN AggregatesOf(file[i]) ELSE {}] :
        i \in {j \in DOMAIN file :
                 /\ IsPolicy(file[j])
                 /\ file[j].target
                 /\ file[j].action = name
                 /\ Len(file[j].rules) = 1
                 /\ \E c \in DOMAIN file[j].rules[1].conditions :
                      Satisfied(Written(file, j, file[j].rules[1].conditions[c]),
                                cert.attributes)} }

(* A policy of this name uses a condition that is not declared before it.  *)
HasUndeclared(file, name) ==
    \E i \in DOMAIN file :
        /\ IsPolicy(file[i]) /\ file[i].action = name
        /\ \E r \in DOMAIN file[i].rules : \E c \in DOMAIN file[i].rules[r].conditions :
              ~Defined(file, i, file[i].rules[r].conditions[c])

NamesIn(file) == {file[i].action : i \in {j \in DOMAIN file : IsPolicy(file[j])}}
Named == UNION {NamesIn(file) : file \in Files}

(* Whatever run was stopped where and whatever the policy files were, a    *)
(* CCU that can be built does something for a user only if the file its    *)
(* handleFunction was generated from names the function, and the file its  *)
(* handlers were generated from has a policy for it with one rule, whose   *)
(* condition the certificate satisfies; and what it does is what that      *)
(* policy says.  A request ends the CCU only if that policy uses a         *)
(* condition that is not declared before it.                               *)
(*                                                                         *)
(* Two things a reader of the file may not expect count as written.  The   *)
(* effect of the rule, permit or deny, is read and never used              *)
(* (alfa_parser.go:386-393): a rule that denies lets its users in, in      *)
(* spite of denyUnlessPermit.  And a name that is not declared lets in     *)
(* whose certificate has an attribute of this name that is true.           *)
OnlyAsWritten ==
    \A u \in CCUs : Builds(u) =>
        \A name \in Named, cert \in Certificates :
            /\ Answer(u, name, cert) = "done" =>
                /\ cert.valid
                /\ name \in NamesIn(switchOf[u])
                /\ Does(u, name) \in Says(handlersOf[u], name, cert)
            /\ Answer(u, name, cert) = "ended" => HasUndeclared(handlersOf[u], name)

(* A text in quotes that spells a number or a truth value is never equal   *)
(* to an attribute with the same text (ISGonHelper.go:99-106).             *)
Plain(expr) ==
    \A i \in DOMAIN expr : \A j \in DOMAIN expr[i] :
        expr[i][j].value.type = "text" => ParseValue(expr[i][j].value.value) = expr[i][j].value

(* A file as the generator and CheckCallability expect it: one rule with   *)
(* one condition per policy, which permits, conditions declared before     *)
(* they are used, texts in quotes that spell nothing else, a name and a    *)
(* handled type of its own for every policy, obligations behind the rule,  *)
(* and some policy that aggregates.                                        *)
Clear(file) ==
    LET policies == {i \in DOMAIN file : IsPolicy(file[i])}
    IN /\ \A i \in policies :
            /\ file[i].target
            /\ file[i].place = "policy"
            /\ Len(file[i].rules) = 1
            /\ file[i].rules[1].type \in HandledTypes
            /\ file[i].rules[1].effect = "permit"
            /\ Len(file[i].rules[1].conditions) = 1
            /\ Defined(file, i, file[i].rules[1].conditions[1])
            /\ Plain(Written(file, i, file[i].rules[1].conditions[1]))
       /\ \A i, j \in policies : file[i].action = file[j].action => i = j
       /\ \E i \in policies : file[i].rules[1].type = "decisionwithaggregation"

Attributes(expr) ==
    UNION {{expr[i][j].attribute : j \in DOMAIN expr[i]} : i \in DOMAIN expr}

(* Once a run over a clear file has written everything, both CCUs can be   *)
(* built and do what the file says for every user whose certificate is     *)
(* valid and has all attributes the condition tests, until a run that gets *)
(* further than reading its file ends too early.                           *)
AllThatIsWritten ==
    \A u \in CCUs :
        LET file == handlersOf[u]
        IN complete /\ Clear(file) =>
            /\ Builds(u)
            /\ \A i \in DOMAIN file, cert \in Certificates :
                IsPolicy(file[i]) /\ cert.valid =>
                    LET expr == Written(file, i, file[i].rules[1].conditions[1])
                    IN Satisfied(expr, cert.attributes)
                         /\ Attributes(expr) \subseteq DOMAIN cert.attributes
                       => /\ Answer(u, file[i].action, cert) = "done"
                          /\ Does(u, file[i].action) \in Says(file, file[i].action, cert)

(* Under the same condition, but whatever the files are, one CCU can be    *)
(* built if the other can, and they answer every user alike.               *)
BothAlike ==
    complete =>
        /\ Builds("tee") = Builds("teeserver")
        /\ Builds("tee") =>
            \A name \in Named, cert \in Certificates :
                /\ Answer("tee", name, cert) = Answer("teeserver", name, cert)
                /\ Answer("tee", name, cert) = "done" => Does("tee", name) = Does("teeserver", name)

Rewriting(u) == gen.open /\ Head(gen.todo) = [kind |-> "receiver", ccu |-> u]

(* A receiver that a stopped run left empty stays empty: every later run   *)
(* needs its old text (alfa_parser.go:152, 681) and fails.                 *)
CutReceiverStays ==
    [][\A u \in CCUs : ~receiver[u].whole /\ ~Rewriting(u)
                          => ~receiver'[u].whole /\ ~Rewriting(u)']_vars
=============================================================================
