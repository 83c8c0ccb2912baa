--------------------------- MODULE DecisionTables ---------------------------
(***************************************************************************)
(* The generator of decision functions, src/src/dmnparser/parser: it reads *)
(* an XML file of DMN decision tables, turns every table into a Go file of *)
(* the package decisionfunctions whose method tests the rules one after    *)
(* the other, and merges the methods into registry.go, where a CCU finds   *)
(* them by name.  It is run once per XML file, by hand, and may be stopped *)
(* or fail anywhere.                                                       *)
(*                                                                         *)
(* A test of a table is a record that tells apart what the generator tells *)
(* apart in its text: "blank", "dash" (a "-"), "cmp" with op and value,    *)
(* "interval" with open, low, high and close, "dots" (an interval with     *)
(* more than one ".."), "list" (quoted strings, or several values).  A     *)
(* generated Go condition is a sequence of top-level disjuncts, each a set *)
(* of factors joined by &&, each factor a set of comparisons, in           *)
(* parentheses and joined by || when they are several.  Layout and package *)
(* clauses are left out; labels have no colon and texts no bar.            *)
(***************************************************************************)
EXTENDS Integers, Sequences

CONSTANTS
    Names,        \* names of decisions, as the XML files spell them
    Methods,      \* names of Go methods
    toCamelCase,  \* [Names -> Methods]: two spellings may give one method
    Files,        \* the XML files: sequences of decisions [name, table]
    Pieces,       \* [string -> its parts between commas]
    ValuesOf,     \* [type -> values an input of that type may have]
    NoOutput      \* the default return: "", NaN, false

Comparisons == {"", "<", "<=", ">", ">="}
OrEqual == {"<=", ">="}
Numeric == {"number", "context"}

ASSUME NamesAssumption == toCamelCase \in [Names -> Methods]

IsSeq(s) == s \in Seq({s[i] : i \in DOMAIN s})

(* Decisions and rules come in sequences; a date is an instant and the     *)
(* offset from UTC it is written with.                                     *)
WellFormed(t) ==
    /\ IsSeq(t.rules)
    /\ \A r \in DOMAIN t.rules :
        LET entries == t.rules[r].entries
        IN \A i \in DOMAIN entries \cap DOMAIN t.inputs :
            t.inputs[i].type = "dateTime" =>
              /\ entries[i].kind = "cmp" => entries[i].value.at \in Int
              /\ entries[i].kind = "interval" =>
                    entries[i].low.at \in Int /\ entries[i].high.at \in Int

ASSUME FilesAssumption ==
    /\ ValuesOf["dateTime"] \subseteq Int
    /\ \A file \in Files :
        /\ IsSeq(file)
        /\ \A d \in DOMAIN file : file[d].name \in Names /\ WellFormed(file[d].table)

VARIABLES
    pc,        \* where the run of the generator is; "idle" between runs
    defs,      \* decisions still to generate
    code,      \* rules generated so far of the first of them
    rest,      \* labels generateConditions has not yet come to
    cond,      \* condition joined so far
    fresh,     \* newEntries: methods of this run
    merged,    \* entries about to be written to registry.go
    functions, \* the files of the package, by method
    registry,  \* the file registry.go
    failed     \* history: methods whose last file could not be written

runVars == <<pc, defs, code, rest, cond, fresh, merged>>
diskVars == <<functions, registry, failed>>
vars == <<runVars, diskVars>>

-----------------------------------------------------------------------------
(* Generated conditions.                                                   *)

Atom(label, rel, value) == [label |-> label, rel |-> rel, value |-> value]

(* One comparison, or several joined by && or by a parenthesised ||.       *)
Single(a) == <<{{a}}>>
Both(a, b) == <<{{a}, {b}}>>

(* Text that Go does not compile.                                          *)
Broken(label) == Single(Atom(label, "broken", label))

(* c && d as text: && binds the last disjunct of c to the first of d only. *)
Join(c, d) ==
    IF c = <<>> THEN d
    ELSE IF d = <<>> THEN c
    ELSE [i \in 1..(Len(c) + Len(d) - 1) |->
            IF i < Len(c) THEN c[i]
            ELSE IF i = Len(c) THEN c[i] \cup d[1]
            ELSE d[i - Len(c) + 1]]

(* "a","b" becomes a parenthesised ||; commas inside the quotes split too. *)
processStringCondition(label, test) ==
    CASE test.kind = "list" ->
            <<{{Atom(label, "==", p) : p \in UNION {Pieces[s] : s \in test.values}}}>>
      [] test.kind = "dash" -> Single(Atom(label, "==", "-"))
      [] OTHER -> Broken(label)

(* Mutant: every interval includes its bounds.                             *)
processIntervalCondition_Closed(label, test) ==
    IF test.kind = "dots" THEN <<>>
    ELSE Both(Atom(label, ">=", test.low), Atom(label, "<=", test.high))

(* [a..b], ]a..b[, (a..b): only square brackets that face the bounds       *)
(* include them; text with two ".." gives no condition at all.             *)
processIntervalCondition(label, test) ==
    IF test.kind = "dots" THEN <<>>
    ELSE Both(Atom(label, IF test.open = "[" THEN ">=" ELSE ">", test.low),
              Atom(label, IF test.close = "]" THEN "<=" ELSE "<", test.high))

(* Used for context as well, processContext differs in blanks only.  The   *)
(* operator "=" is copied to the code, as are "-" and lists of numbers.    *)
processNumberCondition(label, test) ==
    CASE test.kind \in {"interval", "dots"} -> processIntervalCondition(label, test)
      [] test.kind = "cmp" /\ test.op # "=" ->
            Single(Atom(label, IF test.op = "" THEN "==" ELSE test.op, test.value))
      [] OTHER -> Broken(label)

(* The wall clock of the date is taken for UTC; text that is not one date  *)
(* gives the zero time.                                                    *)
ZeroTime == -1
extractTime(date) == date.at + date.zone

(* "<=" and ">=" become two comparisons joined by || without parentheses.  *)
(* An interval includes its bounds, and only "[" and "]" are taken off.    *)
processTimeCondition(label, test) ==
    CASE test.kind \in {"interval", "dots"} ->
            LET low == IF test.open = "[" THEN extractTime(test.low) ELSE ZeroTime
                high == IF test.kind = "dots" \/ test.close = "]"
                          THEN extractTime(test.high) ELSE ZeroTime
            IN <<{{Atom(label, ">", low), Atom(label, "==", low)},
                  {Atom(label, "<", high), Atom(label, "==", high)}}>>
      [] test.kind = "cmp" /\ test.op \in OrEqual ->
            LET strict == IF test.op = "<=" THEN "<" ELSE ">"
            IN <<{{Atom(label, strict, extractTime(test.value))}},
                 {{Atom(label, "==", extractTime(test.value))}}>>
      [] test.kind = "cmp" /\ test.op \in {"<", ">"} ->
            Single(Atom(label, test.op, extractTime(test.value)))
      [] test.kind = "cmp" /\ test.op = "" ->
            Single(Atom(label, "==", extractTime(test.value)))
      [] OTHER -> Single(Atom(label, "==", ZeroTime))

(* The literal is copied; an unknown type is taken for string.             *)
CopiedCondition(label, type, test) ==
    CASE type = "boolean" /\ test.kind = "cmp" /\ test.op = "" ->
            Single(Atom(label, "==", test.value))
      [] type # "boolean" /\ test.kind = "list" /\ \E s \in test.values : test.values = {s} ->
            Single(Atom(label, "==", CHOOSE s \in test.values : TRUE))
      [] OTHER -> Broken(label)

(* One round of the loop of generateConditions.                            *)
Condition(label, type, test) ==
    IF test.kind = "blank" THEN <<>>
    ELSE CASE type = "dateTime" -> processTimeCondition(label, test)
           [] type = "string" -> processStringCondition(label, test)
           [] type \in Numeric -> processNumberCondition(label, test)
           [] OTHER -> CopiedCondition(label, type, test)

-----------------------------------------------------------------------------
(* The rules of a table by label: conditionsMap keeps the last of several  *)
(* entries under one label.                                                *)

Labels(t, rule) == {t.inputs[i].label : i \in DOMAIN rule.entries}

EntryOf(t, rule, label) ==
    CHOOSE i \in DOMAIN rule.entries :
        /\ t.inputs[i].label = label
        /\ \A j \in DOMAIN rule.entries : t.inputs[j].label = label => j <= i

RuleCondition(t, rule, label) ==
    LET i == EntryOf(t, rule, label)
    IN Condition(label, t.inputs[i].type, rule.entries[i])

-----------------------------------------------------------------------------
(* What the generated method computes.                                     *)

AtomHolds(a, in) ==
    CASE a.rel = "==" -> in[a.label] = a.value
      [] a.rel = "<" -> in[a.label] < a.value
      [] a.rel = "<=" -> in[a.label] <= a.value
      [] a.rel = ">" -> in[a.label] > a.value
      [] OTHER -> in[a.label] >= a.value

Holds(c, in) ==
    \E i \in DOMAIN c : \A factor \in c[i] : \E a \in factor : AtomHolds(a, in)

LeastOf(S) == CHOOSE i \in S : \A j \in S : i <= j

Run(rules, in) ==
    LET true == {r \in DOMAIN rules : Holds(rules[r].condition, in)}
    IN IF true = {} THEN NoOutput ELSE rules[LeastOf(true)].outputs

TimeImported(t) == \E i \in DOMAIN t.inputs : t.inputs[i].label = "DateTime"

(* Go compiles a file when every if has a condition, every comparison is   *)
(* one, and package time is imported exactly when it is used.              *)
Atoms(c) == UNION {UNION c[i] : i \in DOMAIN c}

TypeOf(t, label) ==
    LET i == CHOOSE k \in DOMAIN t.inputs : t.inputs[k].label = label
    IN t.inputs[i].type

TimeUsed(t, rules) ==
    \E r \in DOMAIN rules : \E a \in Atoms(rules[r].condition) :
        TypeOf(t, a.label) = "dateTime"

Compiles(t, rules) ==
    /\ \A r \in DOMAIN rules :
        /\ rules[r].condition # <<>>
        /\ \A a \in Atoms(rules[r].condition) : a.rel # "broken"
    /\ TimeImported(t) <=> TimeUsed(t, rules)

-----------------------------------------------------------------------------
(* Runs of the generator.                                                  *)

table == Head(defs).table
method == toCamelCase[Head(defs).name]

NoFile == [state |-> "none"]
CutOff == [state |-> "cut"]
Whole(t, rules) == [state |-> "whole", table |-> t, rules |-> rules]

NoRegistry == [state |-> "none", names |-> {}]
EmptyFile == [state |-> "empty", names |-> {}]
Registry(names) == [state |-> "whole", names |-> names]

(* Mutant: the rules of one run are left for the next.                     *)
Idle_KeepsRules ==
    /\ pc' = "idle"
    /\ defs' = <<>> /\ rest' = {} /\ cond' = <<>>
    /\ fresh' = {} /\ merged' = {}
    /\ UNCHANGED code

Idle ==
    /\ pc' = "idle"
    /\ defs' = <<>> /\ code' = <<>> /\ rest' = {} /\ cond' = <<>>
    /\ fresh' = {} /\ merged' = {}

Init ==
    /\ pc = "idle"
    /\ defs = <<>> /\ code = <<>> /\ rest = {} /\ cond = <<>>
    /\ fresh = {} /\ merged = {}
    /\ functions = [m \in Methods |-> NoFile]
    /\ registry = NoRegistry
    /\ failed = {}

(* main reads an XML file.                                                 *)
Start(file) ==
    /\ pc = "idle"
    /\ pc' = "rules" /\ defs' = file
    /\ UNCHANGED <<code, rest, cond, fresh, merged, diskVars>>

(* The next rule of the decision.  More entries than inputs are an index   *)
(* out of range, which ends the program.                                   *)
BeginRule ==
    /\ pc = "rules" /\ defs # <<>> /\ Len(code) < Len(table.rules)
    /\ LET rule == table.rules[Len(code) + 1]
       IN /\ DOMAIN rule.entries \subseteq DOMAIN table.inputs
          /\ rest' = Labels(table, rule)
    /\ pc' = "entries" /\ cond' = <<>>
    /\ UNCHANGED <<defs, code, fresh, merged, diskVars>>

(* Go visits the entries of the map in any order.                          *)
AddCondition(label) ==
    /\ pc = "entries" /\ label \in rest
    /\ rest' = rest \ {label}
    /\ cond' = Join(cond, RuleCondition(table, table.rules[Len(code) + 1], label))
    /\ UNCHANGED <<pc, defs, code, fresh, merged, diskVars>>

EndRule ==
    /\ pc = "entries" /\ rest = {}
    /\ pc' = "rules"
    /\ code' = Append(code, [condition |-> cond,
                             outputs |-> table.rules[Len(code) + 1].outputs])
    /\ cond' = <<>>
    /\ UNCHANGED <<defs, rest, fresh, merged, diskVars>>

(* Mutant: a method is registered when its decision is begun, and the      *)
(* decisions that remain are left out.                                     *)
NextDecision_Skips ==
    /\ pc' = "rules" /\ defs' = <<>> /\ code' = <<>>
    /\ fresh' = fresh \cup {toCamelCase[defs[i].name] : i \in DOMAIN defs}
    /\ UNCHANGED <<rest, cond, merged, registry>>

NextDecision ==
    /\ pc' = "rules" /\ defs' = Tail(defs) /\ code' = <<>>
    /\ fresh' = fresh \cup {method}
    /\ UNCHANGED <<rest, cond, merged, registry>>

(* writeGeneratedFunction: os.Create empties an old file of that name, and *)
(* errors are only reported on the console.                                *)
CreateFile ==
    /\ pc = "rules" /\ defs # <<>> /\ Len(code) = Len(table.rules)
    /\ pc' = "writing"
    /\ functions' = [functions EXCEPT ![method] = CutOff]
    /\ failed' = failed \cup {method}
    /\ UNCHANGED <<defs, code, rest, cond, fresh, merged, registry>>

CreateFileError ==
    /\ pc = "rules" /\ defs # <<>> /\ Len(code) = Len(table.rules)
    /\ failed' = failed \cup {method}
    /\ UNCHANGED functions
    /\ NextDecision

WriteFile ==
    /\ pc = "writing"
    /\ functions' = [functions EXCEPT ![method] = Whole(table, code)]
    /\ failed' = failed \ {method}
    /\ NextDecision

WriteFileError ==
    /\ pc = "writing"
    /\ UNCHANGED <<functions, failed>>
    /\ NextDecision

(* Mutant: a registry without entries is taken as it is.                   *)
parseExistingRegistry_Any == TRUE

(* A file with the map of the registry but no entry is refused; a file     *)
(* without the map, such as an empty one, is not.                          *)
parseExistingRegistry == registry.state = "whole" => registry.names # {}

(* Mutant: the registry is written anew, without what it had.              *)
ReadRegistry_Forgets ==
    /\ pc = "rules" /\ defs = <<>> /\ parseExistingRegistry
    /\ pc' = "registry" /\ merged' = fresh
    /\ UNCHANGED <<defs, code, rest, cond, fresh, diskVars>>

(* The start of writeDecisionRegistryAccumulating.                         *)
ReadRegistry ==
    /\ pc = "rules" /\ defs = <<>> /\ parseExistingRegistry
    /\ pc' = "registry" /\ merged' = registry.names \cup fresh
    /\ UNCHANGED <<defs, code, rest, cond, fresh, diskVars>>

RefuseRegistry ==
    /\ pc = "rules" /\ defs = <<>> /\ ~parseExistingRegistry
    /\ Idle
    /\ UNCHANGED diskVars

(* os.WriteFile truncates the file and then writes it.                     *)
TruncateRegistry ==
    /\ pc = "registry"
    /\ pc' = "rewriting" /\ registry' = EmptyFile
    /\ UNCHANGED <<defs, code, rest, cond, fresh, merged, functions, failed>>

WriteRegistry ==
    /\ pc = "rewriting"
    /\ registry' = Registry(merged)
    /\ Idle
    /\ UNCHANGED <<functions, failed>>

(* The program is stopped, panics, or returns after an error of the        *)
(* registry file.                                                          *)
Stop ==
    /\ pc # "idle"
    /\ Idle
    /\ UNCHANGED diskVars

Next ==
    \/ \E file \in Files : Start(file)
    \/ BeginRule
    \/ \E label \in rest : AddCondition(label)
    \/ EndRule
    \/ CreateFile \/ CreateFileError
    \/ WriteFile \/ WriteFileError
    \/ ReadRegistry \/ RefuseRegistry \/ TruncateRegistry \/ WriteRegistry
    \/ Stop

Spec == Init /\ [][Next]_vars

-----------------------------------------------------------------------------
(* Properties.                                                             *)

Positions == {"idle", "rules", "entries", "writing", "registry", "rewriting"}

(* The generator's state and the files it leaves, by shape: what is left   *)
(* of its decisions is a sequence, a file is missing, cut off or whole.    *)
TypeOK ==
    /\ pc \in Positions
    /\ IsSeq(defs) /\ IsSeq(code)
    /\ pc = "idle" => defs = <<>> /\ code = <<>>
    /\ pc \in {"entries", "writing"} => defs # <<>>
    /\ pc = "entries" => Len(code) < Len(table.rules)
    /\ fresh \subseteq Methods /\ merged \subseteq Methods /\ failed \subseteq Methods
    /\ DOMAIN functions = Methods
    /\ \A m \in Methods : functions[m].state \in {"none", "cut", "whole"}
    /\ registry.state \in {"none", "empty", "whole"}
    /\ registry.names \subseteq Methods
    /\ registry.state # "whole" => registry.names = {}

(* What a test of a decision table means in DMN.                           *)
Satisfies(type, test, x) ==
    LET value(v) == IF type = "dateTime" THEN v.at ELSE v
    IN CASE test.kind \in {"blank", "dash"} -> TRUE
         [] test.kind = "list" -> x \in test.values
         [] test.kind = "interval" ->
              /\ IF test.open = "[" THEN x >= value(test.low) ELSE x > value(test.low)
              /\ IF test.close = "]" THEN x <= value(test.high) ELSE x < value(test.high)
         [] test.kind = "cmp" ->
              CASE test.op \in {"", "="} -> x = value(test.value)
                [] test.op = "<" -> x < value(test.value)
                [] test.op = "<=" -> x <= value(test.value)
                [] test.op = ">" -> x > value(test.value)
                [] test.op = ">=" -> x >= value(test.value)
         [] OTHER -> FALSE

Matches(t, rule, in) ==
    \A i \in DOMAIN rule.entries :
        Satisfies(t.inputs[i].type, rule.entries[i], in[t.inputs[i].label])

(* Hit policy: the outputs of the first rule that matches.                 *)
Meaning(t, in) ==
    LET true == {r \in DOMAIN t.rules : Matches(t, t.rules[r], in)}
    IN IF true = {} THEN NoOutput ELSE t.rules[LeastOf(true)].outputs

(* The tests the generator translates as they are meant.                   *)
Understood(type, test) ==
    \/ test.kind = "blank"
    \/ type \in Numeric /\ (test.kind = "interval" \/ (test.kind = "cmp" /\ test.op \in Comparisons))
    \/ type = "boolean" /\ test.kind = "cmp" /\ test.op = ""
    \/ type = "string" /\ test.kind = "list" /\ \A s \in test.values : Pieces[s] = {s}
    \/ type = "dateTime" /\ test.kind = "cmp" /\ test.op \in Comparisons /\ test.value.zone = 0
    \/ /\ type = "dateTime" /\ test.kind = "interval" /\ test.open = "[" /\ test.close = "]"
       /\ test.low.zone = 0 /\ test.high.zone = 0

Filled(rule) == {i \in DOMAIN rule.entries : rule.entries[i].kind # "blank"}

(* A "<=" or ">=" of dates must be the only test of its rule: joined to    *)
(* another by && it changes its meaning.  A rule without tests gives an if *)
(* without a condition.                                                    *)
ClearRule(t, rule) ==
    /\ Filled(rule) # {}
    /\ \A i \in DOMAIN rule.entries : Understood(t.inputs[i].type, rule.entries[i])
    /\ \A i \in Filled(rule) :
        t.inputs[i].type = "dateTime" /\ rule.entries[i].kind = "cmp" /\ rule.entries[i].op \in OrEqual
          => Filled(rule) = {i}

Clear(t) ==
    /\ \A i, j \in DOMAIN t.inputs : t.inputs[i].label = t.inputs[j].label => i = j
    /\ \A r \in DOMAIN t.rules : ClearRule(t, t.rules[r])
    /\ TimeImported(t) <=>
        \E r \in DOMAIN t.rules : \E i \in Filled(t.rules[r]) : t.inputs[i].type = "dateTime"

InputsOf(t) ==
    LET labels == {t.inputs[i].label : i \in DOMAIN t.inputs}
        values == UNION {ValuesOf[t.inputs[i].type] : i \in DOMAIN t.inputs}
    IN {in \in [labels -> values] :
          \A i \in DOMAIN t.inputs : in[t.inputs[i].label] \in ValuesOf[t.inputs[i].type]}

(* Whatever order Go's map gives the tests of a rule in, the file made of  *)
(* a clear table compiles and decides by the first rule that matches.      *)
FunctionDecides ==
    \A m \in Methods :
        functions[m].state = "whole" /\ Clear(functions[m].table) =>
            /\ Compiles(functions[m].table, functions[m].rules)
            /\ \A in \in InputsOf(functions[m].table) :
                Run(functions[m].rules, in) = Meaning(functions[m].table, in)

(* However runs fail and are stopped, a method of the registry has a whole *)
(* file unless the last attempt to write that very file failed: otherwise  *)
(* the package would not compile for a reason nobody was told of.          *)
RegistryBacked ==
    \A m \in registry.names : functions[m].state = "whole" \/ m \in failed

(* The entries registry.go has, or is about to have again.                 *)
Registered == IF pc = "rewriting" THEN merged ELSE registry.names

(* A run adds its methods to those of earlier runs; only one stopped while *)
(* it rewrites registry.go loses any.                                      *)
RegistryKept ==
    [][Registered \subseteq Registered' \/ (pc = "rewriting" /\ registry' = EmptyFile)]_vars

(* A registry without entries, which a run over an XML file without        *)
(* decisions can write, is refused by every later run: it stays for ever.  *)
EmptyRegistryStays == [][registry = Registry({}) => registry' = registry]_vars
=============================================================================
