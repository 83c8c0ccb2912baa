-------------------------- MODULE MCDecisionTables --------------------------
(* An instance of DecisionTables for TLC: a table like the running example *)
(* (numbers, strings, a boolean), one with dates, one the generator        *)
(* misreads, one whose rule has too many entries, and a file of no table.  *)
EXTENDS DecisionTables, TLC

CONSTANTS Asthma, Diabetes, Both_, True, False, High, Low, Ineligible

Input(label, type) == [label |-> label, type |-> type]
Rule(entries, outputs) == [entries |-> entries, outputs |-> outputs]
Blank == [kind |-> "blank"]
Cmp(op, value) == [kind |-> "cmp", op |-> op, value |-> value]
Interval(open, low, high, close) ==
    [kind |-> "interval", open |-> open, low |-> low, high |-> high, close |-> close]
OneOf(values) == [kind |-> "list", values |-> values]
Date(at, zone) == [at |-> at, zone |-> zone]

Example ==
    [inputs |-> <<Input("Age", "number"), Input("Conditions", "string"),
                  Input("Consent", "boolean"), Input("MeanAge", "context")>>,
     rules |-> << Rule(<<Interval("[", 1, 3, "["), OneOf({Asthma, Diabetes}), Cmp("", True),
                         Blank>>, High),
                  Rule(<<Cmp(">=", 2), Blank, Cmp("", True), Interval("]", 0, 2, "]")>>, Low),
                  Rule(<<Blank, Blank, Cmp("", False), Blank>>, Ineligible) >>]

Dated ==
    [inputs |-> <<Input("DateTime", "dateTime"), Input("Age", "number")>>,
     rules |-> << Rule(<<Interval("[", Date(1, 0), Date(2, 0), "]"), Cmp("<", 2)>>, High),
                  Rule(<<Cmp(">=", Date(3, 0)), Blank>>, Low),
                  Rule(<<Cmp("<", Date(1, 0)), Cmp("<=", 2)>>, Ineligible) >>]

Misread ==
    [inputs |-> <<Input("DateTime", "dateTime"), Input("Conditions", "string")>>,
     rules |-> << Rule(<<Cmp("<=", Date(2, 1)), OneOf({Both_})>>, High),
                  Rule(<<Cmp("=", Date(1, 0)), [kind |-> "dash"]>>, Low) >>]

TooLong == [inputs |-> <<Input("Age", "number")>>, rules |-> <<Rule(<<Blank, Blank>>, Low)>>]

CamelCase == ("first" :> "First") @@ ("second table" :> "SecondTable")
             @@ ("Second Table" :> "SecondTable")

XmlFiles ==
    { <<[name |-> "first", table |-> Example]>>,
      <<[name |-> "second table", table |-> Dated], [name |-> "Second Table", table |-> Misread]>>,
      <<[name |-> "Second Table", table |-> Dated], [name |-> "first", table |-> TooLong]>>,
      <<>> }

StringPieces ==
    (Asthma :> {Asthma}) @@ (Diabetes :> {Diabetes}) @@ (Both_ :> {Asthma, Diabetes})

Values ==
    [type \in {"number", "context", "string", "boolean", "dateTime"} |->
        CASE type = "string" -> {Asthma, Diabetes, Both_}
          [] type = "boolean" -> {True, False}
          [] OTHER -> 0..3]
=============================================================================
