---------------------------- MODULE MCPolicyCode ----------------------------
(* An instance of PolicyCode for TLC: files like policy.alfa, and files    *)
(* that differ from it in one or two places.                               *)
EXTENDS PolicyCode, TLC

Text(t) == [type |-> "text", value |-> t]
Number(n) == [type |-> "number", value |-> n]
Hub == Test("Role", Text("MedicalHub"))
Center == Test("Role", Text("VaccinationCenter"))
Italy == Test("Country", Text("Italy"))

MCAtoi == "3" :> "3" @@ "03" :> "3"

Named1(name, expr) == [kind |-> "named condition", name |-> name, expr |-> expr]
isMedicalHub == Named1("isMedicalHub", <<<<Hub>>, <<Italy>>>>)
cond == Named1("cond", <<<<Italy>>, <<Hub, Center>>>>)
otherHub == Named1("isMedicalHub", <<<<Center>>>>)

Namespace == Line("namespace")
Import(mandatory) == [kind |-> "import", mandatory |-> mandatory]
Attribute(name, category) ==
    [kind |-> "attribute", ok |-> TRUE, name |-> name, category |-> category]
Symbol(kind, sym, uri) == [kind |-> kind, ok |-> TRUE, sym |-> sym, uri |-> uri]

Head_ == <<Namespace, Import(TRUE), Attribute("Country", "environmentCat")>>
Spec_ == << Symbol("category", "Cat", "Spec"), Symbol("obligation", "AggregationSpec", "Spec"),
            Symbol("obligation", "OtherSpec", "Spec"), Attribute("meanAge", "Cat"),
            Attribute("days", "Cat") >>

Name(n) == [name |-> n, expr |-> <<>>]
Only(t) == [name |-> "", expr |-> <<<<t>>>>]
Rule(type, conditions) == [type |-> type, effect |-> "permit", conditions |-> conditions]
Obl(sym, params) == [sym |-> sym, params |-> params]
Policy(action, rules, obligations) ==
    [kind |-> "tree", target |-> TRUE, action |-> action, struct |-> "Patient", rules |-> rules,
     obligations |-> obligations, place |-> "policy"]

Aggr(sym, params) ==
    Policy("WithAggr", <<Rule("decisionwithaggregation", <<Name("isMedicalHub")>>)>>,
           <<Obl(sym, params)>>)
Agg == Aggr("AggregationSpec", <<"meanAge", "days">>)
Writing == Policy("Write", <<Rule("write", <<Name("cond")>>)>>, <<>>)
Deciding == Policy("Decide", <<Rule("decision", <<Only(Center)>>)>>, <<>>)

Shipped == Head_ \o <<isMedicalHub, cond>> \o Spec_ \o <<Agg, Deciding, Writing>>

(* One policy replaced or changed.                                         *)
Body(policies) == Head_ \o <<isMedicalHub, cond>> \o Spec_ \o policies

Policies ==
    { <<Agg>>, <<Writing>>, <<Agg, Writing, Writing>>, <<>>,
      <<Agg, [Writing EXCEPT !.action = ""]>>,
      <<Agg, [Writing EXCEPT !.target = FALSE]>>,
      <<Agg, [Writing EXCEPT !.struct = ""]>>,
      <<Agg, [Writing EXCEPT !.rules[1].effect = "deny"]>>,
      <<Agg, [Writing EXCEPT !.rules[1].conditions = <<>>]>>,
      <<Agg, [Writing EXCEPT !.rules[1].conditions = <<Only(Hub)>>]>>,
      <<Agg, [Writing EXCEPT !.rules[1].conditions = <<Only(Test("Level", Text("03")))>>]>>,
      <<Agg, [Writing EXCEPT !.rules[1].conditions = <<Only(Test("Level", Number("3")))>>]>>,
      <<Agg, [Writing EXCEPT !.rules[1].conditions = <<Only(Test("Level", Text("high")))>>]>>,
      <<Agg, [Writing EXCEPT !.rules[1].type = "read"]>>,
      <<Agg, [Writing EXCEPT !.rules[1].type = ""]>>,
      <<Agg, [Writing EXCEPT !.rules = @ \o <<Rule("read", <<Only(Hub)>>)>>]>>,
      <<Agg, [Writing EXCEPT !.rules = @ \o <<Rule("", <<Only(Hub)>>)>>]>>,
      <<Agg, Policy("Write", <<Rule("decision", <<Only(Center)>>)>>, <<>>)>>,
      <<Agg, [Writing EXCEPT !.obligations = <<Obl("OtherSpec", <<"days">>)>>]>>,
      <<[Agg EXCEPT !.obligations = <<>>], Writing>>,
      <<[Agg EXCEPT !.place = "rule"], Writing>>,
      <<Agg, [Writing EXCEPT !.obligations = <<Obl("OtherSpec", <<"days">>)>>,
                                       !.place = "rule"], Deciding>>,
      <<Aggr("OtherSpec", <<"meanAge">>), Deciding>>,
      <<Aggr("Unknown", <<"meanAge">>), Writing>>,
      <<Aggr("AggregationSpec", <<"Country">>), Writing>>,
      <<Aggr("AggregationSpec", <<"weight">>), Writing>>,
      <<[Agg EXCEPT !.obligations = <<Obl("OtherSpec", <<"days">>),
                                      Obl("AggregationSpec", <<"meanAge">>)>>], Writing>> }

(* Declarations left out, out of order, or broken.                         *)
Preludes ==
    { <<Namespace, Import(FALSE), isMedicalHub, cond>> \o Spec_ \o <<Agg, Writing>>,
      <<Import(TRUE), isMedicalHub, cond>> \o Spec_ \o <<Agg, Writing>>,
      Head_ \o <<isMedicalHub>> \o Spec_ \o <<Agg, Writing, cond>>,
      Head_ \o <<isMedicalHub, cond>> \o Spec_ \o <<otherHub, Agg, Writing>>,
      Head_ \o <<isMedicalHub, cond>> \o Spec_ \o <<Agg, otherHub, Writing>>,
      Head_ \o <<cond, isMedicalHub>> \o Tail(Spec_) \o <<Agg, Writing>>,
      Head_ \o <<cond, isMedicalHub>> \o <<Spec_[1], Spec_[4], Spec_[5]>> \o <<Agg, Writing>>,
      Head_ \o <<[Spec_[2] EXCEPT !.ok = FALSE]>> \o <<Writing>>,
      Head_ \o <<isMedicalHub, cond>> \o Spec_
        \o <<Symbol("category", "Cat", "Other"), Agg, Writing>> }

PolicyFiles == {Shipped} \cup {Body(p) : p \in Policies} \cup Preludes

Obligations == <<"AggregationSpec", "OtherSpec", "Unknown">>

Users ==
    {[valid |-> v, attributes |-> a] :
        v \in BOOLEAN,
        a \in { <<>>, "Country" :> "Italy", "Role" :> "VaccinationCenter", "Role" :> "MedicalHub",
                ("Role" :> "MedicalHub") @@ ("Country" :> "Italy"),
                ("Role" :> "VaccinationCenter") @@ ("Country" :> "Italy"),
                ("Role" :> "MedicalHub") @@ ("Country" :> "France"), "cond" :> "true", "cond" :> "yes",
                "Level" :> "03", "Level" :> "high" }}
=============================================================================
