--------------------------- MODULE MCKeyRegistry ---------------------------
(* Instances of KeyRegistry for TLC.                                       *)
EXTENDS KeyRegistry

MCWords == {"patient", "light"}
MCOthers == {"1"}

PartOf(under, text, capital) == [under |-> under, text |-> text, capital |-> capital]

Patient       == <<PartOf(0, "patient", TRUE)>>
patient       == <<PartOf(0, "patient", FALSE)>>
Patient1      == Append(Patient, PartOf(0, "1", FALSE))
Patient_1     == Append(Patient, PartOf(1, "1", FALSE))
Patient_light == Append(Patient, PartOf(1, "light", FALSE))
Patient_Light == Append(Patient, PartOf(1, "light", TRUE))

(* Patient_light and the light log of Patient have one variable,           *)
(* PATIENT_LIGHT.  In two parts of a name, its own light log has the same  *)
(* name in the contract.                                                   *)
Alike == {Patient, Patient_light}

(* The ASCII order.                                                        *)
AllVars == <<VarOf(Patient), VarOf(Light(Patient)), VarOf(Light(Patient_light))>>

Sorted == [V \in SUBSET Vars |-> SelectSeq(AllVars, LAMBDA v : v \in V)]

(* The conversions: what a variable returns to, and which names have       *)
(* different variables but one name in the contract.                       *)
ASSUME Conversions ==
    /\ \A n \in {Patient, Light(Patient), Patient1} : envVarToKeyName(VarOf(n)) = n
    /\ envVarToKeyName(VarOf(patient)) = Patient
    /\ VarOf(Patient_light) = VarOf(Light(Patient))
    /\ \A p \in {<<Patient1, Patient_1>>, <<Patient_light, Patient_Light>>} :
        /\ VarOf(p[1]) # VarOf(p[2])
        /\ envVarToKeyName(VarOf(p[1])) = envVarToKeyName(VarOf(p[2]))
=============================================================================
