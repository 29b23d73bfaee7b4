------------------------- MODULE SinkContractProofs -------------------------
(* What is proved of SinkContract, for every set of records and workers.    *)
EXTENDS SinkContract, TLAPS

(* What was refused stays away from the receiver, and a report repeats only *)
(* what is known to have happened.                                          *)
ReportInv ==
    /\ refused \cap held = {}
    /\ delivered \subseteq held
    /\ killed \subseteq refused

(* At the start nothing is held, refused or reported.                       *)
LEMMA ReportInit == Init => ReportInv
  BY DEF Init, ReportInv

(* Every step of a sink keeps the reports true.                             *)
LEMMA ReportStep == ReportInv /\ [Next]_vars => ReportInv'
<1> SUFFICES ASSUME ReportInv, [Next]_vars PROVE ReportInv'
  OBVIOUS
<1>1. ASSUME NEW w \in Workers, NEW batch \in SUBSET Records, Hand(w, batch)
      PROVE  ReportInv'
  BY <1>1 DEF Hand, ReportInv
<1>2. ASSUME NEW S \in SUBSET Records, Take(S)
      PROVE  ReportInv'
  BY <1>2 DEF Take, ReportInv
<1>3. ASSUME NEW S \in SUBSET Records, Refuse(S)
      PROVE  ReportInv'
  BY <1>3 DEF Refuse, ReportInv
<1>4. ASSUME NEW w \in Workers, NEW rejected \in SUBSET Records, Result(w, rejected)
      PROVE  ReportInv'
  <2>1. rejected \subseteq refused /\ asked[w] \ rejected \subseteq held
    BY <1>4 DEF Result
  <2> QED
    BY <1>4, <2>1 DEF Result, ReportInv
<1>5. ASSUME NEW w \in Workers, Fault(w)
      PROVE  ReportInv'
  BY <1>5 DEF Fault, ReportInv
<1>6. CASE UNCHANGED vars
  BY <1>6 DEF vars, ReportInv
<1> QED
  BY <1>1, <1>2, <1>3, <1>4, <1>5, <1>6 DEF Next

(* The types: each worker is in at most one call, with documents.           *)
THEOREM ContractTyped == Spec => []ContractTypeOK
<1>1. Init => ContractTypeOK
  BY DEF Init, ContractTypeOK
<1>2. ContractTypeOK /\ [Next]_vars => ContractTypeOK'
  <2> SUFFICES ASSUME ContractTypeOK, [Next]_vars PROVE ContractTypeOK'
    OBVIOUS
  <2> USE DEF ContractTypeOK
  <2>1. ASSUME NEW w \in Workers, NEW batch \in SUBSET Records, Hand(w, batch)
        PROVE  ContractTypeOK'
    BY <2>1 DEF Hand
  <2>2. ASSUME NEW S \in SUBSET Records, Take(S) \/ Refuse(S)
        PROVE  ContractTypeOK'
    BY <2>2 DEF Take, Refuse
  <2>3. ASSUME NEW w \in Workers, NEW rejected \in SUBSET Records, Result(w, rejected)
        PROVE  ContractTypeOK'
    BY <2>3 DEF Result
  <2>4. ASSUME NEW w \in Workers, Fault(w)
        PROVE  ContractTypeOK'
    BY <2>4 DEF Fault
  <2>5. CASE UNCHANGED vars
    BY <2>5 DEF vars
  <2> QED
    BY <2>1, <2>2, <2>3, <2>4, <2>5 DEF Next
<1> QED
  BY <1>1, <1>2, PTL DEF Spec

(* A record reported as taken is at the receiver, and a dead letter is      *)
(* never about a record that landed.                                        *)
THEOREM ReportsTrue == Spec => []ReportsAreTrue
<1>1. ReportInv => ReportsAreTrue
  BY DEF ReportInv, ReportsAreTrue
<1> QED
  BY <1>1, ReportInit, ReportStep, PTL DEF Spec

=============================================================================
