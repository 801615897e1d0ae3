--------------------------- MODULE InformerFactory ---------------------------
(***************************************************************************)
(* The shared informer factory of factory.go: it makes one informer for a  *)
(* type when it is first asked for, and Start runs those that have been    *)
(* asked for by then.  Each operation holds the factory's lock from its    *)
(* first line to its last, so it is a single step.  What an informer lists *)
(* and how often it resyncs is left out.                                   *)
(***************************************************************************)
EXTENDS Naturals, FiniteSets

CONSTANT Types            \* the types that have informers

ASSUME FactoryAssumption == IsFiniteSet(Types)

VARIABLES
    informers,            \* the informer of each type, 0 when there is none
    startedInformers,     \* the types whose informer Start has run
    made,                 \* how many informers newFunc has made
    running               \* the informers that have a goroutine

factoryVars == <<informers, startedInformers, made, running>>

(* No type ever has a second informer.                                     *)
FactoryTypeOK ==
    /\ made \in 0..Cardinality(Types)
    /\ informers \in [Types -> 0..made]
    /\ startedInformers \subseteq Types
    /\ running \subseteq 1..made

FactoryInit ==
    /\ informers = [t \in Types |-> 0]
    /\ startedInformers = {}
    /\ made = 0
    /\ running = {}

(* Mutant of InformerOf: every request makes an informer of its own, as    *)
(* NewKylinNodeInformer does and its comment warns of.                     *)
InformerOf_Own(t) == made + 1

(* What a request for the informer of t returns.                           *)
InformerOf(t) == IF informers[t] = 0 THEN made + 1 ELSE informers[t]

InformerFor(t) ==
    /\ informers' = [informers EXCEPT ![t] = InformerOf(t)]
    /\ made' = IF InformerOf(t) > made THEN made + 1 ELSE made
    /\ UNCHANGED <<startedInformers, running>>

(* The types whose informer Start finds and has not run yet.               *)
Fresh == {t \in Types : informers[t] # 0 /\ t \notin startedInformers}

StartInformers ==
    /\ startedInformers' = startedInformers \cup Fresh
    /\ running' = running \cup {informers[t] : t \in Fresh}
    /\ UNCHANGED <<informers, made>>
=============================================================================
