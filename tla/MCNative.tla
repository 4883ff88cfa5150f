------------------------------ MODULE MCNative ------------------------------
(***************************************************************************)
(* For TLC, one of the services of the taskweft NIF, called by three       *)
(* threads with two documents; with graphs over three entities and six     *)
(* relations, two of them domain-specific; with plans timed from dates     *)
(* whose next month is shorter, is in the next year or is in a leap year.  *)
(***************************************************************************)
EXTENDS Nif, TLC

CONSTANTS LOC, ON    \* domain-specific relations

\* Threads are interchangeable, and so are entities.
MCSymmetry == Permutations(Thread) \union Permutations(Entity)

MCRelations == {"OWNS", "CONTROLS", "IS_MEMBER_OF", "DELEGATED_TO", LOC, ON}

Base(r) == [type |-> "base", rel |-> r]
Both(type, a, b) == [type |-> type, a |-> a, b |-> b]
Tuple(pivot, inner) == [type |-> "tuple_to_userset", pivot |-> pivot, inner |-> inner]

MCExprs ==
    {Base("OWNS"), Base("CONTROLS"), Base(LOC), [type |-> "unknown"],
     Tuple(LOC, Base("OWNS")), Tuple("OWNS", Tuple(ON, Base(LOC))),
     Both("union", Base("OWNS"), Tuple("OWNS", Base("CONTROLS"))),
     Both("difference", Base("CONTROLS"), Base(LOC)),
     Both("intersection", Base("CONTROLS"), Base("OWNS")),
     Tuple("IS_MEMBER_OF", Both("difference", Base("OWNS"), Tuple("DELEGATED_TO", Base("OWNS"))))}

MCFractions == {<<>>, <<0, 5>>, <<1, 2, 3, 4>>}

N(whole, unit) == Number(whole, <<>>, unit)
T == N(0, "T")

MCDurations ==
    {Nil, <<N(1, "D")>>, <<T, Number(1, <<5>>, "S")>>, <<N(1, "M")>>,
     <<N(1, "Y"), Number(1, <<5>>, "M")>>, <<N(1, "Y"), N(1, "?")>>}
MCOrigins == {<<T, N(1, "H")>>, <<N(1, "?")>>}
MCReferences == {Nil, Date(2024, 1, 31), Date(2023, 12, 15), Date(2024, 2, 29)}

\* The arguments of a service vary only where it is the one called.
MCInit ==
    /\ NifInit
    /\ service # "temporal" => origin = <<N(1, "?")>> /\ reference = Nil
    /\ arg \in [Thread -> IF service = "caches" THEN Json ELSE Valid]

MCSpec == MCInit /\ [][NifNext]_nifVars
=============================================================================
