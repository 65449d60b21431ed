----------------------------- MODULE MCReadiness -----------------------------
(* Small instances of Readiness.                                           *)
EXTENDS Readiness

ById(i) == [id |-> i, name |-> Unset]
ByName(n) == [id |-> None, name |-> n]

(* Two objects of one name in two places, and one of another name.         *)
Objects == {[id |-> "o1", path |-> <<"a", "x">>], [id |-> "o2", path |-> <<"b", "x">>],
            [id |-> "o3", path |-> <<"a", "y">>]}

Refs == {<<ById("o1")>>, <<ByName(<<"y">>)>>}

(* References that are ambiguous, qualified, qualified by a place where no *)
(* such object is, dangling, not set or repeated.                          *)
RefsOf(k) ==
  CASE k = "Host" -> {<<ByName(<<"x">>)>>, <<ByName(<<"b", "x">>)>>, <<ByName(Unset)>>,
                      <<ByName(<<"b", "y">>)>>}
    [] k = "NetworkMap" -> {<<ById("o4")>>, <<ByName(Unset), ByName(<<"x">>)>>}
    [] k = "StorageMap" -> {<<ByName(Unset)>>, <<ById("o1"), ByName(<<"x">>)>>}
    [] k = "Plan" -> {<<ByName(<<"y">>), ById("o3")>>, <<ByName(<<"b", "x">>), ById("o1")>>}
    [] k = "Networks" -> {<<ById("o4")>>}
    [] k = "StorageClasses" -> {<<ById("o4")>>}

(* One fault and any CR; or two, and a CR that does not name the provider. *)
MCInit ==
  /\ Init
  /\ \E k \in Kinds : \E refs \in RefsOf(k) \cup {<<ById("o1")>>} : DependentStart(k, Objects, refs)
  /\ \/ named /\ budget = 1
     \/ ~named /\ budget = 2 /\ kind = "Host" /\ dep.refs = <<ById("o1")>>

MCSpec == MCInit /\ [][ReadinessNext]_allVars /\ ReadinessFairness
=============================================================================
