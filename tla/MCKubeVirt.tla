------------------------------ MODULE MCKubeVirt ------------------------------
(* A small instance of KubeVirt.                                           *)
EXTENDS KubeVirt

Ref(id) == [id |-> id, name |-> Unset]
Row(id) == [id |-> id, path |-> <<"dc", id>>]

MCPlan == <<Ref("v1"), [id |-> None, name |-> <<"v2">>]>>

MCRows ==
  [VM |-> {Row("v1"), Row("v2")}, Host |-> {Row("h1"), Row("h2")},
   Network |-> {Row("n1"), Row("n2")}, Datastore |-> {Row("d1")}]

(* v2 uses a network the map leaves out.                                   *)
MCUses == [v1 |-> [nets |-> {"n1"}, stores |-> {"d1"}],
           v2 |-> [nets |-> {"n2", "n3"}, stores |-> {"d1"}]]

MCEntries ==
  <<[kind |-> "Network", source |-> Ref("n1"), target |-> "pod", mode |-> ""],
    [kind |-> "Network", source |-> [id |-> None, name |-> <<"dc", "n2">>], target |-> "multus", mode |-> ""],
    [kind |-> "Datastore", source |-> Ref("d1"), target |-> "gold", mode |-> ""]>>

Host(id, ready) == [ref |-> Ref(id), ready |-> ready, address |-> id]

MCHostLists == {<<>>, <<Host("h1", TRUE)>>, <<Host("h1", TRUE), Host("h2", FALSE)>>}

MCProvisioners == [gold |-> {[name |-> "Block", priority |-> 1], [name |-> "Filesystem", priority |-> 2]}]

(* Two migrations whose UIDs end alike.                                    *)
MCSuffix == <<"abcd", "abcd">>
=============================================================================
