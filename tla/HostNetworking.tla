--------------------------- MODULE HostNetworking ---------------------------
(***************************************************************************)
(* The networking of an ESX host in the mirror and the network adapters    *)
(* that the web service makes of it: HostAdapter.Apply appends what is     *)
(* reported to what the row has (container/vsphere/model.go), and          *)
(* AdapterBuilder looks things up in the row (web/vsphere/host.go).        *)
(*                                                                         *)
(* A list of the row is a sequence of pairs of a key and a value: of a     *)
(* switch its uplinks, of a port group its switch, of a physical NIC its   *)
(* speed, of a virtual NIC its port group and MTU.                         *)
(***************************************************************************)
EXTENDS Integers, SequencesExt

CONSTANTS
  VNICs, PNICs, Switches, PortGroups,
  DPortGroups,   \* distributed port groups
  Mirrored,      \* those whose row is in the mirror, with a switch of this host
  DSwitch,       \* the name of their switch
  Uplinks,       \* what the uplinks of a switch may be
  Speeds,        \* 0: a physical NIC without a link
  MTUs,
  MaxHostChanges     \* bound: how many changes of the host

ASSUME HostAssumption ==
  /\ \A S \in {VNICs, PNICs, Switches, PortGroups} : IsFiniteSet(S)
  /\ PortGroups \cap DPortGroups = {} /\ Mirrored \subseteq DPortGroups
  /\ Uplinks \subseteq Seq(PNICs) /\ Speeds \cup MTUs \subseteq Nat
  /\ MaxHostChanges \in Nat

VARIABLES
  host,      \* the networking of the host: of each property, its values by key
  row,       \* the row of the host
  modified,  \* the properties that have been reported again in this hostSession
  pending,   \* the properties that have changed and are to be reported
  hostSession, changes

hostVars == <<host, row, modified, pending, hostSession, changes>>

Property == {"vSwitch", "portGroup", "pNIC", "vNIC"}

Keys(p) ==
  CASE p = "vSwitch" -> Switches [] p = "portGroup" -> PortGroups
    [] p = "pNIC" -> PNICs [] p = "vNIC" -> VNICs

Values(p) ==
  CASE p = "vSwitch" -> Uplinks
    [] p = "portGroup" -> Switches
    [] p = "pNIC" -> Speeds
    [] p = "vNIC" -> [group : PortGroups \cup DPortGroups, mtu : MTUs]

Networks(p) == UNION {[keys -> Values(p)] : keys \in SUBSET Keys(p)}

NoLists == [p \in Property |-> <<>>]

(***************************************************************************)
(* The host and its mirror.                                                *)
(***************************************************************************)
(* Something of the host is added, removed or changed.                     *)
HostChanges(p) ==
  /\ changes > 0 /\ changes' = changes - 1
  /\ \E k \in Keys(p), f \in Networks(p) :
        /\ f # host[p]
        /\ \A x \in Keys(p) \ {k} :
              /\ x \in DOMAIN f <=> x \in DOMAIN host[p]
              /\ x \in DOMAIN f => f[x] = host[p][x]
        /\ host' = [host EXCEPT ![p] = f]
  /\ pending' = pending \cup {p}
  /\ UNCHANGED <<row, modified, hostSession>>

(* Mutant of Reported: the MTU of a virtual NIC is not copied.               *)
ReportedWithoutMTU(p) ==
  SetToSeq({<<k, IF p = "vNIC" THEN [host[p][k] EXCEPT !.mtu = 0] ELSE host[p][k]>> :
              k \in DOMAIN host[p]})

Reported(p) == SetToSeq({<<k, host[p][k]>> : k \in DOMAIN host[p]})

Better(r, s) == r[1] > s[1] \/ (r[1] = s[1] /\ r[2] > s[2])

(* sort.Slice with the best rank first. It may put equals in any order;    *)
(* here they stay as they are, and no property depends on it.              *)
Sorted(list, rank) ==
  LET Ahead(j) == {i \in DOMAIN list : Better(rank[i], rank[j]) \/ (rank[i] = rank[j] /\ i < j)}
  IN  [n \in DOMAIN list |-> list[CHOOSE j \in DOMAIN list : Cardinality(Ahead(j)) = n - 1]]

InOrder(p, list) ==
  CASE p = "pNIC" -> Sorted(list, [i \in DOMAIN list |-> <<list[i][2], 0>>])
    [] p = "vNIC" -> Sorted(list, [i \in DOMAIN list |-> <<list[i][2].mtu, 0>>])
    [] OTHER -> list

(* Mutant of Applied: of a list that is reported again, what is new is     *)
(* taken to be at the end.                                                 *)
AppliedTail(lists, S) ==
  [p \in Property |->
     IF p \in S /\ Len(lists[p]) < Len(Reported(p))
     THEN InOrder(p, lists[p] \o SubSeq(Reported(p), Len(lists[p]) + 1, Len(Reported(p))))
     ELSE lists[p]]

(* HostAdapter.Apply                                                       *)
Applied(lists, S) ==
  [p \in Property |-> IF p \in S THEN InOrder(p, lists[p] \o Reported(p)) ELSE lists[p]]

(* applyEnter: a new row, of all the properties.                           *)
Entered ==
  /\ hostSession = "new" /\ hostSession' = "up"
  /\ row' = Applied(NoLists, Property)
  /\ modified' = {} /\ pending' = {}
  /\ UNCHANGED <<host, changes>>

(* applyModify: the row with the properties that changed.                  *)
Modified ==
  /\ hostSession = "up" /\ pending # {}
  /\ row' = Applied(row, pending)
  /\ modified' = modified \cup pending /\ pending' = {}
  /\ UNCHANGED <<host, hostSession, changes>>

(* A connection is lost: all is reported anew.                             *)
Reconnected ==
  /\ hostSession = "up" /\ changes > 0 /\ changes' = changes - 1
  /\ hostSession' = "new"
  /\ UNCHANGED <<host, row, modified, pending>>

(***************************************************************************)
(* The adapters.                                                           *)
(***************************************************************************)
FoundAt(p, k) == SelectInSeq(row[p], LAMBDA e : e[1] = k)
Known(p, k) == FoundAt(p, k) # 0
ValueOf(p, k) == row[p][FoundAt(p, k)][2]

NoSpeed == 0
NoName == "unnamed"

(* withPG: the first uplink of the switch that is found.                   *)
SpeedOf(group) ==
  LET switch == ValueOf("portGroup", group)
      uplinks == ValueOf("vSwitch", switch)
      first == SelectInSeq(uplinks, LAMBDA k : Known("pNIC", k))
  IN  IF Known("vSwitch", switch) /\ first # 0
      THEN ValueOf("pNIC", uplinks[first]) ELSE NoSpeed

(* withDPG: the first physical NIC of the host.                            *)
DSpeed == IF row["pNIC"] = <<>> THEN NoSpeed ELSE row["pNIC"][1][2]

Adapter(e) ==
  LET group == e[2].group
      Made(name, speed) == [nic |-> e[1], mtu |-> e[2].mtu, name |-> name, speed |-> speed]
  IN  IF group \in DPortGroups
      THEN IF group \in Mirrored THEN Made(DSwitch, DSpeed) ELSE Made(NoName, NoSpeed)
      ELSE IF Known("portGroup", group) THEN Made(group, SpeedOf(group))
      ELSE Made(NoName, NoSpeed)

Rank(a) == <<a.speed, a.mtu>>

(* AdapterBuilder.build                                                    *)
Adapters ==
  LET list == [i \in DOMAIN row["vNIC"] |-> Adapter(row["vNIC"][i])]
  IN  Sorted(list, [i \in DOMAIN list |-> Rank(list[i])])

HostInit ==
  /\ \E switches \in Networks("vSwitch"), groups \in Networks("portGroup"),
        pnics \in Networks("pNIC"), vnics \in Networks("vNIC") :
        host = [vSwitch |-> switches, portGroup |-> groups, pNIC |-> pnics, vNIC |-> vnics]
  /\ row = NoLists
  /\ modified = {} /\ pending = {} /\ hostSession = "new" /\ changes = MaxHostChanges

HostNext == (\E p \in Property : HostChanges(p)) \/ Entered \/ Modified \/ Reconnected

HostSpec == HostInit /\ [][HostNext]_hostVars

(***************************************************************************)
(* Properties.                                                             *)
(***************************************************************************)
(* Every variable has its type.                                            *)
HostTypeOK ==
  /\ \A p \in Property : host[p] \in Networks(p) /\ row[p] \in Seq(Keys(p) \X Values(p))
  /\ modified \subseteq Property /\ pending \subseteq Property
  /\ hostSession \in {"new", "up"} /\ changes \in 0..MaxHostChanges

(* What the host says the speed of an adapter is.                          *)
HostSpeed(group) ==
  IF group \in DPortGroups
  THEN LET speeds == {host["pNIC"][k] : k \in DOMAIN host["pNIC"]}
       IN  IF group \in Mirrored /\ speeds # {} THEN CHOOSE s \in speeds : \A t \in speeds : t <= s
           ELSE NoSpeed
  ELSE IF group \in DOMAIN host["portGroup"] /\ host["portGroup"][group] \in DOMAIN host["vSwitch"]
  THEN LET uplinks == host["vSwitch"][host["portGroup"][group]]
           found == {i \in 1..Len(uplinks) : uplinks[i] \in DOMAIN host["pNIC"]}
       IN  IF found = {} THEN NoSpeed
           ELSE host["pNIC"][uplinks[CHOOSE i \in found : \A j \in found : i <= j]]
  ELSE NoSpeed

HostAdapters ==
  {[nic |-> n, mtu |-> host["vNIC"][n].mtu, speed |-> HostSpeed(host["vNIC"][n].group)] :
     n \in DOMAIN host["vNIC"]}

Shown == {[nic |-> a.nic, mtu |-> a.mtu, speed |-> a.speed] : a \in ToSet(Adapters)}

UpToDate == hostSession = "up" /\ pending = {}

(* Once all is reported, every virtual NIC the host has is among the       *)
(* adapters with its MTU, the best first. It has its speed there too when  *)
(* nothing but virtual NICs was reported twice; and when nothing was, the  *)
(* adapters are the host's, each once (HostAdapter.Apply,                  *)
(* AdapterBuilder.build).                                                  *)
AdaptersComplete ==
  UpToDate =>
    /\ \A h \in HostAdapters : \E a \in Shown : a.nic = h.nic /\ a.mtu = h.mtu
    /\ \A i, j \in DOMAIN Adapters : i < j => ~Better(Rank(Adapters[j]), Rank(Adapters[i]))
    /\ modified \subseteq {"vNIC"} => HostAdapters \subseteq Shown
    /\ modified = {} =>
         /\ Shown = HostAdapters
         /\ \A i, j \in DOMAIN Adapters : Adapters[i].nic = Adapters[j].nic => i = j
=============================================================================
