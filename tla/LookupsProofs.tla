---------------------------- MODULE LookupsProofs ----------------------------
(***************************************************************************)
(* Proofs about what gets into an inventory and what is read from it: that *)
(* no row of an OpenShift inventory goes backwards, for any changes,       *)
(* failures and restarts; and that a tree or a path which is read while    *)
(* the mirror is updated shows nothing that never was and all that was     *)
(* there all the time, for any VMs, folders and update sets; and that a    *)
(* host's adapters are those that it has, for any networking and changes.  *)
(***************************************************************************)
EXTENDS InventoryTree, OcpInventory, HostNetworking, TLAPS,
        FiniteSetTheorems, FunctionTheorems, NaturalsInduction, WellFoundedInduction

(***************************************************************************)
(*                         THE OPENSHIFT INVENTORY                         *)
(***************************************************************************)
LEMMA KindsAre ==
  /\ Kinds = {"Namespace", "NetworkAttachmentDefinition", "StorageClass"}
  /\ Collections \in Seq(Kinds)
  /\ \A c \in Kinds : Object(c) \in Kinds
<1>1. Len(Collections) = 3
  BY DEF Collections
<1>2. Kinds = {Collections[1], Collections[2], Collections[3]}
  BY <1>1 DEF Kinds
<1>3. Kinds = {"Namespace", "NetworkAttachmentDefinition", "StorageClass"}
  BY <1>2 DEF Collections
<1> QED
  BY <1>3 DEF Collections, Object

(* Types, of what a collection has listed too.                             *)
Typed ==
  /\ OcpTypeOK
  /\ list # NotListed => \E x \in 0..version : list = <<x>>
  /\ list # NotListed => todo # <<>>

(* What is still to be delivered to a collection is in the order of the    *)
(* cluster's versions, of a collection that is watched, and says what the  *)
(* resource is at its version.                                             *)
EventsInv ==
  /\ \A a \in DOMAIN events :
        /\ events[a].at <= version /\ events[a].to \in watching
        /\ events[a].new \in {events[a].at, NoResource}
  /\ \A a, b \in DOMAIN events :
        a < b /\ events[a].to = events[b].to => events[a].at < events[b].at

(* No row is newer than the threshold, or all that is to come is newer     *)
(* still.                                                                  *)
RowsInv ==
  /\ session = "down" => \A k \in Kinds : resources[k] = NoResource
  /\ session = "loading" =>
       /\ \A k \in Kinds : resources[k] <= threshold
       /\ list # NotListed => list[1] <= threshold
  /\ session = "up" =>
       \A k \in Kinds :
         \/ resources[k] <= threshold
         \/ \A a \in DOMAIN events : events[a].to = k => events[a].at > resources[k]

OcpInv == Typed /\ EventsInv /\ RowsInv

LEMMA OneListed ==
  ASSUME NEW l, NEW n, l = <<>> \/ \E x \in 0..n : l = <<x>>
  PROVE  /\ l \in Seq(0..n) /\ Len(l) <= 1
         /\ l # NotListed => \E x \in 0..n : l = <<x>>
<1>1. CASE l = <<>>
  BY <1>1 DEF NotListed
<1>2. ASSUME NEW x \in 0..n, l = <<x>>
      PROVE  l \in Seq(0..n) /\ Len(l) <= 1
  BY <1>2
<1> QED
  BY <1>1, <1>2

LEMMA InitOcp == OcpInit => OcpInv
<1> SUFFICES ASSUME OcpInit PROVE OcpInv
  OBVIOUS
<1>1. cluster = [k \in Kinds |-> 0] /\ resources = cluster /\ version = 0
  BY DEF OcpInit, NoResource
<1>2. events = <<>> /\ todo = <<>> /\ list = <<>>
  BY DEF OcpInit, NotListed
<1>3. faults \in Nat
  BY OcpAssumption DEF OcpInit
<1>4. OcpTypeOK
  BY <1>1, <1>2, <1>3 DEF OcpInit, OcpTypeOK
<1>5. Typed
  BY <1>2, <1>4 DEF Typed, NotListed
<1> QED
  BY <1>1, <1>2, <1>5 DEF OcpInit, OcpInv, EventsInv, RowsInv, NoResource

(* The events of a change: one at most for each of the collections T.      *)
Batch(t, new, T) ==
  /\ t \in Seq(EventType)
  /\ \A a \in DOMAIN t : t[a].at = version' /\ t[a].new = new /\ t[a].to \in T \cap watching
  /\ \A a, b \in DOMAIN t : a < b => t[a].to # t[b].to

LEMMA BatchGrows ==
  ASSUME NEW t, NEW new, NEW T, Batch(t, new, T), NEW c \in watching \ T,
         NEW e \in EventType, e.at = version', e.new = new, e.to = c
  PROVE  Batch(t \o <<e>>, new, T \cup {c})
<1> DEFINE u == t \o <<e>>
<1>1. t \in Seq(EventType) /\ Len(t) \in Nat /\ DOMAIN t = 1..Len(t)
  BY DEF Batch
<1>2. /\ u \in Seq(EventType) /\ DOMAIN u = 1..(Len(t) + 1)
      /\ \A a \in 1..Len(t) : u[a] = t[a]
      /\ u[Len(t) + 1] = e
  BY <1>1
<1> HIDE DEF u
<1>3. \A a \in DOMAIN u : (a \in DOMAIN t /\ u[a] = t[a]) \/ (a = Len(t) + 1 /\ u[a] = e)
  BY <1>1, <1>2
<1>4. \A a \in DOMAIN u : u[a].at = version' /\ u[a].new = new /\ u[a].to \in (T \cup {c}) \cap watching
  BY <1>3 DEF Batch
<1>5. ASSUME NEW a \in DOMAIN u, NEW b \in DOMAIN u, a < b PROVE u[a].to # u[b].to
  <2>1. a \in DOMAIN t /\ u[a] = t[a]
    BY <1>1, <1>2, <1>3, <1>5
  <2>2. CASE b \in DOMAIN t /\ u[b] = t[b]
    BY <1>5, <2>1, <2>2 DEF Batch
  <2>3. CASE u[b] = e
    BY <2>1, <2>3 DEF Batch
  <2> QED
    BY <1>3, <2>2, <2>3
<1> QED
  BY <1>2, <1>4, <1>5 DEF Batch, u

LEMMA ToldEvents ==
  ASSUME NEW kind \in Kinds, NEW new \in {version', NoResource}, version' \in Nat,
         cluster[kind] \in Nat
  PROVE  Batch(Told(kind, new), new, Kinds)
<1> DEFINE Notice(c) == IF c \in watching /\ Object(c) = kind
                        THEN <<Event(c, cluster[kind], new)>> ELSE <<>>
<1>1. ASSUME NEW c \in Kinds
      PROVE  \/ Notice(c) = <<>>
             \/ \E e \in EventType : /\ Notice(c) = <<e>> /\ e.at = version' /\ e.new = new
                                     /\ e.to = c /\ c \in watching
  <2> DEFINE e == Event(c, cluster[kind], new)
  <2>1. e \in EventType /\ e.at = version' /\ e.new = new /\ e.to = c
    BY KindsAre DEF Event, EventType, NoResource
  <2> HIDE DEF e
  <2>2. Notice(c) = <<>> \/ (c \in watching /\ Notice(c) = <<e>>)
    BY DEF e
  <2> HIDE DEF Notice
  <2> QED
    BY <2>1, <2>2
<1>2. Told(kind, new) =
        Notice("Namespace") \o Notice("NetworkAttachmentDefinition") \o Notice("StorageClass")
  BY DEF Told
<1> HIDE DEF Notice
<1>3. ASSUME NEW t, NEW T, Batch(t, new, T), NEW c \in Kinds \ T
      PROVE  Batch(t \o Notice(c), new, T \cup {c})
  <2>1. CASE Notice(c) = <<>>
    <3>1. t \o Notice(c) = t
      BY <1>3, <2>1 DEF Batch
    <3> QED
      BY <1>3, <3>1 DEF Batch
  <2>2. CASE Notice(c) # <<>>
    BY <1>1, <1>3, <2>2, BatchGrows
  <2> QED
    BY <2>1, <2>2
<1>4. Batch(<<>>, new, {})
  BY DEF Batch
<1>5. Batch(<<>> \o Notice("Namespace"), new, {} \cup {"Namespace"})
  BY <1>3, <1>4, KindsAre
<1>b. {} \cup {"Namespace"} = {"Namespace"}
  OBVIOUS
<1>6. <<>> \o Notice("Namespace") = Notice("Namespace")
  BY <1>1, KindsAre
<1>7. Batch(Notice("Namespace") \o Notice("NetworkAttachmentDefinition"), new,
            {"Namespace"} \cup {"NetworkAttachmentDefinition"})
  BY <1>3, <1>5, <1>6, <1>b, KindsAre
<1> QED
  BY <1>2, <1>3, <1>7, KindsAre

(* New events come after those that are due.                               *)
LEMMA EventsAppended ==
  ASSUME events \in Seq(EventType), NEW new, NEW t, NEW T, Batch(t, new, T), version' \in Nat,
         new \in {version', NoResource}, watching \subseteq watching',
         EventsInv, \A a \in DOMAIN events : events[a].at < version',
         events' = events \o t
  PROVE  /\ events' \in Seq(EventType) /\ EventsInv'
         /\ \A a \in DOMAIN events' :
              (a \in DOMAIN events /\ events'[a] = events[a]) \/ events'[a].at = version'
<1> DEFINE n == Len(events)
<1>1. n \in Nat /\ DOMAIN events = 1..n /\ t \in Seq(EventType)
  BY DEF Batch
<1>2. /\ events' \in Seq(EventType) /\ DOMAIN events' = 1..(n + Len(t))
      /\ \A a \in 1..n : events'[a] = events[a]
      /\ \A a \in 1..(n + Len(t)) : a > n => a - n \in DOMAIN t /\ events'[a] = t[a - n]
  BY <1>1
<1>3. \A a \in DOMAIN events' :
        \/ a \in DOMAIN events /\ events'[a] = events[a]
        \/ a > n /\ a - n \in DOMAIN t /\ events'[a] = t[a - n]
  BY <1>1, <1>2
<1>4. \A b \in DOMAIN t : t[b].at = version' /\ t[b].new = new /\ t[b].to \in watching
  BY DEF Batch
<1>5. \A a \in DOMAIN events' :
        /\ events'[a].at <= version' /\ events'[a].to \in watching'
        /\ events'[a].new \in {events'[a].at, NoResource}
  <2> TAKE a \in DOMAIN events'
  <2>1. CASE a \in DOMAIN events /\ events'[a] = events[a]
    <3>a. events[a] \in EventType
      BY <2>1
    <3>1. events[a].at \in Nat
      BY <3>a DEF EventType
    <3> QED
      BY <2>1, <3>1 DEF EventsInv
  <2>2. CASE a - n \in DOMAIN t /\ events'[a] = t[a - n]
    BY <1>4, <2>2
  <2> QED
    BY <1>3, <2>1, <2>2
<1>6. ASSUME NEW a \in DOMAIN events', NEW b \in DOMAIN events', a < b,
             events'[a].to = events'[b].to
      PROVE  events'[a].at < events'[b].at
  <2>1. CASE b \in DOMAIN events /\ events'[b] = events[b]
    <3>1. a \in DOMAIN events /\ events'[a] = events[a]
      BY <1>1, <1>2, <1>6, <2>1
    <3> QED
      BY <1>6, <2>1, <3>1 DEF EventsInv
  <2>2. CASE b > n /\ b - n \in DOMAIN t /\ events'[b] = t[b - n]
    <3>1. CASE a \in DOMAIN events /\ events'[a] = events[a]
      BY <1>4, <2>2, <3>1
    <3>2. CASE a > n /\ a - n \in DOMAIN t /\ events'[a] = t[a - n]
      <4>1. a - n < b - n
        BY <1>1, <1>2, <1>6
      <4> QED
        BY <1>6, <2>2, <3>2, <4>1 DEF Batch
    <3> QED
      BY <1>3, <3>1, <3>2
  <2> QED
    BY <1>3, <2>1, <2>2
<1>7. EventsInv'
  BY <1>5, <1>6 DEF EventsInv
<1>8. \A a \in DOMAIN events' :
        (a \in DOMAIN events /\ events'[a] = events[a]) \/ events'[a].at = version'
  BY <1>3, <1>4
<1> QED
  BY <1>2, <1>7, <1>8

LEMMA ChangeOcp ==
  ASSUME OcpInv, NEW kind \in Kinds, NEW new \in 0..MaxChanges, Change(kind, new)
  PROVE  OcpInv'
<1>1. /\ version' = version + 1 /\ new \in {version', NoResource}
      /\ cluster' = [cluster EXCEPT ![kind] = new]
      /\ events' = events \o Told(kind, new)
      /\ early' \in {early, early \cup {kind}}
      /\ UNCHANGED <<resources, session, todo, list, threshold, watching, faults>>
  BY DEF Change
<1>2. OcpTypeOK
  BY DEF OcpInv, Typed
<1>3. version \in Nat /\ version' \in Nat /\ cluster[kind] \in Nat
  BY <1>1, <1>2 DEF OcpTypeOK
<1>4. Batch(Told(kind, new), new, Kinds)
  BY <1>1, <1>3, ToldEvents
<1>5. events \in Seq(EventType) /\ EventsInv
      /\ \A a \in DOMAIN events : events[a].at < version'
  <2>1. events \in Seq(EventType) /\ EventsInv
    BY <1>2 DEF OcpInv, OcpTypeOK
  <2>a. \A a \in DOMAIN events : events[a] \in EventType
    BY <2>1
  <2>2. \A a \in DOMAIN events : events[a].at \in Nat /\ events[a].at <= version
    BY <2>1, <2>a DEF EventsInv, EventType
  <2> QED
    BY <1>1, <1>3, <2>1, <2>2
<1>6. /\ events' \in Seq(EventType) /\ EventsInv'
      /\ \A a \in DOMAIN events' :
           (a \in DOMAIN events /\ events'[a] = events[a]) \/ events'[a].at = version'
  <2>1. watching \subseteq watching'
    BY <1>1
  <2> QED
    BY <1>1, <1>3, <1>4, <1>5, <2>1, EventsAppended
<1>7. Typed'
  <2>1. cluster' \in [Kinds -> 0..version'] /\ resources' \in [Kinds -> 0..version']
    BY <1>1, <1>2, <1>3 DEF OcpTypeOK, NoResource
  <2>2. list = <<>> \/ \E x \in 0..version : list = <<x>>
    BY DEF OcpInv, Typed, NotListed
  <2>a. list' = <<>> \/ \E x \in 0..version' : list' = <<x>>
    BY <1>1, <1>3, <2>2
  <2>3. /\ list' \in Seq(0..version') /\ Len(list') <= 1
        /\ list' # NotListed => \E x \in 0..version' : list' = <<x>>
    BY <2>a, OneListed
  <2>4. threshold' \in 0..version' /\ early' \subseteq Kinds
    BY <1>1, <1>2, <1>3 DEF OcpTypeOK
  <2> QED
    BY <1>1, <1>2, <1>3, <1>6, <2>1, <2>3, <2>4 DEF Typed, OcpTypeOK, OcpInv
<1>8. RowsInv'
  <2>1. \A k \in Kinds : resources[k] \in Nat /\ resources[k] < version'
    BY <1>1, <1>2, <1>3 DEF OcpTypeOK
  <2>2. ASSUME NEW k \in Kinds, \A a \in DOMAIN events : events[a].to = k => events[a].at > resources[k]
        PROVE  \A a \in DOMAIN events' : events'[a].to = k => events'[a].at > resources[k]
    BY <1>3, <1>6, <2>1, <2>2
  <2> QED
    BY <1>1, <2>2 DEF OcpInv, RowsInv
<1> QED
  BY <1>6, <1>7, <1>8 DEF OcpInv

LEMMA WatchOcp ==
  ASSUME OcpInv, NEW c \in Kinds, Watch(c)
  PROVE  OcpInv'
<1> DEFINE kind == Object(c)
           e == [to |-> c, kind |-> kind, old |-> NoResource, new |-> cluster[kind],
                 at |-> cluster[kind]]
<1>1. /\ session = "loading" /\ c \notin watching /\ watching' = watching \cup {c}
      /\ events' = events \/ events' = Append(events, e)
      /\ UNCHANGED <<cluster, version, resources, session, todo, list, threshold, early, faults>>
  BY DEF Watch
<1>2. OcpTypeOK /\ EventsInv
  BY DEF OcpInv, Typed
<1>3. e \in EventType /\ e.to = c /\ e.at <= version /\ e.new = e.at
  <2>1. kind \in Kinds
    BY KindsAre
  <2>2. cluster[kind] \in Nat /\ cluster[kind] <= version
    BY <1>2, <2>1 DEF OcpTypeOK
  <2> HIDE DEF kind
  <2> QED
    BY <2>1, <2>2 DEF EventType, NoResource
<1> HIDE DEF e, kind
<1>4. events \in Seq(EventType)
  BY <1>2 DEF OcpTypeOK
<1>5. events' \in Seq(EventType) /\ EventsInv'
  <2>1. CASE events' = events
    BY <1>1, <1>2, <1>4, <2>1 DEF EventsInv
  <2>2. CASE events' = Append(events, e)
    <3>1. /\ events' \in Seq(EventType)
          /\ \A a \in DOMAIN events' :
               \/ a \in DOMAIN events /\ events'[a] = events[a]
               \/ a = Len(events) + 1 /\ events'[a] = e
      BY <1>3, <1>4, <2>2
    <3>2. \A a \in DOMAIN events : a < Len(events) + 1 /\ events[a].to # c
      BY <1>1, <1>2, <1>4 DEF EventsInv
    <3>3. ASSUME NEW a \in DOMAIN events', NEW b \in DOMAIN events', a < b,
                 events'[a].to = events'[b].to
          PROVE  events'[a].at < events'[b].at
      <4>1. a \in DOMAIN events /\ events'[a] = events[a]
        BY <1>4, <2>2, <3>1, <3>3
      <4>2. b \in DOMAIN events /\ events'[b] = events[b]
        BY <1>3, <3>1, <3>2, <3>3, <4>1
      <4> QED
        BY <1>2, <3>3, <4>1, <4>2 DEF EventsInv
    <3>4. \A a \in DOMAIN events' :
            /\ events'[a].at <= version' /\ events'[a].to \in watching'
            /\ events'[a].new \in {events'[a].at, NoResource}
      BY <1>1, <1>2, <1>3, <3>1 DEF EventsInv
    <3> QED
      BY <3>1, <3>3, <3>4 DEF EventsInv
  <2> QED
    BY <1>1, <2>1, <2>2
<1>6. Typed'
  BY <1>1, <1>2, <1>5 DEF OcpInv, Typed, OcpTypeOK
<1>7. RowsInv'
  BY <1>1 DEF OcpInv, RowsInv
<1> QED
  BY <1>5, <1>6, <1>7 DEF OcpInv

LEMMA LoadOcp ==
  ASSUME OcpInv, Start \/ List \/ Insert \/ Loaded \/ Failed \/ Restart
  PROVE  OcpInv'
<1>1. OcpTypeOK /\ EventsInv /\ RowsInv
  BY DEF OcpInv, Typed
<1>2. list = <<>> \/ \E x \in 0..version : list = <<x>>
  BY DEF OcpInv, Typed, NotListed
<1>a. version \in Nat /\ faults \in Nat /\ threshold \in 0..version
  BY <1>1 DEF OcpTypeOK
<1>b. <<>> \in Seq(EventType) /\ DOMAIN <<>> = {} /\ <<>> \in Seq(0..version) /\ Len(<<>>) <= 1
      /\ <<>> \in Seq(Kinds)
  OBVIOUS
<1>c. Collections # <<>> /\ Collections \in Seq(Kinds)
  BY KindsAre DEF Collections
<1>3. CASE Start
  <2>1. Typed'
    BY <1>1, <1>a, <1>b, <1>c, <1>3 DEF Start, Typed, OcpTypeOK, NotListed
  <2>2. EventsInv'
    BY <1>b, <1>3 DEF Start, EventsInv
  <2>3. RowsInv'
    BY <1>1, <1>3 DEF Start, RowsInv, NoResource
  <2> QED
    BY <2>1, <2>2, <2>3 DEF OcpInv
<1>4. CASE List
  <2> DEFINE x == cluster[Head(todo)]
  <2>1. x \in 0..version
    <3>1. Head(todo) \in Kinds
      BY <1>1, <1>4 DEF List, OcpTypeOK
    <3> QED
      BY <1>1, <3>1 DEF OcpTypeOK
  <2>2. /\ list' = <<x>> /\ threshold' = (IF list'[1] > threshold THEN list'[1] ELSE threshold)
        /\ session = "loading" /\ todo # <<>>
        /\ UNCHANGED <<cluster, version, resources, session, todo, watching, events, early, faults>>
    BY <1>4 DEF List, Listed
  <2> HIDE DEF x
  <2>3. list'[1] = x /\ threshold' = (IF x > threshold THEN x ELSE threshold)
    BY <2>2
  <2>4. threshold' \in 0..version /\ x <= threshold' /\ threshold <= threshold'
    BY <1>a, <2>1, <2>3
  <2>5. list' \in Seq(0..version) /\ Len(list') <= 1
    BY <2>1, <2>2, OneListed
  <2>6. Typed'
    BY <1>1, <2>1, <2>2, <2>4, <2>5 DEF Typed, OcpTypeOK
  <2>7. EventsInv'
    BY <1>1, <2>2 DEF EventsInv
  <2>8. RowsInv'
    <3>1. \A k \in Kinds : resources[k] \in Nat /\ resources[k] <= threshold
      BY <1>1, <2>2 DEF RowsInv, OcpTypeOK
    <3> QED
      BY <1>a, <2>2, <2>3, <2>4, <3>1 DEF RowsInv
  <2> QED
    BY <2>6, <2>7, <2>8 DEF OcpInv
<1>5. CASE Insert
  <2>1. /\ session = "loading" /\ list # NotListed
        /\ resources' = IF list[1] = NoResource THEN resources
                        ELSE [resources EXCEPT ![Head(todo)] = list[1]]
        /\ todo' = Tail(todo) /\ list' = NotListed
        /\ UNCHANGED <<cluster, version, session, threshold, watching, events, early, faults>>
    BY <1>5 DEF Insert
  <2>2. todo \in Seq(Kinds) /\ todo # <<>>
    BY <1>1, <2>1 DEF OcpInv, Typed, OcpTypeOK
  <2>3. Head(todo) \in Kinds /\ Tail(todo) \in Seq(Kinds)
    BY <2>2
  <2>4. list[1] \in 0..version /\ list[1] <= threshold
    BY <1>1, <1>2, <2>1 DEF RowsInv, NotListed
  <2>5. /\ resources' \in [Kinds -> 0..version]
        /\ \A k \in Kinds : resources'[k] \in {resources[k], list[1]}
    BY <1>1, <2>1, <2>3, <2>4 DEF OcpTypeOK
  <2>6. Typed'
    BY <1>1, <1>b, <2>1, <2>3, <2>5 DEF Typed, OcpTypeOK, NotListed
  <2>7. EventsInv'
    BY <1>1, <2>1 DEF EventsInv
  <2>8. RowsInv'
    BY <1>1, <2>1, <2>4, <2>5 DEF RowsInv
  <2> QED
    BY <2>6, <2>7, <2>8 DEF OcpInv
<1>6. CASE Loaded
  BY <1>1, <1>6 DEF Loaded, OcpInv, Typed, OcpTypeOK, EventsInv, RowsInv
<1>7. CASE Failed
  <2>1. faults' \in Nat
    BY <1>a, <1>7 DEF Failed, Fault
  <2>2. Typed'
    BY <1>1, <1>b, <1>c, <1>7, <2>1 DEF Failed, Typed, OcpTypeOK, NotListed
  <2>3. EventsInv' /\ RowsInv'
    BY <1>1, <1>7 DEF Failed, EventsInv, RowsInv
  <2> QED
    BY <2>2, <2>3 DEF OcpInv
<1>8. CASE Restart
  <2>1. faults' \in Nat
    BY <1>a, <1>8 DEF Restart, Fault
  <2>2. resources' \in [Kinds -> 0..version] /\ \A k \in Kinds : resources'[k] = NoResource
    BY <1>a, <1>8 DEF Restart, NoResource
  <2>3. Typed'
    BY <1>1, <1>b, <1>8, <2>1, <2>2 DEF Restart, Typed, OcpTypeOK, NotListed
  <2>4. EventsInv' /\ RowsInv'
    BY <1>b, <1>8, <2>2 DEF Restart, EventsInv, RowsInv
  <2> QED
    BY <2>3, <2>4 DEF OcpInv
<1> QED
  BY <1>3, <1>4, <1>5, <1>6, <1>7, <1>8

(* An event that is delivered and followed is newer than its row.          *)
LEMMA DeliverOcp ==
  ASSUME OcpInv, Deliver
  PROVE  /\ OcpInv'
         /\ \A k \in Kinds : resources'[k] # resources[k] =>
               /\ Head(events).at > resources[k]
               /\ resources'[k] \in {Head(events).at, NoResource}
<1> DEFINE e == Head(events)
<1>1. /\ session = "up" /\ events # <<>> /\ events' = Tail(events)
      /\ resources' = IF e.at > threshold THEN Followed(e) ELSE resources
      /\ UNCHANGED <<cluster, version, session, todo, list, threshold, watching, early, faults>>
  BY DEF Deliver
<1>2. OcpTypeOK /\ EventsInv /\ RowsInv
  BY DEF OcpInv, Typed
<1>3. /\ events \in Seq(EventType) /\ version \in Nat /\ threshold \in 0..version
      /\ \A k \in Kinds : resources[k] \in Nat
  BY <1>2 DEF OcpTypeOK
<1>4. /\ e \in EventType /\ 1 \in DOMAIN events /\ e = events[1]
      /\ events' \in Seq(EventType)
      /\ \A a \in DOMAIN events' : a + 1 \in DOMAIN events /\ events'[a] = events[a + 1]
      /\ \A a \in DOMAIN events' : a \in Nat /\ a > 0
  BY <1>1, <1>3
<1>5. e.to \in Kinds /\ e.at \in Nat /\ e.at <= version /\ e.new \in {e.at, NoResource}
  BY <1>2, <1>4 DEF EventType, EventsInv
<1> HIDE DEF e
<1>6. \/ resources' = resources
      \/ e.at > threshold /\ resources' = [resources EXCEPT ![e.to] = e.new]
  BY <1>1 DEF Followed
<1>7. /\ resources' \in [Kinds -> 0..version]
      /\ \A k \in Kinds : \/ resources'[k] = resources[k]
                          \/ k = e.to /\ e.at > threshold /\ resources'[k] = e.new
  BY <1>2, <1>3, <1>5, <1>6 DEF OcpTypeOK, NoResource
<1>8. Typed'
  BY <1>1, <1>2, <1>4, <1>7 DEF OcpInv, Typed, OcpTypeOK
<1>9. EventsInv'
  <2>1. \A a \in DOMAIN events' :
          /\ events'[a].at <= version' /\ events'[a].to \in watching'
          /\ events'[a].new \in {events'[a].at, NoResource}
    BY <1>1, <1>2, <1>4 DEF EventsInv
  <2>2. \A a, b \in DOMAIN events' :
          a < b /\ events'[a].to = events'[b].to => events'[a].at < events'[b].at
    <3> TAKE a, b \in DOMAIN events'
    <3> HAVE a < b /\ events'[a].to = events'[b].to
    <3>1. a + 1 < b + 1
      BY <1>4
    <3> QED
      BY <1>2, <1>4, <3>1 DEF EventsInv
  <2> QED
    BY <2>1, <2>2 DEF EventsInv
<1>10. \A a \in DOMAIN events' : events'[a].to = e.to => e.at < events'[a].at
  <2> TAKE a \in DOMAIN events'
  <2> HAVE events'[a].to = e.to
  <2>1. 1 < a + 1
    BY <1>4
  <2> QED
    BY <1>2, <1>4, <2>1 DEF EventsInv
<1>11. RowsInv'
  <2>1. ASSUME NEW k \in Kinds
        PROVE  \/ resources'[k] <= threshold
               \/ \A a \in DOMAIN events' : events'[a].to = k => events'[a].at > resources'[k]
    <3>1. CASE resources'[k] = resources[k]
      BY <1>1, <1>2, <1>4, <2>1, <3>1 DEF RowsInv
    <3>2. CASE k = e.to /\ resources'[k] = e.at
      <4>1. \A a \in DOMAIN events' : events'[a] \in EventType
        BY <1>4
      <4>2. \A a \in DOMAIN events' : events'[a].at \in Nat
        BY <4>1 DEF EventType
      <4> QED
        BY <1>5, <1>10, <3>2, <4>2
    <3>3. CASE resources'[k] = NoResource
      BY <1>3, <3>3 DEF NoResource
    <3> QED
      BY <1>5, <1>7, <3>1, <3>2, <3>3
  <2> QED
    BY <1>1, <2>1 DEF RowsInv
<1>12. ASSUME NEW k \in Kinds, resources'[k] # resources[k]
       PROVE  e.at > resources[k] /\ resources'[k] \in {e.at, NoResource}
  <2>1. k = e.to /\ e.at > threshold /\ resources'[k] = e.new
    BY <1>7, <1>12
  <2>2. resources[k] <= threshold \/ events[1].at > resources[k]
    BY <1>1, <1>2, <1>4, <2>1 DEF RowsInv
  <2> QED
    BY <1>3, <1>4, <1>5, <2>1, <2>2
<1> QED
  BY <1>8, <1>9, <1>11, <1>12 DEF OcpInv, e

LEMMA StepOcp ==
  ASSUME OcpInv, [OcpNext]_ocpVars
  PROVE  OcpInv'
<1>1. CASE UNCHANGED ocpVars
  BY <1>1 DEF ocpVars, OcpInv, Typed, OcpTypeOK, EventsInv, RowsInv
<1> QED
  BY <1>1, ChangeOcp, WatchOcp, LoadOcp, DeliverOcp DEF OcpNext, Load

(* Every reachable state of an OpenShift inventory is well typed, whatever *)
(* collections fail and however often the process restarts.                *)
THEOREM OcpTypeCorrect == OcpSpec => []OcpTypeOK
<1>1. OcpInv => OcpTypeOK
  BY DEF OcpInv, Typed
<1> QED
  BY <1>1, InitOcp, StepOcp, PTL DEF OcpSpec

(* A row is never replaced by an older version of its resource, nor        *)
(* removed by a deletion older than it, for any number of changes before,  *)
(* during and after the lists and any failures between them (Reconcile,    *)
(* UpdateThreshold, Create, Update, Delete).                               *)
THEOREM RowsNeverGoBackwards == OcpSpec => NeverBackwards
<1> DEFINE Forward ==
      session = "up" /\ session' = "up" =>
        \A k \in Kinds : resources'[k] # resources[k] =>
           IF resources'[k] = NoResource THEN Head(events).at > resources[k]
           ELSE resources'[k] > resources[k]
<1>1. OcpInv /\ [OcpNext]_ocpVars => [Forward]_ocpVars
  <2> SUFFICES ASSUME OcpInv, OcpNext, session = "up", session' = "up",
                      NEW k \in Kinds, resources'[k] # resources[k]
               PROVE  IF resources'[k] = NoResource THEN Head(events).at > resources[k]
                      ELSE resources'[k] > resources[k]
    OBVIOUS
  <2>1. Deliver
    BY DEF OcpNext, Load, Change, Start, List, Insert, Loaded, Watch, Failed, Restart
  <2> QED
    BY <2>1, DeliverOcp
<1> QED
  BY <1>1, InitOcp, StepOcp, PTL DEF OcpSpec, NeverBackwards

(***************************************************************************)
(*                      THE TREE AND THE PATH OF A VM                      *)
(***************************************************************************)
RequestType ==
  [route : Routes, state : {"none", "reading", "answered", "failed", "notFound"},
   shown : SUBSET Seq(Objects), stack : Seq(FrameType)]

(* Types; a folder is always in a folder, and what has a row, other than   *)
(* the datacenter, has a parent.                                           *)
PlacesInv ==
  /\ TreeTypeOK /\ request \in RequestType
  /\ \A f \in Folders : place[f] \in Containers
  /\ \A o \in Objects : rows[o].here /\ o # Datacenter => rows[o].parent # None
  /\ rows[Datacenter].parent = None

(* What the request's history says of the rows that there are now.         *)
HistoryInv ==
  request.state = "reading" =>
    /\ steady \subseteq Links(request.route) /\ Links(request.route) \subseteq ever
    /\ Absent \subseteq vanished

(* Every step of p was a link at some moment.                              *)
Follows(p, links) ==
  p # <<>> /\ \A i \in 1..(Len(p) - 1) : <<p[i], p[i + 1]>> \in links

(* What is on the stack, and all that it has yet to do, was there once.    *)
FramesInv ==
  request.state = "reading" =>
    /\ request.stack # <<>>
    /\ \A p \in request.shown : Follows(p, ever)
    /\ \A f \in ToSet(request.stack) :
          /\ Follows(f.path, ever)
          /\ \A x \in f.todo : <<Last(f.path), x>> \in ever

(* A tree: what is not yet shown of a steady link is still to be done.     *)
TreeInv ==
  request.state = "reading" /\ request.route # "path" =>
    \A p \in request.shown, l \in steady :
       l[1] = Last(p) /\ Valid(l[2]) =>
         \/ Append(p, l[2]) \in request.shown
         \/ \E f \in ToSet(request.stack) : f.path = p /\ l[2] \in f.todo

(* p has gone along every steady link, up to its last object.              *)
GoneAlong(p) ==
  \A l \in steady, i \in 1..(Len(p) - 1) : p[i] = l[1] => p[i + 1] = l[2]

(* A path: one frame, with one object to read, the steady parent if there  *)
(* is one.                                                                 *)
PathInv ==
  request.state = "reading" /\ request.route = "path" =>
    /\ request.shown = {} /\ request.stack = <<Top>>
    /\ \E t \in Objects : Top.todo = {t}
    /\ GoneAlong(Top.path)
    /\ \A l \in steady : l[1] = Last(Top.path) => l[2] \in Top.todo

RequestInv == PlacesInv /\ HistoryInv /\ FramesInv /\ TreeInv /\ PathInv /\ AnswerIsRegular

(***************************************************************************)
(* Objects and rows.                                                       *)
(***************************************************************************)
LEMMA ObjectsDiffer ==
  /\ VMs \cup Folders \subseteq Objects /\ Containers \subseteq Objects
  /\ Datacenter \in Objects /\ VmRoot \in Objects /\ HostRoot \in Objects
  /\ "host" \in Objects /\ "cluster" \in Objects
  /\ None \notin Objects /\ VApp \notin Objects
  /\ Datacenter \notin VMs \cup Folders
  /\ \A p \in Containers : p \notin Nowhere /\ p # None
BY TreeAssumption
   DEF Objects, Containers, Datacenter, VmRoot, HostRoot, VApp, None, Nowhere

LEMMA ViewFits ==
  ASSUME place \in [VMs \cup Folders -> Containers \cup Nowhere],
         \A f \in Folders : place[f] \in Containers,
         NEW o \in Objects
  PROVE  /\ View(o) \in RowType
         /\ View(o).here /\ o # Datacenter => View(o).parent # None
         /\ o = Datacenter => View(o).parent = None
<1> DEFINE Fits(r) == r \in RowType /\ (r.here => r.parent # None)
<1>1. ASSUME NEW p \in Objects, NEW R \in SUBSET (Objects \cup {VApp})
      PROVE  Fits(Row(p, R))
  BY ObjectsDiffer DEF Row, RowType
<1>2. Fits(Missing)
  BY DEF Missing, RowType
<1>3. CASE o \in VMs
  <2>1. View(o) = IF Placed(o) THEN Row(place[o], {}) ELSE Missing
    BY <1>3, TreeAssumption DEF View, VmRoot, HostRoot, Datacenter
  <2>2. Placed(o) => place[o] \in Objects
    BY <1>3, ObjectsDiffer DEF Placed
  <2> QED
    BY <1>1, <1>2, <1>3, <2>1, <2>2, ObjectsDiffer
<1>4. CASE o \in Folders
  <2>1. View(o) = Row(place[o], {x \in VMs \cup Folders : place[x] = o})
    BY <1>4, TreeAssumption DEF View, VmRoot, HostRoot, Datacenter
  <2>2. place[o] \in Objects /\ {x \in VMs \cup Folders : place[x] = o} \subseteq Objects
    BY <1>4, ObjectsDiffer
  <2> QED
    BY <1>1, <1>4, <2>1, <2>2, ObjectsDiffer
<1>5. CASE o = VmRoot
  <2>1. View(o) = Row(Datacenter, {x \in VMs \cup Folders : place[x] = o} \cup {VApp})
    BY <1>5, TreeAssumption DEF View, VmRoot, HostRoot, Datacenter
  <2>2. {x \in VMs \cup Folders : place[x] = o} \cup {VApp} \subseteq Objects \cup {VApp}
    BY ObjectsDiffer
  <2>3. o # Datacenter
    BY <1>5 DEF VmRoot, Datacenter
  <2> QED
    BY <1>1, <2>1, <2>2, <2>3, ObjectsDiffer
<1>6. CASE o = "host"
  <2>1. View(o) = Row("cluster", {v \in VMs : Placed(v)})
    BY <1>6, TreeAssumption DEF View, VmRoot, HostRoot, Datacenter
  <2>2. {v \in VMs : Placed(v)} \subseteq Objects
    BY ObjectsDiffer
  <2> QED
    BY <1>1, <1>6, <2>1, <2>2, ObjectsDiffer DEF Datacenter
<1>7. CASE o = "cluster"
  <2>1. View(o) = Row(HostRoot, {"host"})
    BY <1>7, TreeAssumption DEF View, VmRoot, HostRoot, Datacenter
  <2> QED
    BY <1>1, <1>7, <2>1, ObjectsDiffer DEF Datacenter
<1>8. CASE o = HostRoot
  <2>1. View(o) = Row(Datacenter, {"cluster"})
    BY <1>8, TreeAssumption DEF View, VmRoot, HostRoot, Datacenter
  <2> QED
    BY <1>1, <1>8, <2>1, ObjectsDiffer DEF Datacenter, HostRoot
<1>9. CASE o = Datacenter
  <2>1. View(o) = Row(None, {})
    BY <1>9, TreeAssumption DEF View, VmRoot, HostRoot, Datacenter
  <2> QED
    BY <1>9, <2>1 DEF Row, RowType
<1> QED
  BY <1>3, <1>4, <1>5, <1>6, <1>7, <1>8, <1>9 DEF Objects, Containers

(* What rows link to.                                                      *)
LEMMA LinksFit ==
  ASSUME rows \in [Objects -> RowType], NEW route \in Routes
  PROVE  /\ Links(route) \subseteq LinkType
         /\ route = "path" =>
              \A l : l \in Links(route) <=>
                l[1] \in Objects /\ l = <<l[1], rows[l[1]].parent>> /\ l[2] # None
         /\ route # "path" =>
              \A o \in Objects : \A x : <<o, x>> \in Links(route) <=> x \in rows[o].refs
<1>1. \A o \in Objects : /\ rows[o].parent \in Objects \cup {None}
                         /\ rows[o].refs \subseteq Objects \cup {VApp}
  BY DEF RowType
<1>2. CASE route = "path"
  <2>1. Links(route) = {<<o, rows[o].parent>> : o \in {x \in Objects : rows[x].parent # None}}
    BY <1>2 DEF Links
  <2>2. ASSUME NEW l
        PROVE  l \in Links(route) <=>
                 l[1] \in Objects /\ l = <<l[1], rows[l[1]].parent>> /\ l[2] # None
    <3>1. ASSUME l \in Links(route)
          PROVE  l[1] \in Objects /\ l = <<l[1], rows[l[1]].parent>> /\ l[2] # None
      <4>1. PICK o \in Objects : rows[o].parent # None /\ l = <<o, rows[o].parent>>
        BY <2>1, <3>1
      <4> QED
        BY <4>1
    <3>2. ASSUME l[1] \in Objects, l = <<l[1], rows[l[1]].parent>>, l[2] # None
          PROVE  l \in Links(route)
      <4>1. rows[l[1]].parent # None
        BY <3>2
      <4> QED
        BY <2>1, <3>2, <4>1
    <3> QED
      BY <3>1, <3>2
  <2>3. Links(route) \subseteq LinkType
    BY <1>1, <2>1 DEF LinkType
  <2> QED
    BY <1>2, <2>2, <2>3
<1>3. CASE route # "path"
  <2>1. Links(route) = UNION {{<<o, x>> : x \in rows[o].refs} : o \in Objects}
    BY <1>3 DEF Links
  <2> QED
    BY <1>1, <1>3, <2>1 DEF LinkType
<1> QED
  BY <1>2, <1>3

(***************************************************************************)
(* The steps that are not of a request.                                    *)
(***************************************************************************)
LEMMA InitTree ==
  ASSUME TreeInit
  PROVE  RequestInv
<1> USE DEF TreeInit
<1>1. /\ place \in [VMs \cup Folders -> Containers \cup Nowhere]
      /\ \A f \in Folders : place[f] \in Containers
  <2>1. \A f \in Folders : place[f] \in Containers \cup {"unborn"} /\ place[f] # "unborn"
    OBVIOUS
  <2> QED
    BY <2>1 DEF Nowhere
<1>2. told \in [Objects -> RowType]
  BY <1>1, ViewFits
<1>3. ASSUME NEW o \in Objects
      PROVE  /\ rows[o] \in RowType
             /\ rows[o].here /\ o # Datacenter => rows[o].parent # None
             /\ o = Datacenter => rows[o].parent = None
  <2>1. CASE o \in missed
    BY <2>1 DEF Missing, RowType
  <2>2. CASE o \notin missed
    <3>1. rows[o] = View(o)
      BY <2>2
    <3> QED
      BY <1>1, <3>1, ViewFits
  <2> QED
    BY <2>1, <2>2
<1>4. request = [route |-> "vmTree", state |-> "none", shown |-> {}, stack |-> <<>>]
  OBVIOUS
<1>5. request \in RequestType
  <2>1. <<>> \in Seq(FrameType) /\ {} \in SUBSET Seq(Objects)
    OBVIOUS
  <2> QED
    BY <1>4, <2>1 DEF RequestType, Routes
<1>6. TreeTypeOK
  <2>1. missed \subseteq Objects
    BY ObjectsDiffer
  <2>2. rows \in [Objects -> RowType]
    BY <1>3
  <2>3. budget \in Nat /\ steady \subseteq ever /\ ever \subseteq LinkType /\ vanished \subseteq Objects
    BY TreeAssumption
  <2> QED
    BY <1>1, <1>2, <1>5, <2>1, <2>2, <2>3 DEF TreeTypeOK, RequestType
<1>7. PlacesInv
  BY <1>1, <1>3, <1>5, <1>6, ObjectsDiffer DEF PlacesInv
<1>8. request.state = "none"
  BY <1>4
<1> QED
  BY <1>7, <1>8
     DEF RequestInv, HistoryInv, FramesInv, TreeInv, PathInv, AnswerIsRegular

LEMMA SourceChangesTree ==
  ASSUME RequestInv, NEW o \in VMs \cup Folders, NEW p \in Containers \cup {"gone"},
         SourceChanges(o, p)
  PROVE  RequestInv'
<1> USE DEF SourceChanges, Happens, mirror, history
<1>1. /\ place' \in [VMs \cup Folders -> Containers \cup Nowhere]
      /\ \A f \in Folders : place'[f] \in Containers
  <2>1. p \in Containers \/ o \in VMs
    OBVIOUS
  <2>2. place' = [place EXCEPT ![o] = p] /\ p \in Containers \cup Nowhere
    BY DEF Nowhere
  <2>3. /\ place \in [VMs \cup Folders -> Containers \cup Nowhere]
        /\ \A f \in Folders : place[f] \in Containers
    BY DEF RequestInv, PlacesInv, TreeTypeOK
  <2>4. ASSUME NEW f \in Folders
        PROVE  place'[f] \in Containers
    BY <2>1, <2>2, <2>3, TreeAssumption
  <2> QED
    BY <2>2, <2>3, <2>4
<1>2. budget' \in Nat
  BY DEF RequestInv, PlacesInv, TreeTypeOK
<1>3. PlacesInv'
  BY <1>1, <1>2 DEF RequestInv, PlacesInv, TreeTypeOK, RequestType
<1>4. UNCHANGED <<rows, request, steady, ever, vanished>>
  OBVIOUS
<1>5. HistoryInv'
  BY <1>4 DEF RequestInv, HistoryInv, Links, Absent
<1>6. FramesInv' /\ TreeInv'
  BY <1>4 DEF RequestInv, FramesInv, TreeInv
<1>7. PathInv'
  BY <1>4 DEF RequestInv, PathInv, GoneAlong, Top
<1>8. AnswerIsRegular'
  BY <1>4 DEF RequestInv, AnswerIsRegular, GoesOn
<1> QED
  BY <1>3, <1>5, <1>6, <1>7, <1>8 DEF RequestInv

LEMMA UpdatesTree ==
  ASSUME RequestInv, Updates
  PROVE  RequestInv'
<1>1. PICK S \in SUBSET Changed : Receive(S)
  BY DEF Updates
<1> USE DEF Receive, Happens
<1>2. /\ place \in [VMs \cup Folders -> Containers \cup Nowhere]
      /\ \A f \in Folders : place[f] \in Containers
      /\ told \in [Objects -> RowType] /\ rows \in [Objects -> RowType]
      /\ S \subseteq Objects
  BY DEF RequestInv, PlacesInv, TreeTypeOK, Changed
<1>3. \A o \in Objects : View(o) \in RowType
  BY <1>2, ViewFits
<1>4. told' \in [Objects -> RowType]
  BY <1>1, <1>2, <1>3
<1>5. \/ rows' = [o \in Objects |-> IF o \in S THEN View(o) ELSE rows[o]]
      \/ rows' = rows
  BY <1>1
<1>6. rows' \in [Objects -> RowType]
  BY <1>2, <1>3, <1>5
<1>7. ASSUME NEW o \in Objects
      PROVE  /\ rows'[o].here /\ o # Datacenter => rows'[o].parent # None
             /\ o = Datacenter => rows'[o].parent = None
  <2>1. rows'[o] = rows[o] \/ rows'[o] = View(o)
    BY <1>2, <1>5
  <2> QED
    BY <1>2, <2>1, ViewFits DEF RequestInv, PlacesInv
<1>8. /\ missed' \subseteq Objects /\ budget' \in Nat /\ request' = request /\ place' = place
  BY <1>1, <1>2 DEF RequestInv, PlacesInv, TreeTypeOK
<1>9. request.route \in Routes /\ request.state \in {"none", "reading"}
  BY <1>1 DEF Unanswered, RequestInv, PlacesInv, TreeTypeOK
<1>10. Links(request.route)' \subseteq LinkType /\ Absent' \subseteq Objects
  <2>1. \A o \in Objects : /\ rows'[o].parent \in Objects \cup {None}
                           /\ rows'[o].refs \subseteq Objects \cup {VApp}
    BY <1>6 DEF RowType
  <2>2. CASE request.route = "path"
    <3>1. Links(request.route)' =
            {<<o, rows'[o].parent>> : o \in {x \in Objects : rows'[x].parent # None}}
      BY <1>8, <2>2 DEF Links
    <3> QED
      BY <2>1, <3>1 DEF LinkType, Absent
  <2>3. CASE request.route # "path"
    <3>1. Links(request.route)' = UNION {{<<o, x>> : x \in rows'[o].refs} : o \in Objects}
      BY <1>8, <2>3 DEF Links
    <3> QED
      BY <2>1, <3>1 DEF LinkType, Absent
  <2> QED
    BY <2>2, <2>3
<1>11. /\ steady' \subseteq steady /\ ever \subseteq ever' /\ vanished \subseteq vanished'
       /\ ever' \subseteq LinkType /\ vanished' \subseteq Objects
       /\ request.state = "reading" =>
            /\ steady' \subseteq Links(request.route)'
            /\ Links(request.route)' \subseteq ever' /\ Absent' \subseteq vanished'
       /\ steady' \subseteq ever'
  <2>1. /\ steady \subseteq ever /\ ever \subseteq LinkType /\ vanished \subseteq Objects
    BY DEF RequestInv, PlacesInv, TreeTypeOK
  <2>2. CASE request.state = "reading"
    <3>1. /\ steady' = steady \cap Links(request.route)'
          /\ ever' = ever \cup Links(request.route)'
          /\ vanished' = vanished \cup Absent'
      BY <1>1, <2>2
    <3> QED
      BY <1>10, <2>1, <3>1
  <2>3. CASE request.state # "reading"
    <3>1. UNCHANGED <<steady, ever, vanished>>
      BY <1>1, <2>3 DEF history
    <3> QED
      BY <2>1, <2>3, <3>1
  <2> QED
    BY <2>2, <2>3
<1>12. PlacesInv'
  <2>1. TreeTypeOK' /\ request' \in RequestType
    BY <1>2, <1>4, <1>6, <1>8, <1>11 DEF RequestInv, PlacesInv, TreeTypeOK, RequestType
  <2> QED
    BY <1>2, <1>7, <1>8, <2>1, ObjectsDiffer DEF PlacesInv
<1>13. HistoryInv'
  BY <1>8, <1>11 DEF HistoryInv, Links
<1>14. FramesInv'
  BY <1>8, <1>11 DEF RequestInv, FramesInv, Follows
<1>15. TreeInv'
  BY <1>8, <1>11 DEF RequestInv, TreeInv
<1>16. PathInv'
  BY <1>8, <1>11 DEF RequestInv, PathInv, GoneAlong, Top
<1>17. AnswerIsRegular'
  BY <1>8, <1>9 DEF AnswerIsRegular
<1> QED
  BY <1>12, <1>13, <1>14, <1>15, <1>16, <1>17 DEF RequestInv

(***************************************************************************)
(* Paths and stacks.                                                       *)
(***************************************************************************)
LEMMA PathGoesOn ==
  ASSUME NEW p \in Seq(Objects), NEW links, Follows(p, links),
         NEW x \in Objects, <<Last(p), x>> \in links
  PROVE  /\ Append(p, x) \in Seq(Objects) /\ Follows(Append(p, x), links)
         /\ Last(Append(p, x)) = x
         /\ \A i \in 1..Len(p) : Append(p, x)[i] = p[i]
         /\ Len(Append(p, x)) = Len(p) + 1
<1> DEFINE q == Append(p, x)
<1>1. /\ q \in Seq(Objects) /\ Len(q) = Len(p) + 1 /\ q[Len(p) + 1] = x
      /\ \A i \in 1..Len(p) : q[i] = p[i]
  OBVIOUS
<1>2. Len(p) \in Nat /\ Len(p) # 0 /\ Last(p) = p[Len(p)]
  BY DEF Follows, Last
<1>3. ASSUME NEW i \in 1..(Len(q) - 1)
      PROVE  <<q[i], q[i + 1]>> \in links
  <2>1. CASE i = Len(p)
    BY <1>1, <1>2, <2>1
  <2>2. CASE i # Len(p)
    <3>1. i \in 1..(Len(p) - 1) /\ i \in 1..Len(p) /\ i + 1 \in 1..Len(p)
      BY <1>1, <1>2, <2>2
    <3> QED
      BY <1>1, <3>1 DEF Follows
  <2> QED
    BY <2>1, <2>2
<1>4. q # <<>>
  BY <1>1, <1>2
<1> QED
  BY <1>1, <1>3, <1>4 DEF Follows, Last

LEMMA AmongBoth ==
  ASSUME NEW F, NEW s \in Seq(F), NEW t \in Seq(F)
  PROVE  s \o t \in Seq(F) /\ ToSet(s \o t) = ToSet(s) \cup ToSet(t)
<1>1. /\ s \o t \in Seq(F) /\ Len(s \o t) = Len(s) + Len(t)
      /\ \A i \in 1..(Len(s) + Len(t)) :
            (s \o t)[i] = IF i <= Len(s) THEN s[i] ELSE t[i - Len(s)]
  OBVIOUS
<1>2. Len(s) \in Nat /\ Len(t) \in Nat
  OBVIOUS
<1>3. ASSUME NEW i \in DOMAIN (s \o t)
      PROVE  (s \o t)[i] \in ToSet(s) \cup ToSet(t)
  <2>1. i \in 1..(Len(s) + Len(t))
    BY <1>1
  <2>2. CASE i <= Len(s)
    BY <1>1, <1>2, <2>1, <2>2 DEF ToSet
  <2>3. CASE ~(i <= Len(s))
    <3>1. i - Len(s) \in DOMAIN t /\ (s \o t)[i] = t[i - Len(s)]
      BY <1>1, <1>2, <2>1, <2>3
    <3> QED
      BY <3>1 DEF ToSet
  <2> QED
    BY <2>2, <2>3
<1>4. ASSUME NEW i \in DOMAIN s
      PROVE  s[i] \in ToSet(s \o t)
  <2>1. i \in DOMAIN (s \o t) /\ (s \o t)[i] = s[i]
    BY <1>1, <1>2
  <2> QED
    BY <2>1 DEF ToSet
<1>5. ASSUME NEW i \in DOMAIN t
      PROVE  t[i] \in ToSet(s \o t)
  <2>1. i + Len(s) \in 1..(Len(s) + Len(t)) /\ ~(i + Len(s) <= Len(s))
    BY <1>2
  <2>2. i + Len(s) \in DOMAIN (s \o t) /\ (s \o t)[i + Len(s)] = t[i]
    BY <1>1, <1>2, <2>1
  <2> QED
    BY <2>2 DEF ToSet
<1> QED
  BY <1>1, <1>3, <1>4, <1>5 DEF ToSet

LEMMA AmongOpened ==
  ASSUME NEW f \in FrameType
  PROVE  /\ Opened(f) \in Seq(FrameType) /\ ToSet(Opened(f)) \subseteq {f}
         /\ f.todo # {} => ToSet(Opened(f)) = {f}
<1>1. CASE f.todo = {}
  <2>1. Opened(f) = <<>>
    BY <1>1 DEF Opened
  <2> QED
    BY <1>1, <2>1 DEF ToSet
<1>2. CASE f.todo # {}
  <2>1. Opened(f) = <<f>> /\ Len(<<f>>) = 1 /\ <<f>>[1] = f
    BY <1>2 DEF Opened
  <2>2. DOMAIN <<f>> = {1}
    OBVIOUS
  <2> QED
    BY <2>1, <2>2 DEF ToSet
<1> QED
  BY <1>1, <1>2

LEMMA AmongStack ==
  ASSUME request.stack \in Seq(FrameType), request.stack # <<>>
  PROVE  /\ Below \in Seq(FrameType) /\ Top \in FrameType
         /\ ToSet(request.stack) = ToSet(Below) \cup {Top}
<1> DEFINE s == request.stack
<1>1. Len(s) \in Nat \ {0} /\ s \in Seq(FrameType) /\ DOMAIN s = 1..Len(s)
  OBVIOUS
<1>2. Top = s[Len(s)] /\ Len(s) \in DOMAIN s
  BY <1>1 DEF Top
<1>3. /\ Below \in Seq(FrameType) /\ Len(Below) = Len(s) - 1
      /\ \A i \in 1..(Len(s) - 1) : Below[i] = s[i]
  BY <1>1 DEF Below
<1>4. DOMAIN Below = 1..(Len(s) - 1)
  BY <1>3
<1>5. ToSet(Below) = {s[i] : i \in 1..(Len(s) - 1)}
  BY <1>3, <1>4 DEF ToSet
<1>6. 1..Len(s) = 1..(Len(s) - 1) \cup {Len(s)}
  BY <1>1
<1>7. ToSet(s) = {s[i] : i \in 1..Len(s)}
  BY <1>1 DEF ToSet
<1>8. ToSet(s) = ToSet(Below) \cup {Top}
  BY <1>2, <1>5, <1>6, <1>7
<1> QED
  BY <1>1, <1>2, <1>3, <1>8

LEMMA OneFrame ==
  ASSUME NEW f, NEW x
  PROVE  /\ ToSet(<<f>>) = {f} /\ <<f>> # <<>> /\ <<f>>[Len(<<f>>)] = f
         /\ Last(<<x>>) = x /\ \A links : Follows(<<x>>, links)
<1>1. Len(<<f>>) = 1 /\ <<f>>[1] = f /\ DOMAIN <<f>> = {1} /\ <<f>> # <<>>
  OBVIOUS
<1>2. Len(<<x>>) = 1 /\ <<x>>[1] = x /\ 1..0 = {} /\ <<x>> # <<>>
  OBVIOUS
<1>3. 1..(Len(<<x>>) - 1) = {}
  BY <1>2
<1> QED
  BY <1>1, <1>2, <1>3 DEF ToSet, Last, Follows

(***************************************************************************)
(* A request begins.                                                       *)
(***************************************************************************)
LEMMA BeginTree ==
  ASSUME RequestInv, NEW r \in RequestType, r.state \in {"reading", "notFound"}, Requested(r)
  PROVE  /\ PlacesInv' /\ HistoryInv' /\ AnswerIsRegular'
         /\ request' = r /\ rows' = rows
         /\ steady' = Links(r.route) /\ ever' = Links(r.route)
         /\ r.route \in Routes /\ rows \in [Objects -> RowType]
<1>1. /\ request' = r /\ UNCHANGED <<place, told, rows, missed, budget>>
      /\ steady' = Links(r.route) /\ ever' = Links(r.route) /\ vanished' = Absent
  BY DEF Requested, mirror
<1>2. r.route \in Routes /\ rows \in [Objects -> RowType]
  BY DEF RequestType, RequestInv, PlacesInv, TreeTypeOK
<1>3. Links(r.route) \subseteq LinkType /\ Absent \subseteq Objects
  BY <1>2, LinksFit DEF Absent
<1>4. TreeTypeOK'
  BY <1>1, <1>3 DEF RequestInv, PlacesInv, TreeTypeOK, RequestType
<1>5. PlacesInv'
  BY <1>1, <1>4 DEF RequestInv, PlacesInv, RequestType
<1>6. HistoryInv'
  BY <1>1 DEF HistoryInv, Links, Absent
<1>7. AnswerIsRegular'
  BY <1>1 DEF AnswerIsRegular
<1> QED
  BY <1>1, <1>2, <1>5, <1>6, <1>7

LEMMA AskTreeTree ==
  ASSUME RequestInv, NEW route \in Routes \ {"path"}, AskTree(route)
  PROVE  RequestInv'
<1> DEFINE root == Root(route)
           frame == [path |-> <<root>>, todo |-> rows[root].refs]
           r == [route |-> route, state |-> "reading", shown |-> {<<root>>},
                 stack |-> <<frame>>]
<1>1. Requested(r)
  BY DEF AskTree
<1>2. root \in Objects
  BY ObjectsDiffer DEF Root
<1>3. rows \in [Objects -> RowType]
  BY DEF RequestInv, PlacesInv, TreeTypeOK
<1>4. rows[root].refs \subseteq Objects \cup {VApp}
  BY <1>2, <1>3 DEF RowType
<1>5. frame \in FrameType
  BY <1>2, <1>4 DEF FrameType
<1>6. r \in RequestType
  <2>1. <<frame>> \in Seq(FrameType) /\ {<<root>>} \in SUBSET Seq(Objects)
    BY <1>2, <1>5
  <2> QED
    BY <2>1 DEF RequestType
<1> HIDE DEF frame, root
<1>7. /\ request' = r /\ ever' = Links(route) /\ steady' = Links(route)
      /\ PlacesInv' /\ HistoryInv' /\ AnswerIsRegular'
  BY <1>1, <1>6, BeginTree
<1>8. /\ request'.stack = <<frame>> /\ request'.shown = {<<root>>}
      /\ request'.route = route
  BY <1>7
<1>9. /\ ToSet(<<frame>>) = {frame} /\ <<frame>> # <<>>
      /\ Last(<<root>>) = root /\ Follows(<<root>>, ever')
  BY OneFrame
<1>10. \A x : <<root, x>> \in Links(route) <=> x \in frame.todo
  BY <1>2, <1>3, LinksFit DEF frame
<1>11. frame.path = <<root>>
  BY DEF frame
<1>12. FramesInv'
  BY <1>7, <1>8, <1>9, <1>10, <1>11 DEF FramesInv
<1>13. \A l \in Links(route) : l = <<l[1], l[2]>>
  BY <1>3, LinksFit DEF LinkType
<1>14. TreeInv'
  <2> SUFFICES ASSUME NEW p \in request'.shown, NEW l \in steady', l[1] = Last(p)
               PROVE  \E f \in ToSet(request'.stack) : f.path = p /\ l[2] \in f.todo
    BY DEF TreeInv
  <2>1. p = <<root>> /\ l[1] = root /\ l = <<l[1], l[2]>>
    BY <1>7, <1>8, <1>9, <1>13
  <2>2. l[2] \in frame.todo
    BY <1>7, <1>10, <2>1
  <2> QED
    BY <1>8, <1>9, <1>11, <2>1, <2>2
<1>15. PathInv'
  BY <1>8 DEF PathInv
<1> QED
  BY <1>7, <1>12, <1>14, <1>15 DEF RequestInv

LEMMA AskPathTree ==
  ASSUME RequestInv, NEW v \in VMs, AskPath(v)
  PROVE  RequestInv'
<1> DEFINE t == rows[v].parent
           frame == [path |-> <<v>>, todo |-> {t}]
           r == [route |-> "path", state |-> IF rows[v].here THEN "reading" ELSE "notFound",
                 shown |-> {}, stack |-> <<frame>>]
<1>1. Requested(r)
  BY DEF AskPath
<1>2. v \in Objects /\ v # Datacenter
  BY ObjectsDiffer
<1>3. rows \in [Objects -> RowType] /\ t \in Objects \cup {None}
  BY <1>2 DEF RequestInv, PlacesInv, TreeTypeOK, RowType
<1>4. frame \in FrameType
  BY <1>2, <1>3 DEF FrameType
<1>5. r \in RequestType
  <2>1. <<frame>> \in Seq(FrameType) /\ {} \in SUBSET Seq(Objects)
    BY <1>4
  <2> QED
    BY <2>1 DEF RequestType, Routes
<1>6. rows[v].here => t \in Objects /\ t # None
  BY <1>2, <1>3 DEF RequestInv, PlacesInv
<1> HIDE DEF frame
<1>7. /\ request' = r /\ ever' = Links("path") /\ steady' = Links("path")
      /\ PlacesInv' /\ HistoryInv' /\ AnswerIsRegular'
  BY <1>1, <1>5, BeginTree
<1>8. CASE ~rows[v].here
  <2>1. request'.state = "notFound"
    BY <1>7, <1>8
  <2> QED
    BY <1>7, <2>1 DEF RequestInv, FramesInv, TreeInv, PathInv
<1>9. CASE rows[v].here
  <2>1. /\ request'.stack = <<frame>> /\ request'.shown = {} /\ request'.route = "path"
    BY <1>7
  <2>2. /\ ToSet(<<frame>>) = {frame} /\ <<frame>> # <<>> /\ <<frame>>[Len(<<frame>>)] = frame
        /\ Last(<<v>>) = v /\ Follows(<<v>>, ever')
    BY OneFrame
  <2>3. Top' = frame
    BY <2>1, <2>2 DEF Top
  <2>4. frame.path = <<v>> /\ frame.todo = {t}
    BY DEF frame
  <2>5. \A l : l \in Links("path") <=>
          l[1] \in Objects /\ l = <<l[1], rows[l[1]].parent>> /\ l[2] # None
    BY <1>3, LinksFit DEF Routes
  <2>6. <<v, t>> \in Links("path")
    BY <1>2, <1>6, <1>9, <2>5
  <2>7. FramesInv'
    BY <1>7, <2>1, <2>2, <2>4, <2>6 DEF FramesInv
  <2>8. TreeInv'
    BY <2>1 DEF TreeInv
  <2>9. GoneAlong(<<v>>)'
    <3>1. Len(<<v>>) = 1 /\ 1..0 = {} /\ 1..(Len(<<v>>) - 1) = {}
      OBVIOUS
    <3> QED
      BY <3>1 DEF GoneAlong
  <2>10. \A l \in steady' : l[1] = v => l[2] \in {t}
    BY <1>7, <2>5
  <2>11. PathInv'
    BY <1>6, <1>9, <2>1, <2>2, <2>3, <2>4, <2>9, <2>10 DEF PathInv, GoneAlong
  <2> QED
    BY <1>7, <2>7, <2>8, <2>11 DEF RequestInv
<1> QED
  BY <1>8, <1>9

(***************************************************************************)
(* A request goes on.                                                      *)
(***************************************************************************)
LEMMA RequestChanges ==
  ASSUME NEW q \in RequestType,
         NEW state \in {"reading", "answered", "failed"},
         NEW shown \in SUBSET Seq(Objects), NEW stack \in Seq(FrameType)
  PROVE  /\ [q EXCEPT !.state = state, !.shown = shown, !.stack = stack] \in RequestType
         /\ [q EXCEPT !.state = state, !.stack = stack] \in RequestType
         /\ [q EXCEPT !.stack = stack] \in RequestType
         /\ [q EXCEPT !.stack = stack, !.shown = shown, !.state = state] \in RequestType
<1> DEFINE Paths == SUBSET Seq(Objects)
           Stacks == Seq(FrameType)
           States == {"none", "reading", "answered", "failed", "notFound"}
           Type == [route : Routes, state : States, shown : Paths, stack : Stacks]
<1>1. q \in Type /\ Type = RequestType
  BY DEF RequestType
<1>2. state \in States /\ shown \in Paths /\ stack \in Stacks
  OBVIOUS
<1> HIDE DEF Paths, Stacks, States
<1>3. [q EXCEPT !.state = state, !.shown = shown, !.stack = stack] \in Type
  BY <1>1, <1>2
<1>4. [q EXCEPT !.state = state, !.stack = stack] \in Type
  BY <1>1, <1>2
<1>5. [q EXCEPT !.stack = stack] \in Type
  BY <1>1, <1>2
<1>6. [q EXCEPT !.stack = stack, !.shown = shown, !.state = state] \in Type
  BY <1>1, <1>2
<1> QED
  BY <1>1, <1>3, <1>4, <1>5, <1>6

LEMMA ProceedTree ==
  ASSUME RequestInv, request.state = "reading",
         NEW r \in RequestType, r.route = request.route, Proceed(r)
  PROVE  /\ PlacesInv' /\ HistoryInv'
         /\ request' = r /\ UNCHANGED <<rows, steady, ever, vanished>>
<1>1. request' = r /\ UNCHANGED <<place, told, rows, missed, steady, ever, vanished, budget>>
  BY DEF Proceed, mirror, history
<1>2. TreeTypeOK'
  BY <1>1 DEF RequestInv, PlacesInv, TreeTypeOK, RequestType
<1>3. PlacesInv'
  BY <1>1, <1>2 DEF RequestInv, PlacesInv
<1>4. HistoryInv'
  BY <1>1 DEF RequestInv, HistoryInv, Links, Absent
<1> QED
  BY <1>1, <1>3, <1>4

(* It fails of what was listed once, and has no row now.                   *)
LEMMA FailTree ==
  ASSUME RequestInv, request.state = "reading", NEW o \in Objects, ~Found(o),
         NEW x, <<x, o>> \in ever, Proceed(Fail)
  PROVE  RequestInv'
<1>1. request \in RequestType
  BY DEF RequestInv, PlacesInv
<1>2. Fail \in RequestType /\ Fail.route = request.route /\ Fail.state = "failed"
  <2>1. <<>> \in Seq(FrameType) /\ request.shown \in SUBSET Seq(Objects)
    BY <1>1 DEF RequestType
  <2>2. Fail \in RequestType
    BY <1>1, <2>1, RequestChanges DEF Fail
  <2> QED
    BY <1>1, <2>2 DEF Fail, RequestType
<1>3. /\ PlacesInv' /\ HistoryInv' /\ request'.state = "failed"
      /\ UNCHANGED <<ever, vanished>>
  BY <1>2, ProceedTree
<1>4. o \in vanished /\ <<x, o>>[2] = o
  BY DEF Found, RequestInv, HistoryInv
<1>5. AnswerIsRegular'
  BY <1>3, <1>4 DEF AnswerIsRegular
<1> QED
  BY <1>3, <1>5 DEF RequestInv, FramesInv, TreeInv, PathInv

LEMMA ClimbTree ==
  ASSUME RequestInv, NEW o, Climb(o)
  PROVE  RequestInv'
<1> DEFINE path == Append(Top.path, o)
<1>1. /\ request.state = "reading" /\ request.route = "path" /\ o \in Top.todo
      /\ Proceed(Climbed(o)) /\ request \in RequestType
  BY DEF Climb, RequestInv, PlacesInv
<1>2. /\ request.stack \in Seq(FrameType) /\ request.stack # <<>>
      /\ o \in Objects /\ Top.todo = {o} /\ GoneAlong(Top.path)
      /\ \A l \in steady : l[1] = Last(Top.path) => l[2] = o
  BY <1>1 DEF RequestInv, FramesInv, PathInv, RequestType
<1>3. Top \in FrameType /\ Top \in ToSet(request.stack)
  BY <1>2, AmongStack
<1>4. Top.path \in Seq(Objects) /\ Follows(Top.path, ever) /\ <<Last(Top.path), o>> \in ever
  BY <1>1, <1>3 DEF RequestInv, FramesInv, FrameType
<1>5. /\ path \in Seq(Objects) /\ Follows(path, ever) /\ Last(path) = o
      /\ \A i \in 1..Len(Top.path) : path[i] = Top.path[i]
      /\ Len(path) = Len(Top.path) + 1
  BY <1>2, <1>4, PathGoesOn
<1>6. Len(Top.path) \in Nat \ {0} /\ Last(Top.path) = Top.path[Len(Top.path)] /\ path[Len(path)] = o
  BY <1>4, <1>5 DEF Follows, Last
<1>7. \A l \in steady, i \in 1..Len(Top.path) : path[i] = l[1] => path[i + 1] = l[2]
  <2> SUFFICES ASSUME NEW l \in steady, NEW i \in 1..Len(Top.path), path[i] = l[1]
               PROVE  path[i + 1] = l[2]
    OBVIOUS
  <2>1. CASE i = Len(Top.path)
    BY <1>2, <1>5, <1>6, <2>1
  <2>2. CASE i # Len(Top.path)
    <3>1. i \in 1..(Len(Top.path) - 1) /\ i + 1 \in 1..Len(Top.path)
      BY <1>6, <2>2
    <3>2. path[i] = Top.path[i] /\ path[i + 1] = Top.path[i + 1]
      BY <1>5, <3>1
    <3> QED
      BY <1>2, <3>1, <3>2 DEF GoneAlong
  <2> QED
    BY <2>1, <2>2
<1>8. Len(path) - 1 = Len(Top.path)
  BY <1>5, <1>6
<1>9. rows \in [Objects -> RowType] /\ rows[Datacenter].parent = None /\ steady \subseteq Links("path")
  BY <1>1 DEF RequestInv, PlacesInv, TreeTypeOK, HistoryInv
<1>10. \A l : l \in Links("path") <=>
         l[1] \in Objects /\ l = <<l[1], rows[l[1]].parent>> /\ l[2] # None
  BY <1>9, LinksFit DEF Routes
<1> HIDE DEF path
<1>11. CASE o = Datacenter
  <2> DEFINE r == [request EXCEPT !.state = "answered", !.shown = {path}, !.stack = <<>>]
  <2>1. Climbed(o) = r
    BY <1>11 DEF Climbed, path
  <2>2. /\ r \in RequestType
        /\ r.route = request.route /\ r.state = "answered" /\ r.shown = {path}
    <3>1. <<>> \in Seq(FrameType) /\ {path} \in SUBSET Seq(Objects)
      BY <1>5
    <3>2. r \in RequestType
      BY <1>1, <3>1, RequestChanges
    <3> QED
      BY <1>1, <3>2 DEF RequestType
  <2>3. /\ PlacesInv' /\ HistoryInv' /\ request' = r
        /\ UNCHANGED <<steady, ever, vanished>>
    BY <1>1, <2>1, <2>2, ProceedTree
  <2>4. request'.state = "answered" /\ request'.shown = {path} /\ request'.route = "path"
    BY <1>1, <2>2, <2>3
  <2>5. \A l \in steady : l[1] # Datacenter
    BY <1>9, <1>10
  <2>6. \A l \in steady, i \in 1..Len(path) : path[i] = l[1] => i < Len(path) /\ path[i + 1] = l[2]
    BY <1>6, <1>7, <1>8, <1>11, <2>5, <1>5
  <2>7. AnswerIsRegular'
    BY <1>5, <2>3, <2>4, <2>6 DEF AnswerIsRegular, GoesOn, Follows
  <2> QED
    BY <2>3, <2>4, <2>7 DEF RequestInv, FramesInv, TreeInv, PathInv
<1>12. CASE o # Datacenter /\ ~Found(o)
  <2>1. Climbed(o) = Fail
    BY <1>12 DEF Climbed
  <2> QED
    BY <1>1, <1>2, <1>4, <1>12, <2>1, FailTree
<1>13. CASE o # Datacenter /\ Found(o)
  <2> DEFINE t == rows[o].parent
             frame == [path |-> path, todo |-> {t}]
             r == [request EXCEPT !.stack = <<frame>>]
  <2>1. Climbed(o) = r
    BY <1>13 DEF Climbed, path
  <2>2. t \in Objects /\ t # None
    BY <1>2, <1>9, <1>13 DEF Found, Absent, RequestInv, PlacesInv, RowType
  <2>3. frame \in FrameType
    BY <1>5, <2>2 DEF FrameType
  <2>4. frame.path = path /\ frame.todo = {t}
    OBVIOUS
  <2> HIDE DEF frame
  <2>5. /\ r \in RequestType
        /\ r.route = "path" /\ r.state = "reading" /\ r.shown = {} /\ r.stack = <<frame>>
    <3>1. <<frame>> \in Seq(FrameType)
      BY <2>3
    <3>2. request.shown = {}
      BY <1>1 DEF RequestInv, PathInv
    <3>3. r \in RequestType
      BY <1>1, <3>1, RequestChanges
    <3> QED
      BY <1>1, <3>2, <3>3 DEF RequestType
  <2>6. /\ PlacesInv' /\ HistoryInv' /\ request' = r
        /\ UNCHANGED <<steady, ever, vanished>>
    BY <1>1, <2>1, <2>5, ProceedTree
  <2>7. /\ request'.state = "reading" /\ request'.shown = {} /\ request'.route = "path"
        /\ request'.stack = <<frame>>
    BY <2>5, <2>6
  <2>8. ToSet(<<frame>>) = {frame} /\ <<frame>> # <<>> /\ <<frame>>[Len(<<frame>>)] = frame
    BY OneFrame
  <2>9. Top' = frame
    BY <2>7, <2>8 DEF Top
  <2>10. <<o, t>> \in ever
    <3>1. <<o, t>> \in Links("path")
      BY <1>2, <1>10, <2>2
    <3> QED
      BY <1>1, <3>1 DEF RequestInv, HistoryInv
  <2>11. FramesInv'
    BY <1>5, <2>4, <2>6, <2>7, <2>8, <2>10 DEF FramesInv
  <2>12. TreeInv'
    BY <2>7 DEF TreeInv
  <2>13. \A l \in steady', i \in 1..(Len(path) - 1) : path[i] = l[1] => path[i + 1] = l[2]
    BY <1>7, <1>8, <2>6
  <2>14. \A l \in steady' : l[1] = o => l[2] \in {t}
    BY <1>9, <1>10, <2>6
  <2>15. PathInv'
    <3>1. Top'.path = path /\ Top'.todo = {t}
      BY <2>4, <2>9
    <3>2. GoneAlong(Top.path)'
      BY <2>13, <3>1 DEF GoneAlong
    <3>3. \A l \in steady' : l[1] = Last(Top'.path) => l[2] \in Top'.todo
      BY <1>5, <2>14, <3>1
    <3> QED
      BY <2>2, <2>7, <2>9, <3>1, <3>2, <3>3 DEF PathInv
  <2>16. AnswerIsRegular'
    BY <2>7 DEF AnswerIsRegular
  <2> QED
    BY <2>6, <2>11, <2>12, <2>15, <2>16 DEF RequestInv
<1> QED
  BY <1>11, <1>12, <1>13

(* A walk goes on, or is over, with the frames and what is shown.          *)
LEMMA ResumedTree ==
  ASSUME RequestInv, request.state = "reading", request.route # "path",
         NEW frames \in Seq(FrameType), NEW shown \in SUBSET Seq(Objects),
         Proceed(Resumed(frames, shown)),
         \A p \in shown : Follows(p, ever),
         \A f \in ToSet(frames) :
            Follows(f.path, ever) /\ \A x \in f.todo : <<Last(f.path), x>> \in ever,
         \A p \in shown, l \in steady :
            l[1] = Last(p) /\ Valid(l[2]) =>
              \/ Append(p, l[2]) \in shown
              \/ \E f \in ToSet(frames) : f.path = p /\ l[2] \in f.todo
  PROVE  RequestInv'
<1> DEFINE r == Resumed(frames, shown)
<1>1. request \in RequestType
  BY DEF RequestInv, PlacesInv
<1>2. r \in RequestType
  <2>1. (IF frames = <<>> THEN "answered" ELSE "reading") \in {"reading", "answered", "failed"}
    OBVIOUS
  <2> QED
    BY <1>1, <2>1, RequestChanges DEF Resumed
<1>3. /\ r.route = request.route /\ r.stack = frames /\ r.shown = shown
      /\ r.state = IF frames = <<>> THEN "answered" ELSE "reading"
  BY <1>1 DEF Resumed, RequestType
<1> HIDE DEF r
<1>4. /\ PlacesInv' /\ HistoryInv' /\ request' = r
      /\ UNCHANGED <<steady, ever>>
  BY <1>2, <1>3, ProceedTree DEF r
<1>5. FramesInv'
  BY <1>3, <1>4 DEF FramesInv
<1>6. TreeInv'
  BY <1>3, <1>4 DEF TreeInv
<1>7. PathInv'
  BY <1>3, <1>4 DEF PathInv
<1>8. AnswerIsRegular'
  <2>1. CASE frames = <<>>
    <3>1. ToSet(frames) = {}
      BY <2>1 DEF ToSet
    <3>2. request'.shown = shown /\ request'.route # "path" /\ request'.state = "answered"
      BY <1>3, <1>4, <2>1
    <3>3. \A p \in shown : GoesOn(p)'
      BY <1>4, <3>1, <3>2 DEF GoesOn
    <3>4. \A p \in shown : \A i \in 1..(Len(p) - 1) : <<p[i], p[i + 1]>> \in ever'
      BY <1>4 DEF Follows
    <3> QED
      BY <3>2, <3>3, <3>4 DEF AnswerIsRegular, GoesOn
  <2>2. CASE frames # <<>>
    <3>1. request'.state = "reading"
      BY <1>3, <1>4, <2>2
    <3> QED
      BY <3>1 DEF AnswerIsRegular
  <2> QED
    BY <2>1, <2>2
<1> QED
  BY <1>4, <1>5, <1>6, <1>7, <1>8 DEF RequestInv

LEMMA VisitTree ==
  ASSUME RequestInv, NEW o, Visit(o)
  PROVE  RequestInv'
<1> DEFINE rest == [Top EXCEPT !.todo = @ \ {o}]
           child == [path |-> Append(Top.path, o), todo |-> rows[o].refs]
           Fits(f) ==
             Follows(f.path, ever) /\ \A x \in f.todo : <<Last(f.path), x>> \in ever
<1>1. /\ request.state = "reading" /\ request.route # "path" /\ o \in Top.todo
      /\ Proceed(Visited(o)) /\ request \in RequestType /\ request.route \in Routes
  BY DEF Visit, RequestInv, PlacesInv, RequestType
<1>2. /\ request.stack \in Seq(FrameType) /\ request.stack # <<>>
      /\ request.shown \in SUBSET Seq(Objects)
      /\ \A p \in request.shown : Follows(p, ever)
      /\ \A f \in ToSet(request.stack) : Fits(f)
  BY <1>1 DEF RequestInv, FramesInv, RequestType
<1>3. /\ Below \in Seq(FrameType) /\ Top \in FrameType
      /\ ToSet(request.stack) = ToSet(Below) \cup {Top}
  BY <1>2, AmongStack
<1>4. rest \in FrameType /\ rest.path = Top.path /\ rest.todo = Top.todo \ {o}
  BY <1>3 DEF FrameType
<1>5. Fits(Top) /\ \A f \in ToSet(Below) : Fits(f)
  BY <1>2, <1>3
<1>6. Fits(rest)
  BY <1>4, <1>5
<1>7. /\ rows \in [Objects -> RowType] /\ ever \subseteq LinkType
      /\ steady \subseteq Links(request.route) /\ Links(request.route) \subseteq ever
  BY <1>1 DEF RequestInv, PlacesInv, TreeTypeOK, HistoryInv
<1>8. <<Last(Top.path), o>> \in ever
  BY <1>1, <1>5
<1>9. o \in Objects \cup {VApp}
  BY <1>7, <1>8 DEF LinkType
<1> HIDE DEF rest
<1>10. ToSet(Opened(rest)) \subseteq {rest} /\ Opened(rest) \in Seq(FrameType)
       /\ (rest.todo # {} => rest \in ToSet(Opened(rest)))
  BY <1>4, AmongOpened
<1>11. /\ Below \o Opened(rest) \in Seq(FrameType)
       /\ ToSet(Below \o Opened(rest)) = ToSet(Below) \cup ToSet(Opened(rest))
  <2>1. Below \in Seq(FrameType) /\ Opened(rest) \in Seq(FrameType)
    BY <1>3, <1>10
  <2> QED
    BY <2>1, AmongBoth
<1>12. \A p \in request.shown, l \in steady :
         l[1] = Last(p) /\ Valid(l[2]) =>
           \/ Append(p, l[2]) \in request.shown
           \/ \E f \in ToSet(Below) \cup {Top} : f.path = p /\ l[2] \in f.todo
  BY <1>1, <1>3 DEF RequestInv, TreeInv
<1>13. CASE ~Valid(o)
  <2> DEFINE frames == Below \o Opened(rest)
  <2>1. Visited(o) = Resumed(frames, request.shown)
    BY <1>13 DEF Visited, rest
  <2> HIDE DEF frames
  <2>2. /\ frames \in Seq(FrameType)
        /\ ToSet(frames) = ToSet(Below) \cup ToSet(Opened(rest))
        /\ \A f \in ToSet(frames) : Fits(f)
    BY <1>5, <1>6, <1>10, <1>11 DEF frames
  <2>3. ASSUME NEW p \in request.shown, NEW l \in steady, l[1] = Last(p), Valid(l[2])
        PROVE  \/ Append(p, l[2]) \in request.shown
               \/ \E f \in ToSet(frames) : f.path = p /\ l[2] \in f.todo
    <3>1. CASE Append(p, l[2]) \in request.shown
      BY <3>1
    <3>2. CASE \E f \in ToSet(Below) : f.path = p /\ l[2] \in f.todo
      BY <2>2, <3>2
    <3>3. CASE Top.path = p /\ l[2] \in Top.todo
      <4>1. l[2] \in rest.todo
        BY <1>4, <1>13, <2>3, <3>3
      <4> QED
        BY <1>4, <1>10, <2>2, <3>3, <4>1
    <3> QED
      BY <1>12, <2>3, <3>1, <3>2, <3>3
  <2>4. Proceed(Resumed(frames, request.shown))
    BY <1>1, <2>1
  <2> QED
    BY <1>1, <1>2, <2>2, <2>3, <2>4, ResumedTree
<1>14. CASE Valid(o) /\ ~Found(o)
  <2>1. Visited(o) = Fail
    BY <1>14 DEF Visited
  <2>2. o \in Objects
    BY <1>9, <1>14 DEF Valid
  <2> QED
    BY <1>1, <1>8, <1>14, <2>1, <2>2, FailTree
<1>15. CASE Valid(o) /\ Found(o)
  <2> DEFINE frames == Below \o Opened(rest) \o Opened(child)
             shown == request.shown \cup {child.path}
  <2>1. Visited(o) = Resumed(frames, shown)
    BY <1>15 DEF Visited, rest
  <2>2. o \in Objects
    BY <1>15 DEF Found
  <2>3. /\ child.path = Append(Top.path, o) /\ child.todo = rows[o].refs
    OBVIOUS
  <2>4. /\ child.path \in Seq(Objects) /\ Follows(child.path, ever) /\ Last(child.path) = o
    BY <1>3, <1>5, <1>8, <2>2, PathGoesOn DEF FrameType
  <2>5. child \in FrameType
    BY <1>7, <2>2, <2>4 DEF FrameType, RowType
  <2> HIDE DEF child
  <2>6. \A x : <<o, x>> \in Links(request.route) <=> x \in child.todo
    BY <1>1, <1>7, <2>2, <2>3, LinksFit
  <2>7. Fits(child)
    BY <1>7, <2>4, <2>6
  <2>8. /\ ToSet(Opened(child)) \subseteq {child} /\ Opened(child) \in Seq(FrameType)
        /\ child.todo # {} => child \in ToSet(Opened(child))
    BY <2>5, AmongOpened
  <2>9. /\ frames \in Seq(FrameType)
        /\ ToSet(frames) = ToSet(Below) \cup ToSet(Opened(rest)) \cup ToSet(Opened(child))
    <3> DEFINE below == Below \o Opened(rest)
    <3>1. below \in Seq(FrameType) /\ Opened(child) \in Seq(FrameType)
      BY <1>11, <2>8
    <3>2. ToSet(below) = ToSet(Below) \cup ToSet(Opened(rest))
      BY <1>11
    <3> HIDE DEF below
    <3>3. /\ below \o Opened(child) \in Seq(FrameType)
          /\ ToSet(below \o Opened(child)) = ToSet(below) \cup ToSet(Opened(child))
      BY <3>1, AmongBoth
    <3> QED
      BY <3>2, <3>3 DEF below
  <2>10. \A f \in ToSet(frames) : Fits(f)
    BY <1>5, <1>6, <1>10, <2>7, <2>8, <2>9
  <2>11. shown \in SUBSET Seq(Objects) /\ \A p \in shown : Follows(p, ever)
    BY <1>2, <2>4
  <2>12. ASSUME NEW p \in shown, NEW l \in steady, l[1] = Last(p), Valid(l[2])
         PROVE  \/ Append(p, l[2]) \in shown
                \/ \E f \in ToSet(frames) : f.path = p /\ l[2] \in f.todo
    <3>1. CASE p = child.path
      <4>1. l = <<l[1], l[2]>>
        BY <1>7 DEF LinkType
      <4>2. l[2] \in child.todo
        BY <1>7, <2>4, <2>6, <2>12, <3>1, <4>1
      <4> QED
        BY <2>8, <2>9, <3>1, <4>2
    <3>2. CASE p \in request.shown
      <4>1. CASE Append(p, l[2]) \in request.shown
        BY <4>1
      <4>2. CASE \E f \in ToSet(Below) : f.path = p /\ l[2] \in f.todo
        BY <2>9, <4>2
      <4>3. CASE Top.path = p /\ l[2] \in Top.todo /\ l[2] = o
        BY <2>3, <4>3
      <4>4. CASE Top.path = p /\ l[2] \in Top.todo /\ l[2] # o
        <5>1. l[2] \in rest.todo
          BY <1>4, <4>4
        <5> QED
          BY <1>4, <1>10, <2>9, <4>4, <5>1
      <4> QED
        BY <1>12, <2>12, <3>2, <4>1, <4>2, <4>3, <4>4
    <3> QED
      BY <2>12, <3>1, <3>2
  <2>13. Proceed(Resumed(frames, shown))
    BY <1>1, <2>1
  <2> HIDE DEF frames, shown
  <2> QED
    BY <1>1, <2>9, <2>10, <2>11, <2>12, <2>13, ResumedTree
<1> QED
  BY <1>13, <1>14, <1>15

LEMMA StepTree ==
  ASSUME RequestInv, [TreeNext]_treeVars
  PROVE  RequestInv'
<1>1. CASE UNCHANGED treeVars
  <2>1. UNCHANGED <<place, told, rows, request, steady, ever, vanished, missed, budget>>
    BY <1>1 DEF treeVars, mirror, history
  <2>2. PlacesInv'
    BY <2>1 DEF RequestInv, PlacesInv, TreeTypeOK
  <2>3. HistoryInv' /\ FramesInv' /\ TreeInv'
    BY <2>1 DEF RequestInv, HistoryInv, FramesInv, TreeInv, Links, Absent
  <2>4. PathInv' /\ AnswerIsRegular'
    BY <2>1 DEF RequestInv, PathInv, GoneAlong, Top, AnswerIsRegular, GoesOn
  <2> QED
    BY <2>2, <2>3, <2>4 DEF RequestInv
<1>2. CASE TreeNext
  BY <1>2, SourceChangesTree, UpdatesTree, AskTreeTree, AskPathTree, VisitTree, ClimbTree
     DEF TreeNext, Ask, Answering
<1> QED
  BY <1>1, <1>2

(* Every reachable state of the source, the mirror and a request of the    *)
(* tree or the path is well typed.                                         *)
THEOREM TreeTypeCorrect == TreeSpec => []TreeTypeOK
<1>1. RequestInv => TreeTypeOK
  BY DEF RequestInv, PlacesInv
<1> QED
  BY <1>1, InitTree, StepTree, PTL DEF TreeSpec

(* However many objects are moved, created and destroyed while a tree or a *)
(* path is read row by row, and whichever update sets are applied between  *)
(* the reads, the answer has all that was in place all the time and        *)
(* nothing that never was, and a request fails only of an object that was  *)
(* listed at one moment and without a row at another (walk, getRef, Path). *)
THEOREM AnswerIsAlwaysRegular == TreeSpec => []AnswerIsRegular
<1>1. RequestInv => AnswerIsRegular
  BY DEF RequestInv
<1> QED
  BY <1>1, InitTree, StepTree, PTL DEF TreeSpec

(***************************************************************************)
(*                         THE NETWORKING OF A HOST                        *)
(***************************************************************************)
(* Once a property is reported, all that the host has of it is in the row; *)
(* and nothing else, and each once, unless it has been reported again.     *)
HasAll(entries, has) == \A k \in DOMAIN has : \E i \in DOMAIN entries : entries[i] = <<k, has[k]>>

HasExactly(entries, has) ==
  /\ \A i \in DOMAIN entries : \E k \in DOMAIN has : entries[i] = <<k, has[k]>>
  /\ \A i, j \in DOMAIN entries : entries[i][1] = entries[j][1] => i = j

ReportedInv ==
  hostSession = "up" =>
    \A p \in Property \ pending :
      /\ HasAll(row[p], host[p])
      /\ p \notin modified => HasExactly(row[p], host[p])

(* The physical NICs of the row are in the order of their speeds.          *)
FastestFirst(entries) == \A i, j \in DOMAIN entries : i < j => entries[j][2] <= entries[i][2]

(* What a list of the row has, and how lists are ordered.                  *)
Entries(p) == Keys(p) \X Values(p)
Ranks == Nat \X Nat

HostInv ==
  /\ HostTypeOK /\ DOMAIN host = Property /\ DOMAIN row = Property
  /\ host = [p \in Property |-> host[p]]
  /\ ReportedInv /\ FastestFirst(row["pNIC"])

(* Of two ranks one is better, or they are the same; and better is a       *)
(* strict order.                                                           *)
LEMMA BetterOrders ==
  ASSUME NEW r \in Nat \X Nat, NEW s \in Nat \X Nat, NEW t \in Nat \X Nat
  PROVE  /\ ~Better(r, r)
         /\ Better(r, s) \/ Better(s, r) \/ r = s
         /\ Better(r, s) /\ Better(s, t) => Better(r, t)
         /\ ~(Better(r, s) /\ Better(s, r))
<1>1. PICK a \in Nat, b \in Nat : r = <<a, b>>
  OBVIOUS
<1>2. PICK c \in Nat, d \in Nat : s = <<c, d>>
  OBVIOUS
<1>3. PICK e \in Nat, f \in Nat : t = <<e, f>>
  OBVIOUS
<1> QED
  BY <1>1, <1>2, <1>3 DEF Better

(* A list is reordered: what it has at which position, and its ranks.      *)
Reordered(o, new, entries, len) ==
  /\ o \in Bijection(1..len, 1..len)
  /\ \A n \in 1..len : new[n] = entries[o[n]]

RanksFall(o, rank, len) ==
  \A a, b \in 1..len : a < b => ~Better(rank[o[b]], rank[o[a]])

(* A sorted list has what the list has, in the order of the ranks.         *)
LEMMA SortedRearranges ==
  ASSUME NEW len \in Nat, NEW T, NEW entries \in [1..len -> T],
         NEW rank \in [1..len -> Ranks]
  PROVE  /\ Sorted(entries, rank) \in [1..len -> T]
         /\ \E o : Reordered(o, Sorted(entries, rank), entries, len) /\ RanksFall(o, rank, len)
<1> DEFINE D == 1..len
           Ahead(j) == {i \in D : Better(rank[i], rank[j]) \/ (rank[i] = rank[j] /\ i < j)}
           position == [j \in D |-> Cardinality(Ahead(j)) + 1]
<1>0. rank \in [1..len -> Nat \X Nat]
  BY DEF Ranks
<1>1. D = 1..len /\ \A j \in D : j \in Nat
  OBVIOUS
<1>a. \A i, j : i \in Ahead(j) <=>
         i \in D /\ (Better(rank[i], rank[j]) \/ (rank[i] = rank[j] /\ i < j))
  OBVIOUS
<1>b. \A i, j, h \in D :
        /\ ~Better(rank[i], rank[i])
        /\ Better(rank[i], rank[j]) \/ Better(rank[j], rank[i]) \/ rank[i] = rank[j]
        /\ Better(rank[h], rank[i]) /\ Better(rank[i], rank[j]) => Better(rank[h], rank[j])
  <2> SUFFICES ASSUME NEW i \in D, NEW j \in D, NEW h \in D
               PROVE  /\ ~Better(rank[i], rank[i])
                      /\ Better(rank[i], rank[j]) \/ Better(rank[j], rank[i]) \/ rank[i] = rank[j]
                      /\ Better(rank[h], rank[i]) /\ Better(rank[i], rank[j])
                           => Better(rank[h], rank[j])
    OBVIOUS
  <2>1. rank[i] \in Nat \X Nat /\ rank[j] \in Nat \X Nat /\ rank[h] \in Nat \X Nat
    BY <1>0
  <2> QED
    BY <2>1, BetterOrders
<1>2. IsFiniteSet(D) /\ Cardinality(D) = len
  BY <1>1, FS_Interval
<1>3. ASSUME NEW j \in D
      PROVE  /\ IsFiniteSet(Ahead(j)) /\ Cardinality(Ahead(j)) \in Nat
             /\ j \notin Ahead(j) /\ Ahead(j) \subseteq D
  <2>1. Ahead(j) \subseteq D
    OBVIOUS
  <2>2. j \notin Ahead(j)
    BY <1>1, <1>b
  <2> QED
    BY <1>2, <2>1, <2>2, FS_Subset, FS_CardinalityType
<1>4. position \in [D -> D]
  <2> SUFFICES ASSUME NEW j \in D PROVE Cardinality(Ahead(j)) + 1 \in D
    OBVIOUS
  <2>1. Ahead(j) \subseteq D \ {j}
    BY <1>3
  <2>2. IsFiniteSet(D \ {j}) /\ Cardinality(D \ {j}) = len - 1
    BY <1>2, FS_RemoveElement
  <2>3. Cardinality(Ahead(j)) <= len - 1
    BY <2>1, <2>2, FS_Subset
  <2>4. Cardinality(Ahead(j)) \in Nat
    BY <1>3
  <2> HIDE DEF Ahead
  <2> QED
    BY <2>3, <2>4
<1> HIDE DEF Ahead
<1>5. ASSUME NEW i \in D, NEW j \in D, i \in Ahead(j)
      PROVE  position[i] < position[j]
  <2>1. Ahead(i) \cup {i} \subseteq Ahead(j)
    <3> SUFFICES ASSUME NEW h \in Ahead(i) PROVE h \in Ahead(j)
      BY <1>5
    <3>1. h \in D
      BY <1>a
    <3>2. h \in Nat /\ i \in Nat /\ j \in Nat
      BY <1>1, <3>1
    <3>3. Better(rank[h], rank[i]) \/ (rank[h] = rank[i] /\ h < i)
      BY <1>a
    <3>4. Better(rank[i], rank[j]) \/ (rank[i] = rank[j] /\ i < j)
      BY <1>5, <1>a
    <3>5. Better(rank[h], rank[j]) \/ (rank[h] = rank[j] /\ h < j)
      <4>1. CASE Better(rank[h], rank[i]) /\ Better(rank[i], rank[j])
        BY <1>b, <3>1, <4>1
      <4>2. CASE ~(Better(rank[h], rank[i]) /\ Better(rank[i], rank[j]))
        BY <3>2, <3>3, <3>4, <4>2
      <4> QED
        BY <4>1, <4>2
    <3> QED
      BY <1>a, <3>1, <3>5
  <2>2. Cardinality(Ahead(i) \cup {i}) = Cardinality(Ahead(i)) + 1
    BY <1>3, FS_AddElement
  <2>3. Cardinality(Ahead(i) \cup {i}) <= Cardinality(Ahead(j))
    BY <1>3, <2>1, FS_Subset
  <2> QED
    BY <1>3, <2>2, <2>3
<1>6. ASSUME NEW i \in D, NEW j \in D, i # j
      PROVE  i \in Ahead(j) \/ j \in Ahead(i)
  <2>1. i < j \/ j < i
    BY <1>1, <1>6
  <2>2. CASE rank[i] = rank[j]
    BY <1>a, <2>1, <2>2
  <2> QED
    BY <1>a, <1>b, <2>2
<1>7. \A i, j \in D : position[i] = position[j] => i = j
  <2> SUFFICES ASSUME NEW i \in D, NEW j \in D, position[i] = position[j], i # j PROVE FALSE
    OBVIOUS
  <2>1. position[i] < position[j] \/ position[j] < position[i]
    BY <1>5, <1>6
  <2>2. position[i] \in Int /\ position[j] \in Int
    BY <1>1, <1>4
  <2> QED
    BY <2>1, <2>2
<1> HIDE DEF position
<1>8. position \in Injection(D, D)
  BY <1>4, <1>7, Fun_IsInj
<1>9. position \in Surjection(D, D)
  BY <1>2, <1>8, FS_Injection
<1>10. \A n \in D : \E j \in D : position[j] = n
  BY <1>9 DEF Surjection
<1> DEFINE o == [n \in D |-> CHOOSE j \in D : Cardinality(Ahead(j)) = n - 1]
<1>11. ASSUME NEW n \in D PROVE o[n] \in D /\ position[o[n]] = n
  <2>1. PICK j \in D : position[j] = n
    BY <1>10
  <2>2. \A i \in D : position[i] = Cardinality(Ahead(i)) + 1 /\ Cardinality(Ahead(i)) \in Nat
    BY <1>3 DEF position
  <2>3. Cardinality(Ahead(j)) = n - 1
    BY <2>1, <2>2
  <2>4. o[n] = CHOOSE i \in D : Cardinality(Ahead(i)) = n - 1
    OBVIOUS
  <2>5. o[n] \in D /\ Cardinality(Ahead(o[n])) = n - 1
    BY <2>3, <2>4
  <2>6. position[o[n]] = n - 1 + 1 /\ n \in Nat
    BY <1>1, <2>2, <2>5
  <2> QED
    BY <2>5, <2>6
<1>12. Sorted(entries, rank) = [n \in D |-> entries[o[n]]]
  BY DEF Sorted, Ahead
<1> HIDE DEF o
<1>13. o \in [D -> D]
  <2>1. o = [n \in D |-> o[n]]
    BY DEF o
  <2> QED
    BY <1>11, <2>1
<1>14. \A a, b \in D : o[a] = o[b] => a = b
  BY <1>11
<1>15. \A j \in D : o[position[j]] = j
  BY <1>4, <1>7, <1>11
<1>16. o \in Bijection(D, D)
  BY <1>4, <1>13, <1>14, <1>15, Fun_IsInj, Fun_IsSurj DEF Bijection
<1>c. Sorted(entries, rank) \in [1..len -> T] /\ \A n \in 1..len : Sorted(entries, rank)[n] = entries[o[n]]
  BY <1>12, <1>13
<1>17. ASSUME NEW a \in D, NEW b \in D, a < b, Better(rank[o[b]], rank[o[a]])
       PROVE  FALSE
  <2>1. o[b] \in Ahead(o[a])
    BY <1>11, <1>17, <1>a
  <2>2. position[o[b]] < position[o[a]]
    BY <1>5, <1>11, <2>1
  <2> QED
    BY <1>1, <1>11, <1>17, <2>2
<1> QED
  BY <1>16, <1>17, <1>c DEF Reordered, RanksFall

LEMMA NetworksAre ==
  ASSUME NEW p \in Property, NEW f \in Networks(p)
  PROVE  /\ DOMAIN f \subseteq Keys(p) /\ IsFiniteSet(DOMAIN f)
         /\ f \in [DOMAIN f -> Values(p)]
<1>1. PICK keys \in SUBSET Keys(p) : f \in [keys -> Values(p)]
  BY DEF Networks
<1>2. IsFiniteSet(Keys(p))
  BY HostAssumption DEF Property, Keys
<1> QED
  BY <1>1, <1>2, FS_Subset

(* What is reported of a property is what the host has of it, each once.   *)
LEMMA ReportedAll ==
  ASSUME NEW p \in Property, host[p] \in Networks(p)
  PROVE  \E n \in Nat :
           /\ Reported(p) \in [1..n -> Keys(p) \X Values(p)]
           /\ \A k \in DOMAIN host[p] : \E i \in 1..n : Reported(p)[i] = <<k, host[p][k]>>
           /\ \A i \in 1..n : \E k \in DOMAIN host[p] : Reported(p)[i] = <<k, host[p][k]>>
           /\ \A i, j \in 1..n : Reported(p)[i][1] = Reported(p)[j][1] => i = j
<1> DEFINE K == DOMAIN host[p]
           S == {<<k, host[p][k]>> : k \in K}
           g == [k \in K |-> <<k, host[p][k]>>]
<1>1. K \subseteq Keys(p) /\ IsFiniteSet(K) /\ \A k \in K : host[p][k] \in Values(p)
  BY NetworksAre
<1>2. g \in Surjection(K, S)
  BY DEF Surjection
<1>3. IsFiniteSet(S)
  BY <1>1, <1>2, FS_Surjection
<1>4. Cardinality(S) \in Nat /\ ExistsBijection(1..Cardinality(S), S)
  BY <1>3, FS_CardinalityType
<1> DEFINE n == Cardinality(S)
<1>5. Reported(p) \in [1..n -> S] /\ IsInjective(Reported(p))
  <2>1. \E f \in [1..n -> S] : IsInjective(f)
    BY <1>4 DEF ExistsBijection, Bijection, Injection
  <2>2. Reported(p) = CHOOSE f \in [1..n -> S] : IsInjective(f)
    BY DEF Reported, SetToSeq
  <2> HIDE DEF S
  <2> QED
    BY <2>1, <2>2
<1>6. Reported(p) \in Injection(1..n, S)
  BY <1>5 DEF Injection
<1>7. Cardinality(1..n) = n
  BY <1>4, FS_Interval
<1>8. Reported(p) \in Surjection(1..n, S)
  BY <1>3, <1>6, <1>7, FS_Injection
<1>9. \A s \in S : \E i \in 1..n : Reported(p)[i] = s
  BY <1>8 DEF Surjection
<1>10. \A i \in 1..n : \E k \in K : Reported(p)[i] = <<k, host[p][k]>>
  BY <1>5
<1>11. \A k \in K : \E i \in 1..n : Reported(p)[i] = <<k, host[p][k]>>
  BY <1>9
<1>12. S \subseteq Keys(p) \X Values(p)
  BY <1>1
<1>13. \A i, j \in 1..n : Reported(p)[i] = Reported(p)[j] => i = j
  BY <1>5 DEF IsInjective
<1>14. \A i, j \in 1..n : Reported(p)[i][1] = Reported(p)[j][1] => i = j
  <2> SUFFICES ASSUME NEW i \in 1..n, NEW j \in 1..n, Reported(p)[i][1] = Reported(p)[j][1]
               PROVE  i = j
    OBVIOUS
  <2>1. PICK k \in K : Reported(p)[i] = <<k, host[p][k]>>
    BY <1>10
  <2>2. PICK h \in K : Reported(p)[j] = <<h, host[p][h]>>
    BY <1>10
  <2> HIDE DEF S, K
  <2> QED
    BY <1>13, <2>1, <2>2
<1>15. Reported(p) \in [1..n -> Keys(p) \X Values(p)]
  BY <1>5, <1>12
<1> HIDE DEF S
<1> QED
  BY <1>4, <1>10, <1>11, <1>14, <1>15

(* A list with its new order has the same entries.                         *)
LEMMA InOrderRearranges ==
  ASSUME NEW p \in Property, NEW len \in Nat, NEW entries \in [1..len -> Entries(p)]
  PROVE  /\ InOrder(p, entries) \in [1..len -> Entries(p)]
         /\ \E o : Reordered(o, InOrder(p, entries), entries, len)
         /\ p = "pNIC" => FastestFirst(InOrder(p, entries))
<1>0. DOMAIN entries = 1..len
  OBVIOUS
<1>1. CASE p = "pNIC"
  <2> DEFINE rank == [i \in 1..len |-> <<entries[i][2], 0>>]
  <2>1. Values(p) \subseteq Nat
    BY <1>1, HostAssumption DEF Values
  <2>2. \A i \in 1..len : entries[i][2] \in Nat
    BY <2>1 DEF Entries
  <2>3. rank \in [1..len -> Ranks]
    BY <2>2 DEF Ranks
  <2>a. /\ \A i \in 1..len : rank[i] = <<entries[i][2], 0>>
        /\ rank = [i \in DOMAIN entries |-> <<entries[i][2], 0>>]
    BY <1>0
  <2> HIDE DEF rank
  <2>4. /\ Sorted(entries, rank) \in [1..len -> Entries(p)]
        /\ \E o : Reordered(o, Sorted(entries, rank), entries, len) /\ RanksFall(o, rank, len)
    BY <1>0, <2>3, SortedRearranges
  <2>b. PICK o : Reordered(o, Sorted(entries, rank), entries, len) /\ RanksFall(o, rank, len)
    BY <2>4
  <2>5. InOrder(p, entries) = Sorted(entries, rank)
    BY <1>1, <2>a DEF InOrder
  <2>6. \A a \in 1..len : o[a] \in 1..len
    BY <2>b DEF Reordered, Bijection, Injection
  <2>7. ASSUME NEW a \in 1..len, NEW b \in 1..len, a < b
        PROVE  Sorted(entries, rank)[b][2] <= Sorted(entries, rank)[a][2]
    <3>1. ~Better(<<entries[o[b]][2], 0>>, <<entries[o[a]][2], 0>>)
      BY <2>b, <2>6, <2>7, <2>a DEF RanksFall
    <3>2. entries[o[b]][2] <= entries[o[a]][2]
      BY <2>2, <2>6, <3>1 DEF Better
    <3> QED
      BY <2>b, <3>2 DEF Reordered
  <2>8. FastestFirst(Sorted(entries, rank))
    BY <2>4, <2>7 DEF FastestFirst
  <2> QED
    BY <2>4, <2>5, <2>8
<1>2. CASE p = "vNIC"
  <2> DEFINE rank == [i \in 1..len |-> <<entries[i][2].mtu, 0>>]
  <2>1. \A i \in 1..len : entries[i][2].mtu \in Nat
    <3>1. \A i \in 1..len : entries[i][2] \in Values(p)
      BY DEF Entries
    <3>2. \A v \in Values(p) : v.mtu \in MTUs
      BY <1>2 DEF Values
    <3> QED
      BY <3>1, <3>2, HostAssumption
  <2>2. rank \in [1..len -> Ranks]
    BY <2>1 DEF Ranks
  <2>a. rank = [i \in DOMAIN entries |-> <<entries[i][2].mtu, 0>>]
    BY <1>0
  <2> HIDE DEF rank
  <2>3. /\ Sorted(entries, rank) \in [1..len -> Entries(p)]
        /\ \E o : Reordered(o, Sorted(entries, rank), entries, len)
    BY <1>0, <2>2, SortedRearranges
  <2>4. InOrder(p, entries) = Sorted(entries, rank)
    BY <1>2, <2>a DEF InOrder
  <2> QED
    BY <1>2, <2>3, <2>4
<1>3. CASE p \notin {"pNIC", "vNIC"}
  <2> DEFINE o == [n \in 1..len |-> n]
  <2>1. InOrder(p, entries) = entries
    BY <1>3 DEF InOrder
  <2>2. o \in Bijection(1..len, 1..len)
    BY DEF Bijection, Injection, Surjection, IsInjective
  <2>3. \A n \in 1..len : entries[n] = entries[o[n]]
    OBVIOUS
  <2> QED
    BY <1>3, <2>1, <2>2, <2>3 DEF Reordered
<1> QED
  BY <1>1, <1>2, <1>3

(* After a report the list of a property has all that the host has of it,  *)
(* and nothing but that, each once, if it was empty.                       *)
LEMMA AfterReport ==
  ASSUME NEW p \in Property, host[p] \in Networks(p), NEW old \in Seq(Entries(p)),
         NEW new, new = InOrder(p, old \o Reported(p))
  PROVE  /\ new \in Seq(Entries(p))
         /\ HasAll(new, host[p])
         /\ old = <<>> => HasExactly(new, host[p])
         /\ p = "pNIC" => FastestFirst(new)
<1> DEFINE R == Reported(p)
           entries == old \o R
<1>1. PICK n \in Nat :
        /\ R \in [1..n -> Entries(p)]
        /\ \A k \in DOMAIN host[p] : \E i \in 1..n : R[i] = <<k, host[p][k]>>
        /\ \A i \in 1..n : \E k \in DOMAIN host[p] : R[i] = <<k, host[p][k]>>
        /\ \A i, j \in 1..n : R[i][1] = R[j][1] => i = j
  BY ReportedAll DEF Entries
<1> HIDE DEF R
<1>2. R \in Seq(Entries(p)) /\ Len(R) = n
  BY <1>1
<1> DEFINE m == Len(old)
           len == m + n
<1>3. m \in Nat /\ len \in Nat /\ old \in [1..m -> Entries(p)]
  BY <1>1
<1>4. /\ entries \in [1..len -> Entries(p)]
      /\ \A i \in 1..n : entries[m + i] = R[i] /\ m + i \in 1..len
      /\ m = 0 => entries = R
  <2>0. \A T : \A s, t \in Seq(T) : s \o t \in Seq(T) /\ Len(s \o t) = Len(s) + Len(t)
    OBVIOUS
  <2>1. entries \in Seq(Entries(p)) /\ Len(entries) = len
    BY <1>2, <2>0
  <2>2. \A i \in 1..n : entries[m + i] = R[i] /\ m + i \in 1..len
    BY <1>2, <1>3
  <2>3. m = 0 => entries = R
    BY <1>2
  <2> HIDE DEF entries, len, m
  <2>4. entries \in [1..len -> Entries(p)]
    BY <2>1
  <2> QED
    BY <2>2, <2>3, <2>4
<1> HIDE DEF entries, len, m
<1>a. new = InOrder(p, entries)
  BY DEF entries, R
<1>b. /\ new \in [1..len -> Entries(p)]
      /\ \E o : Reordered(o, new, entries, len)
      /\ p = "pNIC" => FastestFirst(new)
  BY <1>3, <1>4, <1>a, InOrderRearranges
<1>5. PICK o : Reordered(o, new, entries, len)
  BY <1>b
<1>6. /\ \A i \in 1..len : o[i] \in 1..len
      /\ \A i, j \in 1..len : o[i] = o[j] => i = j
      /\ \A i \in 1..len : \E j \in 1..len : o[j] = i
  <2>1. o \in [1..len -> 1..len] /\ \A i, j \in 1..len : o[i] = o[j] => i = j
    BY <1>5, Fun_BijectionProperties DEF Reordered
  <2>2. \A i \in 1..len : \E j \in 1..len : o[j] = i
    BY <1>5 DEF Reordered, Bijection, Surjection
  <2> QED
    BY <2>1, <2>2
<1>8. new \in Seq(Entries(p)) /\ DOMAIN new = 1..len
  BY <1>3, <1>b
<1>9. ASSUME NEW k \in DOMAIN host[p] PROVE \E i \in DOMAIN new : new[i] = <<k, host[p][k]>>
  <2>1. PICK i \in 1..n : R[i] = <<k, host[p][k]>>
    BY <1>1
  <2>2. PICK j \in 1..len : o[j] = m + i
    BY <1>4, <1>6
  <2> QED
    BY <1>4, <1>5, <1>8, <2>1, <2>2 DEF Reordered
<1>10. ASSUME old = <<>>
       PROVE  /\ \A i \in DOMAIN new : \E k \in DOMAIN host[p] : new[i] = <<k, host[p][k]>>
              /\ \A i, j \in DOMAIN new : new[i][1] = new[j][1] => i = j
  <2>1. m = 0 /\ entries = R /\ len = n
    BY <1>4, <1>10, <1>1 DEF m, len
  <2>2. \A i \in 1..n : new[i] = R[o[i]] /\ o[i] \in 1..n
    BY <1>5, <1>6, <2>1 DEF Reordered
  <2>3. \A i \in 1..n : \E k \in DOMAIN host[p] : new[i] = <<k, host[p][k]>>
    BY <1>1, <2>2
  <2>4. ASSUME NEW i \in 1..n, NEW j \in 1..n, new[i][1] = new[j][1] PROVE i = j
    <3>1. R[o[i]][1] = R[o[j]][1]
      BY <2>2, <2>4
    <3>2. o[i] = o[j]
      BY <1>1, <2>2, <3>1
    <3> QED
      BY <1>6, <2>1, <3>2
  <2> QED
    BY <1>8, <2>1, <2>3, <2>4
<1> QED
  BY <1>b, <1>8, <1>9, <1>10 DEF HasAll, HasExactly

LEMMA InitHost == HostInit => HostInv
<1> SUFFICES ASSUME HostInit PROVE HostInv
  OBVIOUS
<1>1. PICK switches \in Networks("vSwitch"), groups \in Networks("portGroup"),
           pnics \in Networks("pNIC"), vnics \in Networks("vNIC") :
        host = [vSwitch |-> switches, portGroup |-> groups, pNIC |-> pnics, vNIC |-> vnics]
  BY DEF HostInit
<1>2. DOMAIN host = Property /\ host = [p \in Property |-> host[p]]
  BY <1>1 DEF Property
<1>3. \A p \in Property : host[p] \in Networks(p)
  BY <1>1 DEF Property
<1>4. DOMAIN row = Property /\ \A p \in Property : row[p] = <<>>
  BY DEF HostInit, NoLists
<1>5. \A p \in Property : row[p] \in Seq(Keys(p) \X Values(p))
  <2>1. \A T : <<>> \in Seq(T)
    OBVIOUS
  <2> QED
    BY <1>4, <2>1
<1>6. FastestFirst(row["pNIC"])
  BY <1>4 DEF FastestFirst, Property
<1> QED
  BY <1>2, <1>3, <1>4, <1>5, <1>6, HostAssumption DEF HostInit, HostInv, HostTypeOK, ReportedInv

LEMMA HostChangesHost ==
  ASSUME HostInv, NEW q \in Property, HostChanges(q)
  PROVE  HostInv'
<1>1. PICK f \in Networks(q) : host' = [host EXCEPT ![q] = f]
  BY DEF HostChanges
<1>2. /\ DOMAIN host' = Property /\ host' = [p \in Property |-> host'[p]]
      /\ \A p \in Property : host'[p] = IF p = q THEN f ELSE host[p]
  BY <1>1 DEF HostInv
<1>3. UNCHANGED <<row, modified, hostSession>> /\ pending' = pending \cup {q}
  BY DEF HostChanges
<1>4. changes' \in 0..MaxHostChanges
  BY HostAssumption DEF HostChanges, HostInv, HostTypeOK
<1>5. HostTypeOK'
  BY <1>2, <1>3, <1>4 DEF HostInv, HostTypeOK
<1>6. ReportedInv'
  BY <1>2, <1>3 DEF HostInv, ReportedInv
<1> QED
  BY <1>2, <1>3, <1>5, <1>6 DEF HostInv

(* A row that takes the report of some properties.                         *)
LEMMA AppliedLists ==
  ASSUME \A p \in Property : host[p] \in Networks(p),
         NEW lists, \A p \in Property : lists[p] \in Seq(Entries(p)), FastestFirst(lists["pNIC"]),
         NEW S
  PROVE  /\ DOMAIN Applied(lists, S) = Property
         /\ \A p \in Property : Applied(lists, S)[p] \in Seq(Entries(p))
         /\ FastestFirst(Applied(lists, S)["pNIC"])
         /\ \A p \in Property \ S : Applied(lists, S)[p] = lists[p]
         /\ \A p \in S \cap Property :
              /\ HasAll(Applied(lists, S)[p], host[p])
              /\ lists[p] = <<>> => HasExactly(Applied(lists, S)[p], host[p])
<1>1. /\ DOMAIN Applied(lists, S) = Property
      /\ \A p \in Property \ S : Applied(lists, S)[p] = lists[p]
      /\ \A p \in S \cap Property : Applied(lists, S)[p] = InOrder(p, lists[p] \o Reported(p))
  BY DEF Applied
<1> HIDE DEF Applied
<1>2. ASSUME NEW p \in S \cap Property
      PROVE  LET new == Applied(lists, S)[p] IN
             /\ new \in Seq(Entries(p))
             /\ HasAll(new, host[p])
             /\ lists[p] = <<>> => HasExactly(new, host[p])
             /\ p = "pNIC" => FastestFirst(new)
  BY <1>1, AfterReport
<1>3. \A p \in Property : Applied(lists, S)[p] \in Seq(Entries(p))
  BY <1>1, <1>2
<1>4. FastestFirst(Applied(lists, S)["pNIC"])
  <2>1. "pNIC" \in Property
    BY DEF Property
  <2>2. CASE "pNIC" \in S
    BY <1>2, <2>1, <2>2
  <2>3. CASE "pNIC" \notin S
    BY <1>1, <2>1, <2>3
  <2> QED
    BY <2>2, <2>3
<1> QED
  BY <1>1, <1>2, <1>3, <1>4

LEMMA EnteredHost ==
  ASSUME HostInv, Entered
  PROVE  HostInv'
<1>1. \A p \in Property : host[p] \in Networks(p)
  BY DEF HostInv, HostTypeOK
<1>2. \A p \in Property : NoLists[p] = <<>> /\ NoLists[p] \in Seq(Entries(p))
  BY DEF NoLists
<1>3. FastestFirst(NoLists["pNIC"])
  BY <1>2 DEF FastestFirst, Property
<1>4. /\ DOMAIN row' = Property
      /\ \A p \in Property : row'[p] \in Seq(Entries(p))
      /\ FastestFirst(row'["pNIC"])
      /\ \A p \in Property :
           HasAll(row'[p], host[p]) /\ HasExactly(row'[p], host[p])
  BY <1>1, <1>2, <1>3, AppliedLists DEF Entered
<1>5. UNCHANGED <<host, changes>> /\ modified' = {} /\ pending' = {} /\ hostSession' = "up"
  BY DEF Entered
<1>6. HostTypeOK'
  BY <1>1, <1>4, <1>5 DEF HostInv, HostTypeOK, Entries
<1>7. ReportedInv'
  BY <1>4, <1>5 DEF ReportedInv
<1> QED
  BY <1>4, <1>5, <1>6, <1>7 DEF HostInv

LEMMA ModifiedHost ==
  ASSUME HostInv, Modified
  PROVE  HostInv'
<1>1. \A p \in Property : host[p] \in Networks(p)
  BY DEF HostInv, HostTypeOK
<1>2. \A p \in Property : row[p] \in Seq(Entries(p))
  BY DEF HostInv, HostTypeOK, Entries
<1>3. /\ DOMAIN row' = Property
      /\ \A p \in Property : row'[p] \in Seq(Entries(p))
      /\ FastestFirst(row'["pNIC"])
      /\ \A p \in Property \ pending : row'[p] = row[p]
      /\ \A p \in pending \cap Property : HasAll(row'[p], host[p])
  <2>1. row' = Applied(row, pending) /\ FastestFirst(row["pNIC"])
    BY DEF Modified, HostInv
  <2> QED
    BY <1>1, <1>2, <2>1, AppliedLists
<1>4. /\ UNCHANGED <<host, hostSession, changes>> /\ hostSession = "up"
      /\ modified' = modified \cup pending /\ pending' = {}
  BY DEF Modified
<1>5. HostTypeOK'
  BY <1>1, <1>3, <1>4 DEF HostInv, HostTypeOK, Entries
<1>6. ReportedInv'
  <2> SUFFICES ASSUME NEW p \in Property
               PROVE  /\ HasAll(row'[p], host[p])
                      /\ p \notin modified' => HasExactly(row'[p], host[p])
    BY <1>4 DEF ReportedInv
  <2>1. CASE p \in pending
    BY <1>3, <1>4, <2>1
  <2>2. CASE p \notin pending
    BY <1>3, <1>4, <2>2 DEF HostInv, ReportedInv
  <2> QED
    BY <2>1, <2>2
<1> QED
  BY <1>3, <1>4, <1>5, <1>6 DEF HostInv

LEMMA StepHost ==
  ASSUME HostInv, [HostNext]_hostVars
  PROVE  HostInv'
<1>1. CASE UNCHANGED hostVars
  <2> USE <1>1 DEF hostVars
  <2>1. HostTypeOK'
    BY DEF HostInv, HostTypeOK
  <2>2. ReportedInv'
    BY DEF HostInv, ReportedInv
  <2> QED
    BY <2>1, <2>2 DEF HostInv
<1>2. CASE Reconnected
  BY <1>2, HostAssumption DEF Reconnected, HostInv, HostTypeOK, ReportedInv
<1> QED
  BY <1>1, <1>2, HostChangesHost, EnteredHost, ModifiedHost DEF HostNext

(* Every reachable state of a host, its row and what is reported of it is  *)
(* well typed, for any networking of the host.                             *)
THEOREM HostTypeCorrect == HostSpec => []HostTypeOK
<1>1. HostInv => HostTypeOK
  BY DEF HostInv
<1> QED
  BY <1>1, InitHost, StepHost, PTL DEF HostSpec

LEMMA LeastIsIn ==
  ASSUME NEW T \in SUBSET Nat, T # {}
  PROVE  Min(T) \in T
<1> DEFINE R == {ss \in Nat \X Nat : ss[1] < ss[2]}
<1>1. IsWellFoundedOn(R, Nat)
  BY NatLessThanWellFounded DEF OpToRel
<1>2. PICK x \in T : \A y \in T : ~(<<y, x>> \in R)
  BY <1>1, WFMin
<1>3. \A y \in T : ~(y < x) /\ x \in Nat /\ y \in Nat
  BY <1>2
<1>4. \A y \in T : x <= y
  BY <1>3
<1> QED
  BY <1>4 DEF Min

(* What is found of a key is an entry of it.                               *)
LEMMA FoundInRow ==
  ASSUME NEW p, NEW T, row[p] \in Seq(T), NEW k
  PROVE  /\ Known(p, k) <=> \E i \in DOMAIN row[p] : row[p][i][1] = k
         /\ Known(p, k) => FoundAt(p, k) \in DOMAIN row[p] /\ row[p][FoundAt(p, k)][1] = k
<1> DEFINE I == {i \in 1..Len(row[p]) : row[p][i][1] = k}
<1>1. FoundAt(p, k) = IF I # {} THEN Min(I) ELSE 0
  BY DEF FoundAt, SelectInSeq
<1>2. I \subseteq Nat /\ 0 \notin I
  OBVIOUS
<1>3. I # {} => Min(I) \in I
  BY <1>2, LeastIsIn
<1>4. DOMAIN row[p] = 1..Len(row[p])
  OBVIOUS
<1> QED
  BY <1>1, <1>2, <1>3, <1>4 DEF Known

LEMMA FoundIsReported ==
  ASSUME NEW p, NEW T, row[p] \in Seq(T), HasAll(row[p], host[p]), HasExactly(row[p], host[p]), NEW k
  PROVE  /\ Known(p, k) <=> k \in DOMAIN host[p]
         /\ Known(p, k) => ValueOf(p, k) = host[p][k]
<1>1. Known(p, k) => FoundAt(p, k) \in DOMAIN row[p] /\ row[p][FoundAt(p, k)][1] = k
  BY FoundInRow
<1>2. Known(p, k) => \E h \in DOMAIN host[p] : row[p][FoundAt(p, k)] = <<h, host[p][h]>>
  BY <1>1 DEF HasExactly
<1>3. Known(p, k) => k \in DOMAIN host[p] /\ ValueOf(p, k) = host[p][k]
  BY <1>1, <1>2 DEF ValueOf
<1>4. k \in DOMAIN host[p] => \E i \in DOMAIN row[p] : row[p][i][1] = k
  <2> SUFFICES ASSUME k \in DOMAIN host[p] PROVE \E i \in DOMAIN row[p] : row[p][i][1] = k
    OBVIOUS
  <2>1. PICK i \in DOMAIN row[p] : row[p][i] = <<k, host[p][k]>>
    BY DEF HasAll
  <2>2. row[p][i][1] = k
    BY <2>1
  <2> QED
    BY <2>2
<1> QED
  BY <1>3, <1>4, FoundInRow

(* The first uplink that is found is one of the uplinks.                   *)
LEMMA FirstKnown ==
  ASSUME NEW T, NEW uplinks \in Seq(T),
         NEW first, first = SelectInSeq(uplinks, LAMBDA k : Known("pNIC", k))
  PROVE  LET found == {i \in 1..Len(uplinks) : Known("pNIC", uplinks[i])} IN
         /\ first # 0 <=> found # {}
         /\ first # 0 => first \in found /\ first = Min(found)
<1> DEFINE found == {i \in 1..Len(uplinks) : Known("pNIC", uplinks[i])}
<1>1. first = IF found # {} THEN Min(found) ELSE 0
  BY DEF SelectInSeq
<1>2. found \subseteq Nat /\ 0 \notin found
  OBVIOUS
<1>3. found # {} => Min(found) \in found
  BY <1>2, LeastIsIn
<1> QED
  BY <1>1, <1>2, <1>3

LEMMA RowTypes ==
  ASSUME HostInv
  PROVE  /\ \A p \in Property : row[p] \in Seq(Entries(p))
         /\ \A k : Known("pNIC", k) => ValueOf("pNIC", k) \in Nat
         /\ \A k : Known("vSwitch", k) => ValueOf("vSwitch", k) \in Seq(PNICs)
<1>1. \A p \in Property : row[p] \in Seq(Entries(p))
  BY DEF HostInv, HostTypeOK, Entries
<1>2. ASSUME NEW p \in Property, NEW k, Known(p, k) PROVE ValueOf(p, k) \in Values(p)
  <2>1. FoundAt(p, k) \in DOMAIN row[p]
    BY <1>1, <1>2, FoundInRow
  <2>2. row[p][FoundAt(p, k)] \in Entries(p)
    BY <1>1, <2>1
  <2> QED
    BY <2>2 DEF ValueOf, Entries
<1>3. Values("pNIC") \subseteq Nat /\ Values("vSwitch") \subseteq Seq(PNICs)
  BY HostAssumption DEF Values
<1>4. "pNIC" \in Property /\ "vSwitch" \in Property
  BY DEF Property
<1> QED
  BY <1>1, <1>2, <1>3, <1>4

LEMMA SpeedOfType ==
  ASSUME HostInv, NEW group
  PROVE  SpeedOf(group) \in Nat
<1> DEFINE switch == ValueOf("portGroup", group)
           uplinks == ValueOf("vSwitch", switch)
           first == SelectInSeq(uplinks, LAMBDA k : Known("pNIC", k))
<1>1. SpeedOf(group) = IF Known("vSwitch", switch) /\ first # 0
                       THEN ValueOf("pNIC", uplinks[first]) ELSE NoSpeed
  BY DEF SpeedOf
<1>2. CASE Known("vSwitch", switch) /\ first # 0
  <2>1. uplinks \in Seq(PNICs)
    BY <1>2, RowTypes
  <2>2. first \in {i \in 1..Len(uplinks) : Known("pNIC", uplinks[i])}
    BY <1>2, <2>1, FirstKnown
  <2>3. ValueOf("pNIC", uplinks[first]) \in Nat
    BY <2>2, RowTypes
  <2> QED
    BY <1>1, <1>2, <2>3
<1> QED
  BY <1>1, <1>2 DEF NoSpeed

(* The speed of a port group is what the host's networking says, when      *)
(* nothing that it depends on has been reported again.                     *)
LEMMA SpeedOfAgrees ==
  ASSUME HostInv, UpToDate, modified \subseteq {"vNIC"}, NEW group \in PortGroups
  PROVE  IF Known("portGroup", group) THEN SpeedOf(group) = HostSpeed(group)
         ELSE HostSpeed(group) = NoSpeed
<1>1. \A p \in {"portGroup", "vSwitch", "pNIC"} :
        \A k : /\ Known(p, k) <=> k \in DOMAIN host[p]
               /\ Known(p, k) => ValueOf(p, k) = host[p][k]
  <2> SUFFICES ASSUME NEW p \in {"portGroup", "vSwitch", "pNIC"}, NEW k
               PROVE  /\ Known(p, k) <=> k \in DOMAIN host[p]
                      /\ Known(p, k) => ValueOf(p, k) = host[p][k]
    OBVIOUS
  <2>1. p \in Property \ pending /\ p \notin modified
    BY DEF Property, UpToDate
  <2>2. HasAll(row[p], host[p]) /\ HasExactly(row[p], host[p])
    BY <2>1 DEF HostInv, ReportedInv, UpToDate
  <2>3. row[p] \in Seq(Entries(p))
    BY <2>1, RowTypes
  <2> QED
    BY <2>2, <2>3, FoundIsReported
<1>2. group \notin DPortGroups
  BY HostAssumption
<1> DEFINE switch == host["portGroup"][group]
           uplinks == host["vSwitch"][switch]
           found == {i \in 1..Len(uplinks) : uplinks[i] \in DOMAIN host["pNIC"]}
<1>3. HostSpeed(group) =
        IF group \in DOMAIN host["portGroup"] /\ switch \in DOMAIN host["vSwitch"]
        THEN IF found = {} THEN NoSpeed ELSE host["pNIC"][uplinks[Min(found)]]
        ELSE NoSpeed
  BY <1>2 DEF HostSpeed, Min
<1>4. CASE ~Known("portGroup", group)
  BY <1>1, <1>3, <1>4
<1>5. CASE Known("portGroup", group) /\ ~Known("vSwitch", switch)
  <2>1. ValueOf("portGroup", group) = switch
    BY <1>1, <1>5
  <2>2. SpeedOf(group) = NoSpeed
    BY <1>5, <2>1 DEF SpeedOf
  <2> QED
    BY <1>1, <1>3, <1>5, <2>2
<1>6. CASE Known("portGroup", group) /\ Known("vSwitch", switch)
  <2>1. ValueOf("portGroup", group) = switch /\ ValueOf("vSwitch", switch) = uplinks
    BY <1>1, <1>6
  <2>2. uplinks \in Seq(PNICs)
    BY <1>6, <2>1, RowTypes
  <2> DEFINE first == SelectInSeq(uplinks, LAMBDA k : Known("pNIC", k))
  <2>3. {i \in 1..Len(uplinks) : Known("pNIC", uplinks[i])} = found
    BY <1>1
  <2>4. /\ first # 0 <=> found # {}
        /\ first # 0 => first \in found /\ first = Min(found)
    BY <2>2, <2>3, FirstKnown
  <2>5. SpeedOf(group) = IF first # 0 THEN ValueOf("pNIC", uplinks[first]) ELSE NoSpeed
    BY <1>6, <2>1 DEF SpeedOf
  <2>6. first # 0 => ValueOf("pNIC", uplinks[first]) = host["pNIC"][uplinks[Min(found)]]
    BY <1>1, <2>4
  <2>7. group \in DOMAIN host["portGroup"] /\ switch \in DOMAIN host["vSwitch"]
    BY <1>1, <1>6
  <2> HIDE DEF first, found, uplinks, switch
  <2> QED
    BY <1>3, <1>6, <2>4, <2>5, <2>6, <2>7
<1> QED
  BY <1>4, <1>5, <1>6

(* And so of a distributed port group: the first physical NIC of the row   *)
(* is a fastest one of the host.                                           *)
LEMMA DSpeedAgrees ==
  ASSUME HostInv, UpToDate, modified \subseteq {"vNIC"}, NEW group \in DPortGroups
  PROVE  HostSpeed(group) = IF group \in Mirrored THEN DSpeed ELSE NoSpeed
<1> DEFINE speeds == {host["pNIC"][k] : k \in DOMAIN host["pNIC"]}
           entries == row["pNIC"]
<1>1. HostSpeed(group) =
        IF group \in Mirrored /\ speeds # {} THEN CHOOSE s \in speeds : \A t \in speeds : t <= s
        ELSE NoSpeed
  BY DEF HostSpeed
<1>2. /\ HasAll(entries, host["pNIC"]) /\ HasExactly(entries, host["pNIC"]) /\ FastestFirst(entries)
      /\ entries \in Seq(Entries("pNIC"))
  <2>1. "pNIC" \in Property \ pending /\ "pNIC" \notin modified
    BY DEF Property, UpToDate
  <2> QED
    BY <2>1, RowTypes DEF HostInv, ReportedInv, UpToDate
<1>3. speeds \subseteq Nat
  <2>1. Values("pNIC") \subseteq Nat
    BY HostAssumption DEF Values
  <2>2. host["pNIC"] \in Networks("pNIC") /\ "pNIC" \in Property
    BY DEF Property, HostInv, HostTypeOK
  <2>3. \A k \in DOMAIN host["pNIC"] : host["pNIC"][k] \in Values("pNIC")
    BY <2>2, NetworksAre
  <2> QED
    BY <2>1, <2>3
<1>4. CASE entries = <<>>
  <2>1. speeds = {}
    BY <1>2, <1>4 DEF HasAll
  <2> QED
    BY <1>1, <1>4, <2>1 DEF DSpeed
<1>5. CASE entries # <<>>
  <2>1. 1 \in DOMAIN entries /\ DSpeed = entries[1][2] /\ \A i \in DOMAIN entries : i = 1 \/ 1 < i
    BY <1>2, <1>5 DEF DSpeed
  <2>2. PICK h \in DOMAIN host["pNIC"] : entries[1] = <<h, host["pNIC"][h]>>
    BY <1>2, <2>1 DEF HasExactly
  <2>3. entries[1][2] \in speeds
    BY <2>2
  <2>4. ASSUME NEW t \in speeds PROVE t <= entries[1][2]
    <3>1. PICK k \in DOMAIN host["pNIC"] : t = host["pNIC"][k]
      OBVIOUS
    <3>2. PICK i \in DOMAIN entries : entries[i] = <<k, host["pNIC"][k]>>
      BY <1>2 DEF HasAll
    <3>3. t = entries[i][2]
      BY <3>1, <3>2
    <3> HIDE DEF entries, speeds
    <3>4. CASE i = 1
      BY <1>3, <2>3, <3>3, <3>4
    <3>5. CASE 1 < i
      BY <1>2, <2>1, <3>2, <3>3, <3>5 DEF FastestFirst
    <3> QED
      BY <2>1, <3>2, <3>4, <3>5
  <2> HIDE DEF speeds
  <2>5. (CHOOSE s \in speeds : \A t \in speeds : t <= s) = entries[1][2]
    <3> DEFINE top == entries[1][2]
    <3>2. top \in speeds /\ \A t \in speeds : t <= top
      BY <2>3, <2>4
    <3> HIDE DEF top
    <3>1. \A s \in speeds : (\A t \in speeds : t <= s) => s = top
      BY <1>3, <3>2
    <3>3. (CHOOSE s \in speeds : \A t \in speeds : t <= s) = top
      BY <3>1, <3>2
    <3> QED
      BY <3>3 DEF top
  <2> QED
    BY <1>1, <2>1, <2>3, <2>5
<1> QED
  BY <1>4, <1>5

LEMMA AdapterIs ==
  ASSUME HostInv, NEW e \in Entries("vNIC")
  PROVE  /\ Adapter(e).nic = e[1] /\ Adapter(e).mtu = e[2].mtu
         /\ Rank(Adapter(e)) \in Nat \X Nat
         /\ UpToDate /\ modified \subseteq {"vNIC"} => Adapter(e).speed = HostSpeed(e[2].group)
<1> DEFINE group == e[2].group
<1>1. e[2].mtu \in Nat /\ group \in PortGroups \cup DPortGroups
  <2>1. e[2] \in [group : PortGroups \cup DPortGroups, mtu : MTUs]
    BY DEF Entries, Values
  <2> QED
    BY <2>1, HostAssumption
<1>2. DSpeed \in Nat
  <2>1. row["pNIC"] \in Seq(Entries("pNIC"))
    BY RowTypes DEF Property
  <2>2. Values("pNIC") \subseteq Nat
    BY HostAssumption DEF Values
  <2>3. CASE row["pNIC"] # <<>>
    <3>1. row["pNIC"][1] \in Entries("pNIC")
      BY <2>1, <2>3
    <3> QED
      BY <2>2, <2>3, <3>1 DEF DSpeed, Entries
  <2> QED
    BY <2>3 DEF DSpeed, NoSpeed
<1>3. SpeedOf(group) \in Nat /\ NoSpeed \in Nat
  BY SpeedOfType DEF NoSpeed
<1>4. CASE group \in DPortGroups
  <2>1. /\ Adapter(e).nic = e[1] /\ Adapter(e).mtu = e[2].mtu
        /\ Adapter(e).speed = IF group \in Mirrored THEN DSpeed ELSE NoSpeed
    BY <1>4 DEF Adapter
  <2> QED
    BY <1>1, <1>2, <1>3, <1>4, <2>1, DSpeedAgrees DEF Rank
<1>5. CASE group \notin DPortGroups
  <2>1. /\ Adapter(e).nic = e[1] /\ Adapter(e).mtu = e[2].mtu
        /\ Adapter(e).speed = IF Known("portGroup", group) THEN SpeedOf(group) ELSE NoSpeed
    BY <1>5 DEF Adapter
  <2> QED
    BY <1>1, <1>3, <1>5, <2>1, SpeedOfAgrees DEF Rank
<1> QED
  BY <1>4, <1>5

(* The adapters are those of the virtual NICs of the row, the best first.  *)
LEMMA AdaptersAre ==
  ASSUME HostInv
  PROVE  LET entries == row["vNIC"] IN
         /\ DOMAIN Adapters = DOMAIN entries
         /\ \E o \in Bijection(DOMAIN entries, DOMAIN entries) :
              \A i \in DOMAIN entries : Adapters[i] = Adapter(entries[o[i]])
         /\ \A i, j \in DOMAIN entries : i < j => ~Better(Rank(Adapters[j]), Rank(Adapters[i]))
<1> DEFINE len == Len(row["vNIC"])
           made == [i \in 1..len |-> Adapter(row["vNIC"][i])]
           rank == [i \in 1..len |-> Rank(Adapter(row["vNIC"][i]))]
           T == {Adapter(e) : e \in Entries("vNIC")}
<1>1. row["vNIC"] \in Seq(Entries("vNIC"))
  BY RowTypes DEF Property
<1>2. len \in Nat /\ DOMAIN row["vNIC"] = 1..len /\ \A i \in 1..len : row["vNIC"][i] \in Entries("vNIC")
  BY <1>1
<1>3. \A i \in 1..len : Rank(Adapter(row["vNIC"][i])) \in Nat \X Nat
  BY <1>2, AdapterIs
<1>4. rank \in [1..len -> Ranks]
  BY <1>3 DEF Ranks
<1>5. made \in [1..len -> T]
  BY <1>2
<1>6. Adapters = Sorted(made, rank)
  <2>1. rank = [i \in 1..len |-> Rank(made[i])] /\ DOMAIN made = 1..len
    OBVIOUS
  <2> QED
    BY <1>2, <2>1 DEF Adapters
<1>7. \A i \in 1..len : made[i] = Adapter(row["vNIC"][i]) /\ rank[i] = Rank(made[i])
  OBVIOUS
<1> HIDE DEF made, rank, T, len
<1>8. /\ Sorted(made, rank) \in [1..len -> T]
      /\ \E o : Reordered(o, Sorted(made, rank), made, len) /\ RanksFall(o, rank, len)
  BY <1>2, <1>4, <1>5, SortedRearranges
<1>9. PICK o : Reordered(o, Sorted(made, rank), made, len) /\ RanksFall(o, rank, len)
  BY <1>8
<1>a. o \in Bijection(1..len, 1..len)
  BY <1>9 DEF Reordered
<1>10. o \in Bijection(1..len, 1..len) /\ \A i \in 1..len : o[i] \in 1..len
  <2>1. o \in [1..len -> 1..len]
    BY <1>a DEF Bijection, Injection
  <2> QED
    BY <1>a, <2>1
<1>11. \A i \in 1..len : Adapters[i] = made[o[i]]
  BY <1>6, <1>9 DEF Reordered
<1>12. \A i, j \in 1..len : i < j => ~Better(Rank(Adapters[j]), Rank(Adapters[i]))
  BY <1>7, <1>9, <1>10, <1>11 DEF RanksFall
<1>13. \A i \in 1..len : Adapters[i] = Adapter(row["vNIC"][o[i]])
  BY <1>7, <1>10, <1>11
<1>14. DOMAIN Adapters = 1..len
  BY <1>6, <1>8
<1> QED
  BY <1>2, <1>10, <1>12, <1>13, <1>14

(* Whatever is added to a host, removed from it and changed, and however   *)
(* often it is reported again: every virtual NIC that it has is shown with *)
(* its MTU, with its speed unless what that depends on was reported twice, *)
(* and nothing else is shown when nothing was (HostAdapter.Apply,          *)
(* AdapterBuilder.build).                                                  *)
THEOREM AdaptersAlwaysComplete == HostSpec => []AdaptersComplete
<1>1. ASSUME HostInv PROVE AdaptersComplete
  <2> SUFFICES ASSUME UpToDate PROVE AdaptersComplete
    BY DEF AdaptersComplete
  <2> DEFINE entries == row["vNIC"]
             vnics == host["vNIC"]
             Has(n) == [nic |-> n, mtu |-> vnics[n].mtu, speed |-> HostSpeed(vnics[n].group)]
             Seen(a) == [nic |-> a.nic, mtu |-> a.mtu, speed |-> a.speed]
  <2>1. "vNIC" \in Property \ pending
    BY DEF UpToDate, Property
  <2>2. entries \in Seq(Entries("vNIC"))
    BY <1>1, RowTypes DEF Property
  <2>3. HasAll(entries, vnics) /\ ("vNIC" \notin modified => HasExactly(entries, vnics))
    BY <1>1, <2>1 DEF HostInv, ReportedInv, UpToDate
  <2>4. PICK o \in Bijection(DOMAIN entries, DOMAIN entries) :
          \A i \in DOMAIN entries : Adapters[i] = Adapter(entries[o[i]])
    BY <1>1, AdaptersAre
  <2>5. DOMAIN Adapters = DOMAIN entries
    BY <1>1, AdaptersAre
  <2>6. /\ \A i \in DOMAIN entries : o[i] \in DOMAIN entries
        /\ \A i, j \in DOMAIN entries : o[i] = o[j] => i = j
        /\ \A i \in DOMAIN entries : \E j \in DOMAIN entries : o[j] = i
    <3> DEFINE D == DOMAIN entries
    <3>1. o \in Bijection(D, D)
      BY <2>4
    <3> HIDE DEF D
    <3>2. o \in [D -> D] /\ \A i, j \in D : o[i] = o[j] => i = j
      BY <3>1, Fun_BijectionProperties
    <3>3. \A i \in D : \E j \in D : o[j] = i
      BY <3>1 DEF Bijection, Surjection
    <3>4. \A i \in D : o[i] \in D
      BY <3>2
    <3> QED
      BY <3>2, <3>3, <3>4 DEF D
  <2>7. HostAdapters = {Has(n) : n \in DOMAIN vnics}
    BY DEF HostAdapters
  <2>8. Shown = {Seen(Adapters[i]) : i \in DOMAIN entries}
    BY <2>5 DEF Shown, ToSet
  <2>9. ASSUME NEW n \in DOMAIN vnics
        PROVE  \E i \in DOMAIN entries :
                 /\ Adapters[i].nic = n /\ Adapters[i].mtu = vnics[n].mtu
                 /\ modified \subseteq {"vNIC"} => Adapters[i].speed = HostSpeed(vnics[n].group)
    <3>1. PICK j \in DOMAIN entries : entries[j] = <<n, vnics[n]>>
      BY <2>3 DEF HasAll
    <3>2. PICK i \in DOMAIN entries : o[i] = j
      BY <2>6
    <3>3. entries[j] \in Entries("vNIC")
      BY <2>2
    <3>4. Adapters[i] = Adapter(entries[j])
      BY <2>4, <3>2
    <3>5. entries[j][1] = n /\ entries[j][2] = vnics[n]
      BY <3>1
    <3> HIDE DEF entries, vnics
    <3> QED
      BY <1>1, <3>3, <3>4, <3>5, AdapterIs
  <2>10. \A h \in HostAdapters : \E a \in Shown : a.nic = h.nic /\ a.mtu = h.mtu
    <3> SUFFICES ASSUME NEW n \in DOMAIN vnics
                 PROVE  \E a \in Shown : a.nic = n /\ a.mtu = vnics[n].mtu
      BY <2>7
    <3>1. PICK i \in DOMAIN entries : Adapters[i].nic = n /\ Adapters[i].mtu = vnics[n].mtu
      BY <2>9
    <3>2. Seen(Adapters[i]) \in Shown
      BY <2>8
    <3> QED
      BY <3>1, <3>2
  <2>11. modified \subseteq {"vNIC"} => HostAdapters \subseteq Shown
    <3> SUFFICES ASSUME modified \subseteq {"vNIC"}, NEW n \in DOMAIN vnics
                 PROVE  Has(n) \in Shown
      BY <2>7
    <3>1. PICK i \in DOMAIN entries : Seen(Adapters[i]) = Has(n)
      BY <2>9
    <3> QED
      BY <2>8, <3>1
  <2>12. ASSUME modified = {}
         PROVE  /\ Shown = HostAdapters
                /\ \A i, j \in DOMAIN Adapters : Adapters[i].nic = Adapters[j].nic => i = j
    <3>1. \A i \in DOMAIN entries : entries[i] \in Entries("vNIC")
      BY <2>2
    <3>2. ASSUME NEW i \in DOMAIN entries
          PROVE  /\ Adapters[i].nic = entries[o[i]][1]
                 /\ Seen(Adapters[i]) \in HostAdapters
      <4>1. PICK n \in DOMAIN vnics : entries[o[i]] = <<n, vnics[n]>>
        BY <2>3, <2>6, <2>12 DEF HasExactly
      <4>2. entries[o[i]][1] = n /\ entries[o[i]][2] = vnics[n]
        BY <4>1
      <4>3. /\ Adapters[i].nic = n /\ Adapters[i].mtu = vnics[n].mtu
            /\ Adapters[i].speed = HostSpeed(vnics[n].group)
        <5> DEFINE e == entries[o[i]]
        <5>1. e \in Entries("vNIC") /\ Adapters[i] = Adapter(e)
          BY <2>4, <2>6, <3>1
        <5>2. e[1] = n /\ e[2] = vnics[n]
          BY <4>2
        <5> HIDE DEF e, entries, vnics
        <5>3. modified \subseteq {"vNIC"}
          BY <2>12
        <5> QED
          BY <1>1, <5>1, <5>2, <5>3, AdapterIs
      <4>4. Seen(Adapters[i]) = Has(n)
        BY <4>3
      <4> QED
        BY <2>7, <4>2, <4>3, <4>4
    <3>3. Shown \subseteq HostAdapters
      BY <2>8, <3>2
    <3>4. \A i, j \in DOMAIN entries : entries[i][1] = entries[j][1] => i = j
      BY <2>3, <2>12 DEF HasExactly
    <3>5. ASSUME NEW i \in DOMAIN entries, NEW j \in DOMAIN entries, Adapters[i].nic = Adapters[j].nic
          PROVE  i = j
      <4>1. entries[o[i]][1] = entries[o[j]][1] /\ o[i] \in DOMAIN entries /\ o[j] \in DOMAIN entries
        BY <2>6, <3>2, <3>5
      <4>2. o[i] = o[j]
        BY <3>4, <4>1
      <4> QED
        BY <2>6, <4>2
    <3>6. HostAdapters \subseteq Shown
      BY <2>11, <2>12
    <3> QED
      BY <2>5, <3>3, <3>5, <3>6
  <2>13. \A i, j \in DOMAIN Adapters : i < j => ~Better(Rank(Adapters[j]), Rank(Adapters[i]))
    BY <1>1, <2>5, AdaptersAre
  <2> HIDE DEF entries, vnics
  <2> QED
    BY <2>10, <2>11, <2>12, <2>13 DEF AdaptersComplete
<1> QED
  BY <1>1, InitHost, StepHost, PTL DEF HostSpec
=============================================================================
