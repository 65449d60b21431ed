--------------------------- MODULE InventoryTree ---------------------------
(***************************************************************************)
(* The VM tree, the host tree and the path of a VM (model/vsphere/tree.go, *)
(* web/vsphere/tree.go, Base.Path), read row by row from a mirror that     *)
(* goes on being updated: a request is not a transaction.                  *)
(*                                                                         *)
(* The VMs are on one host of one cluster and in folders of one            *)
(* datacenter; a vApp, which the mirror does not know, is in the VM root.  *)
(***************************************************************************)
EXTENDS Naturals, SequencesExt, FiniteSets

CONSTANTS
  VMs, Folders,
  MaxEvents,    \* bound: changes of the source and update sets rolled back
  MaxDepth      \* bound: how long a request follows a cycle of rows


VARIABLES
  place,     \* where each VM and folder is in the source
  told,      \* each object as the collector last reported it
  rows,      \* the mirror
  request,   \* the request: its frames, innermost last, and what it shows
  steady,    \* the links that the rows have had since the request began
  ever,      \* the links that they had at some moment since
  vanished,  \* objects without a row at some moment since
  missed,    \* objects of an update set that was rolled back
  budget     \* events that may still happen

mirror == <<told, rows, missed>>
history == <<steady, ever, vanished>>
treeVars == <<place, mirror, request, history, budget>>

Datacenter == "datacenter"
VmRoot == "vms"
HostRoot == "clusters"
VApp == "vapp"
Containers == Folders \cup {VmRoot}
Objects == VMs \cup Containers \cup {Datacenter, HostRoot, "cluster", "host"}
None == "none"
Nowhere == {"unborn", "gone"}
Routes == {"vmTree", "hostTree", "path"}

ASSUME TreeAssumption ==
  /\ VMs \cap Folders = {}
  /\ (VMs \cup Folders) \cap
       {VmRoot, Datacenter, HostRoot, "cluster", "host", VApp, None, "unborn", "gone"} = {}
  /\ MaxEvents \in Nat /\ MaxDepth \in Nat \ {0}

(***************************************************************************)
(* The source, and how its objects are reported.                           *)
(***************************************************************************)
Placed(o) == place[o] \notin Nowhere

Row(parent, refs) == [here |-> TRUE, parent |-> parent, refs |-> refs]
Missing == [here |-> FALSE, parent |-> None, refs |-> {}]

View(o) ==
  CASE o \in VMs -> IF Placed(o) THEN Row(place[o], {}) ELSE Missing
    [] o \in Folders -> Row(place[o], {x \in VMs \cup Folders : place[x] = o})
    [] o = VmRoot -> Row(Datacenter, {x \in VMs \cup Folders : place[x] = o} \cup {VApp})
    [] o = "host" -> Row("cluster", {v \in VMs : Placed(v)})
    [] o = "cluster" -> Row(HostRoot, {"host"})
    [] o = HostRoot -> Row(Datacenter, {"cluster"})
    [] o = Datacenter -> Row(None, {})

Changed == {o \in Objects : told[o] # View(o)}

(* The folders that a folder is in.                                        *)
Above(f) ==
  LET up[n \in Nat] ==
        IF n = 0 THEN {f}
        ELSE LET below == up[n - 1] IN below \cup {place[x] : x \in below \cap Folders}
  IN  up[Cardinality(Folders)]

(* Bound: nothing happens that the request does not see.                   *)
Unanswered == request.state \in {"none", "reading"}

Happens == budget > 0 /\ budget' = budget - 1

(* A VM is created, moved or destroyed, or a folder is moved.              *)
SourceChanges(o, p) ==
  /\ Unanswered /\ Happens
  /\ place[o] # "gone" /\ p # place[o]
  /\ \/ p \in Containers /\ (o \in Folders => o \notin Above(p))
     \/ o \in VMs /\ Placed(o) /\ p = "gone"
  /\ place' = [place EXCEPT ![o] = p]
  /\ UNCHANGED <<mirror, request, history>>

(***************************************************************************)
(* The mirror: one transaction for an update set, which need not have all  *)
(* that changed (getUpdates, filter.Options.MaxObjectUpdates).             *)
(***************************************************************************)
(* What a route follows from an object: its children, or its parent.       *)
Links(route) ==
  IF route = "path"
  THEN {<<o, rows[o].parent>> : o \in {x \in Objects : rows[x].parent # None}}
  ELSE UNION {{<<o, x>> : x \in rows[o].refs} : o \in Objects}

Absent == {o \in Objects : ~rows[o].here}

(* A row to be modified must be there. A row to be deleted need not be:    *)
(* the library may call that an error.                                     *)
Applicable(S) == \A o \in S : told[o].here /\ View(o).here => rows[o].here
Doubtful(S) == \E o \in S : told[o].here /\ ~View(o).here /\ ~rows[o].here

Receive(S) ==
  /\ S # {} /\ Unanswered
  /\ UNCHANGED <<place, request>>
  /\ told' = [o \in Objects |-> IF o \in S THEN View(o) ELSE told[o]]
  /\ \/ /\ Applicable(S)
        /\ rows' = [o \in Objects |-> IF o \in S THEN View(o) ELSE rows[o]]
        /\ UNCHANGED <<missed, budget>>
     \/ /\ ((~Applicable(S) \/ Doubtful(S)) /\ UNCHANGED budget) \/ Happens
        /\ missed' = missed \cup S
        /\ UNCHANGED rows
  /\ IF request.state = "reading"
     THEN /\ steady' = steady \cap Links(request.route)'
          /\ ever' = ever \cup Links(request.route)'
          /\ vanished' = vanished \cup Absent'
     ELSE UNCHANGED history

Updates == \E S \in SUBSET Changed : Receive(S)

(***************************************************************************)
(* A request.                                                              *)
(***************************************************************************)
Root(route) == IF route = "vmTree" THEN VmRoot ELSE HostRoot

Top == request.stack[Len(request.stack)]
Below == SubSeq(request.stack, 1, Len(request.stack) - 1)

Acyclic ==
  LET links == Links(request.route)
      next[n \in Nat] ==
        IF n = 0 THEN Containers
        ELSE LET last == next[n - 1] IN {l[2] : l \in {k \in links : k[1] \in last}}
  IN  next[Cardinality(Containers)] \cap Containers = {}

(* Bound: at a cycle of rows, a request waits once it is long.             *)
Bounded == Len(Top.path) < MaxDepth \/ Acyclic

Requested(r) ==
  /\ request.state = "none"
  /\ request' = r
  /\ steady' = Links(r.route) /\ ever' = Links(r.route) /\ vanished' = Absent
  /\ UNCHANGED <<place, mirror, budget>>

(* VmTree, HostTree: the root folder is read.                              *)
AskTree(route) ==
  LET root == Root(route)
  IN  Requested([route |-> route, state |-> "reading", shown |-> {<<root>>},
             stack |-> <<[path |-> <<root>>, todo |-> rows[root].refs]>>])

(* VMHandler.Get: the VM is read, or not found; then its path.             *)
AskPath(v) ==
  Requested([route |-> "path", state |-> IF rows[v].here THEN "reading" ELSE "notFound",
         shown |-> {},
         stack |-> <<[path |-> <<v>>, todo |-> {rows[v].parent}]>>])

Found(o) == o \in Objects \ Absent

Proceed(r) == request' = r /\ UNCHANGED <<place, mirror, history, budget>>

Fail == [request EXCEPT !.state = "failed", !.stack = <<>>]

(* getRef: a reference of another kind is skipped.                         *)
Valid(o) == o # VApp

(* A frame with nothing left to do is returned from.                       *)
Opened(frame) == IF frame.todo = {} THEN <<>> ELSE <<frame>>

(* The walk goes on, or is over.                                           *)
Resumed(frames, shown) ==
  [request EXCEPT !.stack = frames, !.shown = shown,
                  !.state = IF frames = <<>> THEN "answered" ELSE "reading"]

(* Mutant of Visited: what comes after a reference that is not valid is    *)
(* left out.                                                               *)
VisitedReturns(o) ==
  LET rest == [Top EXCEPT !.todo = @ \ {o}]
      child == [path |-> Append(Top.path, o), todo |-> rows[o].refs]
  IN  IF ~Valid(o) THEN Resumed(Below, request.shown)
      ELSE IF ~Found(o) THEN Fail
      ELSE Resumed(Below \o Opened(rest) \o Opened(child), request.shown \cup {child.path})

(* Mutant of Visited: a reference that is not valid is shown for itself.   *)
VisitedShown(o) ==
  LET rest == [Top EXCEPT !.todo = @ \ {o}]
      child == [path |-> Append(Top.path, o), todo |-> IF Valid(o) THEN rows[o].refs ELSE {}]
  IN  IF Valid(o) /\ ~Found(o) THEN Fail
      ELSE Resumed(Below \o Opened(rest) \o Opened(child), request.shown \cup {child.path})

(* walk: a child is read, shown, and walked with the children it has now.  *)
Visited(o) ==
  LET rest == [Top EXCEPT !.todo = @ \ {o}]
      child == [path |-> Append(Top.path, o), todo |-> rows[o].refs]
  IN  IF ~Valid(o) THEN Resumed(Below \o Opened(rest), request.shown)
      ELSE IF ~Found(o) THEN Fail
      ELSE Resumed(Below \o Opened(rest) \o Opened(child), request.shown \cup {child.path})

Visit(o) ==
  /\ request.state = "reading" /\ request.route # "path"
  /\ o \in Top.todo /\ Bounded
  /\ Proceed(Visited(o))

(* Mutant of Climbed: the walk goes on from the object it began with.      *)
ClimbedAnew(o) ==
  LET path == Append(Top.path, o)
  IN  IF o = Datacenter
      THEN [request EXCEPT !.state = "answered", !.shown = {path}, !.stack = <<>>]
      ELSE IF ~Found(o) THEN Fail
      ELSE [request EXCEPT !.stack = <<[path |-> <<Top.path[1]>>, todo |-> {o}]>>]

(* Path: the parent is read, up to the datacenter.                         *)
Climbed(o) ==
  LET path == Append(Top.path, o)
  IN  IF o = Datacenter
      THEN [request EXCEPT !.state = "answered", !.shown = {path}, !.stack = <<>>]
      ELSE IF ~Found(o) THEN Fail
      ELSE [request EXCEPT !.stack = <<[path |-> path, todo |-> {rows[o].parent}]>>]

Climb(o) ==
  /\ request.state = "reading" /\ request.route = "path"
  /\ o \in Top.todo /\ Bounded
  /\ Proceed(Climbed(o))

(* VMs may have been created in an update set that was rolled back.        *)
TreeInit ==
  /\ place \in [VMs \cup Folders -> Containers \cup {"unborn"}]
  /\ \A f \in Folders : place[f] # "unborn" /\ f \notin Above(place[f])
  /\ told = [o \in Objects |-> View(o)]
  /\ missed \in SUBSET {v \in VMs : Placed(v)}
  /\ rows = [o \in Objects |-> IF o \in missed THEN Missing ELSE told[o]]
  /\ request = [route |-> "vmTree", state |-> "none", shown |-> {}, stack |-> <<>>]
  /\ steady = {} /\ ever = {} /\ vanished = {}
  /\ budget = MaxEvents

Ask ==
  \/ \E route \in Routes \ {"path"} : AskTree(route)
  \/ \E v \in VMs : AskPath(v)

Answering == \E o \in Objects \cup {VApp} : Visit(o) \/ Climb(o)

TreeNext ==
  \/ \E o \in VMs \cup Folders, p \in Containers \cup {"gone"} : SourceChanges(o, p)
  \/ Updates \/ Ask \/ Answering

TreeSpec == TreeInit /\ [][TreeNext]_treeVars

(* The mirror goes on (getUpdates), and the handler of a request.          *)
FairTreeSpec == TreeSpec /\ WF_treeVars(Updates) /\ WF_treeVars(Answering)

(***************************************************************************)
(* Properties.                                                             *)
(***************************************************************************)
LinkType == Objects \X (Objects \cup {VApp})
RowType ==
  [here : BOOLEAN, parent : Objects \cup {None}, refs : SUBSET (Objects \cup {VApp})]
FrameType == [path : Seq(Objects), todo : SUBSET (Objects \cup {VApp, None})]

(* Every variable has its type.                                            *)
TreeTypeOK ==
  /\ place \in [VMs \cup Folders -> Containers \cup Nowhere]
  /\ told \in [Objects -> RowType] /\ rows \in [Objects -> RowType]
  /\ request.route \in Routes
  /\ request.state \in {"none", "reading", "answered", "failed", "notFound"}
  /\ request.shown \subseteq Seq(Objects) /\ request.stack \in Seq(FrameType)
  /\ steady \subseteq ever /\ ever \subseteq LinkType
  /\ vanished \subseteq Objects /\ missed \subseteq Objects
  /\ budget \in Nat

(* What is shown of p goes on along every link that there was all the time *)
(* (a path has one way to go, a tree has all of them).                     *)
GoesOn(p) ==
  \A l \in steady :
     IF request.route = "path"
     THEN \A i \in 1..Len(p) : p[i] = l[1] => i < Len(p) /\ p[i + 1] = l[2]
     ELSE l[1] = Last(p) /\ Valid(l[2]) => Append(p, l[2]) \in request.shown

(* A tree or a path that is read while objects are moved, created and      *)
(* destroyed shows all that was in place all the time, in its place, and   *)
(* nothing that was never there; a request fails only of an object that    *)
(* was listed at one moment and without a row at another (walk, getRef,    *)
(* Path).                                                                  *)
AnswerIsRegular ==
  /\ request.state = "answered" =>
       \A p \in request.shown :
          /\ \A i \in 1..(Len(p) - 1) : <<p[i], p[i + 1]>> \in ever
          /\ GoesOn(p)
  /\ request.state = "failed" => \E l \in ever : l[2] \in vanished

(* Rows of which some are from before and some from after folders moved    *)
(* may make a cycle; still every request ends, when no update set was      *)
(* rolled back (walk and Path have no limit of their own).                 *)
RequestsEnd ==
  request.state = "reading" ~> request.state # "reading" \/ missed # {}
=============================================================================
