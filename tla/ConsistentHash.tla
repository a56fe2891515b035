---------------------------- MODULE ConsistentHash ----------------------------
(***************************************************************************)
(* The ring of consistent/consistent.go: every element has Replicas points *)
(* on a circle of hashes, and a name is served by the elements whose       *)
(* points follow its hash.                                                 *)
(*                                                                         *)
(* Add, Remove and Set hold the lock, Get, GetTwo and GetN the read lock,  *)
(* which is given back when they return.  Readers do not meet, so the      *)
(* model has one call at a time; the loops of Set, GetTwo and GetN take a  *)
(* step per round.  A lookup is of a hash: any string can be looked up.    *)
(***************************************************************************)
EXTENDS Integers, FiniteSets, SequencesExt

CONSTANTS Elts,      \* the strings given to Add, Remove and Set
          NoElt,     \* the empty string
          Replicas,  \* NumberOfReplicas
          HashSpace, \* hashes are below it: 2^32 in the code
          MaxLookup, \* bound: GetN is asked for at most this many
          MaxSet,    \* bound: Set is given at most this many
          MaxDrift   \* bound: how far count may be from the members

ASSUME RingAssumption ==
  /\ NoElt \notin Elts
  /\ Replicas \in Nat \ {0}
  /\ HashSpace \in Nat \ {0}
ASSUME RingBoundsAssumption == MaxLookup \in Nat /\ MaxSet \in Nat /\ MaxDrift \in Nat

Hashes == 0 .. HashSpace - 1

VARIABLES
  hash,          \* hash[e][i]: hashKey of eltKey(e, i); it never changes
  circle,        \* from the points in use to elements
  sortedHashes,
  members,
  count,
  call           \* the call that holds the lock

ringVars == <<circle, sortedHashes, members, count>>
vars == <<hash, ringVars, call>>

Idle == [op |-> "idle"]

RingInit ==
  /\ hash \in [Elts -> [0 .. Replicas - 1 -> Hashes]]
  /\ circle = << >> /\ sortedHashes = << >>
  /\ members = {} /\ count = 0
  /\ call = Idle

-----------------------------------------------------------------------------
(* The ring.                                                               *)

PointsOf(e) == {hash[e][i] : i \in 0 .. Replicas - 1}

\* SetToSortSeq(S, <), in a form to reason about: the i-th smallest has i - 1 below it.
Below(h, S) == {g \in S : g < h}
Sorted(S) ==
  [i \in 1 .. Cardinality(S) |-> CHOOSE h \in S : Cardinality(Below(h, S)) = i - 1]

\* updateSortedHashes collects the keys of circle and sorts them.
UpdateSortedHashes(c) == Sorted(DOMAIN c)

\* Indices of sortedHashes start at 0.
At(i) ==
  LET h == sortedHashes[i + 1]
  IN  IF h \in DOMAIN circle THEN circle[h] ELSE NoElt

\* Mutant: a point at the hash itself is taken.
SearchAtOrAbove(key) ==
  LET above == {i \in 0 .. Len(sortedHashes) - 1 : sortedHashes[i + 1] >= key}
  IN  IF above = {} THEN 0 ELSE CHOOSE i \in above : \A j \in above : i <= j

\* search: the first point above key, or the first one.
Search(key) ==
  LET above == {i \in 0 .. Len(sortedHashes) - 1 : sortedHashes[i + 1] > key}
  IN  IF above = {} THEN 0 ELSE CHOOSE i \in above : \A j \in above : i <= j

\* add: the points of e, also those that another element has there.
AddElt(e) ==
  /\ circle' = [h \in DOMAIN circle \cup PointsOf(e) |->
                  IF h \in PointsOf(e) THEN e ELSE circle[h]]
  /\ sortedHashes' = UpdateSortedHashes(circle')
  /\ members' = members \cup {e}
  /\ count' = count + 1

\* Mutant: the replica with the highest index is forgotten.
RemoveAllButLast(e) ==
  /\ circle' = [h \in DOMAIN circle \ {hash[e][i] : i \in 0 .. Replicas - 2} |-> circle[h]]
  /\ sortedHashes' = UpdateSortedHashes(circle')
  /\ members' = members \ {e}
  /\ count' = count - 1

\* Mutant: the points to remove are looked up with search.
RemoveFound(e) ==
  /\ circle' = [h \in {k \in DOMAIN circle :
                        \A g \in PointsOf(e) : sortedHashes[Search(g) + 1] # k} |-> circle[h]]
  /\ sortedHashes' = UpdateSortedHashes(circle')
  /\ members' = members \ {e}
  /\ count' = count - 1

\* remove: the points at which e hashes, whoever has them.
RemoveElt(e) ==
  /\ circle' = [h \in DOMAIN circle \ PointsOf(e) |-> circle[h]]
  /\ sortedHashes' = UpdateSortedHashes(circle')
  /\ members' = members \ {e}
  /\ count' = count - 1

Drift(c, m) == c - Cardinality(m)

\* Neither Add nor Remove looks whether e is a member.
AddCall(e) ==
  /\ call = Idle
  /\ e \in members => Drift(count, members) < MaxDrift
  /\ AddElt(e)
  /\ UNCHANGED <<hash, call>>

RemoveCall(e) ==
  /\ call = Idle
  /\ e \notin members => Drift(count, members) > -MaxDrift
  /\ RemoveElt(e)
  /\ UNCHANGED <<hash, call>>

-----------------------------------------------------------------------------
(* Set removes the members that are not listed and adds those that are.    *)

Set(elts) ==
  /\ call = Idle
  /\ call' = [op |-> "Set", elts |-> elts, left |-> elts]
  /\ UNCHANGED <<hash, ringVars>>

SetRemove(k) ==
  /\ call.op = "Set" /\ k \in members \ ToSet(call.elts)
  /\ RemoveElt(k)
  /\ UNCHANGED <<hash, call>>

\* Mutant: an element that is a member already is added again.
SetAddAlways ==
  /\ call.op = "Set" /\ members \subseteq ToSet(call.elts)
  /\ call.left # << >>
  /\ AddElt(Head(call.left))
  /\ call' = [call EXCEPT !.left = Tail(@)]
  /\ UNCHANGED hash

SetAdd ==
  /\ call.op = "Set" /\ members \subseteq ToSet(call.elts)
  /\ call.left # << >>
  /\ \/ Head(call.left) \in members /\ UNCHANGED ringVars
     \/ Head(call.left) \notin members /\ AddElt(Head(call.left))
  /\ call' = [call EXCEPT !.left = Tail(@)]
  /\ UNCHANGED hash

SetReturn ==
  /\ call.op = "Set" /\ members \subseteq ToSet(call.elts)
  /\ call.left = << >>
  /\ call' = Idle
  /\ UNCHANGED <<hash, ringVars>>

-----------------------------------------------------------------------------
(* Lookups.                                                                *)

Lookup(op, key, n, start, res) ==
  [op |-> op, key |-> key, n |-> n, start |-> start, i |-> start + 1, res |-> res]

Get(key) ==
  /\ call = Idle /\ DOMAIN circle # {}
  /\ LET start == Search(key)
     IN  call' = Lookup("return", key, 1, start, <<At(start)>>)
  /\ UNCHANGED <<hash, ringVars>>

GetTwo(key) ==
  /\ call = Idle /\ DOMAIN circle # {}
  /\ LET start == Search(key)
     IN  call' = Lookup(IF count = 1 THEN "return" ELSE "GetTwo",
                        key, 2, start, <<At(start)>>)
  /\ UNCHANGED <<hash, ringVars>>

\* Mutant: n is not limited by count.
GetNUnlimited(key, n) ==
  /\ call = Idle /\ DOMAIN circle # {}
  /\ LET start == Search(key)
     IN  call' = Lookup(IF n = 1 THEN "return" ELSE "GetN", key, n, start, <<At(start)>>)
  /\ UNCHANGED <<hash, ringVars>>

\* GetN makes room for n elements, or for count when that is less: a negative
\* size panics, and the caller gets nothing.
GetN(key, n) ==
  LET limit == IF count < n THEN count ELSE n
      start == Search(key)
  IN  /\ call = Idle /\ DOMAIN circle # {} /\ limit >= 0
      /\ call' = Lookup(IF limit = 1 THEN "return" ELSE "GetN",
                        key, limit, start, <<At(start)>>)
      /\ UNCHANGED <<hash, ringVars>>

\* The loops wrap around inside of the round: the test i # start at its head
\* is never false when start is 0.
Wrap(i) == IF i >= Len(sortedHashes) THEN 0 ELSE i

\* GetTwo goes on until it meets another element than the first.
NextOfTwo ==
  LET j == Wrap(call.i)
      a == call.res[1]
  IN  /\ call.op = "GetTwo"
      /\ call' = [call EXCEPT !.i = j + 1, !.res = <<a, At(j)>>,
                              !.op = IF At(j) # a \/ j + 1 = call.start
                                       THEN "return" ELSE @]
      /\ UNCHANGED <<hash, ringVars>>

\* GetN collects new elements until it has enough.
NextOfN ==
  LET j == Wrap(call.i)
      res == IF At(j) \in ToSet(call.res) THEN call.res ELSE Append(call.res, At(j))
  IN  /\ call.op = "GetN"
      /\ call' = [call EXCEPT !.i = j + 1, !.res = res,
                              !.op = IF Len(res) = call.n \/ j + 1 = call.start
                                       THEN "return" ELSE @]
      /\ UNCHANGED <<hash, ringVars>>

Return ==
  /\ call.op = "return"
  /\ call' = Idle
  /\ UNCHANGED <<hash, ringVars>>

-----------------------------------------------------------------------------
Writing ==
  \/ \E e \in Elts : AddCall(e) \/ RemoveCall(e)
  \/ \E elts \in BoundedSeq(Elts, MaxSet) : Set(elts)
  \/ \E k \in Elts : SetRemove(k)
  \/ SetAdd \/ SetReturn

StartLookup ==
  \E key \in Hashes : Get(key) \/ GetTwo(key) \/ \E n \in 0 .. MaxLookup : GetN(key, n)

Looping == NextOfTwo \/ NextOfN

Next == Writing \/ StartLookup \/ Looping \/ Return

Spec == RingInit /\ [][Next]_vars

\* The goroutine of a lookup is scheduled again and again; it waits for nothing.
Fairness == WF_vars(Looping)

FairSpec == Spec /\ Fairness

-----------------------------------------------------------------------------
TypeOK ==
  /\ hash \in [Elts -> [0 .. Replicas - 1 -> Hashes]]
  /\ DOMAIN circle \subseteq Hashes /\ \A h \in DOMAIN circle : circle[h] \in Elts
  /\ members \subseteq Elts /\ IsFiniteSet(members)
  /\ count \in Int
  /\ "op" \in DOMAIN call
  /\ call.op = "Set" => call \in [op : {"Set"}, elts : Seq(Elts), left : Seq(Elts)]

-----------------------------------------------------------------------------
(* Safety.                                                                 *)

\* Whatever is added, removed or set, in whatever order and also when hashes
\* collide: a point in use belongs to a member that hashes there.
PointsBelongToMembers ==
  \A h \in DOMAIN circle : circle[h] \in members /\ h \in PointsOf(circle[h])

NoCollisions == \A d, e \in Elts : d # e => PointsOf(d) \cap PointsOf(e) = {}

\* Without collisions a member keeps all of its points.
MembersKeepPoints ==
  NoCollisions =>
    \A e \in members : \A h \in PointsOf(e) : h \in DOMAIN circle /\ circle[h] = e

\* What Set has not yet added is what it has left to look at.
SetInv == call.op = "Set" => ToSet(call.elts) \subseteq members \cup ToSet(call.left)

RingInv == TypeOK /\ PointsBelongToMembers /\ MembersKeepPoints /\ SetInv

\* The distance from key to h, clockwise; key itself is the farthest point.
Distance(key, h) == IF h > key THEN h - key ELSE h + HashSpace - key

Closest(key, S) == CHOOSE h \in S : \A g \in S : Distance(key, h) <= Distance(key, g)

Owner(key) ==
  IF DOMAIN circle = {} THEN NoElt ELSE circle[Closest(key, DOMAIN circle)]

\* "adding or removing a server drastically reduces the number of keys that get
\* remapped": a name leaves its element only for one that was added, unless the
\* element was removed, when no two elements have a point in common.
NamesStay ==
  [][NoCollisions =>
       \A key \in Hashes : Owner(key) \in members' =>
         Owner(key)' \in {Owner(key)} \cup (members' \ members)]_vars

\* Set leaves exactly the listed elements, and never makes count drift from the
\* number of members, also when an element is listed twice.
SetReplacesMembers ==
  [][call.op = "Set" =>
       /\ Drift(count', members') = Drift(count, members)
       /\ call' = Idle => members' = ToSet(call.elts)]_vars

\* Every member counts once and has a point.  Add of a member, Remove of another
\* element and collisions break it.
Healthy ==
  /\ count = Cardinality(members)
  /\ \A e \in members : \E h \in DOMAIN circle : circle[h] = e

\* How far e is from key: its closest point.
Reach(key, e) ==
  CHOOSE d \in 1 .. HashSpace :
    /\ \E h \in DOMAIN circle : circle[h] = e /\ Distance(key, h) = d
    /\ \A h \in DOMAIN circle : circle[h] = e => d <= Distance(key, h)

\* res lists the closest distinct elements, the closest first, n or all of them.
ClosestOnes(key, n, res) ==
  /\ Len(res) = IF n < count THEN n ELSE count
  /\ IsInjective(res)
  /\ \A i \in 1 .. Len(res) : \A e \in members \ {res[j] : j \in 1 .. i} :
       Reach(key, res[i]) < Reach(key, e)

\* Get, GetTwo and GetN return the owner of the name first, whatever count says;
\* on a healthy ring they return the closest distinct elements, the closest
\* first, as many as were asked for or as there are.
ReturnsClosest ==
  call.op = "return" =>
    /\ call.res[1] = Owner(call.key)
    /\ Healthy /\ call.n > 0 => ClosestOnes(call.key, call.n, call.res)

-----------------------------------------------------------------------------
(* Why lookups return the closest: the strengthening of ReturnsClosest.    *)

\* The elements that have a point between key and h.
Nearer(key, h) ==
  {circle[g] : g \in {k \in DOMAIN circle : Distance(key, k) < Distance(key, h)}}

\* Each element of a result has a point with only earlier ones before it.
InOrder(key, res) ==
  \A k \in 1 .. Len(res) : \E h \in DOMAIN circle :
    circle[h] = res[k] /\ Nearer(key, h) \subseteq {res[j] : j \in 1 .. k - 1}

InLookup == call.op \in {"GetTwo", "GetN", "return"}

LookupTypeOK ==
  InLookup =>
    call \in [op : {"GetTwo", "GetN", "return"}, key : Hashes, n : Nat, start : Nat,
             i : 1 .. Len(sortedHashes), res : Seq(Elts)]

\* What the loops have passed is in the result: all that have a point nearer than
\* the next one, which is also true when the loop begins a second time around.
PassedInv ==
  /\ InLookup =>
       /\ call.start = Search(call.key)
       /\ call.res # << >> /\ call.res[1] = Owner(call.key)
  /\ call.op \in {"GetTwo", "GetN"} =>
       Nearer(call.key, sortedHashes[Wrap(call.i) + 1]) \subseteq ToSet(call.res)
  /\ call.op = "GetTwo" => /\ call.n = 2 /\ count # 1
                          /\ ToSet(call.res) = {call.res[1]}
  /\ call.op = "GetN" => /\ call.n <= count /\ (call.n > 0 => Len(call.res) < call.n)
                        /\ IsInjective(call.res) /\ InOrder(call.key, call.res)

LookupInv ==
  /\ sortedHashes = UpdateSortedHashes(circle)
  /\ LookupTypeOK /\ PassedInv /\ ReturnsClosest

-----------------------------------------------------------------------------
(* Liveness.                                                               *)

\* On a healthy ring no lookup that asks for an element goes round for ever,
\* with the read lock held.
LookupsReturn ==
  call.op \in {"GetTwo", "GetN"} /\ Healthy /\ call.n > 0 ~> call.op = "return"
=============================================================================
