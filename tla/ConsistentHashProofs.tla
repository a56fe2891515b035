------------------------- MODULE ConsistentHashProofs -------------------------
(***************************************************************************)
(* The ring keeps its points with its members, Set keeps count, names stay *)
(* with their elements, and lookups return the closest elements, for any   *)
(* elements, hash function, number of replicas and size of the hash space. *)
(***************************************************************************)
EXTENDS ConsistentHash, FiniteSetTheorems, WellFoundedInduction, TLAPS

-----------------------------------------------------------------------------
(* The closest point.                                                      *)

\* Points differ in their distance from a name.
LEMMA DistanceInjective ==
  ASSUME NEW key \in Hashes, NEW g \in Hashes, NEW h \in Hashes
  PROVE  /\ Distance(key, h) \in Nat
         /\ Distance(key, g) = Distance(key, h) => g = h
BY RingAssumption DEF Distance, Hashes

\* Among some points one is at most as far as all others.
LEMMA ClosestExists ==
  ASSUME NEW S \in SUBSET Hashes, S # {}, NEW key \in Hashes
  PROVE  \E h \in S : \A g \in S : Distance(key, h) <= Distance(key, g)
<1> DEFINE D == {Distance(key, h) : h \in S}
<1>1. D \subseteq Nat /\ D # {}
  BY DistanceInjective
<1>2. PICK x \in D : \A y \in D : ~(<<y, x>> \in OpToRel(<, Nat))
  BY <1>1, WFMin, NatLessThanWellFounded
<1>3. \A y \in D : ~(y < x)
  BY <1>1, <1>2 DEF OpToRel
<1>4. PICK h \in S : x = Distance(key, h)
  BY <1>2
<1>5. ASSUME NEW g \in S
      PROVE  Distance(key, h) <= Distance(key, g)
  <2>1. Distance(key, g) \in Nat /\ Distance(key, h) \in Nat
    BY DistanceInjective
  <2>2. ~(Distance(key, g) < Distance(key, h))
    BY <1>3, <1>4
  <2> QED
    BY <2>1, <2>2
<1> QED
  BY <1>5

\* Closest is one of the points, and the only one that no other undercuts.
LEMMA ClosestProperty ==
  ASSUME NEW S \in SUBSET Hashes, NEW key \in Hashes, NEW h \in S
  PROVE  /\ Closest(key, S) \in S
         /\ \A g \in S : Distance(key, Closest(key, S)) <= Distance(key, g)
         /\ (\A g \in S : Distance(key, h) <= Distance(key, g)) => Closest(key, S) = h
<1>1. /\ Closest(key, S) \in S
      /\ \A g \in S : Distance(key, Closest(key, S)) <= Distance(key, g)
  <2>1. \E k \in S : \A g \in S : Distance(key, k) <= Distance(key, g)
    BY ClosestExists
  <2> QED
    BY <2>1 DEF Closest
<1>2. ASSUME \A g \in S : Distance(key, h) <= Distance(key, g)
      PROVE  Closest(key, S) = h
  <2>1. /\ Distance(key, Closest(key, S)) <= Distance(key, h)
        /\ Distance(key, h) <= Distance(key, Closest(key, S))
    BY <1>1, <1>2
  <2>2. /\ Distance(key, Closest(key, S)) \in Nat /\ Distance(key, h) \in Nat
        /\ Closest(key, S) \in Hashes /\ h \in Hashes
    BY <1>1, DistanceInjective
  <2>3. Distance(key, Closest(key, S)) = Distance(key, h)
    BY <2>1, <2>2
  <2> QED
    BY <2>2, <2>3, DistanceInjective
<1> QED
  BY <1>1, <1>2

-----------------------------------------------------------------------------
(* The invariant.                                                          *)

\* Points are hashes, and every element has one.
LEMMA PointsType ==
  ASSUME TypeOK, NEW e \in Elts
  PROVE  PointsOf(e) \subseteq Hashes /\ PointsOf(e) # {}
<1>1. hash[e] \in [0 .. Replicas - 1 -> Hashes]
  BY DEF TypeOK
<1>2. 0 \in 0 .. Replicas - 1
  BY RingAssumption
<1> QED
  BY <1>1, <1>2 DEF PointsOf

\* The hash function stays: so do the points of the elements.
LEMMA PointsStay ==
  ASSUME UNCHANGED hash
  PROVE  /\ \A e : PointsOf(e)' = PointsOf(e)
         /\ NoCollisions' = NoCollisions
BY DEF PointsOf, NoCollisions

\* At the start nothing is in the ring.
LEMMA RingInitInv == RingInit => RingInv
<1> SUFFICES ASSUME RingInit PROVE RingInv
  OBVIOUS
<1>1. /\ DOMAIN circle = {} /\ members = {} /\ count = 0 /\ call = Idle
      /\ hash \in [Elts -> [0 .. Replicas - 1 -> Hashes]]
  BY DEF RingInit
<1>2. "op" \in DOMAIN call /\ call.op = "idle"
  BY <1>1 DEF Idle
<1>3. IsFiniteSet(members)
  BY <1>1, FS_EmptySet
<1> QED
  BY <1>1, <1>2, <1>3 DEF RingInv, TypeOK, PointsBelongToMembers, MembersKeepPoints, SetInv

\* What a call that only looks keeps.
LEMMA RingFrame ==
  ASSUME RingInv, UNCHANGED <<hash, ringVars>>, "op" \in DOMAIN call', call'.op # "Set"
  PROVE  RingInv'
<1>1. /\ \A e : PointsOf(e)' = PointsOf(e)
      /\ NoCollisions' = NoCollisions
  BY PointsStay
<1>2. TypeOK'
  BY DEF RingInv, TypeOK, ringVars
<1>3. PointsBelongToMembers' /\ MembersKeepPoints' /\ SetInv'
  BY <1>1 DEF RingInv, PointsBelongToMembers, MembersKeepPoints, SetInv, ringVars
<1> QED
  BY <1>2, <1>3 DEF RingInv

\* The ring after an element was added.
LEMMA AddKeepsRing ==
  ASSUME TypeOK, PointsBelongToMembers, MembersKeepPoints, UNCHANGED hash,
         NEW e \in Elts, AddElt(e)
  PROVE  /\ DOMAIN circle' \subseteq Hashes
         /\ \A h \in DOMAIN circle' : circle'[h] \in Elts
         /\ members' \subseteq Elts /\ IsFiniteSet(members') /\ count' \in Int
         /\ PointsBelongToMembers' /\ MembersKeepPoints'
<1>1. /\ \A d : PointsOf(d)' = PointsOf(d)
      /\ NoCollisions' = NoCollisions
  BY PointsStay
<1>2. /\ DOMAIN circle' = DOMAIN circle \cup PointsOf(e)
      /\ \A h \in PointsOf(e) : circle'[h] = e
      /\ \A h \in DOMAIN circle \ PointsOf(e) : circle'[h] = circle[h]
      /\ members' = members \cup {e}
      /\ count' = count + 1
  BY DEF AddElt
<1>3. DOMAIN circle' \subseteq Hashes /\ \A h \in DOMAIN circle' : circle'[h] \in Elts
  BY <1>2, PointsType DEF TypeOK
<1>4. members' \subseteq Elts /\ IsFiniteSet(members') /\ count' \in Int
  BY <1>2, FS_AddElement DEF TypeOK
<1>5. PointsBelongToMembers'
  BY <1>1, <1>2 DEF PointsBelongToMembers
<1>6. ASSUME NoCollisions, NEW d \in members', NEW h \in PointsOf(d)
      PROVE  h \in DOMAIN circle' /\ circle'[h] = d
  <2>1. CASE d = e
    BY <1>2, <2>1
  <2>2. CASE d # e
    <3>1. d \in members /\ d \in Elts
      BY <1>2, <2>2 DEF TypeOK
    <3>2. h \notin PointsOf(e)
      BY <1>6, <2>2, <3>1 DEF NoCollisions
    <3>3. h \in DOMAIN circle /\ circle[h] = d
      BY <1>6, <3>1 DEF MembersKeepPoints
    <3> QED
      BY <1>2, <3>2, <3>3
  <2> QED
    BY <2>1, <2>2
<1>7. MembersKeepPoints'
  BY <1>1, <1>6 DEF MembersKeepPoints
<1> QED
  BY <1>3, <1>4, <1>5, <1>7

\* The ring after an element was removed.
LEMMA RemoveKeepsRing ==
  ASSUME TypeOK, PointsBelongToMembers, MembersKeepPoints, UNCHANGED hash,
         NEW e \in Elts, RemoveElt(e)
  PROVE  /\ DOMAIN circle' \subseteq Hashes
         /\ \A h \in DOMAIN circle' : circle'[h] \in Elts
         /\ members' \subseteq Elts /\ IsFiniteSet(members') /\ count' \in Int
         /\ PointsBelongToMembers' /\ MembersKeepPoints'
<1>1. /\ \A d : PointsOf(d)' = PointsOf(d)
      /\ NoCollisions' = NoCollisions
  BY PointsStay
<1>2. /\ DOMAIN circle' = DOMAIN circle \ PointsOf(e)
      /\ \A h \in DOMAIN circle \ PointsOf(e) : circle'[h] = circle[h]
      /\ members' = members \ {e}
      /\ count' = count - 1
  BY DEF RemoveElt
<1>3. DOMAIN circle' \subseteq Hashes /\ \A h \in DOMAIN circle' : circle'[h] \in Elts
  BY <1>2 DEF TypeOK
<1>4. members' \subseteq Elts /\ IsFiniteSet(members') /\ count' \in Int
  BY <1>2, FS_RemoveElement DEF TypeOK
<1>5. PointsBelongToMembers'
  BY <1>1, <1>2 DEF PointsBelongToMembers
<1>6. MembersKeepPoints'
  BY <1>1, <1>2 DEF MembersKeepPoints, NoCollisions, TypeOK
<1> QED
  BY <1>3, <1>4, <1>5, <1>6

\* A sequence holds its head and what its tail holds.
LEMMA HeadAndTail ==
  ASSUME NEW s \in Seq(Elts), s # << >>
  PROVE  /\ Head(s) \in Elts /\ Tail(s) \in Seq(Elts)
         /\ ToSet(s) = {Head(s)} \cup ToSet(Tail(s))
<1>1. Len(s) \in Nat \ {0} /\ DOMAIN s = 1 .. Len(s)
  OBVIOUS
<1>2. /\ Head(s) = s[1] /\ Tail(s) \in Seq(Elts)
      /\ DOMAIN Tail(s) = 1 .. Len(s) - 1
      /\ \A i \in 1 .. Len(s) - 1 : Tail(s)[i] = s[i + 1]
  BY <1>1
<1>3. \A i \in 1 .. Len(s) : i = 1 \/ (i - 1 \in 1 .. Len(s) - 1 /\ s[i] = Tail(s)[i - 1])
  BY <1>1, <1>2
<1>4. ToSet(s) \subseteq {Head(s)} \cup ToSet(Tail(s))
  <2> SUFFICES ASSUME NEW x \in ToSet(s), x # Head(s) PROVE x \in ToSet(Tail(s))
    OBVIOUS
  <2>1. PICK i \in 1 .. Len(s) : x = s[i]
    BY <1>1 DEF ToSet
  <2>2. i - 1 \in DOMAIN Tail(s) /\ x = Tail(s)[i - 1]
    BY <1>2, <1>3, <2>1
  <2> QED
    BY <2>2 DEF ToSet
<1>5. ToSet(Tail(s)) \subseteq ToSet(s) /\ Head(s) \in ToSet(s)
  <2>1. \A i \in 1 .. Len(s) - 1 : i + 1 \in 1 .. Len(s)
    BY <1>1
  <2>2. 1 \in 1 .. Len(s)
    BY <1>1
  <2> QED
    BY <1>1, <1>2, <2>1, <2>2 DEF ToSet
<1> QED
  BY <1>1, <1>2, <1>4, <1>5

\* Set reads its list from the front.
LEMMA SetAddStep ==
  ASSUME RingInv, SetAdd
  PROVE  /\ call' \in [op : {"Set"}, elts : Seq(Elts), left : Seq(Elts)]
         /\ Head(call.left) \in Elts
         /\ call'.elts = call.elts
         /\ ToSet(call.left) = {Head(call.left)} \cup ToSet(call'.left)
<1>1. /\ call \in [op : {"Set"}, elts : Seq(Elts), left : Seq(Elts)]
      /\ call.left # << >> /\ call' = [call EXCEPT !.left = Tail(@)]
  BY DEF SetAdd, RingInv, TypeOK
<1>2. /\ call'.left = Tail(call.left) /\ call'.elts = call.elts /\ call'.op = "Set"
      /\ call' \in [op : {"Set"}, elts : Seq(Elts), left : Seq(Elts)]
  BY <1>1, HeadAndTail
<1> QED
  BY <1>1, <1>2, HeadAndTail

\* Every step keeps the ring together.
LEMMA RingNextInv == RingInv /\ [Next]_vars => RingInv'
<1> SUFFICES ASSUME RingInv, [Next]_vars PROVE RingInv'
  OBVIOUS
<1>1. ASSUME NEW e \in Elts, AddCall(e) \/ RemoveCall(e)
      PROVE  RingInv'
  <2>1. UNCHANGED <<hash, call>> /\ (AddElt(e) \/ RemoveElt(e)) /\ call.op = "idle"
    BY <1>1 DEF AddCall, RemoveCall, Idle
  <2>2. /\ DOMAIN circle' \subseteq Hashes
        /\ \A h \in DOMAIN circle' : circle'[h] \in Elts
        /\ members' \subseteq Elts /\ IsFiniteSet(members') /\ count' \in Int
        /\ PointsBelongToMembers' /\ MembersKeepPoints'
    BY <2>1, AddKeepsRing, RemoveKeepsRing DEF RingInv
  <2> QED
    BY <2>1, <2>2 DEF RingInv, TypeOK, SetInv
<1>2. ASSUME NEW elts \in BoundedSeq(Elts, MaxSet), Set(elts)
      PROVE  RingInv'
  <2>1. elts \in Seq(Elts)
    <3>1. PICK m \in 0 .. MaxSet : elts \in [1 .. m -> Elts]
      BY DEF BoundedSeq, SeqOf
    <3>2. m \in Nat
      BY <3>1, RingBoundsAssumption
    <3> QED
      BY <3>1, <3>2
  <2>2. /\ call' \in [op : {"Set"}, elts : Seq(Elts), left : Seq(Elts)]
        /\ "op" \in DOMAIN call' /\ call'.elts = call'.left
    BY <1>2, <2>1 DEF Set
  <2>3. /\ \A e : PointsOf(e)' = PointsOf(e)
        /\ NoCollisions' = NoCollisions
        /\ UNCHANGED <<hash, circle, sortedHashes, members, count>>
    BY <1>2, PointsStay DEF Set, ringVars
  <2> QED
    BY <2>2, <2>3 DEF RingInv, TypeOK, PointsBelongToMembers, MembersKeepPoints, SetInv
<1>3. ASSUME NEW k \in Elts, SetRemove(k)
      PROVE  RingInv'
  <2>1. /\ UNCHANGED <<hash, call>> /\ RemoveElt(k)
        /\ call.op = "Set" /\ k \notin ToSet(call.elts)
    BY <1>3 DEF SetRemove
  <2>2. /\ DOMAIN circle' \subseteq Hashes
        /\ \A h \in DOMAIN circle' : circle'[h] \in Elts
        /\ members' = members \ {k}
        /\ members' \subseteq Elts /\ IsFiniteSet(members') /\ count' \in Int
        /\ PointsBelongToMembers' /\ MembersKeepPoints'
    BY <2>1, RemoveKeepsRing DEF RingInv, RemoveElt
  <2> QED
    BY <2>1, <2>2 DEF RingInv, TypeOK, SetInv
<1>4. ASSUME SetAdd
      PROVE  RingInv'
  <2>1. /\ call' \in [op : {"Set"}, elts : Seq(Elts), left : Seq(Elts)]
        /\ "op" \in DOMAIN call'
        /\ Head(call.left) \in Elts
        /\ call'.elts = call.elts
        /\ ToSet(call.left) = {Head(call.left)} \cup ToSet(call'.left)
    BY <1>4, SetAddStep
  <2>2. call.op = "Set" /\ UNCHANGED hash
    BY <1>4 DEF SetAdd
  <2>3. /\ DOMAIN circle' \subseteq Hashes
        /\ \A h \in DOMAIN circle' : circle'[h] \in Elts
        /\ members' \subseteq Elts /\ IsFiniteSet(members') /\ count' \in Int
        /\ PointsBelongToMembers' /\ MembersKeepPoints'
        /\ members' = members \cup {Head(call.left)}
    <3>1. CASE AddElt(Head(call.left))
      BY <2>1, <2>2, <3>1, AddKeepsRing DEF RingInv, AddElt
    <3>2. CASE Head(call.left) \in members /\ UNCHANGED ringVars
      <4>1. /\ \A e : PointsOf(e)' = PointsOf(e)
            /\ NoCollisions' = NoCollisions
            /\ UNCHANGED <<hash, circle, sortedHashes, members, count>>
        BY <2>2, <3>2, PointsStay DEF ringVars
      <4> QED
        BY <3>2, <4>1 DEF RingInv, TypeOK, PointsBelongToMembers, MembersKeepPoints
    <3> QED
      BY <1>4, <3>1, <3>2 DEF SetAdd
  <2>4. ToSet(call.elts) \subseteq members \cup ToSet(call.left)
    BY <2>2 DEF RingInv, SetInv
  <2> QED
    BY <2>1, <2>2, <2>3, <2>4 DEF RingInv, TypeOK, SetInv
<1>5. CASE SetReturn \/ Return
  BY <1>5, RingFrame DEF SetReturn, Return, Idle
<1>6. CASE StartLookup
  BY <1>6, RingFrame DEF StartLookup, Get, GetTwo, GetN, Lookup
<1>7. CASE Looping
  <2>1. "op" \in DOMAIN call
    BY DEF RingInv, TypeOK
  <2>2. /\ UNCHANGED <<hash, ringVars>>
        /\ "op" \in DOMAIN call' /\ call'.op # "Set"
    <3>1. CASE NextOfTwo
      BY <2>1, <3>1 DEF NextOfTwo
    <3>2. CASE NextOfN
      BY <2>1, <3>2 DEF NextOfN
    <3> QED
      BY <1>7, <3>1, <3>2 DEF Looping
  <2> QED
    BY <2>2, RingFrame
<1>8. CASE UNCHANGED vars
  <2>1. /\ \A e : PointsOf(e)' = PointsOf(e)
        /\ NoCollisions' = NoCollisions
        /\ UNCHANGED <<hash, circle, sortedHashes, members, count, call>>
    BY <1>8, PointsStay DEF vars, ringVars
  <2> QED
    BY <2>1 DEF RingInv, TypeOK, PointsBelongToMembers, MembersKeepPoints, SetInv
<1> QED
  BY <1>1, <1>2, <1>3, <1>4, <1>5, <1>6, <1>7, <1>8 DEF Next, Writing

\* Every point in use belongs to a member that hashes there, and a member that
\* shares no hash has all of its points, whatever is added, removed or set.
THEOREM RingStaysTogether == Spec => []RingInv
BY RingInitInv, RingNextInv, PTL DEF Spec

-----------------------------------------------------------------------------
(* Names.                                                                  *)

\* An element that is added takes names over, and nobody else does.
LEMMA AddKeepsNames ==
  ASSUME RingInv, UNCHANGED hash, NEW e \in Elts, AddElt(e), NoCollisions,
         NEW key \in Hashes
  PROVE  Owner(key)' \in {Owner(key)} \cup (members' \ members)
<1>1. /\ DOMAIN circle \subseteq Hashes /\ PointsOf(e) \subseteq Hashes
      /\ PointsOf(e) # {}
  BY PointsType DEF RingInv, TypeOK
<1>2. /\ DOMAIN circle' = DOMAIN circle \cup PointsOf(e)
      /\ \A h \in PointsOf(e) : circle'[h] = e
      /\ \A h \in DOMAIN circle \ PointsOf(e) : circle'[h] = circle[h]
      /\ members' = members \cup {e}
  BY DEF AddElt
<1> DEFINE D == DOMAIN circle
           E == DOMAIN circle'
           c == Closest(key, E)
<1>3. /\ c \in E /\ \A g \in E : Distance(key, c) <= Distance(key, g)
      /\ Owner(key)' = circle'[c]
  BY <1>1, <1>2, ClosestProperty DEF Owner
<1>4. CASE c \in PointsOf(e) /\ e \notin members
  BY <1>2, <1>3, <1>4
<1>5. CASE c \in PointsOf(e) /\ e \in members
  <2>1. c \in D /\ circle[c] = e
    BY <1>5 DEF RingInv, MembersKeepPoints
  <2>2. Closest(key, D) = c
    BY <1>1, <1>2, <1>3, <2>1, ClosestProperty
  <2> QED
    BY <1>2, <1>3, <1>5, <2>1, <2>2 DEF Owner
<1>6. CASE c \notin PointsOf(e)
  <2>1. c \in D /\ circle'[c] = circle[c]
    BY <1>2, <1>3, <1>6
  <2>2. Closest(key, D) = c
    BY <1>1, <1>2, <1>3, <2>1, ClosestProperty
  <2> QED
    BY <1>3, <2>1, <2>2 DEF Owner
<1> QED
  BY <1>4, <1>5, <1>6

\* An element that is removed gives its own names away only.
LEMMA RemoveKeepsNames ==
  ASSUME RingInv, UNCHANGED hash, NEW e \in Elts, RemoveElt(e), NoCollisions,
         NEW key \in Hashes, Owner(key) \in members'
  PROVE  Owner(key)' = Owner(key)
<1>1. /\ DOMAIN circle \subseteq Hashes /\ members \subseteq Elts
      /\ \A h \in DOMAIN circle : circle[h] \in members /\ h \in PointsOf(circle[h])
  BY DEF RingInv, TypeOK, PointsBelongToMembers
<1>2. /\ DOMAIN circle' = DOMAIN circle \ PointsOf(e)
      /\ \A h \in DOMAIN circle \ PointsOf(e) : circle'[h] = circle[h]
      /\ members' = members \ {e}
  BY DEF RemoveElt
<1> DEFINE D == DOMAIN circle
           E == DOMAIN circle'
           c == Closest(key, D)
<1>3. D # {}
  BY <1>1, <1>2, RingAssumption DEF Owner
<1>4. /\ c \in D /\ \A g \in D : Distance(key, c) <= Distance(key, g)
      /\ Owner(key) = circle[c]
  BY <1>1, <1>3, ClosestProperty DEF Owner
<1>5. c \notin PointsOf(e)
  BY <1>1, <1>2, <1>4 DEF NoCollisions
<1>6. Closest(key, E) = c
  BY <1>1, <1>2, <1>4, <1>5, ClosestProperty
<1> QED
  BY <1>2, <1>4, <1>5, <1>6 DEF Owner

NamesStayStep ==
  NoCollisions =>
    \A key \in Hashes : Owner(key) \in members' =>
      Owner(key)' \in {Owner(key)} \cup (members' \ members)

\* When no two elements share a hash, a name changes its element only to one that
\* is added or from one that is removed, for every ring and hash function.
THEOREM RingKeepsNames == Spec => NamesStay
<1>1. RingInv /\ [Next]_vars => NamesStayStep
  <2> SUFFICES ASSUME RingInv, [Next]_vars, NoCollisions,
                      NEW key \in Hashes, Owner(key) \in members'
               PROVE  Owner(key)' \in {Owner(key)} \cup (members' \ members)
    BY DEF NamesStayStep
  <2>1. CASE UNCHANGED circle
    BY <2>1 DEF Owner
  <2>2. ASSUME NEW e \in Elts, UNCHANGED hash, AddElt(e) \/ RemoveElt(e)
        PROVE  Owner(key)' \in {Owner(key)} \cup (members' \ members)
    BY <2>2, AddKeepsNames, RemoveKeepsNames
  <2>3. ASSUME NEW e \in Elts, AddCall(e) \/ RemoveCall(e) \/ SetRemove(e)
        PROVE  Owner(key)' \in {Owner(key)} \cup (members' \ members)
    BY <2>2, <2>3 DEF AddCall, RemoveCall, SetRemove
  <2>4. CASE SetAdd
    BY <2>1, <2>2, <2>4, SetAddStep DEF SetAdd, ringVars
  <2>5. CASE \/ \E elts \in BoundedSeq(Elts, MaxSet) : Set(elts)
             \/ SetReturn \/ StartLookup \/ Looping \/ Return
    BY <2>1, <2>5 DEF Set, SetReturn, StartLookup, Get, GetTwo, GetN, Looping,
                      NextOfTwo, NextOfN, Return, ringVars
  <2>6. CASE UNCHANGED vars
    BY <2>1, <2>6 DEF vars, ringVars
  <2> QED
    BY <2>3, <2>4, <2>5, <2>6 DEF Next, Writing
<1> QED
  BY <1>1, RingStaysTogether, PTL DEF Spec, NamesStay, NamesStayStep

-----------------------------------------------------------------------------
(* Set.                                                                    *)

SetStep ==
  call.op = "Set" =>
    /\ Drift(count', members') = Drift(count, members)
    /\ call' = Idle => members' = ToSet(call.elts)

\* Set ends with the listed elements as members, each counted once more or less
\* as it came or went.
THEOREM SetIsExact == Spec => SetReplacesMembers
<1>1. RingInv /\ [Next]_vars => SetStep
  <2> SUFFICES ASSUME RingInv, [Next]_vars, call.op = "Set"
               PROVE  /\ Drift(count', members') = Drift(count, members)
                      /\ call' = Idle => members' = ToSet(call.elts)
    BY DEF SetStep
  <2>1. IsFiniteSet(members) /\ Cardinality(members) \in Nat /\ count \in Int
    BY FS_CardinalityType DEF RingInv, TypeOK
  <2>2. call # Idle
    BY DEF Idle
  <2>3. ASSUME NEW k \in Elts, SetRemove(k)
        PROVE  Drift(count', members') = Drift(count, members) /\ call' # Idle
    <3>1. k \in members /\ members' = members \ {k} /\ count' = count - 1 /\ call' = call
      BY <2>3 DEF SetRemove, RemoveElt
    <3>2. Cardinality(members') = Cardinality(members) - 1
      BY <2>1, <3>1, FS_RemoveElement
    <3> QED
      BY <2>1, <2>2, <3>1, <3>2 DEF Drift
  <2>4. ASSUME SetAdd
        PROVE  Drift(count', members') = Drift(count, members) /\ call' # Idle
    <3>1. call' # Idle
      BY <2>4, SetAddStep DEF Idle
    <3>2. CASE UNCHANGED ringVars
      BY <3>1, <3>2 DEF ringVars, Drift
    <3>3. CASE Head(call.left) \notin members /\ AddElt(Head(call.left))
      <4>1. members' = members \cup {Head(call.left)} /\ count' = count + 1
        BY <3>3 DEF AddElt
      <4>2. Cardinality(members') = Cardinality(members) + 1
        BY <2>1, <3>3, <4>1, FS_AddElement
      <4> QED
        BY <2>1, <3>1, <4>1, <4>2 DEF Drift
    <3> QED
      BY <2>4, <3>2, <3>3 DEF SetAdd
  <2>5. ASSUME SetReturn
        PROVE  Drift(count', members') = Drift(count, members) /\ members' = ToSet(call.elts)
    <3>1. UNCHANGED ringVars /\ members \subseteq ToSet(call.elts) /\ call.left = << >>
      BY <2>5 DEF SetReturn
    <3>2. ToSet(call.elts) \subseteq members
      BY <3>1 DEF RingInv, SetInv, ToSet
    <3> QED
      BY <3>1, <3>2 DEF ringVars, Drift
  <2>6. CASE UNCHANGED vars
    BY <2>2, <2>6 DEF vars, ringVars, Drift
  <2>7. /\ \A e \in Elts : ~AddCall(e) /\ ~RemoveCall(e)
        /\ \A elts \in BoundedSeq(Elts, MaxSet) : ~Set(elts)
        /\ ~StartLookup /\ ~Looping /\ ~Return
    BY <2>2 DEF AddCall, RemoveCall, Set, StartLookup, Get, GetTwo, GetN,
                Looping, NextOfTwo, NextOfN, Return
  <2> QED
    BY <2>3, <2>4, <2>5, <2>6, <2>7 DEF Next, Writing
<1> QED
  BY <1>1, RingStaysTogether, PTL DEF Spec, SetReplacesMembers, SetStep

-----------------------------------------------------------------------------
(* The sorted points.                                                      *)

\* Of two points the smaller has fewer below it.
LEMMA BelowGrows ==
  ASSUME NEW S \in SUBSET Hashes, IsFiniteSet(S), NEW g \in S, NEW h \in S, g < h
  PROVE  /\ Cardinality(Below(g, S)) \in Nat
         /\ Cardinality(Below(h, S)) \in Nat
         /\ Cardinality(Below(g, S)) < Cardinality(Below(h, S))
<1> DEFINE A == Below(g, S)
           B == Below(h, S)
<1>1. /\ A \subseteq S /\ B \subseteq S
      /\ A \subseteq B /\ g \in B /\ g \notin A
  <2>1. S \subseteq Int
    BY RingAssumption DEF Hashes
  <2>2. /\ \A x : x \in A <=> x \in S /\ x < g
        /\ \A x : x \in B <=> x \in S /\ x < h
    BY DEF Below
  <2> HIDE DEF A, B
  <2>3. \A x \in S : x < g => x < h
    BY <2>1
  <2>4. ~(g < g)
    BY <2>1
  <2> QED
    BY <2>2, <2>3, <2>4
<1>2. /\ IsFiniteSet(B) /\ IsFiniteSet(A)
      /\ Cardinality(A) \in Nat /\ Cardinality(B) \in Nat
  BY <1>1, FS_Subset, FS_CardinalityType
<1>3. Cardinality(A) <= Cardinality(B) /\ (Cardinality(B) = Cardinality(A) => B = A)
  BY <1>1, <1>2, FS_Subset
<1> HIDE DEF A, B
<1>4. Cardinality(A) < Cardinality(B)
  BY <1>1, <1>2, <1>3
<1> QED
  BY <1>2, <1>4 DEF A, B

\* Sorted enumerates a set of points, the smallest first.
LEMMA SortedProperty ==
  ASSUME NEW S \in SUBSET Hashes
  PROVE  /\ IsFiniteSet(S) /\ Cardinality(S) \in Nat
         /\ Sorted(S) \in [1 .. Cardinality(S) -> S]
         /\ \A h \in S : \E i \in 1 .. Cardinality(S) : Sorted(S)[i] = h
         /\ \A i, j \in 1 .. Cardinality(S) : i < j => Sorted(S)[i] < Sorted(S)[j]
<1> DEFINE n == Cardinality(S)
           rank == [h \in S |-> Cardinality(Below(h, S))]
<1>1. IsFiniteSet(S) /\ n \in Nat
  <2>1. HashSpace \in Nat /\ S \subseteq 0 .. HashSpace - 1
    BY RingAssumption DEF Hashes
  <2>2. IsFiniteSet(0 .. HashSpace - 1)
    BY <2>1, FS_Interval
  <2> QED
    BY <2>1, <2>2, FS_Subset, FS_CardinalityType
<1>2. ASSUME NEW h \in S
      PROVE  rank[h] \in 0 .. n - 1
  <2>1. Below(h, S) \subseteq S \ {h}
    BY DEF Below, Hashes
  <2>2. IsFiniteSet(S \ {h}) /\ Cardinality(S \ {h}) = n - 1
    BY <1>1, FS_RemoveElement
  <2>3. Cardinality(Below(h, S)) <= n - 1 /\ Cardinality(Below(h, S)) \in Nat
    BY <2>1, <2>2, FS_Subset, FS_CardinalityType
  <2> QED
    BY <1>1, <2>3
<1>3. ASSUME NEW g \in S, NEW h \in S, g < h
      PROVE  rank[g] < rank[h]
  BY <1>1, <1>3, BelowGrows
<1>4. ASSUME NEW g \in S, NEW h \in S, rank[g] = rank[h]
      PROVE  g = h
  <2>1. rank[g] \in Int /\ rank[h] \in Int /\ g \in Int /\ h \in Int
    BY <1>2 DEF Hashes
  <2>2. ~(g < h) /\ ~(h < g)
    BY <1>3, <1>4, <2>1
  <2> QED
    BY <2>1, <2>2
<1>5. rank \in Injection(S, 0 .. n - 1)
  BY <1>2, <1>4 DEF Injection, IsInjective
<1>6. \A i \in 1 .. n : \E h \in S : rank[h] = i - 1
  <2>1. IsFiniteSet(0 .. n - 1) /\ Cardinality(0 .. n - 1) = n
    <3>1. 0 \in Int /\ n - 1 \in Int
      BY <1>1
    <3> HIDE DEF n, rank
    <3>2. /\ IsFiniteSet(0 .. n - 1)
          /\ Cardinality(0 .. n - 1) = IF 0 <= n - 1 THEN n - 1 - 0 + 1 ELSE 0
      BY <3>1, FS_Interval
    <3> QED
      BY <1>1, <3>2
  <2>2. rank \in Surjection(S, 0 .. n - 1)
    BY <1>5, <2>1, FS_Injection
  <2>3. \A t \in 0 .. n - 1 : \E h \in S : rank[h] = t
    BY <2>2 DEF Surjection
  <2> QED
    BY <1>1, <2>3
<1>7. \A i \in 1 .. n : Sorted(S)[i] \in S /\ rank[Sorted(S)[i]] = i - 1
  BY <1>6 DEF Sorted
<1>8. \A h \in S : rank[h] + 1 \in 1 .. n /\ Sorted(S)[rank[h] + 1] = h
  <2> SUFFICES ASSUME NEW h \in S
               PROVE  rank[h] + 1 \in 1 .. n /\ Sorted(S)[rank[h] + 1] = h
    OBVIOUS
  <2>1. rank[h] \in 0 .. n - 1 /\ rank[h] + 1 \in 1 .. n /\ (rank[h] + 1) - 1 = rank[h]
    BY <1>1, <1>2
  <2>2. Sorted(S)[rank[h] + 1] \in S /\ rank[Sorted(S)[rank[h] + 1]] = rank[h]
    BY <1>7, <2>1
  <2> QED
    BY <1>4, <2>1, <2>2
<1>9. ASSUME NEW i \in 1 .. n, NEW j \in 1 .. n, i < j
      PROVE  Sorted(S)[i] < Sorted(S)[j]
  <2> DEFINE a == Sorted(S)[i]
             b == Sorted(S)[j]
  <2>1. a \in S /\ b \in S /\ rank[a] = i - 1 /\ rank[b] = j - 1
    BY <1>7
  <2>2. a \in Int /\ b \in Int
    <3>1. S \subseteq Int
      BY RingAssumption DEF Hashes
    <3> QED
      BY <2>1, <3>1
  <2> HIDE DEF a, b, rank
  <2>3. a # b /\ ~(b < a)
    BY <1>3, <1>9, <2>1
  <2>4. a < b
    BY <2>2, <2>3
  <2> QED
    BY <2>4 DEF a, b
<1>10. Sorted(S) \in [1 .. n -> S]
  BY <1>7 DEF Sorted
<1> QED
  BY <1>1, <1>8, <1>9, <1>10

\* What the sorted list of a ring that is not empty is.
LEMMA SortedRing ==
  ASSUME TypeOK, sortedHashes = UpdateSortedHashes(circle)
  PROVE  /\ IsFiniteSet(DOMAIN circle)
         /\ sortedHashes \in Seq(DOMAIN circle)
         /\ \A h \in DOMAIN circle : \E i \in 0 .. Len(sortedHashes) - 1 : sortedHashes[i + 1] = h
         /\ \A i, j \in 0 .. Len(sortedHashes) - 1 :
              i < j => sortedHashes[i + 1] < sortedHashes[j + 1]
<1> DEFINE S == DOMAIN circle
           n == Cardinality(S)
<1>1. S \subseteq Hashes
  BY DEF TypeOK
<1>2. /\ IsFiniteSet(S) /\ n \in Nat
      /\ sortedHashes \in [1 .. n -> S]
      /\ \A h \in S : \E i \in 1 .. n : sortedHashes[i] = h
      /\ \A i, j \in 1 .. n : i < j => sortedHashes[i] < sortedHashes[j]
  BY <1>1, SortedProperty DEF UpdateSortedHashes
<1> HIDE DEF S, n
<1>3. sortedHashes \in Seq(S) /\ Len(sortedHashes) = n
  BY <1>2
<1>4. /\ \A i \in 1 .. n : i - 1 \in 0 .. n - 1 /\ (i - 1) + 1 = i
      /\ \A i \in 0 .. n - 1 : i + 1 \in 1 .. n
      /\ \A i, j \in 0 .. n - 1 : i < j => i + 1 < j + 1
  BY <1>2
<1>5. ASSUME NEW h \in S
      PROVE  \E i \in 0 .. n - 1 : sortedHashes[i + 1] = h
  <2>1. PICK i \in 1 .. n : sortedHashes[i] = h
    BY <1>2
  <2>2. i - 1 \in 0 .. n - 1 /\ sortedHashes[(i - 1) + 1] = h
    BY <1>4, <2>1
  <2> QED
    BY <2>2
<1>6. \A i, j \in 0 .. n - 1 : i < j => sortedHashes[i + 1] < sortedHashes[j + 1]
  BY <1>2, <1>4
<1> QED
  BY <1>2, <1>3, <1>5, <1>6 DEF S

\* A set of numbers that is not empty has a least one.
LEMMA LeastNumber ==
  ASSUME NEW D \in SUBSET Nat, D # {}
  PROVE  \E x \in D : \A y \in D : x <= y
<1>1. PICK x \in D : \A y \in D : ~(<<y, x>> \in OpToRel(<, Nat))
  BY WFMin, NatLessThanWellFounded
<1>2. \A y \in D : ~(y < x)
  BY <1>1 DEF OpToRel
<1> QED
  BY <1>2

\* search finds the first point above the name, or the first of all.
LEMMA SearchProperty ==
  ASSUME TypeOK, sortedHashes = UpdateSortedHashes(circle), DOMAIN circle # {},
         NEW key \in Hashes
  PROVE  /\ Len(sortedHashes) \in Nat \ {0}
         /\ \A i \in 0 .. Len(sortedHashes) - 1 : sortedHashes[i + 1] \in DOMAIN circle
         /\ Search(key) \in 0 .. Len(sortedHashes) - 1
         /\ \A i \in 0 .. Search(key) - 1 : sortedHashes[i + 1] <= key
         /\ \/ \A i \in Search(key) .. Len(sortedHashes) - 1 : sortedHashes[i + 1] > key
            \/ Search(key) = 0 /\ \A i \in 0 .. Len(sortedHashes) - 1 : sortedHashes[i + 1] <= key
<1> DEFINE m == Len(sortedHashes)
           above == {i \in 0 .. m - 1 : sortedHashes[i + 1] > key}
           first == CHOOSE i \in above : \A j \in above : i <= j
<1>1. DOMAIN circle \subseteq Int /\ key \in Int
  <2>1. Hashes \subseteq Int
    BY RingAssumption DEF Hashes
  <2> QED
    BY <2>1 DEF TypeOK
<1>2. /\ sortedHashes \in Seq(DOMAIN circle)
      /\ \A h \in DOMAIN circle : \E i \in 0 .. m - 1 : sortedHashes[i + 1] = h
      /\ \A i, j \in 0 .. m - 1 : i < j => sortedHashes[i + 1] < sortedHashes[j + 1]
  BY SortedRing
<1>3. m \in Nat /\ m # 0
  BY <1>2
<1>4. \A i \in 0 .. m - 1 : sortedHashes[i + 1] \in DOMAIN circle /\ sortedHashes[i + 1] \in Int
  BY <1>1, <1>2, <1>3
<1>5. Search(key) = IF above = {} THEN 0 ELSE first
  BY DEF Search
<1>6. \A i \in 0 .. m - 1 : i \notin above => sortedHashes[i + 1] <= key
  BY <1>1, <1>4
<1>7. CASE above = {}
  <2>1. Search(key) = 0 /\ \A i \in 0 .. m - 1 : sortedHashes[i + 1] <= key
    BY <1>5, <1>6, <1>7
  <2> QED
    BY <1>3, <1>4, <2>1
<1>8. CASE above # {}
  <2>1. above \in SUBSET Nat /\ above \subseteq 0 .. m - 1
    BY <1>3
  <2>2. \A i \in above : sortedHashes[i + 1] > key
    OBVIOUS
  <2> HIDE DEF above
  <2>3. first \in above /\ \A y \in above : first <= y
    BY <1>8, <2>1, LeastNumber
  <2>4. Search(key) = first
    BY <1>5, <1>8
  <2> HIDE DEF first
  <2>5. first \in 0 .. m - 1 /\ sortedHashes[first + 1] > key
    BY <2>1, <2>2, <2>3
  <2>6. ASSUME NEW i \in 0 .. first - 1
        PROVE  sortedHashes[i + 1] <= key
    <3>1. i \in 0 .. m - 1 /\ ~(first <= i)
      BY <1>3, <2>5
    <3> QED
      BY <1>6, <2>3, <3>1
  <2>7. ASSUME NEW i \in first .. m - 1
        PROVE  sortedHashes[i + 1] > key
    <3>1. i \in 0 .. m - 1 /\ (i = first \/ first < i)
      BY <1>3, <2>5
    <3>2. i = first \/ sortedHashes[first + 1] < sortedHashes[i + 1]
      BY <1>2, <2>5, <3>1
    <3>3. /\ key \in Int /\ sortedHashes[first + 1] \in Int
          /\ sortedHashes[i + 1] \in Int
      BY <1>1, <1>4, <2>5, <3>1
    <3> HIDE DEF m
    <3> QED
      BY <2>5, <3>2, <3>3
  <2> QED
    BY <1>3, <1>4, <2>4, <2>5, <2>6, <2>7
<1> QED
  BY <1>7, <1>8

-----------------------------------------------------------------------------
(* Walking over the ring.                                                  *)

Point(i) == sortedHashes[i + 1]

\* How many rounds a lookup of key takes to index p.
Turn(key, p) ==
  IF p >= Search(key) THEN p - Search(key) ELSE p - Search(key) + Len(sortedHashes)

\* A later turn is farther away.
LEMMA LaterIsFarther ==
  ASSUME TypeOK, sortedHashes = UpdateSortedHashes(circle), DOMAIN circle # {},
         NEW key \in Hashes,
         NEW p \in 0 .. Len(sortedHashes) - 1, NEW q \in 0 .. Len(sortedHashes) - 1,
         Turn(key, p) < Turn(key, q)
  PROVE  Distance(key, Point(p)) < Distance(key, Point(q))
<1> DEFINE m == Len(sortedHashes)
           s == Search(key)
           g == Point(p)
           h == Point(q)
<1>1. /\ m \in Nat \ {0} /\ s \in 0 .. m - 1
      /\ \A i \in 0 .. m - 1 : Point(i) \in DOMAIN circle
      /\ \A i \in 0 .. s - 1 : Point(i) <= key
      /\ \/ \A i \in s .. m - 1 : Point(i) > key
         \/ s = 0 /\ \A i \in 0 .. m - 1 : Point(i) <= key
  BY SearchProperty DEF Point
<1>2. p < q => g < h
  BY SortedRing DEF Point
<1>3. /\ g \in 0 .. HashSpace - 1 /\ h \in 0 .. HashSpace - 1 /\ key \in 0 .. HashSpace - 1
      /\ HashSpace \in Nat
  BY <1>1, RingAssumption DEF TypeOK, Hashes
<1>4. \/ s <= p /\ p < q
      \/ p < q /\ q < s
      \/ s <= p /\ q < s
  BY <1>1 DEF Turn
<1> HIDE DEF m, s, g, h
<1>5. CASE s <= p /\ p < q
  <2>1. g < h /\ ((g > key /\ h > key) \/ (g <= key /\ h <= key))
    <3>1. p \in s .. m - 1 /\ q \in s .. m - 1
      BY <1>1, <1>5 DEF m
    <3> QED
      BY <1>1, <1>2, <1>5, <3>1 DEF g, h, m
  <2> QED
    BY <1>3, <2>1 DEF Distance, g, h
<1>6. CASE p < q /\ q < s
  <2>1. g < h /\ g <= key /\ h <= key
    BY <1>1, <1>2, <1>6 DEF g, h, m
  <2> QED
    BY <1>3, <2>1 DEF Distance, g, h
<1>7. CASE s <= p /\ q < s
  <2>1. g > key /\ h <= key
    BY <1>1, <1>7 DEF g, h, m
  <2> QED
    BY <1>3, <2>1 DEF Distance, g, h
<1> QED
  BY <1>4, <1>5, <1>6, <1>7

\* The index of search is that of the owner, and nobody is nearer; what is nearer
\* than the next index is nearer than this one, or is at it; and the index before
\* search is the farthest.
LEMMA WalkProperty ==
  ASSUME TypeOK, sortedHashes = UpdateSortedHashes(circle), DOMAIN circle # {},
         NEW key \in Hashes, NEW j \in 0 .. Len(sortedHashes) - 1
  PROVE  /\ At(Search(key)) = Owner(key) /\ Nearer(key, Point(Search(key))) = {}
         /\ Point(j) \in DOMAIN circle /\ At(j) = circle[Point(j)]
         /\ Wrap(j + 1) \in 0 .. Len(sortedHashes) - 1
         /\ Nearer(key, Point(Wrap(j + 1))) \subseteq Nearer(key, Point(j)) \cup {At(j)}
         /\ j + 1 = Search(key) =>
              \A h \in DOMAIN circle : circle[h] \in Nearer(key, Point(j)) \cup {At(j)}
<1> DEFINE m == Len(sortedHashes)
           s == Search(key)
           k == Wrap(j + 1)
<1>1. /\ m \in Nat \ {0} /\ s \in 0 .. m - 1
      /\ \A i \in 0 .. m - 1 : Point(i) \in DOMAIN circle
  BY SearchProperty DEF Point
<1>2. \A h \in DOMAIN circle : \E i \in 0 .. m - 1 : Point(i) = h
  BY SortedRing DEF Point
<1>3. \A i \in 0 .. m - 1 : Distance(key, Point(i)) \in Nat
  BY <1>1, DistanceInjective DEF TypeOK
<1>4. \A i \in 0 .. m - 1 : At(i) = circle[Point(i)]
  BY <1>1 DEF At, Point
<1>5. \A p \in 0 .. m - 1 : Turn(key, p) \in 0 .. m - 1
  BY <1>1 DEF Turn
<1>6. \A p, q \in 0 .. m - 1 :
        Distance(key, Point(p)) < Distance(key, Point(q)) => Turn(key, p) < Turn(key, q)
  <2> SUFFICES ASSUME NEW p \in 0 .. m - 1, NEW q \in 0 .. m - 1,
                      Distance(key, Point(p)) < Distance(key, Point(q))
               PROVE  Turn(key, p) < Turn(key, q)
    OBVIOUS
  <2>1. /\ Distance(key, Point(p)) \in Nat /\ Distance(key, Point(q)) \in Nat
        /\ Turn(key, p) \in 0 .. m - 1 /\ Turn(key, q) \in 0 .. m - 1
    BY <1>3, <1>5
  <2>2. Turn(key, q) < Turn(key, p) => Distance(key, Point(q)) < Distance(key, Point(p))
    BY LaterIsFarther
  <2>3. Turn(key, p) = Turn(key, q) => p = q
    BY <1>1 DEF Turn
  <2>4. p # q
    BY <2>1
  <2> QED
    BY <2>1, <2>2, <2>3, <2>4
<1>7. \A p, q \in 0 .. m - 1 : Turn(key, p) = Turn(key, q) => p = q
  BY <1>1 DEF Turn
<1>8. Turn(key, s) = 0
  BY <1>1 DEF Turn
<1>9. j \in 0 .. m - 1
  OBVIOUS
<1> HIDE DEF m, s
<1>10. \A i \in 0 .. m - 1 : ~(Distance(key, Point(i)) < Distance(key, Point(s)))
  <2> SUFFICES ASSUME NEW i \in 0 .. m - 1,
                      Distance(key, Point(i)) < Distance(key, Point(s))
               PROVE  FALSE
    OBVIOUS
  <2>1. Turn(key, i) < Turn(key, s) /\ Turn(key, i) \in 0 .. m - 1
    BY <1>1, <1>5, <1>6
  <2> QED
    BY <1>8, <2>1
<1>11. Nearer(key, Point(s)) = {}
  BY <1>2, <1>10 DEF Nearer
<1>12. At(s) = Owner(key)
  <2>1. \A g \in DOMAIN circle : Distance(key, Point(s)) <= Distance(key, g)
    <3> SUFFICES ASSUME NEW i \in 0 .. m - 1
                 PROVE  Distance(key, Point(s)) <= Distance(key, Point(i))
      BY <1>2
    <3>1. Distance(key, Point(s)) \in Nat /\ Distance(key, Point(i)) \in Nat
      BY <1>1, <1>3
    <3> QED
      BY <1>10, <3>1
  <2>2. Closest(key, DOMAIN circle) = Point(s)
    BY <1>1, <2>1, ClosestProperty DEF TypeOK
  <2> QED
    BY <1>1, <1>4, <2>2 DEF Owner
<1>13. k \in 0 .. m - 1 /\ (k = s \/ Turn(key, k) = Turn(key, j) + 1)
  BY <1>1 DEF Wrap, Turn, m, s
<1>14. Nearer(key, Point(k)) \subseteq Nearer(key, Point(j)) \cup {At(j)}
  <2>1. CASE k = s
    BY <1>11, <2>1
  <2>2. CASE Turn(key, k) = Turn(key, j) + 1
    <3> SUFFICES ASSUME NEW g \in DOMAIN circle, Distance(key, g) < Distance(key, Point(k))
                 PROVE  circle[g] \in Nearer(key, Point(j)) \cup {At(j)}
      BY DEF Nearer
    <3>1. PICK p \in 0 .. m - 1 : Point(p) = g
      BY <1>2
    <3>2. Turn(key, p) < Turn(key, k)
      BY <1>6, <1>13, <3>1
    <3>3. Turn(key, p) < Turn(key, j) \/ p = j
      <4>1. Turn(key, p) \in 0 .. m - 1 /\ Turn(key, j) \in 0 .. m - 1
        BY <1>5, <1>9
      <4>2. Turn(key, p) = Turn(key, j) => p = j
        BY <1>7, <1>9
      <4> QED
        BY <1>1, <2>2, <3>2, <4>1, <4>2
    <3>4. CASE p = j
      BY <1>4, <3>1, <3>4
    <3>5. CASE Turn(key, p) < Turn(key, j)
      BY <3>1, <3>5, LaterIsFarther DEF Nearer, m
    <3> QED
      BY <3>3, <3>4, <3>5
  <2> QED
    BY <1>13, <2>1, <2>2
<1>15. ASSUME j + 1 = s, NEW h \in DOMAIN circle
       PROVE  circle[h] \in Nearer(key, Point(j)) \cup {At(j)}
  <2>1. PICK p \in 0 .. m - 1 : Point(p) = h
    BY <1>2
  <2>2. Turn(key, j) = m - 1
    BY <1>1, <1>15 DEF Turn, m, s
  <2>3. Turn(key, p) < Turn(key, j) \/ p = j
    <3>1. Turn(key, p) \in 0 .. m - 1
      BY <1>5
    <3>2. Turn(key, p) = Turn(key, j) => p = j
      BY <1>7, <1>9
    <3> QED
      BY <1>1, <2>2, <3>1, <3>2
  <2>4. CASE p = j
    BY <1>4, <2>1, <2>4
  <2>5. CASE Turn(key, p) < Turn(key, j)
    BY <2>1, <2>5, LaterIsFarther DEF Nearer, m
  <2> QED
    BY <2>3, <2>4, <2>5
<1> QED
  BY <1>1, <1>4, <1>12, <1>13, <1>14, <1>15, <1>11 DEF m, s

-----------------------------------------------------------------------------
(* Results.                                                                *)

\* The reach of an element is the distance of its closest point.
LEMMA ReachProperty ==
  ASSUME TypeOK, NEW key \in Hashes, NEW h \in DOMAIN circle,
         \A g \in DOMAIN circle : circle[g] = circle[h] => Distance(key, h) <= Distance(key, g)
  PROVE  Reach(key, circle[h]) = Distance(key, h)
<1> DEFINE d == Distance(key, h)
<1>1. \A g \in DOMAIN circle : Distance(key, g) \in Nat
  BY DistanceInjective DEF TypeOK
<1>2. d \in 1 .. HashSpace
  BY RingAssumption DEF TypeOK, Hashes, Distance
<1>3. \A c \in 1 .. HashSpace :
        /\ \E g \in DOMAIN circle : circle[g] = circle[h] /\ Distance(key, g) = c
        /\ \A g \in DOMAIN circle : circle[g] = circle[h] => c <= Distance(key, g)
        => c = d
  BY <1>1, <1>2
<1> QED
  BY <1>2, <1>3 DEF Reach

\* An element with a point has a closest one.
LEMMA ClosestPoint ==
  ASSUME TypeOK, NEW key \in Hashes, NEW e, \E h \in DOMAIN circle : circle[h] = e
  PROVE  \E h \in DOMAIN circle :
           /\ circle[h] = e
           /\ \A g \in DOMAIN circle : circle[g] = e => Distance(key, h) <= Distance(key, g)
<1> DEFINE S == {h \in DOMAIN circle : circle[h] = e}
<1>1. S \in SUBSET Hashes /\ S # {}
  BY DEF TypeOK
<1>2. \E h \in S : \A g \in S : Distance(key, h) <= Distance(key, g)
  BY <1>1, ClosestExists
<1> QED
  BY <1>2

\* On a healthy ring a list in order has the closest elements, the closest first.
LEMMA InOrderIsClosest ==
  ASSUME TypeOK, Healthy, NEW key \in Hashes, NEW res \in Seq(Elts),
         InOrder(key, res), IsInjective(res),
         NEW i \in 1 .. Len(res), NEW e \in members \ {res[j] : j \in 1 .. i}
  PROVE  Reach(key, res[i]) < Reach(key, e)
<1>1. PICK h \in DOMAIN circle :
        circle[h] = res[i] /\ Nearer(key, h) \subseteq {res[j] : j \in 1 .. i - 1}
  BY DEF InOrder
<1>2. \A g \in DOMAIN circle : Distance(key, g) \in Nat
  BY DistanceInjective DEF TypeOK
<1>3. \A g \in DOMAIN circle :
        circle[g] \notin {res[j] : j \in 1 .. i - 1} => Distance(key, h) <= Distance(key, g)
  <2> SUFFICES ASSUME NEW g \in DOMAIN circle, circle[g] \notin {res[j] : j \in 1 .. i - 1}
               PROVE  Distance(key, h) <= Distance(key, g)
    OBVIOUS
  <2>1. circle[g] \notin Nearer(key, h)
    BY <1>1
  <2>2. ~(Distance(key, g) < Distance(key, h))
    BY <2>1 DEF Nearer
  <2> QED
    BY <1>2, <2>2
<1>4. res[i] \notin {res[j] : j \in 1 .. i - 1}
  BY DEF IsInjective
<1>5. Reach(key, res[i]) = Distance(key, h)
  BY <1>1, <1>3, <1>4, ReachProperty
<1>6. PICK k \in DOMAIN circle :
        /\ circle[k] = e
        /\ \A g \in DOMAIN circle : circle[g] = e => Distance(key, k) <= Distance(key, g)
  BY ClosestPoint DEF Healthy
<1>7. Reach(key, e) = Distance(key, k)
  BY <1>6, ReachProperty
<1>8. e # res[i] /\ e \notin {res[j] : j \in 1 .. i - 1}
  OBVIOUS
<1>9. Distance(key, h) <= Distance(key, k)
  BY <1>3, <1>6, <1>8
<1>10. Distance(key, h) # Distance(key, k)
  BY <1>1, <1>6, <1>8, DistanceInjective DEF TypeOK
<1> QED
  BY <1>2, <1>5, <1>7, <1>9, <1>10

\* A list without repetitions of some members is as long as they are many.
LEMMA LengthOfList ==
  ASSUME TypeOK, NEW res \in Seq(Elts), IsInjective(res), ToSet(res) \subseteq members
  PROVE  /\ Len(res) = Cardinality(ToSet(res))
         /\ Len(res) <= Cardinality(members) /\ Cardinality(members) \in Nat
         /\ ToSet(res) = members => Len(res) = Cardinality(members)
<1>1. IsFiniteSet(1 .. Len(res)) /\ Cardinality(1 .. Len(res)) = Len(res)
  <2>1. Len(res) \in Nat
    OBVIOUS
  <2>2. /\ IsFiniteSet(1 .. Len(res))
        /\ Cardinality(1 .. Len(res)) = IF 1 <= Len(res) THEN Len(res) - 1 + 1 ELSE 0
    BY <2>1, FS_Interval
  <2> QED
    BY <2>1, <2>2
<1>2. res \in Surjection(1 .. Len(res), ToSet(res)) /\ res \in Injection(1 .. Len(res), ToSet(res))
  BY DEF Surjection, Injection, ToSet, IsInjective
<1>3. Cardinality(ToSet(res)) = Len(res)
  BY <1>1, <1>2, FS_Surjection
<1>4. /\ Cardinality(ToSet(res)) <= Cardinality(members)
      /\ Cardinality(members) \in Nat
  BY FS_Subset, FS_CardinalityType DEF TypeOK
<1> QED
  BY <1>3, <1>4

-----------------------------------------------------------------------------
(* The invariant of lookups.                                               *)

\* A lookup does not change what it reads.
LEMMA LookupFrame ==
  ASSUME UNCHANGED <<hash, ringVars>>
  PROVE  /\ UNCHANGED <<circle, sortedHashes, members, count>>
         /\ Healthy' = Healthy
         /\ \A key : Owner(key)' = Owner(key) /\ Search(key)' = Search(key)
         /\ \A key, h : Nearer(key, h)' = Nearer(key, h)
         /\ \A key, res : InOrder(key, res)' = InOrder(key, res)
         /\ \A key, e : Reach(key, e)' = Reach(key, e)
         /\ \A key, n, res : ClosestOnes(key, n, res)' = ClosestOnes(key, n, res)
         /\ UpdateSortedHashes(circle)' = UpdateSortedHashes(circle)
         /\ \A i : Wrap(i)' = Wrap(i)
<1>1. UNCHANGED <<circle, sortedHashes, members, count>>
  BY DEF ringVars
<1>2. /\ Healthy' = Healthy
      /\ \A key : Owner(key)' = Owner(key) /\ Search(key)' = Search(key)
      /\ UpdateSortedHashes(circle)' = UpdateSortedHashes(circle)
      /\ \A i : Wrap(i)' = Wrap(i)
  BY <1>1 DEF Healthy, Owner, Search, UpdateSortedHashes, Wrap
<1>3. \A key, h : Nearer(key, h)' = Nearer(key, h)
  BY <1>1 DEF Nearer
<1>4. \A key, res : InOrder(key, res)' = InOrder(key, res)
  BY <1>1, <1>3 DEF InOrder
<1>5. \A key, e : Reach(key, e)' = Reach(key, e)
  BY <1>1 DEF Reach
<1>6. \A key, n, res : ClosestOnes(key, n, res)' = ClosestOnes(key, n, res)
  BY <1>1, <1>5 DEF ClosestOnes
<1> QED
  BY <1>1, <1>2, <1>3, <1>4, <1>5, <1>6

\* The list of the owner alone is in order.
LEMMA OwnerIsFirst ==
  ASSUME RingInv, LookupInv, NEW key \in Hashes, DOMAIN circle # {}
  PROVE  /\ At(Search(key)) = Owner(key) /\ Owner(key) \in members /\ Owner(key) \in Elts
         /\ InOrder(key, <<Owner(key)>>) /\ IsInjective(<<Owner(key)>>)
         /\ ToSet(<<Owner(key)>>) = {Owner(key)}
         /\ Healthy => count \in Nat \ {0}
<1> DEFINE h == Point(Search(key))
<1>1. /\ Search(key) \in 0 .. Len(sortedHashes) - 1
      /\ TypeOK /\ sortedHashes = UpdateSortedHashes(circle)
  BY SearchProperty DEF RingInv, LookupInv
<1>2. /\ At(Search(key)) = Owner(key) /\ Nearer(key, h) = {}
      /\ h \in DOMAIN circle /\ circle[h] = Owner(key)
  BY <1>1, WalkProperty
<1>3. Owner(key) \in members /\ Owner(key) \in Elts
  BY <1>2 DEF RingInv, PointsBelongToMembers, TypeOK
<1>4. /\ InOrder(key, <<Owner(key)>>) /\ IsInjective(<<Owner(key)>>)
      /\ ToSet(<<Owner(key)>>) = {Owner(key)}
  BY <1>2 DEF InOrder, IsInjective, ToSet
<1>5. Healthy => count \in Nat \ {0}
  BY <1>1, <1>3, FS_CardinalityType, FS_EmptySet DEF Healthy, TypeOK
<1> QED
  BY <1>2, <1>3, <1>4, <1>5

\* A list in order of the right length is the answer.
LEMMA ListIsAnswer ==
  ASSUME RingInv, Healthy, NEW key \in Hashes, NEW n \in Nat, NEW res \in Seq(Elts),
         InOrder(key, res), IsInjective(res),
         Len(res) = IF n < count THEN n ELSE count
  PROVE  ClosestOnes(key, n, res)
BY InOrderIsClosest DEF ClosestOnes, RingInv

\* A lookup begins with the owner, and nothing is nearer than the next point but it.
LEMMA StartKeepsLookup ==
  ASSUME RingInv, LookupInv, UNCHANGED <<hash, ringVars>>, DOMAIN circle # {},
         NEW key \in Hashes, NEW op \in {"GetTwo", "GetN", "return"}, NEW n \in Nat,
         call' = Lookup(op, key, n, Search(key), <<At(Search(key))>>),
         op = "return" => n = 1 \/ (n = 2 /\ count = 1),
         op = "GetTwo" => n = 2 /\ count # 1,
         op = "GetN" => n <= count /\ n # 1
  PROVE  LookupInv'
<1> DEFINE s == Search(key)
           a == Owner(key)
           m == Len(sortedHashes)
<1>1. /\ TypeOK /\ sortedHashes = UpdateSortedHashes(circle)
      /\ m \in Nat \ {0} /\ s \in 0 .. m - 1 /\ s \in Nat /\ s + 1 \in 1 .. m
      /\ count \in Int
  BY SearchProperty DEF RingInv, LookupInv, TypeOK
<1>2. /\ At(s) = a /\ a \in Elts
      /\ InOrder(key, <<a>>) /\ IsInjective(<<a>>) /\ ToSet(<<a>>) = {a}
      /\ Healthy => count \in Nat \ {0}
  BY OwnerIsFirst
<1>3. Nearer(key, sortedHashes[Wrap(s + 1) + 1]) \subseteq {a}
  BY <1>1, <1>2, WalkProperty DEF Point
<1> HIDE DEF s, a, m
<1>4. call' = [op |-> op, key |-> key, n |-> n, start |-> s, i |-> s + 1, res |-> <<a>>]
  BY <1>2 DEF Lookup, s
<1>5. /\ call'.op = op /\ call'.key = key /\ call'.n = n /\ call'.start = s
      /\ call'.i = s + 1 /\ call'.res = <<a>>
  BY <1>4
<1>6. UNCHANGED <<circle, sortedHashes, members, count>>
  BY LookupFrame
<1>7. sortedHashes' = UpdateSortedHashes(circle)'
  BY <1>1, <1>6, LookupFrame
<1>8. LookupTypeOK'
  <2>1. <<a>> \in Seq(Elts) /\ s + 1 \in 1 .. Len(sortedHashes') /\ s \in Nat
    BY <1>1, <1>2, <1>6 DEF m
  <2> QED
    BY <1>4, <2>1 DEF LookupTypeOK
<1>9. Search(call.key)' = s /\ Owner(call.key)' = a
  BY <1>5, LookupFrame DEF s, a
<1>10. InOrder(call.key, call.res)'
  <2>1. InOrder(call.key, call.res)' <=> InOrder(key, <<a>>)
    BY <1>5, LookupFrame
  <2> QED
    BY <1>2, <2>1
<1>11. ClosestOnes(call.key, call.n, call.res)' = ClosestOnes(key, n, <<a>>)
  BY <1>5, LookupFrame
<1>12. PassedInv'
  <2>1. /\ call'.start = Search(call.key)'
        /\ call'.res # << >> /\ call'.res[1] = Owner(call.key)'
    <3>1. <<a>> # << >> /\ <<a>>[1] = a
      OBVIOUS
    <3> QED
      BY <1>5, <1>9, <3>1
  <2>2. Nearer(call.key, sortedHashes[Wrap(call.i) + 1])' \subseteq ToSet(call'.res)
    BY <1>2, <1>3, <1>5, <1>6, LookupFrame
  <2>3. op = "GetTwo" => call'.n = 2 /\ count' # 1 /\ ToSet(call'.res) = {call'.res[1]}
    BY <1>2, <1>5, <1>6
  <2>4. op = "GetN" => /\ call'.n <= count' /\ (call'.n > 0 => Len(call'.res) < call'.n)
                       /\ IsInjective(call'.res) /\ InOrder(call.key, call.res)'
    <3> SUFFICES ASSUME op = "GetN"
                 PROVE  /\ n <= count /\ (n > 0 => Len(<<a>>) < n)
                        /\ IsInjective(<<a>>)
      BY <1>5, <1>6, <1>10
    <3>1. Len(<<a>>) = 1 /\ n # 1 /\ n <= count
      OBVIOUS
    <3> QED
      BY <1>2, <3>1
  <2> QED
    BY <1>5, <2>1, <2>2, <2>3, <2>4 DEF PassedInv
<1>13. ReturnsClosest'
  <2> SUFFICES ASSUME op = "return"
               PROVE  /\ call'.res[1] = Owner(call.key)'
                      /\ Healthy' /\ call'.n > 0 => ClosestOnes(call.key, call.n, call.res)'
    BY <1>5 DEF ReturnsClosest
  <2>1. call'.res[1] = Owner(call.key)'
    BY <1>5, <1>9
  <2>2. ASSUME Healthy
        PROVE  ClosestOnes(key, n, <<a>>)
    <3>1. count \in Nat \ {0} /\ (n = 1 \/ (n = 2 /\ count = 1))
      BY <1>2, <2>2
    <3>2. 1 = IF n < count THEN n ELSE count
      BY <3>1
    <3>3. <<a>> \in Seq(Elts) /\ Len(<<a>>) = 1
      BY <1>2
    <3>4. Len(<<a>>) = IF n < count THEN n ELSE count
      BY <3>2, <3>3
    <3> QED
      BY <1>2, <2>2, <3>3, <3>4, ListIsAnswer
  <2> QED
    BY <1>5, <1>11, <2>1, <2>2, LookupFrame
<1> QED
  BY <1>7, <1>8, <1>12, <1>13 DEF LookupInv

\* What a round of a loop looks at.
LEMMA RoundProperty ==
  ASSUME RingInv, LookupInv, call.op \in {"GetTwo", "GetN"}
  PROVE  /\ call \in [op : {"GetTwo", "GetN", "return"}, key : Hashes, n : Nat, start : Nat,
                      i : 1 .. Len(sortedHashes), res : Seq(Elts)]
         /\ TypeOK /\ sortedHashes = UpdateSortedHashes(circle) /\ DOMAIN circle # {}
         /\ Wrap(call.i) \in 0 .. Len(sortedHashes) - 1
         /\ Wrap(call.i) + 1 \in 1 .. Len(sortedHashes)
         /\ Point(Wrap(call.i)) \in DOMAIN circle
         /\ At(Wrap(call.i)) = circle[Point(Wrap(call.i))]
         /\ At(Wrap(call.i)) \in Elts \cap members
         /\ Nearer(call.key, Point(Wrap(call.i))) \subseteq ToSet(call.res)
         /\ Nearer(call.key, Point(Wrap(Wrap(call.i) + 1))) \subseteq ToSet(call.res) \cup {At(Wrap(call.i))}
         /\ Wrap(call.i) + 1 = call.start /\ Healthy =>
              members \subseteq ToSet(call.res) \cup {At(Wrap(call.i))}
<1> DEFINE j == Wrap(call.i)
           m == Len(sortedHashes)
<1>1. /\ call \in [op : {"GetTwo", "GetN", "return"}, key : Hashes, n : Nat, start : Nat,
                   i : 1 .. m, res : Seq(Elts)]
      /\ TypeOK /\ sortedHashes = UpdateSortedHashes(circle)
  BY DEF LookupInv, LookupTypeOK, InLookup, RingInv
<1>2. DOMAIN circle # {} /\ m \in Nat
  <2>1. sortedHashes \in Seq(DOMAIN circle)
    BY <1>1, SortedRing
  <2>2. 1 .. m # {}
    BY <1>1
  <2> QED
    BY <2>1, <2>2
<1>3. j \in 0 .. m - 1 /\ j + 1 \in 1 .. m
  BY <1>1, <1>2 DEF Wrap
<1>4. /\ Nearer(call.key, Point(j)) \subseteq ToSet(call.res)
      /\ call.start = Search(call.key)
  BY DEF LookupInv, PassedInv, InLookup, Point
<1>5. call.key \in Hashes
  BY <1>1
<1> HIDE DEF j
<1>6. /\ Point(j) \in DOMAIN circle /\ At(j) = circle[Point(j)]
      /\ Nearer(call.key, Point(Wrap(j + 1))) \subseteq Nearer(call.key, Point(j)) \cup {At(j)}
      /\ j + 1 = Search(call.key) =>
           \A h \in DOMAIN circle : circle[h] \in Nearer(call.key, Point(j)) \cup {At(j)}
  BY <1>1, <1>2, <1>3, <1>5, WalkProperty
<1>7. At(j) \in Elts \cap members
  BY <1>6 DEF RingInv, TypeOK, PointsBelongToMembers
<1>8. ASSUME j + 1 = call.start, Healthy
      PROVE  members \subseteq ToSet(call.res) \cup {At(j)}
  BY <1>4, <1>6, <1>8 DEF Healthy
<1> QED
  BY <1>1, <1>2, <1>3, <1>4, <1>6, <1>7, <1>8 DEF j

\* A round that finds another element, one that comes back to the start, and one
\* that goes on.
LEMMA NextOfTwoKeepsLookup ==
  ASSUME RingInv, LookupInv, NextOfTwo
  PROVE  LookupInv'
<1> DEFINE j == Wrap(call.i)
           a == call.res[1]
           key == call.key
           found == At(j)
           next == IF found # a \/ j + 1 = call.start THEN "return" ELSE "GetTwo"
<1>1. /\ call.op = "GetTwo" /\ UNCHANGED <<hash, ringVars>>
      /\ call' = [call EXCEPT !.i = j + 1, !.res = <<a, found>>, !.op = next]
  BY DEF NextOfTwo
<1>2. /\ call \in [op : {"GetTwo", "GetN", "return"}, key : Hashes, n : Nat, start : Nat,
                   i : 1 .. Len(sortedHashes), res : Seq(Elts)]
      /\ TypeOK /\ sortedHashes = UpdateSortedHashes(circle) /\ DOMAIN circle # {}
      /\ j + 1 \in 1 .. Len(sortedHashes)
      /\ Point(j) \in DOMAIN circle /\ found = circle[Point(j)]
      /\ found \in Elts \cap members
      /\ Nearer(key, Point(j)) \subseteq ToSet(call.res)
      /\ Nearer(key, Point(Wrap(j + 1))) \subseteq ToSet(call.res) \cup {found}
      /\ j + 1 = call.start /\ Healthy => members \subseteq ToSet(call.res) \cup {found}
  BY <1>1, RoundProperty
<1>3. /\ call.start = Search(key) /\ call.res # << >> /\ a = Owner(key)
      /\ call.n = 2 /\ count # 1 /\ ToSet(call.res) = {a}
  BY <1>1 DEF LookupInv, PassedInv, InLookup
<1>4. /\ a \in members /\ a \in Elts /\ InOrder(key, <<a>>)
      /\ Healthy => count \in Nat \ {0}
  BY <1>2, <1>3, OwnerIsFirst
<1>5. /\ call'.op = next /\ call'.key = key /\ call'.n = 2
      /\ call'.start = call.start /\ call'.i = j + 1 /\ call'.res = <<a, found>>
  BY <1>1, <1>2, <1>3
<1>6. UNCHANGED <<circle, sortedHashes, members, count>>
  BY <1>1, LookupFrame
<1> HIDE DEF j, a, key, found
<1>7. sortedHashes' = UpdateSortedHashes(circle)'
  BY <1>1, <1>2, <1>6, LookupFrame
<1>8. <<a, found>> \in Seq(Elts) /\ ToSet(<<a, found>>) = {a, found}
  BY <1>2, <1>4 DEF ToSet
<1>9. LookupTypeOK'
  BY <1>1, <1>2, <1>6, <1>8 DEF LookupTypeOK
<1>10. Search(call.key)' = call.start /\ Owner(call.key)' = a
  BY <1>1, <1>3, <1>5, LookupFrame
<1>11. PassedInv'
  <2>1. /\ call'.start = Search(call.key)'
        /\ call'.res # << >> /\ call'.res[1] = Owner(call.key)'
    <3>1. <<a, found>> # << >> /\ <<a, found>>[1] = a
      OBVIOUS
    <3> QED
      BY <1>5, <1>10, <3>1
  <2>2. Nearer(call.key, sortedHashes[Wrap(call.i) + 1])' = Nearer(key, Point(Wrap(j + 1)))
    BY <1>1, <1>5, <1>6, LookupFrame DEF Point
  <2>3. ASSUME found = a
        PROVE  Nearer(key, Point(Wrap(j + 1))) \subseteq ToSet(call'.res) /\ ToSet(call'.res) = {call'.res[1]}
    BY <1>2, <1>3, <1>5, <1>8, <2>3
  <2>4. call'.op = "GetTwo" => found = a
    BY <1>5
  <2>5. call'.op # "GetN"
    BY <1>5
  <2> QED
    BY <1>3, <1>5, <1>6, <2>1, <2>2, <2>3, <2>4, <2>5 DEF PassedInv
<1>12. ASSUME next = "return", Healthy
       PROVE  ClosestOnes(key, 2, <<a, found>>)
  <2>1. found # a
    <3> SUFFICES ASSUME found = a PROVE FALSE
      OBVIOUS
    <3>1. members \subseteq {a}
      BY <1>2, <1>3, <1>12
    <3>2. members = {a}
      BY <1>4, <3>1
    <3> QED
      BY <1>3, <1>12, <3>2, FS_Singleton DEF Healthy
  <2>2. IsInjective(<<a, found>>) /\ Len(<<a, found>>) = 2
    BY <2>1 DEF IsInjective
  <2>3. InOrder(key, <<a, found>>)
    <3> DEFINE res == <<a, found>>
    <3>1. Len(res) = 2 /\ res[1] = a /\ res[2] = found
      OBVIOUS
    <3>2. PICK h \in DOMAIN circle : circle[h] = a /\ Nearer(key, h) = {}
      <4>1. Len(<<a>>) = 1 /\ <<a>>[1] = a /\ {<<a>>[i] : i \in 1 .. 1 - 1} = {}
        OBVIOUS
      <4> QED
        BY <1>4, <4>1 DEF InOrder
    <3>3. Nearer(key, Point(j)) \subseteq {res[i] : i \in 1 .. 2 - 1}
      <4>1. {res[i] : i \in 1 .. 2 - 1} = {a}
        BY <3>1
      <4> QED
        BY <1>2, <1>3, <4>1
    <3> HIDE DEF res
    <3>4. \A k \in 1 .. Len(res) : k = 1 \/ k = 2
      BY <3>1
    <3> QED
      BY <1>2, <3>1, <3>2, <3>3, <3>4 DEF InOrder, res
  <2>4. 2 = IF 2 < count THEN 2 ELSE count
    <3>1. 2 <= Cardinality(members) /\ Cardinality(members) \in Nat
      BY <1>2, <1>4, <1>8, <2>2, LengthOfList
    <3> QED
      BY <1>12, <3>1 DEF Healthy
  <2> QED
    BY <1>8, <1>12, <2>2, <2>3, <2>4, <1>2, ListIsAnswer DEF key
<1>13. ReturnsClosest'
  <2> SUFFICES ASSUME next = "return"
               PROVE  /\ call'.res[1] = Owner(call.key)'
                      /\ Healthy' /\ call'.n > 0 => ClosestOnes(call.key, call.n, call.res)'
    BY <1>5 DEF ReturnsClosest
  <2>1. ClosestOnes(call.key, call.n, call.res)' <=> ClosestOnes(key, 2, <<a, found>>)
    BY <1>1, <1>5, LookupFrame
  <2>2. Healthy' <=> Healthy
    BY <1>1, LookupFrame
  <2>3. call'.res[1] = Owner(call.key)'
    <3>1. <<a, found>>[1] = a
      OBVIOUS
    <3> QED
      BY <1>5, <1>10, <3>1
  <2> QED
    BY <1>12, <2>1, <2>2, <2>3
<1> QED
  BY <1>7, <1>9, <1>11, <1>13 DEF LookupInv

\* A new element at the end of a list.
LEMMA AppendProperty ==
  ASSUME NEW res \in Seq(Elts), NEW e \in Elts, e \notin ToSet(res), IsInjective(res)
  PROVE  /\ Append(res, e) \in Seq(Elts) /\ Len(Append(res, e)) = Len(res) + 1
         /\ \A i \in 1 .. Len(res) : Append(res, e)[i] = res[i]
         /\ Append(res, e)[Len(res) + 1] = e
         /\ ToSet(Append(res, e)) = ToSet(res) \cup {e}
         /\ IsInjective(Append(res, e))
<1> DEFINE n == Len(res)
           new == Append(res, e)
<1>1. /\ n \in Nat /\ DOMAIN res = 1 .. n /\ DOMAIN new = 1 .. n + 1
      /\ new \in Seq(Elts) /\ Len(new) = n + 1
      /\ \A i \in 1 .. n : new[i] = res[i]
      /\ new[n + 1] = e
  OBVIOUS
<1>2. \A i \in 1 .. n + 1 : i \in 1 .. n \/ i = n + 1
  BY <1>1
<1>3. 1 .. n \subseteq 1 .. n + 1 /\ n + 1 \in 1 .. n + 1
  BY <1>1
<1> HIDE DEF new, n
<1>4. ToSet(new) = ToSet(res) \cup {e}
  BY <1>1, <1>2, <1>3 DEF ToSet
<1>5. \A i \in 1 .. n : res[i] # e
  BY <1>1 DEF ToSet
<1>6. IsInjective(new)
  BY <1>1, <1>2, <1>5 DEF IsInjective
<1> QED
  BY <1>1, <1>4, <1>6 DEF new, n

\* A round that adds an element or passes one that is there already.
LEMMA NextOfNKeepsLookup ==
  ASSUME RingInv, LookupInv, NextOfN
  PROVE  LookupInv'
<1> DEFINE j == Wrap(call.i)
           key == call.key
           n == call.n
           found == At(j)
           res == IF found \in ToSet(call.res) THEN call.res ELSE Append(call.res, found)
           next == IF Len(res) = n \/ j + 1 = call.start THEN "return" ELSE "GetN"
<1>1. /\ call.op = "GetN" /\ UNCHANGED <<hash, ringVars>>
      /\ call' = [call EXCEPT !.i = j + 1, !.res = res, !.op = next]
  BY DEF NextOfN
<1>2. /\ call \in [op : {"GetTwo", "GetN", "return"}, key : Hashes, n : Nat, start : Nat,
                   i : 1 .. Len(sortedHashes), res : Seq(Elts)]
      /\ TypeOK /\ sortedHashes = UpdateSortedHashes(circle) /\ DOMAIN circle # {}
      /\ j + 1 \in 1 .. Len(sortedHashes)
      /\ Point(j) \in DOMAIN circle /\ found = circle[Point(j)]
      /\ found \in Elts \cap members
      /\ Nearer(key, Point(j)) \subseteq ToSet(call.res)
      /\ Nearer(key, Point(Wrap(j + 1))) \subseteq ToSet(call.res) \cup {found}
      /\ j + 1 = call.start /\ Healthy => members \subseteq ToSet(call.res) \cup {found}
  BY <1>1, RoundProperty
<1>3. /\ call.start = Search(key) /\ call.res # << >> /\ call.res[1] = Owner(key)
      /\ n <= count /\ (n > 0 => Len(call.res) < n)
      /\ IsInjective(call.res) /\ InOrder(key, call.res)
  BY <1>1 DEF LookupInv, PassedInv, InLookup
<1>4. n \in Nat /\ key \in Hashes /\ call.res \in Seq(Elts) /\ count \in Int
  BY <1>2 DEF TypeOK
<1>5. /\ call'.op = next /\ call'.key = key /\ call'.n = n
      /\ call'.start = call.start /\ call'.i = j + 1 /\ call'.res = res
  BY <1>1, <1>2
<1>6. UNCHANGED <<circle, sortedHashes, members, count>>
  BY <1>1, LookupFrame
<1> HIDE DEF j, key, n, found
<1>7. /\ res \in Seq(Elts) /\ ToSet(res) = ToSet(call.res) \cup {found} /\ IsInjective(res)
      /\ Len(res) \in {Len(call.res), Len(call.res) + 1} /\ Len(res) \in Nat
      /\ \A i \in 1 .. Len(call.res) : res[i] = call.res[i]
  <2>1. CASE found \in ToSet(call.res)
    BY <1>3, <1>4, <2>1
  <2>2. CASE found \notin ToSet(call.res)
    <3>1. res = Append(call.res, found)
      BY <2>2
    <3>2. /\ res \in Seq(Elts) /\ ToSet(res) = ToSet(call.res) \cup {found} /\ IsInjective(res)
          /\ Len(res) = Len(call.res) + 1
          /\ \A i \in 1 .. Len(call.res) : res[i] = call.res[i]
      BY <1>2, <1>3, <1>4, <2>2, <3>1, AppendProperty
    <3> QED
      BY <3>2
  <2> QED
    BY <2>1, <2>2
<1>8. res # << >> /\ res[1] = Owner(key)
  <2>1. 1 \in 1 .. Len(call.res)
    BY <1>3, <1>4
  <2>2. res[1] = call.res[1]
    BY <1>7, <2>1
  <2>3. Len(res) # 0
    BY <1>4, <1>7, <2>1
  <2> QED
    BY <1>3, <1>7, <2>2, <2>3
<1>9. InOrder(key, res)
  <2>1. CASE found \in ToSet(call.res)
    BY <1>3, <2>1
  <2>2. CASE found \notin ToSet(call.res)
    <3> DEFINE m == Len(call.res)
    <3>1. res = Append(call.res, found)
      BY <2>2
    <3> HIDE DEF res
    <3>2. /\ Len(res) = m + 1 /\ m \in Nat /\ res[m + 1] = found
          /\ \A i \in 1 .. m : res[i] = call.res[i]
      BY <1>2, <1>4, <3>1
    <3>3. ASSUME NEW k \in 1 .. m
          PROVE  \E h \in DOMAIN circle :
                   circle[h] = res[k] /\ Nearer(key, h) \subseteq {res[i] : i \in 1 .. k - 1}
      <4>1. PICK h \in DOMAIN circle :
              circle[h] = call.res[k] /\ Nearer(key, h) \subseteq {call.res[i] : i \in 1 .. k - 1}
        BY <1>3 DEF InOrder
      <4>2. 1 .. k - 1 \subseteq 1 .. m
        BY <3>2
      <4>3. {call.res[i] : i \in 1 .. k - 1} = {res[i] : i \in 1 .. k - 1}
        BY <3>2, <4>2
      <4> QED
        BY <3>2, <4>1, <4>3
    <3>4. Nearer(key, Point(j)) \subseteq {res[i] : i \in 1 .. (m + 1) - 1}
      <4>1. ToSet(call.res) \subseteq {res[i] : i \in 1 .. m}
        BY <1>4, <3>2 DEF ToSet
      <4>2. (m + 1) - 1 = m
        BY <3>2
      <4> QED
        BY <1>2, <4>1, <4>2
    <3>5. \A k \in 1 .. Len(res) : k \in 1 .. m \/ k = m + 1
      BY <3>2
    <3> QED
      BY <1>2, <3>2, <3>3, <3>4, <3>5 DEF InOrder
  <2> QED
    BY <2>1, <2>2
<1> HIDE DEF res
<1>10. n > 0 => Len(res) <= n
  BY <1>3, <1>4, <1>7
<1>11. ToSet(res) \subseteq members
  <2>1. \A i \in 1 .. Len(res) : res[i] \in members
    <3>1. \A i \in 1 .. Len(res) : \E h \in DOMAIN circle : circle[h] = res[i]
      BY <1>9 DEF InOrder
    <3> QED
      BY <3>1 DEF RingInv, PointsBelongToMembers
  <2> QED
    BY <1>7, <2>1 DEF ToSet
<1>12. sortedHashes' = UpdateSortedHashes(circle)'
  BY <1>1, <1>2, <1>6, LookupFrame
<1>13. LookupTypeOK'
  BY <1>1, <1>2, <1>6, <1>7 DEF LookupTypeOK
<1>14. /\ Search(call.key)' = call.start /\ Owner(call.key)' = res[1]
       /\ call.start = Search(key)
  BY <1>1, <1>3, <1>5, <1>8, LookupFrame
<1>15. PassedInv'
  <2>1. /\ call'.start = Search(call.key)'
        /\ call'.res # << >> /\ call'.res[1] = Owner(call.key)'
    BY <1>5, <1>8, <1>14
  <2>2. Nearer(call.key, sortedHashes[Wrap(call.i) + 1])' \subseteq ToSet(call'.res)
    <3>1. Nearer(call.key, sortedHashes[Wrap(call.i) + 1])' = Nearer(key, Point(Wrap(j + 1)))
      BY <1>1, <1>5, <1>6, LookupFrame DEF Point
    <3> QED
      BY <1>2, <1>5, <1>7, <3>1
  <2>3. call'.op # "GetTwo"
    BY <1>5
  <2>4. call'.op = "GetN" => (n > 0 => Len(res) < n)
    BY <1>4, <1>5, <1>7, <1>10
  <2>5. InOrder(call.key, call.res)'
    <3>1. InOrder(call.key, call.res)' <=> InOrder(key, res)
      BY <1>1, <1>5, LookupFrame
    <3> QED
      BY <1>9, <3>1
  <2> QED
    BY <1>3, <1>5, <1>6, <1>7, <2>1, <2>2, <2>3, <2>4, <2>5 DEF PassedInv
<1>16. ASSUME next = "return", Healthy, n > 0
       PROVE  ClosestOnes(key, n, res)
  <2>1. /\ Len(res) <= Cardinality(members) /\ Cardinality(members) \in Nat
        /\ ToSet(res) = members => Len(res) = Cardinality(members)
    BY <1>2, <1>7, <1>11, LengthOfList
  <2>2. count = Cardinality(members)
    BY <1>16 DEF Healthy
  <2>3. Len(res) = n
    <3>1. CASE j + 1 = call.start
      <4>1. ToSet(res) = members
        BY <1>2, <1>7, <1>11, <1>16, <3>1
      <4> QED
        BY <1>3, <1>4, <1>7, <1>10, <1>16, <2>1, <2>2, <4>1
    <3>2. CASE Len(res) = n
      BY <3>2
    <3> QED
      BY <1>16, <3>1, <3>2
  <2>4. Len(res) = IF n < count THEN n ELSE count
    BY <1>3, <1>4, <2>3
  <2> QED
    BY <1>4, <1>7, <1>9, <1>16, <2>4, ListIsAnswer
<1>17. ReturnsClosest'
  <2> SUFFICES ASSUME next = "return"
               PROVE  /\ call'.res[1] = Owner(call.key)'
                      /\ Healthy' /\ call'.n > 0 => ClosestOnes(call.key, call.n, call.res)'
    BY <1>5 DEF ReturnsClosest
  <2>1. ClosestOnes(call.key, call.n, call.res)' <=> ClosestOnes(key, n, res)
    BY <1>1, <1>5, LookupFrame
  <2>2. Healthy' <=> Healthy
    BY <1>1, LookupFrame
  <2> QED
    BY <1>5, <1>14, <1>16, <2>1, <2>2
<1> QED
  BY <1>12, <1>13, <1>15, <1>17 DEF LookupInv

\* Every step keeps what lookups rest on.
LEMMA LookupNextInv == RingInv /\ LookupInv /\ [Next]_vars => LookupInv'
<1> SUFFICES ASSUME RingInv, LookupInv, [Next]_vars
             PROVE  LookupInv'
  OBVIOUS
<1>1. TypeOK /\ "op" \in DOMAIN call /\ sortedHashes = UpdateSortedHashes(circle)
  BY DEF RingInv, TypeOK, LookupInv
<1>2. ASSUME sortedHashes' = UpdateSortedHashes(circle)', ~InLookup'
      PROVE  LookupInv'
  BY <1>2 DEF LookupInv, LookupTypeOK, PassedInv, ReturnsClosest, InLookup
<1>3. ASSUME NEW e \in Elts, AddElt(e) \/ RemoveElt(e)
      PROVE  sortedHashes' = UpdateSortedHashes(circle)'
  BY <1>3 DEF AddElt, RemoveElt, UpdateSortedHashes
<1>4. ASSUME NEW e \in Elts, AddCall(e) \/ RemoveCall(e)
      PROVE  LookupInv'
  <2>1. ~InLookup'
    BY <1>4 DEF AddCall, RemoveCall, Idle, InLookup
  <2> QED
    BY <1>2, <1>3, <1>4, <2>1 DEF AddCall, RemoveCall
<1>5. ASSUME NEW k \in Elts, SetRemove(k)
      PROVE  LookupInv'
  <2>1. ~InLookup'
    BY <1>5 DEF SetRemove, InLookup
  <2> QED
    BY <1>2, <1>3, <1>5, <2>1 DEF SetRemove
<1>6. CASE SetAdd
  <2>1. /\ call' \in [op : {"Set"}, elts : Seq(Elts), left : Seq(Elts)]
        /\ Head(call.left) \in Elts
    BY <1>6, SetAddStep
  <2>2. ~InLookup'
    BY <2>1 DEF InLookup
  <2>3. CASE AddElt(Head(call.left))
    BY <1>2, <1>3, <2>1, <2>2, <2>3
  <2>4. CASE UNCHANGED ringVars
    BY <1>1, <1>2, <2>2, <2>4 DEF ringVars, UpdateSortedHashes
  <2> QED
    BY <1>6, <2>3, <2>4 DEF SetAdd
<1>7. CASE (\E elts \in BoundedSeq(Elts, MaxSet) : Set(elts)) \/ SetReturn \/ Return
  <2>1. UNCHANGED ringVars /\ ~InLookup'
    BY <1>7 DEF Set, SetReturn, Return, Idle, InLookup
  <2> QED
    BY <1>1, <1>2, <2>1 DEF ringVars, UpdateSortedHashes
<1>8. CASE StartLookup
  <2>1. ASSUME NEW key \in Hashes, Get(key)
        PROVE  LookupInv'
    BY <2>1, StartKeepsLookup DEF Get
  <2>2. ASSUME NEW key \in Hashes, GetTwo(key)
        PROVE  LookupInv'
    <3>1. /\ UNCHANGED <<hash, ringVars>> /\ DOMAIN circle # {}
          /\ call' = Lookup(IF count = 1 THEN "return" ELSE "GetTwo",
                            key, 2, Search(key), <<At(Search(key))>>)
      BY <2>2 DEF GetTwo
    <3>2. CASE count = 1
      BY <3>1, <3>2, StartKeepsLookup
    <3>3. CASE count # 1
      BY <3>1, <3>3, StartKeepsLookup
    <3> QED
      BY <3>2, <3>3
  <2>3. ASSUME NEW key \in Hashes, NEW n \in 0 .. MaxLookup, GetN(key, n)
        PROVE  LookupInv'
    <3> DEFINE limit == IF count < n THEN count ELSE n
    <3>1. /\ UNCHANGED <<hash, ringVars>> /\ DOMAIN circle # {} /\ limit >= 0
          /\ call' = Lookup(IF limit = 1 THEN "return" ELSE "GetN",
                            key, limit, Search(key), <<At(Search(key))>>)
      BY <2>3 DEF GetN
    <3>2. limit \in Nat /\ limit <= count
      BY <1>1, <3>1, RingBoundsAssumption DEF TypeOK
    <3> HIDE DEF limit
    <3>3. CASE limit = 1
      BY <3>1, <3>2, <3>3, StartKeepsLookup
    <3>4. CASE limit # 1
      BY <3>1, <3>2, <3>4, StartKeepsLookup
    <3> QED
      BY <3>3, <3>4
  <2> QED
    BY <1>8, <2>1, <2>2, <2>3 DEF StartLookup
<1>9. CASE Looping
  BY <1>9, NextOfTwoKeepsLookup, NextOfNKeepsLookup DEF Looping
<1>10. CASE UNCHANGED vars
  <2>1. UNCHANGED <<hash, ringVars>> /\ UNCHANGED call
    BY <1>10 DEF vars
  <2>2. /\ UNCHANGED <<circle, sortedHashes, members, count>>
        /\ sortedHashes' = UpdateSortedHashes(circle)'
    BY <1>1, <2>1, LookupFrame
  <2>3. LookupTypeOK'
    BY <2>1, <2>2 DEF LookupInv, LookupTypeOK, InLookup
  <2>4. PassedInv'
    <3>1. /\ Search(call.key)' = Search(call.key) /\ Owner(call.key)' = Owner(call.key)
          /\ Nearer(call.key, sortedHashes[Wrap(call.i) + 1])' =
               Nearer(call.key, sortedHashes[Wrap(call.i) + 1])
          /\ InOrder(call.key, call.res)' = InOrder(call.key, call.res)
      BY <2>1, <2>2, LookupFrame
    <3> QED
      BY <2>1, <2>2, <3>1 DEF LookupInv, PassedInv, InLookup
  <2>5. ReturnsClosest'
    <3>1. /\ Owner(call.key)' = Owner(call.key) /\ Healthy' = Healthy
          /\ ClosestOnes(call.key, call.n, call.res)' = ClosestOnes(call.key, call.n, call.res)
      BY <2>1, <2>2, LookupFrame
    <3> QED
      BY <2>1, <3>1 DEF LookupInv, ReturnsClosest
  <2> QED
    BY <2>2, <2>3, <2>4, <2>5 DEF LookupInv
<1> QED
  BY <1>4, <1>5, <1>6, <1>7, <1>8, <1>9, <1>10 DEF Next, Writing

\* An empty ring has no points to sort.
LEMMA LookupInitInv == RingInit => LookupInv
<1> SUFFICES ASSUME RingInit PROVE LookupInv
  OBVIOUS
<1>1. DOMAIN circle = {} /\ sortedHashes = << >> /\ call.op = "idle"
  BY DEF RingInit, Idle
<1>2. Sorted({}) = << >>
  <2>1. 1 .. Cardinality({}) = {}
    BY FS_EmptySet
  <2> QED
    BY <2>1 DEF Sorted
<1>3. sortedHashes = UpdateSortedHashes(circle)
  BY <1>1, <1>2 DEF UpdateSortedHashes
<1> QED
  BY <1>1, <1>3 DEF LookupInv, LookupTypeOK, PassedInv, ReturnsClosest, InLookup

\* What the loops of GetTwo and GetN have passed is in their result, and results
\* list elements in the order of their points, for any ring.
THEOREM LookupsCorrect == Spec => []LookupInv
BY RingStaysTogether, LookupInitInv, LookupNextInv, PTL DEF Spec

\* Get, GetTwo and GetN return the owner of the name first and, on a ring whose
\* members all count once and have a point, exactly the closest elements.
THEOREM ClosestReturned == Spec => []ReturnsClosest
<1>1. LookupInv => ReturnsClosest
  BY DEF LookupInv
<1> QED
  BY <1>1, LookupsCorrect, PTL
=============================================================================
