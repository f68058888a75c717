---------------------------- MODULE RoutingProofs ----------------------------
(****************************************************************************)
(* Where a job goes and what becomes of it there: the search for a member   *)
(* of a pool misses none that answers and takes turns, for any members and  *)
(* tasks (Pools), and a job comes to grief for a reason, for any printers,  *)
(* documents and edits (Dispatch).                                          *)
(****************************************************************************)
EXTENDS Pools, Dispatch, Integers, TLAPS
LOCAL INSTANCE SequencesExt

-----------------------------------------------------------------------------
(* Pools: the invariants.                                                  *)

\* Of what a task set out to ask, what it will not ask any more was in doubt.
SearchInv ==
    \A t \in Dispatchers :
        /\ search[t].at = "asking" =>
              /\ ToSet(search[t].order) \subseteq search[t].asked
              /\ search[t].asked \subseteq ToSet(search[t].order) \cup search[t].doubt
        /\ search[t].at = "none" => search[t].asked \subseteq search[t].doubt
        /\ search[t].at = "found" => ToSet(search[t].chosen) \subseteq search[t].asked

\* The place of the next member to be first.
Place == cursor % Len(roster)

\* Place i has been passed in the lap that began at the place from.
Passed(i, from) ==
    IF from <= Place THEN from <= i /\ i < Place ELSE from <= i \/ i < Place

\* In round robin all members were first equally often, but for those passed in
\* this lap, which were first once more.
LapInv ==
    strategy = "round_robin" /\ roster # <<>> =>
        \E laps \in Nat, from \in 0..(Len(roster) - 1) :
            \A i \in 0..(Len(roster) - 1) :
                starts[roster[i + 1]] = IF Passed(i, from) THEN laps + 1 ELSE laps

PoolsInv == PoolsTypeOK /\ SearchInv /\ LapInv

-----------------------------------------------------------------------------
(* Pools: rotating.                                                        *)

\* A rotation of a roster begins with the member at the cursor, and has the same members.
LEMMA Rotation ==
    ASSUME NEW s \in Seq(Members), NEW k \in 0..(Len(s) - 1)
    PROVE  /\ RotatedAt(s, k) \in Seq(Members)
           /\ RotatedAt(s, k) # <<>>
           /\ Head(RotatedAt(s, k)) = s[k + 1]
           /\ ToSet(RotatedAt(s, k)) = ToSet(s)
<1> DEFINE n == Len(s)
           first == SubSeq(s, k + 1, n)
           rest == SubSeq(s, 1, k)
           turned == RotatedAt(s, k)
<1>1. n \in Nat /\ k \in Nat /\ k < n
  OBVIOUS
<1>2. first \in Seq(Members) /\ Len(first) = n - k /\ \A i \in 1..(n - k) : first[i] = s[k + i]
  BY <1>1
<1>3. rest \in Seq(Members) /\ Len(rest) = k /\ \A i \in 1..k : rest[i] = s[i]
  BY <1>1
<1>4. turned \in Seq(Members) /\ Len(turned) = n
  <2>1. turned = first \o rest
    BY DEF RotatedAt
  <2> HIDE DEF n, first, rest, turned
  <2>2. turned \in Seq(Members)
    BY <1>2, <1>3, <2>1
  <2>3. Len(turned) = Len(first) + Len(rest)
    <3>1. first \in Seq(Members) /\ rest \in Seq(Members)
      BY <1>2, <1>3
    <3> QED
      BY <2>1, <3>1
  <2> QED
    BY <1>1, <1>2, <1>3, <2>2, <2>3
<1>5. \A i \in 1..(n - k) : turned[i] = s[k + i]
  BY <1>1, <1>2, <1>3 DEF RotatedAt
<1>6. \A i \in 1..k : turned[n - k + i] = s[i]
  BY <1>1, <1>2, <1>3 DEF RotatedAt
<1> HIDE DEF first, rest, turned
<1>7. turned # <<>> /\ Head(turned) = s[k + 1]
  BY <1>1, <1>4, <1>5
<1>8. ASSUME NEW i \in 1..n PROVE \E j \in 1..n : turned[j] = s[i]
  <2>1. CASE i <= k
    <3>1. n - k + i \in 1..n
      BY <1>1, <2>1
    <3> QED
      BY <1>6, <2>1, <3>1
  <2>2. CASE i > k
    <3>1. i - k \in 1..(n - k) /\ i - k \in 1..n /\ k + (i - k) = i
      BY <1>1, <2>2
    <3> QED
      BY <1>5, <3>1
  <2> QED
    BY <1>1, <2>1, <2>2
<1>9. ASSUME NEW i \in 1..n PROVE \E j \in 1..n : turned[i] = s[j]
  <2>1. CASE i <= n - k
    <3>1. k + i \in 1..n
      BY <1>1, <2>1
    <3> QED
      BY <1>1, <1>5, <2>1, <3>1
  <2>2. CASE i > n - k
    <3>1. i - (n - k) \in 1..k /\ i - (n - k) \in 1..n /\ n - k + (i - (n - k)) = i
      BY <1>1, <2>2
    <3> QED
      BY <1>6, <3>1
  <2> QED
    BY <1>1, <2>1, <2>2
<1>10. DOMAIN turned = 1..n /\ DOMAIN s = 1..n
  BY <1>4
<1>11. ToSet(turned) = ToSet(s)
  <2>1. \A x : x \in ToSet(turned) <=> \E j \in 1..n : x = turned[j]
    BY <1>10, Zenon DEF ToSet
  <2>2. \A x : x \in ToSet(s) <=> \E j \in 1..n : x = s[j]
    BY <1>10, Zenon DEF ToSet
  <2> QED
    BY <1>8, <1>9, <2>1, <2>2
<1> QED
  BY <1>4, <1>7, <1>11 DEF turned

\* The cursor goes to the next place, and after the last one to the first.
LEMMA NextPlace ==
    ASSUME NEW n \in Nat \ {0}, NEW c \in Nat
    PROVE  /\ c % n \in 0..(n - 1)
           /\ ((c % n) + 1) % n = IF (c % n) + 1 = n THEN 0 ELSE (c % n) + 1
           /\ (((c % n) + 1) % n) % n = ((c % n) + 1) % n
<1>1. c % n \in 0..(n - 1)
  OBVIOUS
<1>2. \A i \in 0..(n - 1) : i % n = i
  OBVIOUS
<1>3. n % n = 0
  OBVIOUS
<1> QED
  BY <1>1, <1>2, <1>3

\* The members still to be asked are the one asked now and those after it.
LEMMA HeadAndTail ==
    ASSUME NEW s \in Seq(Members), s # <<>>
    PROVE  /\ Head(s) \in Members /\ Tail(s) \in Seq(Members)
           /\ ToSet(s) = {Head(s)} \cup ToSet(Tail(s))
<1>1. Head(s) \in Members /\ Tail(s) \in Seq(Members) /\ Len(Tail(s)) = Len(s) - 1
  OBVIOUS
<1>2. Len(s) \in Nat \ {0} /\ Head(s) = s[1] /\ \A i \in 1..(Len(s) - 1) : Tail(s)[i] = s[i + 1]
  OBVIOUS
<1>3. ASSUME NEW i \in 1..Len(s)
      PROVE  s[i] = Head(s) \/ \E j \in 1..(Len(s) - 1) : s[i] = Tail(s)[j]
  <2>1. CASE i = 1
    BY <1>2, <2>1
  <2>2. CASE i # 1
    <3>1. i - 1 \in 1..(Len(s) - 1) /\ (i - 1) + 1 = i
      BY <1>2, <2>2
    <3> QED
      BY <1>2, <3>1
  <2> QED
    BY <2>1, <2>2
<1>4. ASSUME NEW i \in 1..(Len(s) - 1) PROVE \E j \in 1..Len(s) : Tail(s)[i] = s[j]
  <2>1. i + 1 \in 1..Len(s)
    BY <1>2
  <2> QED
    BY <1>2, <2>1
<1>5. \E j \in 1..Len(s) : Head(s) = s[j]
  BY <1>2
<1>6. DOMAIN s = 1..Len(s) /\ DOMAIN Tail(s) = 1..(Len(s) - 1)
  BY <1>1
<1>7. \A x : x \in ToSet(s) <=> \E j \in 1..Len(s) : x = s[j]
  BY <1>6, Zenon DEF ToSet
<1>8. \A x : x \in ToSet(Tail(s)) <=> \E j \in 1..(Len(s) - 1) : x = Tail(s)[j]
  BY <1>6, Zenon DEF ToSet
<1> QED
  BY <1>1, <1>3, <1>4, <1>5, <1>7, <1>8

\* A roster is made of members, each in one place.
LEMMA RosterIsProper ==
    ASSUME PoolsTypeOK
    PROVE  /\ roster \in Seq(Members)
           /\ ToSet(roster) \subseteq Members
           /\ \A i, j \in 1..Len(roster) : roster[i] = roster[j] => i = j
<1>1. roster \in Seq(Members) /\ IsInjective(roster)
  BY PoolsAssumption DEF PoolsTypeOK
<1>2. DOMAIN roster = 1..Len(roster)
  BY <1>1
<1> QED
  BY <1>1, <1>2 DEF IsInjective, ToSet

-----------------------------------------------------------------------------
(* Pools: every step keeps the invariant.                                  *)

\* A task that begins in turn: it asks all of the roster, rotated to the cursor's place.
LEMMA Beginning ==
    ASSUME PoolsTypeOK, NEW t \in Dispatchers, BeginSearch(t), roster # <<>>
    PROVE  \E k \in 0..(Len(roster) - 1) :
             /\ k = IF strategy = "round_robin" THEN Place ELSE 0
             /\ RotatedAt(roster, k) \in Seq(Members)
             /\ Head(RotatedAt(roster, k)) = roster[k + 1]
             /\ roster[k + 1] \in Members
             /\ ToSet(RotatedAt(roster, k)) = ToSet(roster)
             /\ search' = [search EXCEPT ![t] =
                  [at |-> "asking", order |-> RotatedAt(roster, k), chosen |-> <<>>,
                   asked |-> ToSet(roster), doubt |-> ToSet(roster) \ up]]
             /\ IF strategy = "round_robin"
                THEN cursor' = Advanced(k) /\ CountFirst(roster[k + 1])
                ELSE UNCHANGED <<cursor, starts>>
<1> DEFINE k == IF strategy = "round_robin" THEN Place ELSE 0
<1>1. roster \in Seq(Members) /\ Len(roster) \in Nat \ {0}
  BY RosterIsProper
<1>2. cursor \in Nat
  BY DEF PoolsTypeOK
<1>3. k \in 0..(Len(roster) - 1)
  <2>1. cursor % Len(roster) \in 0..(Len(roster) - 1)
    BY <1>1, <1>2, NextPlace
  <2> QED
    BY <1>1, <2>1 DEF Place
<1>4. /\ search' = [search EXCEPT ![t] =
            [at |-> "asking", order |-> RotatedAt(roster, k), chosen |-> <<>>,
             asked |-> ToSet(roster), doubt |-> ToSet(roster) \ up]]
      /\ IF strategy = "round_robin"
         THEN cursor' = Advanced(k) /\ CountFirst(Head(RotatedAt(roster, k)))
         ELSE UNCHANGED <<cursor, starts>>
  BY Zenon DEF BeginSearch, Place
<1>5. /\ RotatedAt(roster, k) \in Seq(Members)
      /\ Head(RotatedAt(roster, k)) = roster[k + 1]
      /\ ToSet(RotatedAt(roster, k)) = ToSet(roster)
  BY <1>1, <1>3, Rotation
<1>6. roster[k + 1] \in Members
  BY <1>1, <1>3
<1> HIDE DEF k
<1>7. k = IF strategy = "round_robin" THEN Place ELSE 0
  BY DEF k
<1> QED
  BY <1>3, <1>4, <1>5, <1>6, <1>7, Zenon

\* Every step keeps the types.
LEMMA PoolsTypeStep == ASSUME PoolsTypeOK, [PoolsNext]_poolVars PROVE PoolsTypeOK'
<1>1. ASSUME NEW t \in Dispatchers, BeginSearch(t) PROVE PoolsTypeOK'
  <2>1. CASE roster = <<>>
    <3>1. [NoSearch EXCEPT !.at = "none"] \in Searches
      <4>1. <<>> \in Seq(Members) /\ {} \in SUBSET Members /\ "idle" \in Outcomes
        BY DEF Outcomes
      <4>2. NoSearch \in Searches
        BY <4>1 DEF NoSearch, Searches
      <4> QED
        BY <4>2 DEF Searches, Outcomes
    <3>2. /\ search' = [search EXCEPT ![t] = [NoSearch EXCEPT !.at = "none"]]
          /\ UNCHANGED <<cursor, starts>>
      BY <1>1, <2>1, Zenon DEF BeginSearch
    <3>3. search' \in [Dispatchers -> Searches]
      BY <3>1, <3>2 DEF PoolsTypeOK
    <3> QED
      BY <1>1, <3>2, <3>3 DEF BeginSearch, PoolsTypeOK
  <2>2. CASE roster # <<>>
    <3>1. PICK k \in 0..(Len(roster) - 1) :
             /\ k = IF strategy = "round_robin" THEN Place ELSE 0
             /\ RotatedAt(roster, k) \in Seq(Members)
             /\ roster[k + 1] \in Members
             /\ search' = [search EXCEPT ![t] =
                  [at |-> "asking", order |-> RotatedAt(roster, k), chosen |-> <<>>,
                   asked |-> ToSet(roster), doubt |-> ToSet(roster) \ up]]
             /\ IF strategy = "round_robin"
                THEN cursor' = Advanced(k) /\ CountFirst(roster[k + 1])
                ELSE UNCHANGED <<cursor, starts>>
      BY <1>1, <2>2, Beginning
    <3>2. [at |-> "asking", order |-> RotatedAt(roster, k), chosen |-> <<>>,
           asked |-> ToSet(roster), doubt |-> ToSet(roster) \ up] \in Searches
      BY <3>1, RosterIsProper DEF Searches, Outcomes
    <3>3. search' \in [Dispatchers -> Searches]
      BY <3>1, <3>2 DEF PoolsTypeOK
    <3>4. k \in Nat /\ Len(roster) \in Nat \ {0}
      BY <2>2, RosterIsProper
    <3>5. (k + 1) % Len(roster) \in Nat
      BY <3>4, NextPlace
    <3>6. cursor' \in Nat
      BY <3>1, <3>5 DEF PoolsTypeOK, Advanced
    <3>7. starts' = starts \/ starts' = [starts EXCEPT ![roster[k + 1]] = @ + 1]
      BY <3>1, Zenon DEF CountFirst
    <3>8. starts' \in [Members -> Nat]
      BY <3>7 DEF PoolsTypeOK
    <3> QED
      BY <1>1, <3>3, <3>6, <3>8 DEF BeginSearch, PoolsTypeOK
  <2> QED
    BY <2>1, <2>2
<1>2. ASSUME NEW t \in Dispatchers, Answers(t) PROVE PoolsTypeOK'
  <2>1. Asked(t) \in Members
    BY <1>2 DEF Answers, PoolsTypeOK
  <2>2. [search[t] EXCEPT !.at = "found", !.chosen = <<Asked(t)>>, !.order = <<>>] \in Searches
    <3>1. search[t] \in Searches
      BY DEF PoolsTypeOK
    <3>2. <<Asked(t)>> \in Seq(Members) /\ <<>> \in Seq(Members)
      BY <2>1
    <3> QED
      BY <3>1, <3>2 DEF Searches, Outcomes
  <2>3. search' \in [Dispatchers -> Searches]
    BY <1>2, <2>2 DEF Answers, PoolsTypeOK
  <2> QED
    BY <1>2, <2>3 DEF Answers, PoolsTypeOK
<1>3. ASSUME NEW t \in Dispatchers, DoesNotAnswer(t) PROVE PoolsTypeOK'
  <2>1. search[t].order \in Seq(Members) /\ search[t].order # <<>>
    BY <1>3 DEF DoesNotAnswer, PoolsTypeOK, Searches
  <2>2. Asked(t) \in Members /\ Tail(search[t].order) \in Seq(Members)
    BY <2>1, HeadAndTail DEF Asked
  <2>3. [search[t] EXCEPT !.order = Tail(@), !.doubt = @ \cup {Asked(t)}] \in Searches
    BY <2>2 DEF PoolsTypeOK, Searches, Outcomes
  <2>4. search' \in [Dispatchers -> Searches]
    BY <1>3, <2>3 DEF DoesNotAnswer, PoolsTypeOK
  <2> QED
    BY <1>3, <2>4 DEF DoesNotAnswer, PoolsTypeOK
<1>4. ASSUME NEW t \in Dispatchers, Exhausted(t) PROVE PoolsTypeOK'
  <2>1. [search[t] EXCEPT !.at = "none"] \in Searches
    BY DEF PoolsTypeOK, Searches, Outcomes
  <2>2. search' \in [Dispatchers -> Searches]
    BY <1>4, <2>1 DEF Exhausted, PoolsTypeOK
  <2> QED
    BY <1>4, <2>2 DEF Exhausted, PoolsTypeOK
<1>5. ASSUME NEW m \in Members, Flap(m) PROVE PoolsTypeOK'
  <2>1. ASSUME NEW t \in Dispatchers
        PROVE  [search[t] EXCEPT !.doubt =
                  IF m \in up /\ m \in search[t].asked THEN @ \cup {m} ELSE @] \in Searches
    <3>1. search[t] \in Searches
      BY DEF PoolsTypeOK
    <3> QED
      BY <3>1 DEF Searches
  <2>2. search' \in [Dispatchers -> Searches]
    BY <1>5, <2>1 DEF Flap
  <2> QED
    BY <1>5, <2>2 DEF Flap, PoolsTypeOK
<1>6. CASE EditPool
  BY <1>6 DEF EditPool, PoolsTypeOK
<1>7. CASE UNCHANGED poolVars
  BY <1>7 DEF poolVars, PoolsTypeOK
<1> QED
  BY <1>1, <1>2, <1>3, <1>4, <1>5, <1>6, <1>7 DEF PoolsNext

\* Every step keeps what the tasks know of the members.
LEMMA SearchStep == ASSUME PoolsTypeOK, SearchInv, [PoolsNext]_poolVars PROVE SearchInv'
<1> DEFINE Sound(s) ==
      /\ s.at = "asking" =>
            ToSet(s.order) \subseteq s.asked /\ s.asked \subseteq ToSet(s.order) \cup s.doubt
      /\ s.at = "none" => s.asked \subseteq s.doubt
      /\ s.at = "found" => ToSet(s.chosen) \subseteq s.asked
<1> SUFFICES \A t \in Dispatchers : Sound(search'[t])
  BY Zenon DEF SearchInv
<1>1. \A t \in Dispatchers : Sound(search[t]) /\ search[t] \in Searches
  BY DEF SearchInv, PoolsTypeOK
<1>2. search \in [Dispatchers -> Searches]
  BY DEF PoolsTypeOK
<1> HIDE DEF Sound
<1>3. ASSUME NEW t \in Dispatchers, NEW s, search' = [search EXCEPT ![t] = s], Sound(s)
      PROVE  \A u \in Dispatchers : Sound(search'[u])
  BY <1>1, <1>2, <1>3
<1>4. ASSUME NEW t \in Dispatchers, BeginSearch(t) PROVE \A u \in Dispatchers : Sound(search'[u])
  <2>1. CASE roster = <<>>
    <3>1. search' = [search EXCEPT ![t] = [NoSearch EXCEPT !.at = "none"]]
      BY <1>4, <2>1 DEF BeginSearch
    <3>2. Sound([NoSearch EXCEPT !.at = "none"])
      BY DEF Sound, NoSearch
    <3> QED
      BY <1>3, <3>1, <3>2
  <2>2. CASE roster # <<>>
    <3>1. PICK k \in 0..(Len(roster) - 1) :
             /\ ToSet(RotatedAt(roster, k)) = ToSet(roster)
             /\ search' = [search EXCEPT ![t] =
                  [at |-> "asking", order |-> RotatedAt(roster, k), chosen |-> <<>>,
                   asked |-> ToSet(roster), doubt |-> ToSet(roster) \ up]]
      BY <1>4, <2>2, Beginning
    <3>2. Sound([at |-> "asking", order |-> RotatedAt(roster, k), chosen |-> <<>>,
                 asked |-> ToSet(roster), doubt |-> ToSet(roster) \ up])
      BY <3>1 DEF Sound
    <3> QED
      BY <1>3, <3>1, <3>2
  <2> QED
    BY <2>1, <2>2
<1>5. ASSUME NEW t \in Dispatchers, search[t].at = "asking", search[t].order # <<>>
      PROVE  /\ ToSet(search[t].order) = {Asked(t)} \cup ToSet(Tail(search[t].order))
             /\ ToSet(search[t].order) \subseteq search[t].asked
             /\ search[t].asked \subseteq ToSet(search[t].order) \cup search[t].doubt
  <2>1. search[t].order \in Seq(Members)
    BY <1>1 DEF Searches
  <2> QED
    BY <1>1, <1>5, <2>1, HeadAndTail DEF Asked, Sound
<1>6. ASSUME NEW t \in Dispatchers, Answers(t) PROVE \A u \in Dispatchers : Sound(search'[u])
  <2> DEFINE s == [search[t] EXCEPT !.at = "found", !.chosen = <<Asked(t)>>, !.order = <<>>]
  <2>1. s.at = "found" /\ s.chosen = <<Asked(t)>> /\ s.asked = search[t].asked
    BY <1>1 DEF Searches
  <2>2. ToSet(<<Asked(t)>>) = {Asked(t)}
    BY DEF ToSet
  <2>3. Asked(t) \in search[t].asked
    BY <1>5, <1>6 DEF Answers
  <2> HIDE DEF s
  <2>4. Sound(s)
    BY <2>1, <2>2, <2>3 DEF Sound
  <2>5. search' = [search EXCEPT ![t] = s]
    BY <1>6 DEF Answers, s
  <2> QED
    BY <1>3, <2>4, <2>5
<1>7. ASSUME NEW t \in Dispatchers, DoesNotAnswer(t)
      PROVE  \A u \in Dispatchers : Sound(search'[u])
  <2> DEFINE s == [search[t] EXCEPT !.order = Tail(@), !.doubt = @ \cup {Asked(t)}]
  <2>1. /\ s.at = "asking" /\ s.order = Tail(search[t].order) /\ s.asked = search[t].asked
        /\ s.doubt = search[t].doubt \cup {Asked(t)}
    BY <1>1, <1>7 DEF Searches, DoesNotAnswer
  <2> HIDE DEF s
  <2>2. Sound(s)
    BY <1>5, <1>7, <2>1 DEF Sound, DoesNotAnswer
  <2>3. search' = [search EXCEPT ![t] = s]
    BY <1>7 DEF DoesNotAnswer, s
  <2> QED
    BY <1>3, <2>2, <2>3
<1>8. ASSUME NEW t \in Dispatchers, Exhausted(t) PROVE \A u \in Dispatchers : Sound(search'[u])
  <2> DEFINE s == [search[t] EXCEPT !.at = "none"]
  <2>1. s.at = "none" /\ s.asked = search[t].asked /\ s.doubt = search[t].doubt
    BY <1>1 DEF Searches
  <2>2. ToSet(<<>>) = {}
    BY DEF ToSet
  <2>3. search[t].asked \subseteq search[t].doubt
    BY <1>1, <1>8, <2>2 DEF Exhausted, Sound
  <2> HIDE DEF s
  <2>4. Sound(s)
    BY <2>1, <2>3 DEF Sound
  <2>5. search' = [search EXCEPT ![t] = s]
    BY <1>8 DEF Exhausted, s
  <2> QED
    BY <1>3, <2>4, <2>5
<1>9. ASSUME NEW m \in Members, Flap(m) PROVE \A u \in Dispatchers : Sound(search'[u])
  <2> SUFFICES ASSUME NEW u \in Dispatchers PROVE Sound(search'[u])
    OBVIOUS
  <2>1. search'[u] = [search[u] EXCEPT !.doubt =
                        IF m \in up /\ m \in search[u].asked THEN @ \cup {m} ELSE @]
    BY <1>9 DEF Flap
  <2>2. /\ search'[u].at = search[u].at /\ search'[u].order = search[u].order
        /\ search'[u].asked = search[u].asked /\ search'[u].chosen = search[u].chosen
        /\ search[u].doubt \subseteq search'[u].doubt
    BY <1>1, <2>1 DEF Searches
  <2>3. Sound(search[u])
    BY <1>1
  <2> QED
    BY <2>2, <2>3 DEF Sound
<1>10. CASE EditPool \/ UNCHANGED poolVars
  BY <1>1, <1>10 DEF EditPool, poolVars
<1> QED
  BY <1>4, <1>6, <1>7, <1>8, <1>9, <1>10 DEF PoolsNext

\* The member whose turn it was was first once more, and the lap ends or goes on.
LEMMA TurnTaken ==
    ASSUME NEW n \in Nat \ {0}, NEW from \in 0..(n - 1), NEW at \in 0..(n - 1),
           NEW next, next = IF at + 1 = n THEN 0 ELSE at + 1,
           NEW i \in 0..(n - 1), NEW laps \in Nat, NEW count,
           count = IF (IF from <= at THEN from <= i /\ i < at ELSE from <= i \/ i < at)
                   THEN laps + 1 ELSE laps
    PROVE  (IF i = at THEN count + 1 ELSE count) =
             IF next = from THEN laps + 1
             ELSE IF (IF from <= next THEN from <= i /\ i < next ELSE from <= i \/ i < next)
                  THEN laps + 1 ELSE laps
OBVIOUS

\* Every step keeps the turns.
LEMMA LapStep == ASSUME PoolsTypeOK, PoolsTypeOK', LapInv, [PoolsNext]_poolVars PROVE LapInv'
<1>1. ASSUME UNCHANGED <<roster, strategy, cursor, starts>> PROVE LapInv'
  BY <1>1 DEF LapInv, Passed, Place
<1>2. ASSUME NEW t \in Dispatchers, BeginSearch(t) PROVE LapInv'
  <2>1. CASE roster = <<>>
    BY <1>2, <2>1 DEF BeginSearch, LapInv
  <2>2. CASE roster # <<>> /\ strategy # "round_robin"
    BY <1>2, <2>2 DEF BeginSearch, LapInv
  <2>3. CASE roster # <<>> /\ strategy = "round_robin"
    <3> DEFINE n == Len(roster)
    <3>1. roster' = roster /\ strategy' = strategy
      BY <1>2 DEF BeginSearch
    <3>2. PICK at \in 0..(n - 1) :
             at = Place /\ roster[at + 1] \in Members /\ cursor' = Advanced(at)
             /\ CountFirst(roster[at + 1])
      BY <1>2, <2>3, Beginning
    <3>3. n \in Nat \ {0} /\ cursor \in Nat
      BY <2>3, RosterIsProper DEF PoolsTypeOK
    <3>4. PICK laps \in Nat, from \in 0..(n - 1) :
             \A i \in 0..(n - 1) :
                 starts[roster[i + 1]] = IF Passed(i, from) THEN laps + 1 ELSE laps
      BY <2>3 DEF LapInv
    <3> DEFINE next == IF at + 1 = n THEN 0 ELSE at + 1
               laps2 == IF next = from THEN laps + 1 ELSE laps
    <3>5. Place' = next
      <4>1. /\ (((cursor % n) + 1) % n) % n = ((cursor % n) + 1) % n
            /\ ((cursor % n) + 1) % n = IF (cursor % n) + 1 = n THEN 0 ELSE (cursor % n) + 1
        BY <3>3, NextPlace
      <4>2. Place' = cursor' % n /\ cursor' = (at + 1) % n /\ at = cursor % n
        BY <3>1, <3>2 DEF Place, Advanced
      <4> QED
        BY <4>1, <4>2
    <3>6. ASSUME NEW i \in 0..(n - 1)
          PROVE  starts'[roster[i + 1]] =
                   IF i = at THEN starts[roster[i + 1]] + 1 ELSE starts[roster[i + 1]]
      <4>1. starts' = [starts EXCEPT ![roster[at + 1]] = @ + 1]
        BY <3>2 DEF CountFirst
      <4>2. i + 1 \in 1..n /\ at + 1 \in 1..n
        BY <3>3
      <4>3. roster[i + 1] \in Members /\ (roster[i + 1] = roster[at + 1] => i + 1 = at + 1)
        BY <4>2, RosterIsProper
      <4> QED
        BY <4>1, <4>3 DEF PoolsTypeOK
    <3> HIDE DEF n
    <3>7. ASSUME NEW i \in 0..(n - 1)
          PROVE  starts'[roster[i + 1]] =
                   IF next = from THEN laps + 1
                   ELSE IF (IF from <= next THEN from <= i /\ i < next
                                            ELSE from <= i \/ i < next)
                        THEN laps + 1 ELSE laps
      <4> DEFINE count == starts[roster[i + 1]]
      <4>1. count = IF (IF from <= at THEN from <= i /\ i < at ELSE from <= i \/ i < at)
                    THEN laps + 1 ELSE laps
        BY <3>2, <3>4 DEF Passed
      <4> HIDE DEF count
      <4>2. (IF i = at THEN count + 1 ELSE count) =
               IF next = from THEN laps + 1
               ELSE IF (IF from <= next THEN from <= i /\ i < next ELSE from <= i \/ i < next)
                    THEN laps + 1 ELSE laps
        BY <3>3, <4>1, TurnTaken
      <4> QED
        BY <3>6, <4>2 DEF count
    <3>8. next \in 0..(n - 1)
      BY <3>3
    <3> HIDE DEF next
    <3>9. laps2 \in Nat
      OBVIOUS
    <3>10. ASSUME NEW i \in 0..(n - 1)
           PROVE  starts'[roster[i + 1]] = IF Passed(i, from)' THEN laps2 + 1 ELSE laps2
      BY <3>5, <3>7, <3>8 DEF Passed
    <3> HIDE DEF laps2
    <3> QED
      BY <3>1, <3>9, <3>10 DEF LapInv, n
  <2> QED
    BY <2>1, <2>2, <2>3
<1>3. CASE EditPool
  <2>1. SUFFICES ASSUME roster' # <<>>
                 PROVE  \E laps \in Nat, from \in 0..(Len(roster') - 1) :
                          \A i \in 0..(Len(roster') - 1) :
                            starts'[roster'[i + 1]] = IF Passed(i, from)' THEN laps + 1 ELSE laps
    BY DEF LapInv
  <2>2. roster' \in Seq(Members) /\ Len(roster') \in Nat \ {0} /\ cursor' \in Nat
    BY <2>1, PoolsAssumption DEF PoolsTypeOK
  <2>3. PICK place \in 0..(Len(roster') - 1) : place = Place'
    <3>1. cursor' % Len(roster') \in 0..(Len(roster') - 1)
      BY <2>2, NextPlace
    <3> QED
      BY <3>1 DEF Place
  <2>4. ASSUME NEW i \in 0..(Len(roster') - 1)
        PROVE  starts'[roster'[i + 1]] = IF Passed(i, place)' THEN 0 + 1 ELSE 0
    <3>1. roster'[i + 1] \in Members
      BY <2>2
    <3>2. starts'[roster'[i + 1]] = 0
      BY <1>3, <3>1 DEF EditPool
    <3>3. ~Passed(i, place)'
      BY <2>3 DEF Passed
    <3> QED
      BY <3>2, <3>3
  <2> QED
    BY <2>4, 0 \in Nat
<1>4. ASSUME NEW t \in Dispatchers, Answers(t) \/ DoesNotAnswer(t) \/ Exhausted(t) PROVE LapInv'
  BY <1>1, <1>4 DEF Answers, DoesNotAnswer, Exhausted
<1>5. ASSUME NEW m \in Members, Flap(m) PROVE LapInv'
  BY <1>1, <1>5 DEF Flap
<1>6. CASE UNCHANGED poolVars
  BY <1>1, <1>6 DEF poolVars
<1> QED
  BY <1>2, <1>3, <1>4, <1>5, <1>6 DEF PoolsNext

-----------------------------------------------------------------------------
(* Pools: theorems.                                                        *)

\* Every state of the searches has its types, and what the tasks and the cursor
\* have come to.
THEOREM PoolsInvariance == PoolsSpec => []PoolsInv
<1>1. PoolsInit => PoolsInv
  <2> SUFFICES ASSUME PoolsInit PROVE PoolsInv
    OBVIOUS
  <2>1. NoSearch \in Searches
    <3>1. <<>> \in Seq(Members) /\ {} \in SUBSET Members /\ "idle" \in Outcomes
      BY DEF Outcomes
    <3> QED
      BY <3>1 DEF NoSearch, Searches
  <2>2. PoolsTypeOK
    BY <2>1, PoolsAssumption DEF PoolsInit, PoolsTypeOK
  <2>3. SearchInv
    BY DEF PoolsInit, SearchInv, NoSearch
  <2>4. LapInv
    <3> SUFFICES ASSUME roster # <<>>
                 PROVE  \E laps \in Nat, from \in 0..(Len(roster) - 1) :
                          \A i \in 0..(Len(roster) - 1) :
                            starts[roster[i + 1]] = IF Passed(i, from) THEN laps + 1 ELSE laps
      BY DEF LapInv
    <3>1. roster \in Seq(Members) /\ Len(roster) \in Nat \ {0} /\ cursor = 0
      BY <2>2, RosterIsProper DEF PoolsInit
    <3>2. Place = 0
      BY <3>1 DEF Place
    <3>3. 0 \in Nat /\ 0 \in 0..(Len(roster) - 1)
      BY <3>1
    <3>4. ASSUME NEW i \in 0..(Len(roster) - 1)
          PROVE  starts[roster[i + 1]] = IF Passed(i, 0) THEN 0 + 1 ELSE 0
      <4>1. roster[i + 1] \in Members
        BY <3>1
      <4>2. starts[roster[i + 1]] = 0
        BY <4>1 DEF PoolsInit
      <4> QED
        BY <3>2, <4>2 DEF Passed
    <3> QED
      BY <3>3, <3>4
  <2> QED
    BY <2>2, <2>3, <2>4 DEF PoolsInv
<1>2. PoolsInv /\ [PoolsNext]_poolVars => PoolsInv'
  BY PoolsTypeStep, SearchStep, LapStep DEF PoolsInv
<1> QED
  BY <1>1, <1>2, PTL DEF PoolsSpec

\* resolve_target(): no member that answers throughout is missed.
THEOREM NoMemberMissed == PoolsSpec => []FindsAReachable
<1>1. PoolsInv => FindsAReachable
  BY DEF PoolsInv, SearchInv, FindsAReachable
<1> QED
  BY <1>1, PoolsInvariance, PTL

\* resolve_target(): the round robin takes turns, whatever overlaps.
THEOREM MembersTakeTurns == PoolsSpec => []TurnsAreEven
<1>1. PoolsInv => TurnsAreEven
  <2> SUFFICES ASSUME PoolsInv, strategy = "round_robin",
                      NEW l \in ToSet(roster), NEW m \in ToSet(roster)
               PROVE  starts[l] <= starts[m] + 1
    BY DEF TurnsAreEven
  <2>1. roster \in Seq(Members) /\ roster # <<>> /\ Len(roster) \in Nat
    <3>1. roster \in Seq(Members)
      BY RosterIsProper DEF PoolsInv
    <3> QED
      BY <3>1 DEF ToSet
  <2>2. PICK i, j \in 1..Len(roster) : l = roster[i] /\ m = roster[j]
    BY <2>1 DEF ToSet
  <2>3. PICK laps \in Nat, from \in 0..(Len(roster) - 1) :
             \A k \in 0..(Len(roster) - 1) :
                 starts[roster[k + 1]] = IF Passed(k, from) THEN laps + 1 ELSE laps
    BY <2>1 DEF PoolsInv, LapInv
  <2>4. i - 1 \in 0..(Len(roster) - 1) /\ j - 1 \in 0..(Len(roster) - 1)
        /\ (i - 1) + 1 = i /\ (j - 1) + 1 = j
    BY <2>1, <2>2
  <2>5. starts[l] \in {laps, laps + 1} /\ starts[m] \in {laps, laps + 1}
    BY <2>2, <2>3, <2>4
  <2> QED
    BY <2>5
<1> QED
  BY <1>1, PoolsInvariance, PTL

-----------------------------------------------------------------------------
(* Dispatch: printers, renderers and backends.                             *)

\* A printer that is no pool.
LEMMA ConcreteFacts ==
    ASSUME NEW r \in ConcreteRows
    PROVE  /\ r.type \in DeviceTypes /\ r.type # "pool" /\ r.option \in BOOLEAN
           /\ r.option => r.type \in {"zpl_network", "escpos_network", "escpos_usb"}
           /\ Can(r) = ConcreteCan(r) /\ ~Nested(r)
<1>1. /\ r.type \in DeviceTypes /\ r.option \in BOOLEAN
      /\ r.option => r.type \in {"zpl_network", "escpos_network", "escpos_usb"}
  BY DEF ConcreteRows, DeviceTypes
<1>2. r.type # "pool"
  BY <1>1 DEF DeviceTypes
<1> QED
  BY <1>1, <1>2 DEF Can, Nested

\* What each can do.
LEMMA Abilities ==
    ASSUME NEW r \in ConcreteRows
    PROVE  /\ r.type = "escpos_network" => ConcreteCan(r) = EscposNetworkCan(r)
           /\ r.type = "escpos_usb" => ConcreteCan(r) = EscposUsbCan(r)
           /\ r.type = "virtual" => ConcreteCan(r) = VirtualCan
           /\ r.type = "zpl_network" => ConcreteCan(r) = ZplCan(r)
           /\ r.type = "star_network" => ConcreteCan(r) = StarCan
           /\ r.type = "cups" => ConcreteCan(r) = CupsCan
           /\ r.type = "ipp_network" => ConcreteCan(r) = IppCan
  BY DEF ConcreteCan

\* None announces anything else.
LEMMA CanOnly ==
    ASSUME NEW r \in ConcreteRows PROVE ConcreteCan(r) \subseteq Special \cup Finished
<1>1. r.type \in DeviceTypes /\ r.option \in BOOLEAN
  BY ConcreteFacts
<1>2. CASE r.type = "escpos_network"
  BY <1>2, Abilities DEF EscposNetworkCan, Special, Finished
<1>3. CASE r.type = "escpos_usb"
  BY <1>3, Abilities DEF EscposUsbCan, Special, Finished
<1>4. CASE r.type = "virtual"
  BY <1>4, Abilities DEF VirtualCan, Special, Finished
<1>5. CASE r.type = "zpl_network"
  BY <1>5, Abilities DEF ZplCan, Special, Finished
<1>6. CASE r.type = "star_network"
  BY <1>6, Abilities DEF StarCan, Special, Finished
<1>7. CASE r.type = "cups"
  BY <1>7, Abilities DEF CupsCan, Special, Finished
<1>8. CASE r.type = "ipp_network"
  BY <1>8, Abilities DEF IppCan, Special, Finished
<1> QED
  BY <1>1, <1>2, <1>3, <1>4, <1>5, <1>6, <1>7, <1>8 DEF DeviceTypes

\* Which renderer a printer has.
LEMMA Renderers ==
    ASSUME NEW r \in ConcreteRows
    PROVE  /\ Raster(r) => Renderer(r) = RenderZplRaster(r)
           /\ r.type = "zpl_network" /\ ~r.option => Renderer(r) = RenderZpl(r)
           /\ r.type = "star_network" => Renderer(r) = RenderStar(r)
           /\ r.type \notin {"zpl_network", "star_network"} => Renderer(r) = RenderEscpos(r)
  BY DEF Renderer, Raster

Elements == Special \cup {"text", "other"}

\* What a renderer lets through is what the printer can do, and it passes over
\* nothing that it can.
LEMMA RendererFacts ==
    ASSUME NEW r \in ConcreteRows
    PROVE  /\ \A e \in Elements : e \in Rejected(r) \/ e \in Omitted(r) \/ e \in ConcreteCan(r) \cup {"text"}
           /\ \A e \in {"text", "cut"} : e \in Omitted(r) \/ e \in ConcreteCan(r) \cup {"text"}
           /\ \A e \in Omitted(r) : ~(e \in ConcreteCan(r))
           /\ r.type \notin {"star_network", "zpl_network"} => Omitted(r) \subseteq {"cut", "pulse"}
           /\ \A e \in Rejected(r) :
                /\ e \notin {"text", "cut", "pulse"}
                /\ e \notin ConcreteCan(r) \/ (e \in {"code128", "upc"} /\ Raster(r))
<1>1. r.type \in DeviceTypes /\ r.option \in BOOLEAN /\ Can(r) = ConcreteCan(r)
  BY ConcreteFacts
<1>2. ~("other" \in ConcreteCan(r))
  BY CanOnly DEF Special, Finished
<1>3. CASE Raster(r)
  <2>1. ConcreteCan(r) = {"qr", "code128", "image"}
    BY <1>3, Abilities DEF Raster, ZplCan
  <2>2. Omitted(r) = {"cut", "pulse"} /\ Rejected(r) = {"other", "code128", "upc"}
    BY <1>1, <1>3, <2>1, Renderers DEF Omitted, Rejected, RenderZplRaster
  <2> QED
    BY <1>3, <2>1, <2>2 DEF Elements, Special, Raster
<1>4. CASE r.type = "zpl_network" /\ ~r.option
  <2>1. ConcreteCan(r) = {"qr", "code128"}
    BY <1>4, Abilities DEF ZplCan
  <2>2. Omitted(r) = {"cut", "pulse", "image"} /\ Rejected(r) = {"other", "upc"}
    BY <1>1, <1>4, <2>1, Renderers DEF Omitted, Rejected, RenderZpl
  <2> QED
    BY <1>4, <2>1, <2>2 DEF Elements, Special
<1>5. CASE r.type = "star_network"
  <2>1. ConcreteCan(r) = {"cut", "pulse"}
    BY <1>5, Abilities DEF StarCan
  <2>2. Omitted(r) = {"qr", "code128", "upc", "image"} /\ Rejected(r) = {"other"}
    BY <1>1, <1>5, <2>1, Renderers DEF Omitted, Rejected, RenderStar
  <2> QED
    BY <1>5, <2>1, <2>2 DEF Elements, Special
<1>6. CASE r.type \notin {"zpl_network", "star_network"}
  <2>1. /\ Omitted(r) = {"cut", "pulse"} \ ConcreteCan(r)
        /\ Rejected(r) = {"other"} \cup ({"qr", "code128", "upc", "image"} \ ConcreteCan(r))
    BY <1>1, <1>6, Renderers DEF Omitted, Rejected, RenderEscpos
  <2> QED
    BY <1>2, <1>6, <2>1 DEF Elements, Special
<1> QED
  BY <1>1, <1>3, <1>4, <1>5, <1>6 DEF Raster

\* The bytes that a renderer makes.
LEMMA KindFacts ==
    ASSUME NEW r \in ConcreteRows, NEW what \in Payloads
    PROVE  /\ KindOf(r, what) \in Finished \cup {"escpos", "zpl", "star"}
           /\ what \in Finished => KindOf(r, what) = what
           /\ what \in {"overlay", "template"} => KindOf(r, what) = IF Raster(r) THEN "zpl" ELSE "pdf"
           /\ what \in {"document", "raw", "format"} => KindOf(r, what) = Family(r)
           /\ Family(r) \in {"escpos", "zpl", "star"}
           /\ r.type = "zpl_network" => Family(r) = "zpl"
           /\ r.type = "star_network" => Family(r) = "star"
           /\ r.type \notin {"zpl_network", "star_network"} => Family(r) = "escpos"
<1>1. /\ r.type = "zpl_network" => Family(r) = "zpl"
      /\ r.type = "star_network" => Family(r) = "star"
      /\ r.type \notin {"zpl_network", "star_network"} => Family(r) = "escpos"
  BY DEF Family
<1>2. /\ what \in Finished => KindOf(r, what) = what
      /\ what \in {"overlay", "template"} => KindOf(r, what) = IF Raster(r) THEN "zpl" ELSE "pdf"
      /\ what \in {"document", "raw", "format"} => KindOf(r, what) = Family(r)
  BY DEF KindOf, Finished
<1>3. Family(r) \in {"escpos", "zpl", "star"}
  BY <1>1
<1>4. what \in Finished \/ what \in {"overlay", "template"} \/ what \in {"document", "raw", "format"}
  BY DEF Payloads, Versioned
<1> QED
  BY <1>1, <1>2, <1>3, <1>4 DEF Finished

\* How a backend may end.
LEMMA EndFacts ==
    ASSUME NEW r \in ConcreteRows, NEW kind
    PROVE  /\ "refused" \in SendsOf(r, kind) =>
                \/ r.type = "cups" /\ kind \notin Finished
                \/ r.type = "ipp_network" /\ kind # "pdf"
           /\ "mistaken" \in SendsOf(r, kind) =>
                \/ r.type \in {"escpos_network", "escpos_usb"} /\ kind # "escpos"
                \/ r.type = "zpl_network" /\ kind # "zpl"
                \/ r.type = "star_network" /\ kind # "star"
<1>1. r.type \in DeviceTypes
  BY ConcreteFacts
<1>2. CASE r.type = "escpos_network"
  BY <1>2 DEF SendsOf, EscposNetworkSends
<1>3. CASE r.type = "escpos_usb"
  BY <1>3 DEF SendsOf, EscposUsbSends
<1>4. CASE r.type = "virtual"
  BY <1>4 DEF SendsOf, VirtualSends
<1>5. CASE r.type = "zpl_network"
  BY <1>5 DEF SendsOf, ZplSends
<1>6. CASE r.type = "star_network"
  BY <1>6 DEF SendsOf, StarSends
<1>7. CASE r.type = "cups"
  BY <1>7 DEF SendsOf, CupsSends
<1>8. CASE r.type = "ipp_network"
  BY <1>8 DEF SendsOf, IppSends
<1> QED
  BY <1>1, <1>2, <1>3, <1>4, <1>5, <1>6, <1>7, <1>8 DEF DeviceTypes

-----------------------------------------------------------------------------
(* Dispatch: the invariant.                                                *)

\* What of a request goes with what payload.
Asks(form, what) ==
    /\ form \in Payloads => what = form
    /\ form = "default" => what \in {"format", "template"}
    /\ form = "test" => what \in {"document", "pdf"}
    /\ form = "drawer" => what = "document"

Admits(r, form, what) ==
    \/ AdmitsPrint(r, form, what) \/ AdmitsRaw(r, form, what) \/ AdmitsFile(r, form, what)
    \/ AdmitsTest(r, form, what) \/ AdmitsDrawer(r, form, what)

\* A job rendered for a printer: what it lost is what that printer cannot do.
RenderedFor(t) ==
    LET lost == t.draft \ t.output
    IN  /\ t.target \in ConcreteRows
        /\ t.kind = KindOf(t.target, t.what)
        /\ t.output \subseteq ConcreteCan(t.target) \cup {"text"}
        /\ t.target.type \notin {"star_network", "zpl_network"} => lost \subseteq {"cut", "pulse"}
        /\ lost \cap ConcreteCan(t.target) = {}
        /\ t.resolved <= t.printed

\* What is said of a job whatever has been edited.
TicketInv(t) ==
    /\ Asks(t.form, t.what)
    /\ t.what # "format" => t.draft \in DraftsOf(t.form)
    /\ t.at \in {"queued", "resolved", "rendered"} => t.tries < MaxTries
    /\ t.at = "resolved" => t.target \in ConcreteRows
    /\ t.at \in {"rendered", "done"} => RenderedFor(t)
    /\ t.at = "done" => t.sheets = Sheets(t.target, t.kind, t.copies)

\* As the operator left it before the request.
Untouched ==
    /\ content.layout = {"text"}
    /\ device[Ours] \in ConcreteRows \cup PoolRows \cup {Absent}
    /\ \A d \in Devices : device[Ours].type = "pool" /\ d \in device[Ours].members =>
                              device[d] \in ConcreteRows \cup {Absent}

\* The reasons a job may fail for, as in FailsForAReason, other than an erasure.
AReason(draft, what) ==
    \/ ~(draft \subseteq Can(device[Ours]) \cup {"text", "cut", "pulse"})
    \/ what = "raw" /\ (device[Ours].type = "ipp_network" \/ draft = {})
    \/ device[Ours].type = "pool" /\ \E m \in Targets : m.type \in Office
    \/ draft \cap {"code128", "upc"} # {} /\ \E m \in Targets : Raster(m)

\* What is said of a job since whose request nothing was edited.
AsAdmitted(t) ==
    /\ Untouched
    /\ device[Ours] # Absent
    /\ Admits(device[Ours], t.form, t.what)
    /\ t.at \in {"resolved", "rendered"} => t.target \in Targets
    /\ t.at \in {"rendered", "done"} /\ t.form = "drawer" => "pulse" \in t.output
    /\ t.at \in {"dead", "failed", "uncertain"} /\ ~t.fault /\ ~t.erased => AReason(t.draft, t.what)

DispatchInv ==
    /\ DispatchTypeOK
    /\ ticket = Absent => Untouched
    /\ ticket # Absent =>
         /\ TicketInv(ticket)
         /\ ticket.resolved <= VersionOf(ticket.what)
         /\ ~ticket.changed => AsAdmitted(ticket)

-----------------------------------------------------------------------------
(* Dispatch: how the row of a job changes.                                 *)

Moved(t, at) == [t EXCEPT !.at = at]
Changed(t, changed) == [t EXCEPT !.changed = changed]
Erased(t) == [t EXCEPT !.erased = TRUE]
Retried(t, fault) ==
    [t EXCEPT !.tries = @ + 1, !.target = Absent, !.kind = "none",
              !.at = IF t.tries + 1 >= MaxTries THEN "dead" ELSE "queued", !.fault = @ \/ fault]
ResolvedTo(t, r) == [t EXCEPT !.at = "resolved", !.target = r]
RejectedWith(t, draft) == [t EXCEPT !.at = "dead", !.draft = draft]
RenderedAs(t, draft, kind, output, version) ==
    [t EXCEPT !.at = "rendered", !.draft = draft, !.kind = kind, !.output = output,
              !.printed = version]
Faulted(t, at) == [t EXCEPT !.at = at, !.fault = TRUE]
Printed(t, sheets) == [t EXCEPT !.at = "done", !.sheets = sheets]

Outputs == SUBSET (Special \cup {"text"})
OutputKinds == Finished \cup {"escpos", "zpl", "star", "none"}

\* What stays, whatever else becomes of a job.
SameRequest(t, u) ==
    /\ u.form = t.form /\ u.what = t.what /\ u.copies = t.copies
    /\ u.resolved = t.resolved /\ u.first = t.first

\* The columns of a row, and what each of the changes makes of them.
LEMMA TicketFacts ==
    ASSUME NEW t \in Tickets
    PROVE  /\ t.at \in TicketPlaces /\ t.form \in Forms /\ t.what \in Payloads
           /\ t.draft \in SUBSET Elements /\ t.copies \in CopyCounts \cup {1}
           /\ t.resolved \in Nat /\ t.target \in ConcreteRows \cup {Absent}
           /\ t.kind \in OutputKinds /\ t.output \in Outputs /\ t.printed \in Nat /\ t.sheets \in Nat
           /\ t.tries \in 0..MaxTries /\ t.fault \in BOOLEAN /\ t.changed \in BOOLEAN
           /\ t.first \in Nat
  BY DEF Tickets, Elements, OutputKinds, Outputs

LEMMA MovedFacts ==
    ASSUME NEW t \in Tickets, NEW at \in TicketPlaces
    PROVE  /\ Moved(t, at) \in Tickets /\ SameRequest(t, Moved(t, at)) /\ Moved(t, at).at = at
           /\ Moved(t, at).draft = t.draft /\ Moved(t, at).fault = t.fault
           /\ Moved(t, at).changed = t.changed /\ Moved(t, at).target = t.target
           /\ Moved(t, at).erased = t.erased
  BY DEF Tickets, Moved, SameRequest

LEMMA ChangedFacts ==
    ASSUME NEW t \in Tickets, NEW changed \in BOOLEAN
    PROVE  LET u == Changed(t, changed)
           IN  /\ u \in Tickets /\ SameRequest(t, u) /\ u.at = t.at /\ u.draft = t.draft
               /\ u.target = t.target /\ u.kind = t.kind /\ u.output = t.output
               /\ u.printed = t.printed /\ u.sheets = t.sheets /\ u.tries = t.tries
               /\ u.changed = changed
  BY DEF Tickets, Changed, SameRequest

LEMMA ErasedFacts ==
    ASSUME NEW t \in Tickets
    PROVE  /\ Erased(t) \in Tickets /\ SameRequest(t, Erased(t)) /\ Erased(t).at = t.at
           /\ Erased(t).draft = t.draft /\ Erased(t).tries = t.tries /\ Erased(t).changed = t.changed
  BY DEF Tickets, Erased, SameRequest

LEMMA ResolvedFacts ==
    ASSUME NEW t \in Tickets, NEW r \in ConcreteRows
    PROVE  /\ ResolvedTo(t, r) \in Tickets /\ SameRequest(t, ResolvedTo(t, r))
           /\ ResolvedTo(t, r).at = "resolved" /\ ResolvedTo(t, r).target = r
           /\ ResolvedTo(t, r).draft = t.draft /\ ResolvedTo(t, r).tries = t.tries
           /\ ResolvedTo(t, r).changed = t.changed
<1>1. "resolved" \in TicketPlaces
  BY DEF TicketPlaces
<1> QED
  BY <1>1 DEF Tickets, ResolvedTo, SameRequest

LEMMA RejectedFacts ==
    ASSUME NEW t \in Tickets, NEW draft \in SUBSET Elements
    PROVE  /\ RejectedWith(t, draft) \in Tickets /\ SameRequest(t, RejectedWith(t, draft))
           /\ RejectedWith(t, draft).at = "dead" /\ RejectedWith(t, draft).draft = draft
           /\ RejectedWith(t, draft).fault = t.fault /\ RejectedWith(t, draft).changed = t.changed
<1>1. "dead" \in TicketPlaces
  BY DEF TicketPlaces
<1> QED
  BY <1>1 DEF Tickets, RejectedWith, SameRequest, Elements

LEMMA FaultedFacts ==
    ASSUME NEW t \in Tickets, NEW at \in TicketPlaces
    PROVE  /\ Faulted(t, at) \in Tickets /\ SameRequest(t, Faulted(t, at)) /\ Faulted(t, at).at = at
           /\ Faulted(t, at).draft = t.draft /\ Faulted(t, at).fault = TRUE
           /\ Faulted(t, at).changed = t.changed
  BY DEF Tickets, Faulted, SameRequest

LEMMA PrintedFacts ==
    ASSUME NEW t \in Tickets, NEW sheets \in Nat
    PROVE  /\ Printed(t, sheets) \in Tickets /\ SameRequest(t, Printed(t, sheets))
           /\ Printed(t, sheets).at = "done" /\ Printed(t, sheets).sheets = sheets
           /\ Printed(t, sheets).draft = t.draft /\ Printed(t, sheets).target = t.target
           /\ Printed(t, sheets).kind = t.kind /\ Printed(t, sheets).output = t.output
           /\ Printed(t, sheets).printed = t.printed /\ Printed(t, sheets).changed = t.changed
<1>1. "done" \in TicketPlaces
  BY DEF TicketPlaces
<1> QED
  BY <1>1 DEF Tickets, Printed, SameRequest

LEMMA RenderedFacts ==
    ASSUME NEW t \in Tickets, NEW draft \in SUBSET Elements, NEW kind \in OutputKinds,
           NEW output \in Outputs, NEW version \in Nat
    PROVE  LET u == RenderedAs(t, draft, kind, output, version)
           IN  /\ u \in Tickets /\ SameRequest(t, u) /\ u.at = "rendered" /\ u.draft = draft
               /\ u.kind = kind /\ u.output = output /\ u.printed = version
               /\ u.target = t.target /\ u.tries = t.tries /\ u.changed = t.changed
<1>1. "rendered" \in TicketPlaces
  BY DEF TicketPlaces
<1> QED
  BY <1>1 DEF Tickets, RenderedAs, SameRequest, Elements, OutputKinds, Outputs

LEMMA RetriedFacts ==
    ASSUME NEW t \in Tickets, NEW fault \in BOOLEAN, t.tries < MaxTries
    PROVE  LET u == Retried(t, fault)
           IN  /\ u \in Tickets /\ SameRequest(t, u) /\ u.at \in {"dead", "queued"}
               /\ u.at = "queued" => u.tries < MaxTries
               /\ u.draft = t.draft /\ (~u.fault => ~t.fault /\ ~fault) /\ u.changed = t.changed
<1> DEFINE place == IF t.tries + 1 >= MaxTries THEN "dead" ELSE "queued"
           n == t.tries + 1
           f == t.fault \/ fault
           u == [t EXCEPT !.tries = n, !.target = Absent, !.kind = "none", !.at = place, !.fault = f]
<1>1. /\ n \in 0..MaxTries /\ place \in TicketPlaces
      /\ place \in {"dead", "queued"} /\ (place = "queued" => n < MaxTries)
  BY TicketFacts, DispatchAssumption DEF TicketPlaces
<1>2. f \in BOOLEAN /\ (~f => ~t.fault /\ ~fault)
  OBVIOUS
<1>3. "none" \in OutputKinds /\ Absent \in ConcreteRows \cup {Absent}
  BY DEF OutputKinds
<1>4. Retried(t, fault) = u
  BY DEF Retried, Tickets
<1> HIDE DEF place, n, f
<1>5. u \in Tickets
  BY <1>1, <1>2, <1>3 DEF Tickets, OutputKinds
<1>6. /\ SameRequest(t, u) /\ u.at = place /\ u.tries = n /\ u.draft = t.draft /\ u.fault = f
      /\ u.changed = t.changed
  BY DEF Tickets, SameRequest
<1> QED
  BY <1>1, <1>2, <1>4, <1>5, <1>6

\* The job of a request.
Requestable(form, what, draft, copies, resolved, first) ==
    /\ form \in Forms /\ what \in Payloads /\ draft \in SUBSET Elements
    /\ copies \in CopyCounts \cup {1} /\ resolved \in Nat /\ first \in Nat

LEMMA NewTicketFacts ==
    ASSUME NEW form, NEW what, NEW draft, NEW copies, NEW resolved, NEW first,
           Requestable(form, what, draft, copies, resolved, first)
    PROVE  LET u == NewTicket(form, what, draft, copies, resolved, first)
           IN  /\ u \in Tickets /\ u.at = "queued" /\ u.form = form /\ u.what = what
               /\ u.draft = draft /\ u.copies = copies /\ u.resolved = resolved
               /\ u.tries = 0 /\ ~u.changed
<1>1. /\ "queued" \in TicketPlaces /\ 0 \in 0..MaxTries
      /\ Absent \in ConcreteRows \cup {Absent} /\ {} \in Outputs
  BY DispatchAssumption DEF TicketPlaces, Outputs
<1>2. "none" \in OutputKinds
  BY DEF OutputKinds
<1> QED
  BY <1>1, <1>2 DEF Requestable, Tickets, NewTicket, Elements, OutputKinds, Outputs

-----------------------------------------------------------------------------
(* Dispatch: the printers of a job as admitted.                            *)

\* The printers a job may go to are no pools, and each can do what was
\* announced; of a pool that is never a finished document.
LEMMA TargetFacts ==
    ASSUME DispatchTypeOK, Untouched, device[Ours] # Absent
    PROVE  /\ Targets \subseteq ConcreteRows
           /\ ~Nested(device[Ours])
           /\ \A m \in Targets : Can(device[Ours]) \subseteq ConcreteCan(m)
           /\ device[Ours].type = "pool" => Can(device[Ours]) \subseteq Special
           /\ device[Ours].type # "pool" =>
                device[Ours] \in ConcreteRows /\ Targets = {device[Ours]}
<1>1. device[Ours] \in ConcreteRows \cup PoolRows
  BY DEF Untouched
<1>2. CASE device[Ours].type = "pool"
  <2>1. device[Ours] \in PoolRows
    BY <1>1, <1>2, ConcreteFacts
  <2>2. \A m \in MembersOf(device[Ours]) : m \in ConcreteRows
    BY <1>2, <2>1 DEF PoolRows, MembersOf, Registered, Untouched
  <2>3. Targets = MembersOf(device[Ours]) /\ Can(device[Ours]) = PoolCan(device[Ours])
    BY <1>2 DEF Targets, Can
  <2>4. ~Nested(device[Ours])
    BY <2>2, ConcreteFacts DEF Nested
  <2> QED
    BY <1>2, <2>2, <2>3, <2>4 DEF PoolCan
<1>3. CASE device[Ours].type # "pool"
  <2>1. device[Ours] \in ConcreteRows
    BY <1>1, <1>3 DEF PoolRows
  <2> QED
    BY <1>3, <2>1, ConcreteFacts DEF Targets
<1> QED
  BY <1>2, <1>3

\* A printer that resolution finds is no pool, whatever was edited.
LEMMA ResolvableFacts ==
    ASSUME DispatchTypeOK, ~Unresolvable(device[Ours])
    PROVE  /\ device[Ours] # Absent
           /\ device[Ours].type # "pool" => device[Ours] \in ConcreteRows
           /\ device[Ours].type = "pool" => MembersOf(device[Ours]) \subseteq ConcreteRows
<1>1. device[Ours] # Absent /\ ~Nested(device[Ours])
  BY DEF Unresolvable
<1>2. \A d \in Devices : device[d] \in ConcreteRows \cup PoolRows \cup {Absent}
  BY DEF DispatchTypeOK
<1>3. \A d \in Devices : device[d] # Absent /\ device[d].type # "pool" => device[d] \in ConcreteRows
  BY <1>2 DEF PoolRows
<1>4. ASSUME device[Ours].type = "pool", NEW m \in MembersOf(device[Ours])
      PROVE  m \in ConcreteRows
  <2>1. PICK d \in Registered : m = device[d]
    BY DEF MembersOf
  <2>2. m.type # "pool"
    BY <1>1, <1>4 DEF Nested
  <2> QED
    BY <1>3, <2>1, <2>2 DEF Registered
<1> QED
  BY <1>1, <1>3, <1>4, DispatchAssumption

\* What goes with no document is rendered from nothing to speak of.
LEMMA BareDrafts ==
    ASSUME NEW t \in Tickets, TicketInv(t), t.what \notin {"document", "format"}
    PROVE  t.draft \subseteq {"text", "cut"}
<1>1. t.form \in Forms /\ t.what \in Payloads /\ t.draft \in DraftsOf(t.form) /\ Asks(t.form, t.what)
  BY TicketFacts DEF TicketInv
<1>2. t.form # "document" /\ t.form # "drawer"
  BY <1>1 DEF Asks, Payloads
<1> QED
  BY <1>1, <1>2 DEF DraftsOf

-----------------------------------------------------------------------------
(* Dispatch: what a job comes to grief for.                                *)

\* An element that the renderer rejects.
LEMMA RejectedReason ==
    ASSUME DispatchTypeOK, Untouched, device[Ours] # Absent, NEW m \in Targets,
           NEW draft, NEW what, draft \cap Rejected(m) # {}
    PROVE  AReason(draft, what)
<1>1. m \in ConcreteRows /\ Can(device[Ours]) \subseteq ConcreteCan(m)
  BY TargetFacts
<1>2. PICK e \in draft : e \in Rejected(m)
  OBVIOUS
<1>3. /\ e \notin {"text", "cut", "pulse"}
      /\ e \notin ConcreteCan(m) \/ (e \in {"code128", "upc"} /\ Raster(m))
  BY <1>1, <1>2, RendererFacts
<1>4. CASE e \notin ConcreteCan(m)
  <2>1. ~(draft \subseteq Can(device[Ours]) \cup {"text", "cut", "pulse"})
    BY <1>1, <1>2, <1>3, <1>4
  <2> QED
    BY <2>1 DEF AReason
<1>5. CASE e \in {"code128", "upc"} /\ Raster(m)
  <2>1. draft \cap {"code128", "upc"} # {} /\ \E n \in Targets : Raster(n)
    BY <1>2, <1>5
  <2> QED
    BY <2>1 DEF AReason
<1> QED
  BY <1>3, <1>4, <1>5

\* Bytes an office printer refuses.
LEMMA RefusedReason ==
    ASSUME DispatchTypeOK, NEW t \in Tickets, AsAdmitted(t), TicketInv(t), NEW m \in Targets,
           "refused" \in SendsOf(m, KindOf(m, t.what))
    PROVE  AReason(t.draft, t.what)
<1>1. DispatchTypeOK /\ Untouched /\ device[Ours] # Absent /\ Admits(device[Ours], t.form, t.what)
  BY DEF AsAdmitted
<1>2. m \in ConcreteRows /\ t.what \in Payloads /\ Asks(t.form, t.what)
  BY <1>1, TargetFacts, TicketFacts DEF TicketInv
<1>3. \/ m.type = "cups" /\ KindOf(m, t.what) \notin Finished
      \/ m.type = "ipp_network" /\ KindOf(m, t.what) # "pdf"
  BY <1>2, EndFacts
<1>4. CASE device[Ours].type = "pool"
  <2>1. device[Ours].type = "pool" /\ \E n \in Targets : n.type \in Office
    BY <1>3, <1>4 DEF Office
  <2> QED
    BY <2>1 DEF AReason
<1>5. CASE device[Ours].type # "pool"
  <2>1. device[Ours] \in ConcreteRows /\ device[Ours] = m
    BY <1>1, <1>5, TargetFacts
  <2>2. Can(m) = ConcreteCan(m) /\ ~("pulse" \in Can(m)) /\ m.type \in Office
    BY <1>2, <1>3, ConcreteFacts, Abilities DEF CupsCan, IppCan, Finished, Office
  <2>3. \/ AdmitsPrint(m, t.form, t.what) \/ AdmitsRaw(m, t.form, t.what)
        \/ AdmitsFile(m, t.form, t.what) \/ AdmitsTest(m, t.form, t.what)
        \/ AdmitsDrawer(m, t.form, t.what)
    BY <1>1, <2>1 DEF Admits
  <2>4. t.what \notin {"document", "format"}
    BY <2>2, <2>3 DEF AdmitsPrint, AdmitsRaw, AdmitsFile, AdmitsTest, AdmitsDrawer, Finished
  <2>5. CASE t.what = "raw"
    <3>1. m.type = "ipp_network"
      BY <1>3, <2>3, <2>5 DEF AdmitsPrint, AdmitsRaw, AdmitsFile, AdmitsTest, AdmitsDrawer, Finished
    <3> QED
      BY <2>1, <2>5, <3>1 DEF AReason
  <2>6. CASE t.what \in {"overlay", "template"}
    <3>1. ~Raster(m)
      BY <2>2 DEF Raster, Office
    <3>2. KindOf(m, t.what) = "pdf"
      BY <1>2, <2>6, <3>1, KindFacts
    <3> QED
      BY <1>3, <3>2 DEF Finished
  <2>7. CASE t.what \in Finished
    <3>1. KindOf(m, t.what) = t.what
      BY <1>2, <2>7, KindFacts
    <3>2. m.type = "ipp_network" /\ t.what # "pdf"
      BY <1>3, <2>7, <3>1
    <3>3. Can(m) = {"image", "pdf"}
      BY <1>2, <2>2, <3>2, Abilities DEF IppCan
    <3>4. FALSE
      BY <2>3, <2>7, <3>2, <3>3, <2>2
        DEF AdmitsPrint, AdmitsRaw, AdmitsFile, AdmitsTest, AdmitsDrawer, Finished
    <3> QED
      BY <3>4
  <2> QED
    BY <1>2, <2>4, <2>5, <2>6, <2>7 DEF Payloads, Versioned
<1> QED
  BY <1>4, <1>5

\* A printer takes the bytes that were made for it, or refuses them before the
\* first: none of what was admitted for it fails it midway.
LEMMA NeverMistaken ==
    ASSUME DispatchTypeOK, NEW t \in Tickets, AsAdmitted(t), TicketInv(t), NEW m \in Targets
    PROVE  ~("mistaken" \in SendsOf(m, KindOf(m, t.what)))
<1> SUFFICES ASSUME "mistaken" \in SendsOf(m, KindOf(m, t.what)) PROVE FALSE
  OBVIOUS
<1> DEFINE d == device[Ours]
<1>1. Untouched /\ d # Absent /\ Admits(d, t.form, t.what)
  BY DEF AsAdmitted
<1>2. m \in ConcreteRows /\ t.what \in Payloads
  BY <1>1, TargetFacts, TicketFacts
<1>3. \/ m.type \in {"escpos_network", "escpos_usb"} /\ KindOf(m, t.what) # "escpos"
      \/ m.type = "zpl_network" /\ KindOf(m, t.what) # "zpl"
      \/ m.type = "star_network" /\ KindOf(m, t.what) # "star"
  BY <1>2, EndFacts
<1>4. ConcreteCan(m) \cap Finished = {}
  BY <1>2, <1>3, Abilities DEF EscposNetworkCan, EscposUsbCan, ZplCan, StarCan, Finished
<1>5. Can(d) \cap Finished = {} /\ ~("pdf" \in Can(d))
  <2>1. Can(d) \subseteq ConcreteCan(m)
    BY <1>1, TargetFacts
  <2> QED
    BY <1>4, <2>1 DEF Finished
<1>6. d.type \notin Office
  <2>1. CASE d.type = "pool"
    BY <2>1 DEF Office
  <2>2. CASE d.type # "pool"
    <3>1. d = m
      BY <1>1, <2>2, TargetFacts
    <3> QED
      BY <1>3, <3>1 DEF Office
  <2> QED
    BY <2>1, <2>2
<1>7. Raster(d) => d = m
  <2>1. Raster(d) => d.type # "pool"
    BY DEF Raster
  <2> QED
    BY <1>1, <2>1, TargetFacts
<1>8. t.what \notin {"document", "raw", "format"}
  BY <1>2, <1>3, KindFacts
<1> HIDE DEF d
<1>9. t.what \notin Finished
  BY <1>1, <1>5, <1>6
    DEF Admits, AdmitsPrint, AdmitsRaw, AdmitsFile, AdmitsTest, AdmitsDrawer, Finished
<1>10. CASE t.what \in {"overlay", "template"}
  <2>1. Raster(d)
    BY <1>1, <1>5, <1>6, <1>10
      DEF Admits, AdmitsPrint, AdmitsRaw, AdmitsFile, AdmitsTest, AdmitsDrawer, Finished,
          TakesRenderedPdf
  <2>2. m.type = "zpl_network" /\ KindOf(m, t.what) = "zpl"
    BY <1>2, <1>7, <1>10, <2>1, KindFacts DEF Raster
  <2> QED
    BY <1>3, <2>2
<1> QED
  BY <1>2, <1>8, <1>9, <1>10 DEF Payloads, Versioned

-----------------------------------------------------------------------------
(* Dispatch: the steps.                                                    *)

\* A step of the service on a job, printers and documents as they were.
LEMMA ServiceStep ==
    ASSUME DispatchTypeOK, NEW u \in Tickets, ticket' = u, UNCHANGED <<device, content, edits>>,
           reprints' \in 0..MaxReprints, TicketInv(u), u.resolved <= VersionOf(u.what),
           ~u.changed => AsAdmitted(u)
    PROVE  DispatchInv'
<1>1. ticket' # Absent
  BY NoTicketAssumption
<1>2. DispatchTypeOK'
  BY DEF DispatchTypeOK
<1>3. TicketInv(ticket)'
  BY DEF TicketInv
<1>4. (ticket.resolved <= VersionOf(ticket.what))'
  BY DEF VersionOf
<1>5. (~ticket.changed => AsAdmitted(ticket))'
  BY DEF AsAdmitted, Untouched, Admits, AdmitsPrint, AdmitsRaw, AdmitsFile, AdmitsTest,
         AdmitsDrawer, TakesRenderedPdf, Can, PoolCan, AReason, Targets, MembersOf, Registered
<1> QED
  BY <1>1, <1>2, <1>3, <1>4, <1>5 DEF DispatchInv

\* An edit: the job itself stays.
LEMMA EditStep ==
    ASSUME DispatchInv, DocumentsEdited,
           device' \in [Devices -> ConcreteRows \cup PoolRows \cup {Absent}],
           content' \in [format : Nat, template : Nat, overlay : Nat, layout : Drafts \cup {{"text"}}],
           VersionOf(ticket.what) <= VersionOf(ticket.what)'
    PROVE  DispatchInv'
<1>1. ticket # Absent /\ ticket \in Tickets /\ ticket' = Changed(ticket, TRUE)
  BY DEF DispatchInv, DispatchTypeOK, DocumentsEdited, Changed
<1> DEFINE u == Changed(ticket, TRUE)
<1>2. /\ u \in Tickets /\ SameRequest(ticket, u) /\ u.at = ticket.at /\ u.draft = ticket.draft
      /\ u.target = ticket.target /\ u.kind = ticket.kind /\ u.output = ticket.output
      /\ u.printed = ticket.printed /\ u.sheets = ticket.sheets /\ u.tries = ticket.tries
      /\ u.changed = TRUE
  BY <1>1, ChangedFacts
<1> HIDE DEF u
<1>3. ticket' = u /\ u # Absent
  BY <1>1, <1>2, NoTicketAssumption DEF u
<1>4. DispatchTypeOK'
  <2>1. edits \in 0..MaxEdits /\ reprints \in 0..MaxReprints
    BY DEF DispatchInv, DispatchTypeOK
  <2>2. edits' \in 0..MaxEdits /\ reprints' \in 0..MaxReprints
    BY <2>1, DispatchAssumption DEF DocumentsEdited
  <2>3. ticket' \in Tickets \cup {Absent}
    BY <1>2, <1>3
  <2> QED
    BY <2>2, <2>3 DEF DispatchTypeOK
<1>5. TicketInv(u)
  BY <1>1, <1>2 DEF DispatchInv, TicketInv, RenderedFor, SameRequest
<1>6. (ticket.resolved <= VersionOf(ticket.what))'
  <2>1. ticket.resolved <= VersionOf(ticket.what) /\ ticket.resolved \in Nat
    BY <1>1, TicketFacts DEF DispatchInv
  <2>2. VersionOf(ticket.what) \in Nat
    BY DEF VersionOf, DispatchInv, DispatchTypeOK, Versioned
  <2>3. VersionOf(ticket.what)' \in Nat
    BY DEF VersionOf, Versioned
  <2>4. ticket'.resolved = ticket.resolved
    BY <1>2, <1>3 DEF SameRequest
  <2> HIDE DEF VersionOf
  <2> QED
    BY <2>1, <2>2, <2>3, <2>4
<1> QED
  BY <1>2, <1>3, <1>4, <1>5, <1>6 DEF DispatchInv

\* A payload that has no versions counts as version 0.
LEMMA VersionIsNat == ASSUME DispatchTypeOK, NEW what PROVE VersionOf(what) \in Nat
  BY DEF VersionOf, DispatchTypeOK, Versioned

\* One lemma for each step from here.
LEMMA SubmittedKeeps == ASSUME DispatchInv, Submitted PROVE DispatchInv'
<1>1. PICK form \in Forms, what \in Payloads :
        /\ Admits(device[Ours], form, what)
        /\ \E draft \in DraftsOf(form), copies \in CopiesOf(form) :
             ticket' = NewTicket(form, what, draft, copies, VersionOf(what), 0)
  BY DEF Submitted, Admits
<1>2. PICK draft \in DraftsOf(form), copies \in CopiesOf(form) :
        ticket' = NewTicket(form, what, draft, copies, VersionOf(what), 0)
  BY <1>1
<1>3. /\ Untouched /\ device[Ours] # Absent /\ DispatchTypeOK
      /\ UNCHANGED <<device, content, edits, reprints>>
  BY DEF DispatchInv, Submitted
<1>4. /\ draft \in SUBSET Elements /\ copies \in CopyCounts \cup {1}
      /\ VersionOf(what) \in Nat /\ 0 \in Nat
  BY <1>3, VersionIsNat, DispatchAssumption DEF DraftsOf, CopiesOf, Elements, Special
<1> DEFINE u == NewTicket(form, what, draft, copies, VersionOf(what), 0)
<1>5. /\ u \in Tickets /\ u.at = "queued" /\ u.form = form /\ u.what = what
      /\ u.draft = draft /\ u.resolved = VersionOf(what) /\ u.tries = 0 /\ ~u.changed
  <2>1. Requestable(form, what, draft, copies, VersionOf(what), 0)
    BY <1>4 DEF Requestable
  <2> QED
    BY <2>1, NewTicketFacts
<1> HIDE DEF u
<1>6. Asks(form, what)
  BY <1>1 DEF Admits, AdmitsPrint, AdmitsRaw, AdmitsFile, AdmitsTest, AdmitsDrawer, Asks,
              Payloads, Versioned, Finished
<1>7. TicketInv(u)
  BY <1>5, <1>6, DispatchAssumption DEF TicketInv
<1>8. AsAdmitted(u)
  BY <1>1, <1>3, <1>5 DEF AsAdmitted
<1>9. ticket' = u /\ u.resolved <= VersionOf(u.what)
  BY <1>2, <1>4, <1>5 DEF u
<1>10. reprints' \in 0..MaxReprints
  BY <1>3 DEF DispatchTypeOK
<1> QED
  BY <1>3, <1>5, <1>7, <1>8, <1>9, <1>10, ServiceStep

LEMMA ReprintKeeps == ASSUME DispatchInv, Reprint PROVE DispatchInv'
<1> DEFINE t == ticket
           draft == IF t.what = "format" THEN {} ELSE t.draft
           first == IF t.at = "done" THEN t.printed ELSE 0
           n == NewTicket(t.form, t.what, draft, t.copies, t.resolved, first)
           u == Changed(n, t.changed)
<1>1. /\ DispatchTypeOK /\ t # Absent /\ t \in Tickets /\ TicketInv(t)
      /\ t.resolved <= VersionOf(t.what) /\ (~t.changed => AsAdmitted(t))
      /\ UNCHANGED <<device, content, edits>>
  BY DEF DispatchInv, DispatchTypeOK, Reprint
<1>2. /\ t.form \in Forms /\ t.what \in Payloads /\ t.draft \in SUBSET Elements
      /\ t.copies \in CopyCounts \cup {1} /\ t.resolved \in Nat /\ t.printed \in Nat
      /\ t.changed \in BOOLEAN
  BY <1>1, TicketFacts
<1>3. draft \in SUBSET Elements /\ first \in Nat
  BY <1>2
<1>4. ticket' = u
  BY DEF Reprint, Changed
<1>5. reprints' \in 0..MaxReprints
  BY <1>1, DispatchAssumption DEF Reprint, DispatchTypeOK
<1>6. t.what # "format" => draft = t.draft
  OBVIOUS
<1> HIDE DEF t, draft, first
<1>7. /\ n \in Tickets /\ n.at = "queued" /\ n.form = t.form /\ n.what = t.what
      /\ n.draft = draft /\ n.resolved = t.resolved /\ n.tries = 0
  <2>1. Requestable(t.form, t.what, draft, t.copies, t.resolved, first)
    BY <1>2, <1>3 DEF Requestable
  <2> QED
    BY <2>1, NewTicketFacts
<1> HIDE DEF n
<1>8. /\ u \in Tickets /\ u.at = "queued" /\ u.form = t.form /\ u.what = t.what
      /\ u.draft = draft /\ u.resolved = t.resolved /\ u.tries = 0 /\ u.changed = t.changed
  BY <1>2, <1>7, ChangedFacts DEF SameRequest
<1> HIDE DEF u
<1>9. TicketInv(u)
  BY <1>1, <1>6, <1>8, DispatchAssumption DEF TicketInv
<1>10. ~u.changed => AsAdmitted(u)
  BY <1>1, <1>8 DEF AsAdmitted
<1>11. u.resolved <= VersionOf(u.what)
  BY <1>1, <1>8
<1> QED
  BY <1>1, <1>4, <1>5, <1>8, <1>9, <1>10, <1>11, ServiceStep

LEMMA EditDeviceKeeps == ASSUME DispatchInv, EditDevice PROVE DispatchInv'
<1>1. /\ DocumentsEdited /\ content' = content
      /\ \E d \in Registered, r \in Edits \cup {Absent} : device' = [device EXCEPT ![d] = r]
  BY DEF EditDevice
<1>2. /\ device \in [Devices -> ConcreteRows \cup PoolRows \cup {Absent}] /\ ticket \in Tickets
      /\ content \in [format : Nat, template : Nat, overlay : Nat, layout : Drafts \cup {{"text"}}]
  BY <1>1 DEF DispatchInv, DispatchTypeOK, DocumentsEdited
<1>3. device' \in [Devices -> ConcreteRows \cup PoolRows \cup {Absent}]
  BY <1>1, <1>2 DEF Edits
<1>4. VersionOf(ticket.what) \in Nat /\ VersionOf(ticket.what)' = VersionOf(ticket.what)
  <2>1. ticket'.what = ticket.what
    BY <1>1, <1>2, ChangedFacts DEF DocumentsEdited, Changed, SameRequest
  <2> QED
    BY <1>1, <2>1, VersionIsNat DEF VersionOf, DispatchInv
<1>5. VersionOf(ticket.what) <= VersionOf(ticket.what)'
  BY <1>4
<1> QED
  BY <1>1, <1>2, <1>3, <1>5, EditStep

LEMMA EditContentKeeps == ASSUME DispatchInv, EditContent PROVE DispatchInv'
<1>1. DocumentsEdited /\ device' = device
  BY DEF EditContent
<1>2. PICK what \in Versioned, layout \in Drafts :
        /\ what # "format" => layout = content.layout
        /\ content' = [content EXCEPT ![what] = @ + 1, !.layout = layout]
  BY DEF EditContent
<1>3. /\ device \in [Devices -> ConcreteRows \cup PoolRows \cup {Absent}] /\ ticket \in Tickets
      /\ content \in [format : Nat, template : Nat, overlay : Nat, layout : Drafts \cup {{"text"}}]
  BY <1>1 DEF DispatchInv, DispatchTypeOK, DocumentsEdited
<1> DEFINE Layouts == Drafts \cup {{"text"}}
           n == content[what] + 1
<1>4. /\ content' \in [format : Nat, template : Nat, overlay : Nat, layout : Layouts]
      /\ content'[what] = n /\ \A w \in Versioned \ {what} : content'[w] = content[w]
  <2>1. /\ content \in [format : Nat, template : Nat, overlay : Nat, layout : Layouts]
        /\ layout \in Layouts /\ n \in Nat
    BY <1>3 DEF Versioned
  <2>2. content' = [content EXCEPT ![what] = n, !.layout = layout]
    BY <1>2, <2>1
  <2> HIDE DEF Layouts, n
  <2>3. CASE what = "format"
    BY <2>1, <2>2, <2>3 DEF Versioned
  <2>4. CASE what = "template"
    BY <2>1, <2>2, <2>4 DEF Versioned
  <2>5. CASE what = "overlay"
    BY <2>1, <2>2, <2>5 DEF Versioned
  <2> QED
    BY <2>3, <2>4, <2>5 DEF Versioned
<1>5. \A w \in Versioned : content'[w] \in Nat /\ content[w] <= content'[w]
  BY <1>3, <1>4 DEF Versioned
<1>6. ticket'.what = ticket.what
  BY <1>1, <1>3, ChangedFacts DEF DocumentsEdited, Changed, SameRequest
<1>7. VersionOf(ticket.what) <= VersionOf(ticket.what)'
  BY <1>5, <1>6 DEF VersionOf
<1> QED
  BY <1>1, <1>3, <1>4, <1>7, EditStep

\* What a step of the worker finds.
JobAt(t, at) ==
    /\ DispatchTypeOK /\ t \in Tickets /\ t.at = at /\ TicketInv(t)
    /\ t.resolved <= VersionOf(t.what) /\ (~t.changed => AsAdmitted(t))

\* A worker's step finds such a job.
LEMMA JobFound ==
    ASSUME DispatchInv, ticket # Absent, NEW at, ticket.at = at PROVE JobAt(ticket, at)
  BY DEF DispatchInv, DispatchTypeOK, JobAt

\* What such a step leaves, but for the place of the job.
LEMMA WorkerStep ==
    ASSUME NEW t \in Tickets, NEW at, JobAt(t, at), NEW u \in Tickets, SameRequest(t, u),
           ticket' = u, UNCHANGED <<device, content, edits, reprints>>,
           TicketInv(u), u.changed = t.changed, ~u.changed => AsAdmitted(u)
    PROVE  DispatchInv'
<1>1. DispatchTypeOK /\ reprints' \in 0..MaxReprints
  BY DEF JobAt, DispatchTypeOK
<1>2. u.resolved <= VersionOf(u.what)
  BY DEF JobAt, SameRequest
<1> QED
  BY <1>1, <1>2, ServiceStep

\* A job that ends without a print, for a reason or by a fault.
LEMMA EndedBadly ==
    ASSUME NEW t \in Tickets, NEW at, JobAt(t, at), NEW u \in Tickets, SameRequest(t, u),
           ticket' = u, UNCHANGED <<device, content, edits, reprints>>,
           u.at \in {"queued", "dead", "failed", "uncertain"},
           u.at = "queued" => u.tries < MaxTries, u.changed = t.changed,
           t.what # "format" => u.draft = t.draft,
           ~u.fault /\ ~u.erased /\ ~u.changed /\ u.at # "queued" => AReason(u.draft, u.what)
    PROVE  DispatchInv'
<1>1. TicketInv(u)
  BY DEF JobAt, TicketInv, SameRequest
<1>2. ASSUME ~u.changed PROVE AsAdmitted(u)
  BY <1>2 DEF JobAt, AsAdmitted, SameRequest
<1> QED
  BY <1>1, <1>2, WorkerStep

\* _retry_or_dead() of a job on its way.
LEMMA RetryKeeps ==
    ASSUME NEW t \in Tickets, NEW at \in {"queued", "resolved", "rendered"}, JobAt(t, at), t = ticket,
           NEW fault \in BOOLEAN, RetryOr(fault), UNCHANGED <<device, content, edits, reprints>>,
           ~fault /\ ~t.changed => AReason(t.draft, t.what)
    PROVE  DispatchInv'
<1>1. t.tries < MaxTries
  BY DEF JobAt, TicketInv
<1> DEFINE u == Retried(t, fault)
<1>2. ticket' = u
  BY DEF RetryOr, Retried
<1>3. /\ u \in Tickets /\ SameRequest(t, u) /\ u.at \in {"dead", "queued"}
      /\ u.at = "queued" => u.tries < MaxTries
      /\ u.draft = t.draft /\ (~u.fault => ~t.fault /\ ~fault) /\ u.changed = t.changed
  BY <1>1, RetriedFacts
<1> HIDE DEF u
<1>4. ~u.fault /\ ~u.changed /\ u.at # "queued" => AReason(u.draft, u.what)
  BY <1>3 DEF SameRequest
<1> QED
  BY <1>2, <1>3, <1>4, EndedBadly

\* An erasure leaves the request what it was.
LEMMA ErasePayloadKeeps == ASSUME DispatchInv, ErasePayload PROVE DispatchInv'
<1> DEFINE t == ticket
           u == Erased(t)
<1>1. /\ t \in Tickets /\ JobAt(t, "queued") /\ UNCHANGED <<device, content, edits, reprints>>
  BY JobFound DEF ErasePayload, JobAt
<1>2. ticket' = u
  BY DEF ErasePayload, Erased
<1>3. /\ u \in Tickets /\ SameRequest(t, u) /\ u.at = "queued" /\ u.draft = t.draft
      /\ u.tries < MaxTries /\ u.changed = t.changed
  BY <1>1, ErasedFacts DEF JobAt, TicketInv
<1> HIDE DEF u
<1> QED
  BY <1>1, <1>2, <1>3, EndedBadly

\* Resolution: a printer, a member that answered, or another try.
LEMMA ResolveKeeps == ASSUME DispatchInv, Resolve PROVE DispatchInv'
<1> DEFINE t == ticket
           r == device[Ours]
<1>1. /\ t \in Tickets /\ JobAt(t, "queued") /\ DispatchTypeOK
      /\ UNCHANGED <<device, content, edits, reprints>>
  BY JobFound DEF Resolve, JobAt
<1>2. CASE Unresolvable(r) /\ ticket' = [ticket EXCEPT !.at = "failed"]
  <2> DEFINE u == Moved(t, "failed")
  <2>1. "failed" \in TicketPlaces
    BY DEF TicketPlaces
  <2>2. /\ u \in Tickets /\ SameRequest(t, u) /\ u.at = "failed" /\ u.draft = t.draft
        /\ u.fault = t.fault /\ u.changed = t.changed
    BY <1>1, <2>1, MovedFacts
  <2>3. ticket' = u
    BY <1>2 DEF Moved
  <2> HIDE DEF u
  <2>4. t.changed
    <3>1. ASSUME ~t.changed PROVE Untouched /\ device[Ours] # Absent
      BY <1>1, <3>1 DEF JobAt, AsAdmitted
    <3>2. ASSUME ~t.changed PROVE ~Unresolvable(r)
      BY <1>1, <3>1, <3>2, TargetFacts DEF Unresolvable
    <3> QED
      BY <1>2, <3>2
  <2> QED
    BY <1>1, <2>2, <2>3, <2>4, EndedBadly
<1>3. ASSUME ~Unresolvable(r), NEW m \in ConcreteRows, m \in Targets,
             ticket' = [ticket EXCEPT !.at = "resolved", !.target = m]
      PROVE  DispatchInv'
  <2> DEFINE u == ResolvedTo(t, m)
  <2>1. /\ u \in Tickets /\ SameRequest(t, u) /\ u.at = "resolved" /\ u.target = m
        /\ u.draft = t.draft /\ u.tries = t.tries /\ u.changed = t.changed
    BY <1>1, ResolvedFacts
  <2>2. ticket' = u
    BY <1>3 DEF ResolvedTo
  <2> HIDE DEF u
  <2>3. TicketInv(u)
    BY <1>1, <2>1 DEF JobAt, TicketInv, SameRequest
  <2>4. ASSUME ~u.changed PROVE AsAdmitted(u)
    BY <1>1, <1>3, <2>1, <2>4 DEF JobAt, AsAdmitted, SameRequest
  <2> QED
    BY <1>1, <2>1, <2>2, <2>3, <2>4, WorkerStep
<1>4. CASE ~Unresolvable(r) /\ r.type # "pool" /\ ticket' = [ticket EXCEPT !.at = "resolved", !.target = r]
  <2>1. r \in ConcreteRows /\ r \in Targets
    BY <1>1, <1>4, ResolvableFacts DEF Targets
  <2> QED
    BY <1>3, <1>4, <2>1
<1>5. CASE /\ ~Unresolvable(r) /\ r.type = "pool"
           /\ \E m \in MembersOf(r) : ticket' = [ticket EXCEPT !.at = "resolved", !.target = m]
  <2>1. PICK m \in MembersOf(r) : ticket' = [ticket EXCEPT !.at = "resolved", !.target = m]
    BY <1>5
  <2>2. m \in ConcreteRows /\ m \in Targets
    BY <1>1, <1>5, ResolvableFacts DEF Targets
  <2> QED
    BY <1>3, <1>5, <2>1, <2>2
<1>6. CASE RetryOr(TRUE)
  BY <1>1, <1>6, RetryKeeps
<1> QED
  BY <1>2, <1>4, <1>5, <1>6 DEF Resolve

\* What rendering makes of elements none of which it rejects.
LEMMA RenderedOutput ==
    ASSUME NEW m \in ConcreteRows, NEW draft \in SUBSET Elements,
           draft \cap Rejected(m) = {} \/ draft \subseteq {"text", "cut"}
    PROVE  LET output == draft \ Omitted(m)
               lost == draft \ output
           IN  /\ output \in Outputs /\ output \subseteq ConcreteCan(m) \cup {"text"}
               /\ m.type \notin {"star_network", "zpl_network"} => lost \subseteq {"cut", "pulse"}
               /\ lost \cap ConcreteCan(m) = {}
<1> DEFINE output == draft \ Omitted(m)
<1>1. \A e \in output : e \in Elements /\ e \in ConcreteCan(m) \cup {"text"}
  <2>1. TAKE e \in output
  <2>2. e \in Elements /\ e \in draft /\ e \notin Omitted(m)
    OBVIOUS
  <2>3. CASE draft \cap Rejected(m) = {}
    BY <2>2, <2>3, RendererFacts
  <2>4. CASE draft \subseteq {"text", "cut"}
    BY <2>2, <2>4, RendererFacts
  <2> QED
    BY <2>2, <2>3, <2>4
<1>2. ConcreteCan(m) \subseteq Special \cup Finished
  BY CanOnly
<1>3. \A e \in Elements : e \in Special \cup Finished => e \in Special
  BY DEF Elements, Special, Finished
<1>4. output \in Outputs
  BY <1>1, <1>2, <1>3 DEF Outputs
<1>5. \A e \in draft \ output : e \in Omitted(m)
  OBVIOUS
<1>6. /\ \A e \in Omitted(m) : ~(e \in ConcreteCan(m))
      /\ m.type \notin {"star_network", "zpl_network"} => Omitted(m) \subseteq {"cut", "pulse"}
  BY RendererFacts
<1> QED
  BY <1>1, <1>4, <1>5, <1>6

\* Rendering: what it rejects and what it makes is right for the printer resolved.
LEMMA RenderKeeps == ASSUME DispatchInv, Render PROVE DispatchInv'
<1> DEFINE t == ticket
           r == t.target
           elements == IF t.what = "format" THEN content.layout ELSE t.draft
           nothing == t.erased \/ (t.what = "raw" /\ elements = {})
           rejected == /\ ~nothing /\ t.what \in {"document", "format"}
                       /\ elements \cap Rejected(r) # {}
<1>1. /\ t \in Tickets /\ JobAt(t, "resolved") /\ DispatchTypeOK
      /\ UNCHANGED <<device, content, edits, reprints>>
  BY JobFound DEF Render, JobAt
<1>2. /\ t.what \in Payloads /\ t.draft \in SUBSET Elements /\ r \in ConcreteRows
      /\ t.tries < MaxTries /\ TicketInv(t)
  BY <1>1, TicketFacts DEF JobAt, TicketInv
<1>3. elements \in SUBSET Elements
  <2>1. content.layout \in Drafts \cup {{"text"}}
    BY <1>1 DEF DispatchTypeOK
  <2>2. content.layout \in SUBSET Elements
    BY <2>1, DispatchAssumption DEF Elements
  <2> QED
    BY <1>2, <2>2
<1>4. t.what # "format" => elements = t.draft
  OBVIOUS
<1>5. ASSUME ~t.changed
      PROVE  /\ Untouched /\ device[Ours] # Absent /\ r \in Targets
             /\ Admits(device[Ours], t.form, t.what)
  BY <1>1, <1>5 DEF JobAt, AsAdmitted
<1>6. CASE rejected /\ ticket' = [ticket EXCEPT !.at = "dead", !.draft = elements]
  <2> DEFINE u == RejectedWith(t, elements)
  <2>1. /\ u \in Tickets /\ SameRequest(t, u) /\ u.at = "dead" /\ u.draft = elements
        /\ u.fault = t.fault /\ u.changed = t.changed
    BY <1>1, <1>3, RejectedFacts
  <2>2. ticket' = u
    BY <1>6 DEF RejectedWith
  <2> HIDE DEF u, elements, r
  <2>3. ASSUME ~t.changed PROVE AReason(elements, t.what)
    BY <1>1, <1>5, <1>6, <2>3, RejectedReason
  <2>4. ~u.fault /\ ~u.changed /\ u.at # "queued" => AReason(u.draft, u.what)
    BY <2>1, <2>3 DEF SameRequest
  <2> QED
    BY <1>1, <1>4, <2>1, <2>2, <2>4, EndedBadly
<1>7. CASE nothing /\ ticket' = [ticket EXCEPT !.at = "failed"]
  <2> DEFINE u == Moved(t, "failed")
  <2>1. "failed" \in TicketPlaces
    BY DEF TicketPlaces
  <2>2. /\ u \in Tickets /\ SameRequest(t, u) /\ u.at = "failed" /\ u.draft = t.draft
        /\ u.fault = t.fault /\ u.changed = t.changed /\ u.erased = t.erased
    BY <1>1, <2>1, MovedFacts
  <2>3. ticket' = u
    BY <1>7 DEF Moved
  <2>4. t.erased \/ (t.what = "raw" /\ t.draft = {})
    BY <1>4, <1>7
  <2>5. t.erased \/ AReason(t.draft, t.what)
    BY <2>4 DEF AReason
  <2> HIDE DEF u
  <2> QED
    BY <1>1, <2>2, <2>3, <2>5, EndedBadly DEF SameRequest
<1>8. CASE /\ ~rejected /\ ~nothing
           /\ ticket' = [ticket EXCEPT !.at = "rendered", !.draft = elements,
                                       !.kind = KindOf(r, ticket.what),
                                       !.output = elements \ Omitted(r),
                                       !.printed = VersionOf(ticket.what)]
  <2> DEFINE kind == KindOf(r, t.what)
             output == elements \ Omitted(r)
             version == VersionOf(t.what)
             u == RenderedAs(t, elements, kind, output, version)
  <2>1. elements \cap Rejected(r) = {} \/ elements \subseteq {"text", "cut"}
    <3>1. CASE t.what \in {"document", "format"}
      BY <1>8, <3>1
    <3>2. CASE t.what \notin {"document", "format"}
      BY <1>1, <1>2, <1>4, <3>2, BareDrafts
    <3> QED
      BY <3>1, <3>2
  <2>2. /\ output \in Outputs /\ output \subseteq ConcreteCan(r) \cup {"text"}
        /\ r.type \notin {"star_network", "zpl_network"} => elements \ output \subseteq {"cut", "pulse"}
        /\ (elements \ output) \cap ConcreteCan(r) = {}
    <3> HIDE DEF elements, r
    <3> QED
      BY <1>2, <1>3, <2>1, RenderedOutput
  <2>3. kind \in OutputKinds /\ version \in Nat
    BY <1>1, <1>2, KindFacts, VersionIsNat DEF OutputKinds
  <2>4. ticket' = u
    BY <1>8 DEF RenderedAs
  <2>5. \A e \in elements : e \in ConcreteCan(r) => e \in output
    BY <2>2
  <2> HIDE DEF kind, output, version, elements
  <2>6. /\ u \in Tickets /\ SameRequest(t, u) /\ u.at = "rendered" /\ u.draft = elements
        /\ u.kind = kind /\ u.output = output /\ u.printed = version
        /\ u.target = t.target /\ u.tries = t.tries /\ u.changed = t.changed
    BY <1>1, <1>3, <2>2, <2>3, RenderedFacts
  <2> HIDE DEF u
  <2>7. t.resolved <= version
    BY <1>1 DEF JobAt, version
  <2>8. RenderedFor(u)
    BY <1>2, <2>2, <2>6, <2>7 DEF RenderedFor, SameRequest, kind
  <2>9. TicketInv(u)
    BY <1>2, <1>4, <2>6, <2>8 DEF TicketInv, SameRequest
  <2>10. ASSUME ~u.changed, u.form = "drawer" PROVE "pulse" \in u.output
    <3>1. t.form = "drawer" /\ ~t.changed
      BY <2>6, <2>10 DEF SameRequest
    <3>2. t.what = "document" /\ "pulse" \in Can(device[Ours])
      BY <1>5, <3>1 DEF Admits, AdmitsPrint, AdmitsRaw, AdmitsFile, AdmitsTest, AdmitsDrawer, Finished
    <3>3. elements = {"pulse"}
      BY <1>2, <1>4, <3>1, <3>2 DEF TicketInv, DraftsOf
    <3>4. "pulse" \in ConcreteCan(r)
      BY <1>1, <1>5, <3>1, <3>2, TargetFacts
    <3> QED
      BY <2>5, <2>6, <3>3, <3>4
  <2>11. ASSUME ~u.changed PROVE AsAdmitted(u)
    BY <1>5, <2>6, <2>10, <2>11 DEF AsAdmitted, SameRequest
  <2> QED
    BY <1>1, <2>4, <2>6, <2>9, <2>11, WorkerStep
<1>9. ASSUME NEW end \in {"dead", "failed"}, ticket' = [ticket EXCEPT !.at = end, !.fault = TRUE]
      PROVE  DispatchInv'
  <2> DEFINE u == Faulted(t, end)
  <2>1. end \in TicketPlaces
    BY DEF TicketPlaces
  <2>2. /\ u \in Tickets /\ SameRequest(t, u) /\ u.at = end /\ u.draft = t.draft /\ u.fault
        /\ u.changed = t.changed
    BY <1>1, <2>1, FaultedFacts
  <2>3. ticket' = u
    BY <1>9 DEF Faulted
  <2> HIDE DEF u
  <2> QED
    BY <1>1, <2>2, <2>3, EndedBadly
<1> QED
  BY <1>6, <1>7, <1>8, <1>9 DEF Render

\* A job that ends in a place of its own, with a fault or without.
LEMMA SentBadly ==
    ASSUME NEW t \in Tickets, JobAt(t, "rendered"), UNCHANGED <<device, content, edits, reprints>>,
           NEW end \in {"uncertain", "failed"}, ticket' = Faulted(t, end)
    PROVE  DispatchInv'
<1> DEFINE u == Faulted(t, end)
<1>1. end \in TicketPlaces
  BY DEF TicketPlaces
<1>2. /\ u \in Tickets /\ SameRequest(t, u) /\ u.at = end /\ u.draft = t.draft /\ u.fault
      /\ u.changed = t.changed
  BY <1>1, FaultedFacts
<1> HIDE DEF u
<1>3. ticket' = u
  BY DEF u
<1> QED
  BY <1>2, <1>3, EndedBadly

\* Sending: what the backend refuses, it refuses for a reason.
LEMMA SendKeeps == ASSUME DispatchInv, Send PROVE DispatchInv'
<1> DEFINE t == ticket
           r == t.target
<1>1. /\ t \in Tickets /\ JobAt(t, "rendered") /\ DispatchTypeOK
      /\ UNCHANGED <<device, content, edits, reprints>>
  BY JobFound DEF Send, JobAt
<1>2. /\ t.what \in Payloads /\ t.copies \in Nat /\ TicketInv(t) /\ RenderedFor(t)
      /\ r \in ConcreteRows /\ t.kind = KindOf(r, t.what)
  <2>1. TicketInv(t) /\ t.at = "rendered"
    BY <1>1 DEF JobAt
  <2>2. RenderedFor(t)
    BY <2>1 DEF TicketInv
  <2>3. t.what \in Payloads /\ t.copies \in CopyCounts \cup {1}
    BY <1>1, TicketFacts
  <2>4. t.copies \in Nat
    <3>1. \A c \in CopyCounts : c \in Nat
      BY DispatchAssumption
    <3>2. t.copies \in CopyCounts \/ t.copies = 1
      BY <2>3
    <3> QED
      BY <3>1, <3>2
  <2> QED
    BY <2>1, <2>2, <2>3, <2>4 DEF RenderedFor
<1>3. ASSUME ~t.changed PROVE AsAdmitted(t) /\ r \in Targets
  BY <1>1, <1>3 DEF JobAt, AsAdmitted
<1>4. CASE ticket' = [ticket EXCEPT !.at = "done", !.sheets = Sheets(r, t.kind, t.copies)]
  <2> DEFINE sheets == Sheets(r, t.kind, t.copies)
             u == Printed(t, sheets)
  <2>1. sheets \in Nat
    BY <1>2 DEF Sheets
  <2>2. ticket' = u
    BY <1>4 DEF Printed
  <2> HIDE DEF sheets
  <2>3. /\ u \in Tickets /\ SameRequest(t, u) /\ u.at = "done" /\ u.sheets = sheets
        /\ u.draft = t.draft /\ u.target = t.target /\ u.kind = t.kind /\ u.output = t.output
        /\ u.printed = t.printed /\ u.changed = t.changed
    BY <1>1, <2>1, PrintedFacts
  <2> HIDE DEF u
  <2>4. RenderedFor(u)
    BY <1>2, <2>3 DEF RenderedFor, SameRequest
  <2>5. u.sheets = Sheets(u.target, u.kind, u.copies)
    BY <2>3 DEF sheets, SameRequest
  <2>6. TicketInv(u)
    BY <1>2, <2>3, <2>4, <2>5 DEF TicketInv, SameRequest
  <2>7. ASSUME ~u.changed PROVE AsAdmitted(u)
    BY <1>1, <1>3, <2>3, <2>7 DEF JobAt, AsAdmitted, SameRequest
  <2> QED
    BY <1>1, <2>2, <2>3, <2>6, <2>7, WorkerStep
<1>5. CASE RetryOr(TRUE)
  BY <1>1, <1>5, RetryKeeps
<1>6. CASE "refused" \in SendsOf(r, t.kind) /\ RetryOr(FALSE)
  <2>1. ASSUME ~t.changed PROVE AReason(t.draft, t.what)
    BY <1>1, <1>2, <1>3, <1>6, <2>1, RefusedReason
  <2> QED
    BY <1>1, <1>6, <2>1, RetryKeeps
<1>7. CASE ticket' = [ticket EXCEPT !.at = "uncertain", !.fault = TRUE]
  BY <1>1, <1>7, SentBadly DEF Faulted
<1>8. CASE "mistaken" \in SendsOf(r, t.kind) /\ ticket' = [ticket EXCEPT !.at = "uncertain"]
  <2> DEFINE u == Moved(t, "uncertain")
  <2>1. "uncertain" \in TicketPlaces
    BY DEF TicketPlaces
  <2>2. /\ u \in Tickets /\ SameRequest(t, u) /\ u.at = "uncertain" /\ u.draft = t.draft
        /\ u.fault = t.fault /\ u.changed = t.changed
    BY <1>1, <2>1, MovedFacts
  <2>3. ticket' = u
    BY <1>8 DEF Moved
  <2> HIDE DEF u
  <2>4. t.changed
    BY <1>1, <1>2, <1>3, <1>8, NeverMistaken
  <2> QED
    BY <1>1, <2>2, <2>3, <2>4, EndedBadly
<1>9. CASE ticket' = [ticket EXCEPT !.at = "failed", !.fault = TRUE]
  BY <1>1, <1>9, SentBadly DEF Faulted
<1> QED
  BY <1>4, <1>5, <1>6, <1>7, <1>8, <1>9 DEF Send

-----------------------------------------------------------------------------
(* Dispatch: the theorems.                                                 *)

\* Dispatch begins with printers as the operator left them, none a pool in a pool.
THEOREM DispatchBegins == DispatchInit => DispatchInv
<1> SUFFICES ASSUME DispatchInit PROVE DispatchInv
  OBVIOUS
<1>1. ticket = Absent /\ edits \in 0..MaxEdits /\ reprints \in 0..MaxReprints
  BY DispatchAssumption DEF DispatchInit
<1>2. /\ content \in [format : Nat, template : Nat, overlay : Nat, layout : Drafts \cup {{"text"}}]
      /\ content.layout = {"text"}
  BY DEF DispatchInit
<1>3. CASE \E r \in ConcreteRows : device = [d \in Devices |-> IF d = Ours THEN r ELSE Absent]
  <2>1. PICK r \in ConcreteRows : device = [d \in Devices |-> IF d = Ours THEN r ELSE Absent]
    BY <1>3
  <2>2. device \in [Devices -> ConcreteRows \cup PoolRows \cup {Absent}] /\ device[Ours] = r
    BY <2>1, DispatchAssumption
  <2>3. r.type # "pool"
    BY ConcreteFacts
  <2> QED
    BY <1>1, <1>2, <2>2, <2>3 DEF DispatchInv, DispatchTypeOK, Untouched
<1>4. CASE /\ device \in [Devices -> ConcreteRows \cup PoolRows]
           /\ device[Ours].type = "pool" /\ device[Ours].members = Devices \ {Ours}
           /\ \A d \in Devices \ {Ours} : device[d].type \in MemberTypes
  <2>1. \A d \in Devices \ {Ours} : device[d].type # "pool"
    BY <1>4, DispatchAssumption DEF DeviceTypes
  <2>2. \A d \in Devices \ {Ours} : device[d] \in ConcreteRows
    BY <1>4, <2>1 DEF PoolRows
  <2>3. device[Ours] \in ConcreteRows \cup PoolRows
    BY <1>4, DispatchAssumption
  <2>4. device \in [Devices -> ConcreteRows \cup PoolRows \cup {Absent}]
    BY <1>4
  <2> QED
    BY <1>1, <1>2, <1>4, <2>2, <2>3, <2>4 DEF DispatchInv, DispatchTypeOK, Untouched
<1> QED
  BY <1>3, <1>4 DEF DispatchInit

\* The invariant of a job on its way holds in every state: DispatchTypeOK, what
\* was rendered fits the printer it was rendered for, and, while nothing was
\* edited, the job is one that the printer admits and goes to a printer of its own.
THEOREM DispatchInvariance == DispatchSpec => []DispatchInv
<1>1. DispatchInv /\ [DispatchNext]_dispatchVars => DispatchInv'
  <2> SUFFICES ASSUME DispatchInv, [DispatchNext]_dispatchVars PROVE DispatchInv'
    OBVIOUS
  <2>1. CASE Submitted
    BY <2>1, SubmittedKeeps
  <2>2. CASE Reprint
    BY <2>2, ReprintKeeps
  <2>3. CASE EditDevice
    BY <2>3, EditDeviceKeeps
  <2>4. CASE EditContent
    BY <2>4, EditContentKeeps
  <2>5. CASE Resolve
    BY <2>5, ResolveKeeps
  <2>6. CASE Render
    BY <2>6, RenderKeeps
  <2>7. CASE Send
    BY <2>7, SendKeeps
  <2>8. CASE ErasePayload
    BY <2>8, ErasePayloadKeeps
  <2>9. CASE UNCHANGED dispatchVars
    <3>1. DispatchTypeOK'
      BY <2>9 DEF DispatchInv, DispatchTypeOK, dispatchVars
    <3>2. CASE ticket = Absent
      BY <2>9, <3>1, <3>2 DEF DispatchInv, dispatchVars, Untouched
    <3>3. CASE ticket # Absent
      <4>1. JobAt(ticket, ticket.at) /\ ticket \in Tickets
        BY <3>3, JobFound DEF JobAt
      <4> QED
        BY <2>9, <4>1, WorkerStep DEF JobAt, dispatchVars, SameRequest
    <3> QED
      BY <3>2, <3>3
  <2> QED
    BY <2>1, <2>2, <2>3, <2>4, <2>5, <2>6, <2>7, <2>8, <2>9 DEF DispatchNext
<1> QED
  BY <1>1, DispatchBegins, PTL DEF DispatchSpec

\* Every variable of Dispatch keeps its type.
THEOREM DispatchTypes == DispatchSpec => []DispatchTypeOK
<1>1. DispatchInv => DispatchTypeOK
  BY DEF DispatchInv
<1> QED
  BY <1>1, DispatchInvariance, PTL

\* A job that nothing outside hindered and whose printers and documents nobody
\* edited comes to grief for one of the reasons of FailsForAReason only: what the
\* API admits, _render() renders, and the backend takes what was rendered.
THEOREM GriefHasAReason == DispatchSpec => []FailsForAReason
<1>1. DispatchInv => FailsForAReason
  BY DEF DispatchInv, AsAdmitted, AReason, FailsForAReason, Ended
<1> QED
  BY <1>1, DispatchInvariance, PTL

\* A job reported done is on paper as it was asked for, but for what its printer
\* cannot do, and for the copies that IPP and virtual printers do not make.
THEOREM WhatIsDoneWasAsked == DispatchSpec => []DoneIsTheRequest
<1>1. ASSUME DispatchInv, Ended({"done"}) PROVE DoneIsTheRequest
  <2>1. ticket # Absent /\ ticket.at = "done" /\ ticket \in Tickets /\ TicketInv(ticket)
    BY <1>1 DEF Ended, DispatchInv, DispatchTypeOK
  <2>2. ~ticket.changed /\ ticket.form = "drawer" => "pulse" \in ticket.output
    BY <1>1, <2>1 DEF DispatchInv, AsAdmitted
  <2>3. RenderedFor(ticket) /\ ticket.sheets = Sheets(ticket.target, ticket.kind, ticket.copies)
    BY <2>1 DEF TicketInv
  <2>4. ticket.resolved \in Nat /\ ticket.printed \in Nat
    BY <2>1, TicketFacts
  <2>5. ticket.sheets # ticket.copies => PrintsOneCopy(ticket.target, ticket.kind)
    BY <2>3 DEF Sheets
  <2> QED
    BY <2>2, <2>3, <2>4, <2>5 DEF DoneIsTheRequest, RenderedFor
<1>2. DispatchInv => DoneIsTheRequest
  BY <1>1 DEF DoneIsTheRequest
<1> QED
  BY <1>2, DispatchInvariance, PTL

\* The bytes a backend is given are such as it takes, unless someone edited a
\* printer or a document since the request: none is turned away after its first byte.
THEOREM BytesFitThePrinter ==
    DispatchSpec => [](Ended({"rendered"}) /\ ~ticket.changed =>
                         ~("mistaken" \in SendsOf(ticket.target, ticket.kind)))
<1>1. ASSUME DispatchInv, Ended({"rendered"}), ~ticket.changed
      PROVE  ~("mistaken" \in SendsOf(ticket.target, ticket.kind))
  <2>1. /\ ticket \in Tickets /\ TicketInv(ticket) /\ AsAdmitted(ticket) /\ DispatchTypeOK
        /\ ticket.at = "rendered"
    BY <1>1 DEF Ended, DispatchInv, DispatchTypeOK
  <2>2. ticket.target \in Targets /\ ticket.kind = KindOf(ticket.target, ticket.what)
    BY <2>1 DEF TicketInv, AsAdmitted, RenderedFor
  <2> QED
    BY <2>1, <2>2, NeverMistaken
<1>2. DispatchInv => (Ended({"rendered"}) /\ ~ticket.changed =>
                        ~("mistaken" \in SendsOf(ticket.target, ticket.kind)))
  BY <1>1
<1> QED
  BY <1>2, DispatchInvariance, PTL
=============================================================================
