------------------------ MODULE CanardServicesProofs ------------------------
(***************************************************************************)
(* The handler lists and the transfer-ID counters of the C++ wrappers: whom a      *)
(* transfer reaches, whatever the callbacks create and destroy, and whose answer    *)
(* it is, for any handlers, services, remote nodes and any ring of transfer-IDs.    *)
(***************************************************************************)
EXTENDS CanardServices, FiniteSetTheorems, WellFoundedInduction, TLAPS

-----------------------------------------------------------------------------
(* The lists.  A handler that a callback destroyed while it was walked past is gone, but     *)
(* its pointer still leads on.  rank: the younger a handler, the higher.          *)

Spot == (0 .. NumHandlers - 1) \X (0 .. NumBuckets - 1)
SpotOf(s, h) == <<s.handler[h].index, s.handler[h].type % NumBuckets>>

(* Pointer p leads to what is linked in list l with a lower rank than b, and to nothing *)
(* of another list or of a higher rank.                                        *)
Below(s, p, l, b, linked, gone, rank) ==
    /\ p # Nil => p \in linked \cup gone /\ SpotOf(s, p) = l /\ rank[p] < b
    /\ \A y \in linked : SpotOf(s, y) = l /\ rank[y] < b => p # Nil /\ rank[y] <= rank[p]

Lists(s, hd, nx, linked, gone, rank, top) ==
    /\ linked \in SUBSET DOMAIN s.handler /\ gone \in SUBSET DOMAIN s.handler
    /\ linked \cap gone = {}
    /\ rank \in [Handlers -> Nat] /\ top \in Nat
    /\ \A x \in linked \cup gone : rank[x] < top
    /\ \A x, y \in linked \cup gone : rank[x] = rank[y] => x = y
    /\ hd \in [Spot -> linked \cup {Nil}] /\ nx \in [Handlers -> Handlers \cup {Nil}]
    /\ \A l \in Spot : Below(s, hd[l], l, top, linked, gone, rank)
    /\ \A x \in linked \cup gone : Below(s, nx[x], SpotOf(s, x), rank[x], linked, gone, rank)
    /\ \A x \in linked : nx[x] \in linked \cup {Nil}

LEMMA Least ==
    ASSUME NEW S, S \subseteq Nat, S # {}
    PROVE  \E n \in S : \A k \in S : n <= k
<1> DEFINE R == OpToRel(<, Nat)
<1>1. IsWellFoundedOn(R, Nat)
  BY NatLessThanWellFounded
<1>2. \A x, y \in Nat : x < y => <<x, y>> \in R
  BY DEF OpToRel
<1> HIDE DEF R
<1>3. PICK n \in S : \A k \in S : ~(<<k, n>> \in R)
  BY <1>1, WFMin, Zenon
<1>4. \A k \in S : ~(k < n)
  BY <1>2, <1>3
<1>5. \A k \in S : k \in Nat /\ n \in Nat
  OBVIOUS
<1> QED
  BY <1>4, <1>5

LEMMA Addressed ==
    ASSUME NEW s \in Scenarios, NEW h \in DOMAIN s.handler
    PROVE  /\ h \in Handlers /\ h # Nil
           /\ s.handler[h].index \in 0 .. NumHandlers - 1 /\ s.handler[h].type \in Nat
           /\ s.handler[h].kind \in Kinds
           /\ SpotOf(s, h) \in Spot
<1>1. NumBuckets \in Nat \ {0}
  BY ServicesAssumption
<1>2. \A t \in Nat : t % NumBuckets \in 0 .. NumBuckets - 1
  BY <1>1
<1> QED
  BY <1>2, ServicesAssumption DEF IsScenario, IsAddressed, SpotOf, Spot

-----------------------------------------------------------------------------
(* Linking and unlinking *)

LEMMA Linking ==
    ASSUME NEW s \in Scenarios, NEW hd, NEW nx, NEW linked, NEW gone, NEW rank, NEW top,
           Lists(s, hd, nx, linked, gone, rank, top),
           NEW h \in DOMAIN s.handler, h \notin linked \cup gone
    PROVE  Lists(s, [hd EXCEPT ![SpotOf(s, h)] = h], [nx EXCEPT ![h] = hd[SpotOf(s, h)]],
                 linked \cup {h}, gone, [rank EXCEPT ![h] = top], top + 1)
<1> DEFINE l == SpotOf(s, h)
           hd2 == [hd EXCEPT ![l] = h]
           nx2 == [nx EXCEPT ![h] = hd[l]]
           rank2 == [rank EXCEPT ![h] = top]
           more == linked \cup {h}
<1>1. l \in Spot /\ h \in Handlers /\ h # Nil
  BY Addressed
<1>2. linked \subseteq Handlers /\ gone \subseteq Handlers /\ Nil \notin Handlers
  BY ServicesAssumption DEF Lists, IsScenario
<1>3. rank \in [Handlers -> Nat] /\ top \in Nat
  BY DEF Lists
<1>4. rank2 \in [Handlers -> Nat] /\ rank2[h] = top
  BY <1>1, <1>3
<1>5. \A x \in linked \cup gone : rank2[x] = rank[x] /\ rank[x] \in Nat /\ rank[x] < top /\ x # h
  BY <1>2, <1>3 DEF Lists
<1>6. \A p \in Spot : Below(s, hd2[p], p, top + 1, more, gone, rank2)
  <2> TAKE p \in Spot
  <2>1. CASE p = l
    <3>1. hd2[p] = h
      BY <1>1, <2>1 DEF Lists
    <3> HIDE DEF hd2, rank2, l
    <3> QED
      BY <3>1, <1>1, <1>3, <1>4, <1>5, <2>1 DEF Below, l
  <2>2. CASE p # l
    <3>1. hd2[p] = hd[p]
      BY <1>1, <2>2 DEF Lists
    <3>2. Below(s, hd[p], p, top, linked, gone, rank)
      BY DEF Lists
    <3> HIDE DEF hd2, rank2
    <3> QED
      BY <3>1, <3>2, <1>1, <1>3, <1>4, <1>5, <2>2 DEF Below
  <2> QED
    BY <2>1, <2>2
<1>7. \A x \in more \cup gone : Below(s, nx2[x], SpotOf(s, x), rank2[x], more, gone, rank2)
  <2> TAKE x \in more \cup gone
  <2>1. CASE x = h
    <3>1. nx2[x] = hd[l]
      BY <1>1, <2>1 DEF Lists
    <3>2. Below(s, hd[l], l, top, linked, gone, rank)
      BY <1>1 DEF Lists
    <3> HIDE DEF nx2, rank2
    <3> QED
      BY <3>1, <3>2, <1>1, <1>3, <1>4, <1>5, <2>1 DEF Below
  <2>2. CASE x # h
    <3>1. nx2[x] = nx[x]
      BY <1>2, <2>2 DEF Lists
    <3>2. Below(s, nx[x], SpotOf(s, x), rank[x], linked, gone, rank)
      BY <2>2 DEF Lists
    <3> HIDE DEF nx2, rank2
    <3> QED
      BY <3>1, <3>2, <1>1, <1>3, <1>4, <1>5, <2>2 DEF Below
  <2> QED
    BY <2>1, <2>2
<1>8. \A x \in more : nx2[x] \in more \cup {Nil}
  BY <1>1, <1>2 DEF Lists
<1>9. hd2 \in [Spot -> more \cup {Nil}] /\ nx2 \in [Handlers -> Handlers \cup {Nil}]
  BY <1>1, <1>2 DEF Lists
<1>10. \A x \in more \cup gone : rank2[x] < top + 1
  BY <1>3, <1>4, <1>5
<1>11. \A x, y \in more \cup gone : rank2[x] = rank2[y] => x = y
  BY <1>3, <1>4, <1>5 DEF Lists
<1>12. more \in SUBSET DOMAIN s.handler /\ gone \in SUBSET DOMAIN s.handler /\ more \cap gone = {}
  BY DEF Lists
<1>13. top + 1 \in Nat
  BY <1>3
<1> HIDE DEF hd2, nx2, rank2, more, l
<1>14. Lists(s, hd2, nx2, more, gone, rank2, top + 1)
  BY <1>4, <1>6, <1>7, <1>8, <1>9, <1>10, <1>11, <1>12, <1>13 DEF Lists
<1> QED
  BY <1>14 DEF hd2, nx2, rank2, more, l

(* A handler that is unlinked while its list is walked leads on to where it led. *)
LEMMA Unlinking ==
    ASSUME NEW s \in Scenarios, NEW hd, NEW nx, NEW linked, NEW gone, NEW rank, NEW top,
           Lists(s, hd, nx, linked, gone, rank, top), NEW h \in linked,
           NEW hd2, NEW nx2,
           IF hd[SpotOf(s, h)] = h
           THEN hd2 = [hd EXCEPT ![SpotOf(s, h)] = nx[h]] /\ nx2 = nx
           ELSE /\ nx2 = [e \in DOMAIN nx |->
                            IF e \in {y \in linked : SpotOf(s, y) = SpotOf(s, h)} /\ nx[e] = h
                            THEN nx[h] ELSE nx[e]]
                /\ hd2 = hd
    PROVE  Lists(s, hd2, nx2, linked \ {h}, gone \cup {h}, rank, top)
<1> DEFINE l == SpotOf(s, h)
           less == linked \ {h}
           more == gone \cup {h}
<1>1. l \in Spot /\ h \in Handlers /\ h # Nil
  BY Addressed DEF Lists
<1>2. linked \subseteq Handlers /\ gone \subseteq Handlers /\ Nil \notin Handlers
  BY ServicesAssumption DEF Lists, IsScenario
<1>3. \A x \in linked \cup gone : rank[x] \in Nat /\ rank[x] < top
  BY <1>2 DEF Lists
<1>4. \A x, y \in linked \cup gone : rank[x] = rank[y] => x = y
  BY DEF Lists
<1>5. top \in Nat /\ less \cup more = linked \cup gone
  BY DEF Lists
<1>6. Below(s, nx[h], l, rank[h], linked, gone, rank)
  BY DEF Lists
<1>7. \A p \in Spot : Below(s, hd[p], p, top, linked, gone, rank) /\ hd[p] \in linked \cup {Nil}
  BY DEF Lists
<1>8. \A x \in linked \cup gone : Below(s, nx[x], SpotOf(s, x), rank[x], linked, gone, rank)
  BY DEF Lists
<1>9. \A p, q, b : Below(s, p, q, b, linked, gone, rank) => Below(s, p, q, b, less, more, rank)
  BY DEF Below
<1>10. nx[h] \in less \cup {Nil}
  <2>1. nx[h] # h
    BY <1>1, <1>3, <1>6 DEF Below
  <2> QED
    BY <2>1 DEF Lists
<1>11. \A x \in linked : nx[x] = h => SpotOf(s, x) = l
  BY <1>1, <1>8 DEF Below
<1>12. CASE hd[l] = h
  <2>1. hd2 = [hd EXCEPT ![l] = nx[h]] /\ nx2 = nx
    BY <1>12
  <2>2. hd2[l] = nx[h] /\ \A p \in Spot : p # l => hd2[p] = hd[p]
    BY <2>1, <1>1 DEF Lists
  <2>3. Below(s, nx[h], l, top, less, more, rank)
    <3>1. \A y \in less : SpotOf(s, y) = l => rank[y] < rank[h]
      BY <1>1, <1>3, <1>4, <1>7, <1>12 DEF Below
    <3> HIDE DEF l
    <3> QED
      BY <3>1, <1>3, <1>5, <1>6 DEF Below
  <2>4. \A p \in Spot : Below(s, hd2[p], p, top, less, more, rank)
    BY <2>2, <2>3, <1>7, <1>9
  <2>5. \A x \in less \cup more : Below(s, nx2[x], SpotOf(s, x), rank[x], less, more, rank)
    BY <2>1, <1>5, <1>8, <1>9
  <2>6. \A x \in less : nx2[x] \in less \cup {Nil}
    <3> SUFFICES ASSUME NEW x \in less, nx[x] = h
                 PROVE  FALSE
      BY <2>1 DEF Lists
    <3>1. SpotOf(s, x) = l /\ rank[h] < rank[x]
      BY <1>1, <1>8 DEF Below
    <3>2. rank[x] <= rank[h]
      BY <3>1, <1>1, <1>3, <1>7, <1>12 DEF Below
    <3> QED
      BY <3>1, <3>2, <1>3
  <2>7. \A p \in Spot : hd[p] = h => p = l
    BY <1>1, <1>7 DEF Below
  <2>8. hd2 \in [Spot -> less \cup {Nil}] /\ nx2 \in [Handlers -> Handlers \cup {Nil}]
    BY <2>1, <2>7, <1>1, <1>10 DEF Lists
  <2> HIDE DEF l
  <2> QED
    BY <2>4, <2>5, <2>6, <2>8, <1>3, <1>4, <1>5 DEF Lists
<1>13. CASE hd[l] # h
  <2>1. /\ nx2 = [e \in DOMAIN nx |->
                    IF e \in {y \in linked : SpotOf(s, y) = SpotOf(s, h)} /\ nx[e] = h
                    THEN nx[h] ELSE nx[e]]
        /\ hd2 = hd
    BY <1>13
  <2>2. \A x \in linked : nx2[x] = IF nx[x] = h THEN nx[h] ELSE nx[x]
    BY <2>1, <1>2, <1>11 DEF Lists
  <2>3. \A x \in (gone \cup {h}) : nx2[x] = nx[x]
    BY <2>1, <1>2, <1>10 DEF Lists
  <2>4. \A p \in Spot : Below(s, hd2[p], p, top, less, more, rank)
    BY <2>1, <1>7, <1>9
  <2>5. \A x \in less \cup more : Below(s, nx2[x], SpotOf(s, x), rank[x], less, more, rank)
    <3> TAKE x \in less \cup more
    <3>1. CASE x \in less /\ nx[x] = h
      <4>1. SpotOf(s, x) = l /\ nx2[x] = nx[h] /\ rank[h] < rank[x]
        BY <3>1, <2>2, <1>1, <1>8 DEF Below
      <4>2. \A y \in less : SpotOf(s, y) = l /\ rank[y] < rank[x] => rank[y] < rank[h]
        BY <3>1, <4>1, <1>1, <1>3, <1>4, <1>8 DEF Below
      <4>3. x \in linked \cup gone /\ h \in linked \cup gone
        BY <3>1
      <4> HIDE DEF l
      <4> QED
        BY <4>1, <4>2, <4>3, <1>3, <1>6 DEF Below
    <3>2. CASE ~(x \in less /\ nx[x] = h)
      <4>1. nx2[x] = nx[x] /\ x \in linked \cup gone
        BY <3>2, <2>2, <2>3
      <4> QED
        BY <4>1, <1>8, <1>9
    <3> QED
      BY <3>1, <3>2
  <2>6. \A x \in less : nx2[x] \in less \cup {Nil}
    BY <2>2, <1>10 DEF Lists
  <2>7. \A p \in Spot : hd2[p] # h
    BY <2>1, <1>1, <1>7, <1>13 DEF Below
  <2>8. hd2 \in [Spot -> less \cup {Nil}]
    BY <2>1, <2>7 DEF Lists
  <2>9. nx2 \in [Handlers -> Handlers \cup {Nil}]
    BY <2>1, <1>1 DEF Lists
  <2> HIDE DEF l
  <2> QED
    BY <2>4, <2>5, <2>6, <2>8, <2>9, <1>3, <1>4, <1>5 DEF Lists
<1> QED
  BY <1>12, <1>13

(* Linked handlers lead to linked ones: when nobody walks, those that are gone may be forgotten. *)
LEMMA Forgetting ==
    ASSUME NEW s \in Scenarios, NEW hd, NEW nx, NEW linked, NEW gone, NEW rank, NEW top,
           Lists(s, hd, nx, linked, gone, rank, top)
    PROVE  Lists(s, hd, nx, linked, {}, rank, top)
<1>1. \A p \in linked \cup {Nil} : \A l, b :
         Below(s, p, l, b, linked, gone, rank) => Below(s, p, l, b, linked, {}, rank)
  BY DEF Below
<1>2. \A l \in Spot : hd[l] \in linked \cup {Nil}
  BY DEF Lists
<1> QED
  BY <1>1, <1>2 DEF Lists

-----------------------------------------------------------------------------
(* Walking *)

Steps == 0 .. Cardinality(Handlers)

LEMMA StepsCount ==
    ASSUME NEW n \in Nat
    PROVE  Cardinality(0 .. n) = n + 1
<1>1. Cardinality(0 .. n) = IF 0 > n THEN 0 ELSE n - 0 + 1
  BY FS_Interval
<1> QED
  BY <1>1

LEMMA StepsNat == Cardinality(Handlers) \in Nat
  BY ServicesAssumption, FS_CardinalityType

(* What From promises: the pointers one after the other, Nil when there is none. *)
LEMMA FromIs ==
    ASSUME NEW p
    PROVE  /\ DOMAIN From(p) = Steps
           /\ From(p)[0] = p
           /\ \A k \in Steps : k > 0 =>
                 From(p)[k] = IF From(p)[k - 1] = Nil THEN Nil ELSE next[From(p)[k - 1]]
<1> DEFINE N == Cardinality(Handlers)
           Is(g, n) == g = [k \in 0 .. n |->
                              IF k = 0 THEN p ELSE IF g[k - 1] = Nil THEN Nil ELSE next[g[k - 1]]]
           Bad == {n \in 0 .. N : ~ \E g : Is(g, n)}
<1>1. N \in Nat
  BY StepsNat
<1>2. \E g : Is(g, N)
  <2> SUFFICES ASSUME Bad # {}
               PROVE  FALSE
    BY <1>1
  <2>1. PICK n \in Bad : \A k \in Bad : n <= k
    <3>1. Bad \subseteq Nat
      BY <1>1
    <3> HIDE DEF Bad
    <3> QED
      BY <3>1, Least
  <2>2. n \in 0 .. N /\ ~ \E g : Is(g, n)
    BY <2>1
  <2>3. CASE n = 0
    <3> DEFINE g == [k \in 0 .. 0 |-> p]
    <3>1. Is(g, 0)
      OBVIOUS
    <3> QED
      BY <2>2, <2>3, <3>1
  <2>4. CASE n # 0
    <3>1. n - 1 \in 0 .. N /\ n - 1 < n
      BY <1>1, <2>2, <2>4
    <3>2. n - 1 \notin Bad
      <4> HIDE DEF Bad
      <4> QED
        BY <1>1, <2>1, <2>2, <3>1
    <3>3. PICK g : Is(g, n - 1)
      BY <3>1, <3>2
    <3> DEFINE h == [k \in 0 .. n |->
                       IF k < n THEN g[k] ELSE IF g[n - 1] = Nil THEN Nil ELSE next[g[n - 1]]]
    <3>4. \A k \in 0 .. n : k # 0 => k - 1 \in 0 .. n - 1 /\ h[k - 1] = g[k - 1]
      BY <2>2
    <3>5. \A k \in 0 .. n - 1 :
            g[k] = IF k = 0 THEN p ELSE IF g[k - 1] = Nil THEN Nil ELSE next[g[k - 1]]
      BY <3>3
    <3>6. \A k \in 0 .. n :
            h[k] = IF k = 0 THEN p ELSE IF h[k - 1] = Nil THEN Nil ELSE next[h[k - 1]]
      <4> TAKE k \in 0 .. n
      <4>1. CASE k = n
        <5>1. h[k] = IF g[n - 1] = Nil THEN Nil ELSE next[g[n - 1]]
          BY <4>1, <2>2
        <5> QED
          BY <5>1, <4>1, <3>4, <2>2, <2>4
      <4>2. CASE k # n
        <5>1. k \in 0 .. n - 1 /\ h[k] = g[k]
          BY <4>2, <2>2
        <5> QED
          BY <5>1, <3>4, <3>5
      <4> QED
        BY <4>1, <4>2
    <3>7. DOMAIN h = 0 .. n /\ h = [k \in 0 .. n |-> h[k]]
      OBVIOUS
    <3>8. Is(h, n)
      <4> HIDE DEF h
      <4> QED
        BY <3>6, <3>7
    <3> QED
      BY <2>2, <3>8
  <2> QED
    BY <2>3, <2>4
<1>3. Is(From(p), N)
  BY <1>2 DEF From
<1> HIDE DEF N
<1>4. /\ DOMAIN From(p) = 0 .. N
      /\ \A k \in 0 .. N :
            From(p)[k] = IF k = 0 THEN p ELSE IF From(p)[k - 1] = Nil THEN Nil ELSE next[From(p)[k - 1]]
  <2> DEFINE at == From(p)
  <2>1. at = [k \in 0 .. N |->
                IF k = 0 THEN p ELSE IF at[k - 1] = Nil THEN Nil ELSE next[at[k - 1]]]
    BY <1>3
  <2> HIDE DEF at
  <2>2. /\ DOMAIN at = 0 .. N
        /\ \A k \in 0 .. N :
              at[k] = IF k = 0 THEN p ELSE IF at[k - 1] = Nil THEN Nil ELSE next[at[k - 1]]
    BY <2>1
  <2> QED
    BY <2>2 DEF at
<1> QED
  BY <1>1, <1>4 DEF Steps, N

(* What the pointers lead to from p on, in a list: it gets older and older, and no linked *)
(* handler is left out.                                                       *)
Reaches(at, p, l, b, linked, gone, rank) ==
    /\ \A k \in Steps : at[k] # Nil =>
          /\ at[k] \in linked \cup gone /\ SpotOf(scenario, at[k]) = l /\ rank[at[k]] < b
          /\ p \in linked => at[k] \in linked
    /\ \A j, k \in Steps : j < k /\ at[k] # Nil => at[j] # Nil /\ rank[at[k]] < rank[at[j]]
    /\ \A y \in linked : SpotOf(scenario, y) = l /\ rank[y] < b => \E k \in Steps : at[k] = y

LEMMA Walked ==
    ASSUME scenario \in Scenarios, NEW linked, NEW gone, NEW rank, NEW top,
           Lists(scenario, head, next, linked, gone, rank, top),
           NEW p, NEW l, NEW b \in Nat, Below(scenario, p, l, b, linked, gone, rank)
    PROVE  Reaches(From(p), p, l, b, linked, gone, rank)
<1> DEFINE N == Cardinality(Handlers)
           at == From(p)
           live == linked \cup gone
<1>1. N \in Nat /\ Steps = 0 .. N
  BY StepsNat DEF Steps
<1>2. /\ DOMAIN at = Steps /\ at[0] = p
      /\ \A k \in Steps : k > 0 => at[k] = IF at[k - 1] = Nil THEN Nil ELSE next[at[k - 1]]
  BY FromIs
<1> HIDE DEF at
<1>3. live \subseteq Handlers /\ Nil \notin Handlers
  BY ServicesAssumption DEF Lists, IsScenario
<1>4. \A x \in live : rank[x] \in Nat
  BY <1>3 DEF Lists
<1>5. \A x \in live : Below(scenario, next[x], SpotOf(scenario, x), rank[x], linked, gone, rank)
  BY DEF Lists
<1>6. \A k \in Steps : k > 0 => k - 1 \in Steps /\ k - 1 < k /\ k \in Nat
  BY <1>1
<1>7. \A k \in Steps : at[k] # Nil =>
          /\ at[k] \in live /\ SpotOf(scenario, at[k]) = l /\ rank[at[k]] < b
          /\ p \in linked => at[k] \in linked
  <2> DEFINE Good(k) == at[k] # Nil =>
                          /\ at[k] \in live /\ SpotOf(scenario, at[k]) = l /\ rank[at[k]] < b
                          /\ p \in linked => at[k] \in linked
             Bad == {k \in Steps : ~Good(k)}
  <2> SUFFICES ASSUME Bad # {}
               PROVE  FALSE
    OBVIOUS
  <2>1. PICK n \in Bad : \A k \in Bad : n <= k
    <3>1. Bad \subseteq Nat
      BY <1>1
    <3> HIDE DEF Bad
    <3> QED
      BY <3>1, Least
  <2>2. n \in Steps /\ ~Good(n)
    BY <2>1
  <2>3. n > 0
    <3>1. Good(0)
      BY <1>2 DEF Below
    <3> HIDE DEF Good
    <3> QED
      BY <3>1, <2>2, <1>1
  <2>4. n - 1 \in Steps /\ Good(n - 1)
    <3>1. n - 1 \notin Bad
      <4> HIDE DEF Bad
      <4> QED
        BY <2>1, <2>2, <2>3, <1>1, <1>6
    <3> HIDE DEF Good
    <3> QED
      BY <3>1, <2>2, <2>3, <1>6
  <2>5. at[n] # Nil /\ at[n - 1] # Nil /\ at[n] = next[at[n - 1]]
    BY <1>2, <2>2, <2>3
  <2> DEFINE x == at[n - 1]
  <2>6. x \in live /\ SpotOf(scenario, x) = l /\ rank[x] < b /\ (p \in linked => x \in linked)
    BY <2>4, <2>5
  <2>7. x \in linked => next[x] \in linked \cup {Nil}
    BY DEF Lists
  <2>8. next[x] \in live /\ SpotOf(scenario, next[x]) = l /\ rank[next[x]] < rank[x]
    BY <2>5, <2>6, <1>5 DEF Below
  <2>9. rank[next[x]] < b
    BY <2>6, <2>8, <1>4
  <2> QED
    BY <2>2, <2>5, <2>6, <2>7, <2>8, <2>9
<1>8. \A k \in Steps : k > 0 /\ at[k] # Nil => at[k - 1] # Nil /\ rank[at[k]] < rank[at[k - 1]]
  BY <1>2, <1>5, <1>6, <1>7 DEF Below
<1>9. \A j, k \in Steps : j < k /\ at[k] # Nil => at[j] # Nil /\ rank[at[k]] < rank[at[j]]
  <2> DEFINE Good(j, k) == j < k /\ at[k] # Nil => at[j] # Nil /\ rank[at[k]] < rank[at[j]]
  <2> SUFFICES ASSUME NEW j \in Steps
               PROVE  \A k \in Steps : Good(j, k)
    OBVIOUS
  <2> DEFINE Bad == {k \in Steps : ~Good(j, k)}
  <2> SUFFICES ASSUME Bad # {}
               PROVE  FALSE
    OBVIOUS
  <2>1. PICK n \in Bad : \A k \in Bad : n <= k
    <3>1. Bad \subseteq Nat
      BY <1>1
    <3> HIDE DEF Bad
    <3> QED
      BY <3>1, Least
  <2>2. n \in Steps /\ j < n /\ at[n] # Nil /\ ~(at[j] # Nil /\ rank[at[n]] < rank[at[j]])
    BY <2>1
  <2>3. n > 0 /\ n - 1 \in Steps /\ n - 1 \notin Bad
    <3> HIDE DEF Bad
    <3> QED
      BY <2>1, <2>2, <1>1
  <2>4. Good(j, n - 1)
    BY <2>3
  <2>5. at[n - 1] # Nil /\ rank[at[n]] < rank[at[n - 1]]
    BY <2>2, <2>3, <1>8
  <2>6. CASE j = n - 1
    BY <2>2, <2>5, <2>6
  <2>7. CASE j # n - 1
    <3>1. j < n - 1
      BY <2>2, <2>7, <1>1
    <3>2. at[j] # Nil /\ rank[at[n - 1]] < rank[at[j]]
      BY <3>1, <2>4, <2>5
    <3>3. rank[at[n]] \in Nat /\ rank[at[n - 1]] \in Nat /\ rank[at[j]] \in Nat
      BY <3>2, <2>2, <2>3, <2>5, <1>4, <1>7
    <3> QED
      BY <3>2, <3>3, <2>2, <2>5
  <2> QED
    BY <2>6, <2>7
<1>10. \A y \in linked : SpotOf(scenario, y) = l /\ rank[y] < b => \E k \in Steps : at[k] = y
  <2> SUFFICES ASSUME NEW y \in linked, SpotOf(scenario, y) = l, rank[y] < b,
                      \A k \in Steps : at[k] # y
               PROVE  FALSE
    OBVIOUS
  <2>1. \A x \in live : rank[x] = rank[y] => x = y
    BY DEF Lists
  <2> DEFINE Ahead(k) == at[k] # Nil /\ rank[y] < rank[at[k]]
             Bad == {k \in Steps : ~Ahead(k)}
  <2>2. Bad = {}
    <3> SUFFICES ASSUME Bad # {}
                 PROVE  FALSE
      OBVIOUS
    <3>1. PICK n \in Bad : \A k \in Bad : n <= k
      <4>1. Bad \subseteq Nat
        BY <1>1
      <4> HIDE DEF Bad
      <4> QED
        BY <4>1, Least
    <3>2. n \in Steps /\ ~Ahead(n)
      BY <3>1
    <3>3. \A q \in live : rank[y] <= rank[q] /\ q # y => rank[y] < rank[q]
      BY <2>1, <1>4
    <3>4. n > 0
      <4>1. at[0] # Nil /\ rank[y] <= rank[at[0]] /\ at[0] # y /\ at[0] \in live
        BY <1>1, <1>2, <1>7 DEF Below
      <4>2. Ahead(0)
        BY <4>1, <3>3
      <4> HIDE DEF Ahead
      <4> QED
        BY <4>2, <3>2, <1>1
    <3>5. n - 1 \in Steps /\ n - 1 \notin Bad
      <4> HIDE DEF Bad
      <4> QED
        BY <3>1, <3>2, <3>4, <1>1
    <3>6. at[n - 1] # Nil /\ rank[y] < rank[at[n - 1]] /\ at[n - 1] \in live
      BY <3>5, <1>7
    <3>7. at[n] = next[at[n - 1]] /\ SpotOf(scenario, at[n - 1]) = l
      BY <3>2, <3>4, <3>5, <3>6, <1>2, <1>7
    <3>8. at[n] # Nil /\ rank[y] <= rank[at[n]]
      BY <3>6, <3>7, <1>5 DEF Below
    <3>9. Ahead(n)
      BY <3>2, <3>3, <3>8, <1>7
    <3> QED
      BY <3>2, <3>9
  <2>3. \A k \in Steps : at[k] \in Handlers
    BY <2>2, <1>3, <1>7
  <2>4. \A j, k \in Steps : at[j] = at[k] => j = k
    <3> SUFFICES ASSUME NEW j \in Steps, NEW k \in Steps, j < k, at[j] = at[k]
                 PROVE  FALSE
      BY <1>1
    <3>1. at[k] # Nil /\ rank[at[k]] < rank[at[j]] /\ at[k] \in live
      BY <1>7, <1>9, <2>2
    <3> QED
      BY <3>1, <1>4
  <2> DEFINE f == [k \in Steps |-> at[k]]
  <2>5. f \in Injection(Steps, Handlers)
    BY <2>3, <2>4 DEF Injection, IsInjective
  <2>6. Cardinality(Steps) <= Cardinality(Handlers)
    BY <2>5, FS_Injection, ServicesAssumption
  <2>7. Cardinality(Steps) = N + 1
    BY <1>1, StepsCount
  <2> QED
    BY <1>1, <2>6, <2>7
<1> QED
  BY <1>7, <1>9, <1>10 DEF Reaches, at

LEMMA ListOfSpot ==
    ASSUME scenario \in Scenarios, NEW linked, NEW gone, NEW rank, NEW top,
           Lists(scenario, head, next, linked, gone, rank, top)
    PROVE  /\ \A l \in Spot : InList(l) = {y \in linked : SpotOf(scenario, y) = l}
           /\ Linked = linked
<1>1. \A l \in Spot : InList(l) = {y \in linked : SpotOf(scenario, y) = l}
  <2> TAKE l \in Spot
  <2>1. Below(scenario, head[l], l, top, linked, gone, rank) /\ head[l] \in linked \cup {Nil} /\ top \in Nat
    BY DEF Lists
  <2>2. Reaches(From(head[l]), head[l], l, top, linked, gone, rank)
    BY <2>1, Walked
  <2> DEFINE at == From(head[l])
  <2>3. InList(l) = {at[k] : k \in Steps} \ {Nil}
    BY DEF InList, Steps
  <2>4. at[0] = head[l] /\ DOMAIN at = Steps
    BY FromIs
  <2>5. \A k \in Steps : at[k] # Nil => at[0] # Nil
    BY <2>2, StepsNat DEF Reaches, Steps
  <2>6. \A k \in Steps : at[k] # Nil => at[k] \in linked /\ SpotOf(scenario, at[k]) = l
    BY <2>1, <2>2, <2>4, <2>5 DEF Reaches
  <2>7. \A y \in linked : SpotOf(scenario, y) = l => \E k \in Steps : at[k] = y
    BY <2>2 DEF Reaches, Lists
  <2>8. Nil \notin linked
    BY ServicesAssumption DEF Lists, IsScenario
  <2> HIDE DEF at
  <2> QED
    BY <2>3, <2>6, <2>7, <2>8
<1>2. DOMAIN head = Spot
  BY DEF Lists
<1>3. \A y \in linked : SpotOf(scenario, y) \in Spot
  BY Addressed DEF Lists
<1>4. Linked = linked
  BY <1>1, <1>2, <1>3 DEF Linked
<1> QED
  BY <1>1, <1>4

(* The walk stops at the first handler the transfer is for: it passes none of the linked. *)
Finds(c, m, l, b, linked, gone, rank) ==
    /\ c # Nil => c \in linked \cup gone /\ SpotOf(scenario, c) = l /\ rank[c] < b /\ ForThis(c, m)
    /\ \A y \in linked : SpotOf(scenario, y) = l /\ rank[y] < b /\ ForThis(y, m) =>
          c # Nil /\ rank[y] <= rank[c]

LEMMA ConsumerIs ==
    ASSUME scenario \in Scenarios, NEW linked, NEW gone, NEW rank, NEW top,
           Lists(scenario, head, next, linked, gone, rank, top),
           NEW p, NEW l, NEW b \in Nat, Below(scenario, p, l, b, linked, gone, rank), NEW m
    PROVE  Finds(Consumer(p, m), m, l, b, linked, gone, rank)
<1> DEFINE at == From(p)
           for == {k \in DOMAIN at : at[k] # Nil /\ ForThis(at[k], m)}
           c == IF for = {} THEN Nil ELSE at[CHOOSE k \in for : \A j \in for : k <= j]
<1>1. Reaches(at, p, l, b, linked, gone, rank)
  BY Walked
<1>2. DOMAIN at = Steps /\ Steps \subseteq Nat
  BY FromIs, StepsNat DEF Steps
<1>3. Nil \notin linked
  BY ServicesAssumption DEF Lists, IsScenario
<1>4. \A x \in linked \cup gone : rank[x] \in Nat
  BY ServicesAssumption DEF Lists, IsScenario
<1>5. c = Consumer(p, m)
  BY DEF Consumer
<1> HIDE DEF at
<1>6. CASE for = {}
  <2>1. c = Nil
    BY <1>6
  <2>2. \A y \in linked : SpotOf(scenario, y) = l /\ rank[y] < b => ~ForThis(y, m)
    BY <1>1, <1>2, <1>3, <1>6 DEF Reaches
  <2> QED
    BY <2>1, <2>2, <1>5 DEF Finds
<1>7. CASE for # {}
  <2>1. \E k \in for : \A j \in for : k <= j
    <3>1. for \subseteq Nat
      BY <1>2
    <3> HIDE DEF for
    <3> QED
      BY <3>1, <1>7, Least
  <2> DEFINE k == CHOOSE k \in for : \A j \in for : k <= j
  <2>2. k \in for /\ \A j \in for : k <= j
    <3> HIDE DEF for
    <3> QED
      BY <2>1
  <2>3. c = at[k]
    BY <1>7
  <2> HIDE DEF k
  <2>4. k \in Steps /\ at[k] # Nil /\ ForThis(at[k], m)
    BY <1>2, <2>2
  <2>5. at[k] \in linked \cup gone /\ SpotOf(scenario, at[k]) = l /\ rank[at[k]] < b
    BY <1>1, <2>4 DEF Reaches
  <2>6. \A y \in linked : SpotOf(scenario, y) = l /\ rank[y] < b /\ ForThis(y, m) => rank[y] <= rank[at[k]]
    <3> SUFFICES ASSUME NEW y \in linked, SpotOf(scenario, y) = l, rank[y] < b, ForThis(y, m)
                 PROVE  rank[y] <= rank[at[k]]
      OBVIOUS
    <3>1. PICK j \in Steps : at[j] = y
      BY <1>1 DEF Reaches
    <3>2. j \in for
      BY <3>1, <1>2, <1>3
    <3>3. k <= j /\ k \in Nat /\ j \in Nat
      BY <3>2, <2>2, <2>4, <1>2
    <3>4. CASE k = j
      BY <3>1, <3>4, <1>4
    <3>5. CASE k < j
      <4>1. rank[y] < rank[at[k]]
        BY <3>1, <3>5, <2>4, <1>1, <1>3 DEF Reaches
      <4> QED
        BY <4>1, <2>5, <1>4
    <3> QED
      BY <3>3, <3>4, <3>5
  <2> HIDE DEF c
  <2> QED
    BY <2>3, <2>4, <2>5, <2>6, <1>5 DEF Finds
<1> QED
  BY <1>6, <1>7

-----------------------------------------------------------------------------
(* Types *)

Tid == 0 .. TidMod - 1
Servers == UNION {s.servers : s \in Scenarios}
Descriptors == [index : 0 .. NumHandlers - 1, type : Nat, kind : {"request"}, dst : Servers]
Answers == [kind : {"response"}, index : 0 .. NumHandlers - 1, type : Nat, source : Servers,
            tid : Tid, serial : Nat, bad : BOOLEAN]
Messages == (UNION {s.transfers : s \in Scenarios}) \cup Answers

IsWalk(w) == w = [m |-> w.m, at |-> w.at, called |-> w.called, steady |-> w.steady,
                  gone |-> w.gone, asked |-> w.asked, askers |-> w.askers]

TypeInv ==
    /\ scenario \in Scenarios
    /\ client \in [Handlers -> [server : Servers \cup {255}, tid : Tid]]
    /\ DOMAIN server = Handlers
    /\ \A d \in DOMAIN tids : tids[d] \in Tid
    /\ \A d \in DOMAIN made : made[d] \in Nat
    /\ pending \in SUBSET [d : Descriptors, tid : Tid, serial : Nat]
    /\ inbox \in Seq(Messages)
    /\ IsWalk(walk) /\ (walk.m # Nil => walk.m \in Messages)
    /\ sent \in [Handlers -> [d : Descriptors \cup {Nil}, serial : Nat, ok : BOOLEAN]]

LEMMA NextTid ==
    ASSUME NEW t \in Tid
    PROVE  (t + 1) % TidMod \in Tid /\ 0 \in Tid /\ TidMod \in Nat \ {0}
<1>1. TidMod \in Nat \ {0}
  BY ServicesAssumption
<1> QED
  BY <1>1 DEF Tid

LEMMA ZeroTid == 0 \in Tid
  BY ServicesAssumption DEF Tid

LEMMA GetTid ==
    ASSUME TypeInv, NEW d
    PROVE  get_tid(d) \in Tid
BY ZeroTid DEF TypeInv, get_tid

LEMMA MessageIs ==
    ASSUME NEW m \in Messages
    PROVE  IsAddressed(m) /\ ListOf(m) \in Spot
<1>1. IsAddressed(m)
  <2>1. CASE m \in Answers
    BY <2>1 DEF Answers, IsAddressed, Kinds
  <2>2. CASE m \notin Answers
    <3> DEFINE all == {s.transfers : s \in Scenarios}
    <3>1. m \in UNION all
      BY <2>2 DEF Messages
    <3>2. PICK transfers \in all : m \in transfers
      <4> HIDE DEF all
      <4> QED
        BY <3>1
    <3>3. PICK s \in Scenarios : transfers = s.transfers
      BY <3>2
    <3> QED
      BY <3>2, <3>3, ServicesAssumption DEF IsScenario
  <2> QED
    BY <2>1, <2>2
<1>2. NumBuckets \in Nat \ {0}
  BY ServicesAssumption
<1>3. \A t \in Nat : t % NumBuckets \in 0 .. NumBuckets - 1
  BY <1>2
<1> QED
  BY <1>1, <1>3 DEF ListOf, Spot, IsAddressed

LEMMA CountedIs ==
    ASSUME TypeInv, NEW d, NEW enqueued \in BOOLEAN
    PROVE  \A e \in DOMAIN Counted(d, enqueued) : Counted(d, enqueued)[e] \in Tid
<1>1. get_tid(d) \in Tid /\ (get_tid(d) + 1) % TidMod \in Tid
  BY GetTid, NextTid
<1> QED
  BY <1>1 DEF Counted, Put, TypeInv

LEMMA CalledWalk ==
    ASSUME NEW w, IsWalk(w), NEW h, Call(w, h)
    PROVE  /\ walk' = [m |-> w.m, at |-> h, called |-> IF h = Nil THEN w.called ELSE Append(w.called, h),
                       steady |-> w.steady, gone |-> w.gone,
                       asked |-> IF h # Nil /\ w.m.kind = "response" THEN sent[h] ELSE Nil,
                       askers |-> w.askers]
           /\ IsWalk(walk')
BY DEF Call, IsWalk

LEMMA NoWalkIs == IsWalk(NoWalk)
  BY DEF IsWalk, NoWalk

LEMMA TypeInit ==
    ASSUME ServicesInit
    PROVE  TypeInv
BY ZeroTid, NoWalkIs DEF ServicesInit, TypeInv, NoWalk

LEMMA ReceivedType ==
    ASSUME TypeInv, NEW m \in Messages, Accepted(m)
    PROVE  inbox' \in Seq(Messages)
BY DEF TypeInv, Accepted

LEMMA TypeStep ==
    ASSUME TypeInv, [ServicesNext]_servicesVars
    PROVE  TypeInv'
<1>1. ASSUME NEW h \in Known, Create(h)
      PROVE  TypeInv'
  <2>1. /\ client' = [client EXCEPT ![h].server = 255]
        /\ sent' = [sent EXCEPT ![h].ok = FALSE]
    BY <1>1 DEF Create
  <2>2. client' \in [Handlers -> [server : Servers \cup {255}, tid : Tid]]
    <3>1. client \in [Handlers -> [server : Servers \cup {255}, tid : Tid]]
      BY DEF TypeInv
    <3>2. \A x \in Handlers : [client[x] EXCEPT !.server = 255] \in [server : Servers \cup {255}, tid : Tid]
      BY <3>1
    <3>3. client' = [x \in Handlers |-> IF x = h THEN [client[x] EXCEPT !.server = 255] ELSE client[x]]
      BY <2>1, <3>1
    <3> QED
      BY <3>1, <3>2, <3>3
  <2>3. sent' \in [Handlers -> [d : Descriptors \cup {Nil}, serial : Nat, ok : BOOLEAN]]
    <3>1. sent \in [Handlers -> [d : Descriptors \cup {Nil}, serial : Nat, ok : BOOLEAN]]
      BY DEF TypeInv
    <3>2. \A x \in Handlers :
            [sent[x] EXCEPT !.ok = FALSE] \in [d : Descriptors \cup {Nil}, serial : Nat, ok : BOOLEAN]
      BY <3>1
    <3> QED
      BY <2>1, <3>1, <3>2
  <2> QED
    BY <1>1, <2>2, <2>3 DEF Create, TypeInv
<1>2. ASSUME NEW h \in Known, Destroy(h)
      PROVE  TypeInv'
  <2>1. IsWalk(walk') /\ walk'.m = walk.m
    <3>1. walk' = walk \/ walk' = [walk EXCEPT !.steady = @ \ {h}, !.gone = @ \cup {h}]
      BY <1>2 DEF Destroy
    <3>2. IsWalk(walk)
      BY DEF TypeInv
    <3> QED
      BY <3>1, <3>2 DEF IsWalk
  <2> QED
    BY <1>2, <2>1 DEF Destroy, TypeInv
<1>3. ASSUME NEW c \in Known, NEW dst \in scenario.servers, NEW enqueued \in BOOLEAN,
             Request(c, dst, enqueued)
      PROVE  TypeInv'
  <2> DEFINE d == Descriptor(Handler(c).index, Handler(c).type, "request", dst)
             serial == IF d \in DOMAIN made THEN made[d] ELSE 0
  <2>1. d \in Descriptors
    BY Addressed DEF TypeInv, Known, Handler, Descriptor, Descriptors, Servers
  <2>2. serial \in Nat /\ get_tid(d) \in Tid /\ dst \in Servers /\ c \in Handlers
    BY GetTid, Addressed DEF TypeInv, Servers, Known
  <2>3. /\ client' = [client EXCEPT ![c] = [server |-> dst, tid |-> get_tid(d)]]
        /\ tids' = Counted(d, enqueued)
        /\ sent' = [sent EXCEPT ![c] = [d |-> d, serial |-> serial, ok |-> enqueued]]
        /\ \/ /\ made' = Put(made, d, serial + 1)
              /\ pending' = pending \cup {[d |-> d, tid |-> get_tid(d), serial |-> serial]}
           \/ UNCHANGED <<made, pending>>
        /\ UNCHANGED <<scenario, server, inbox, walk>>
    BY <1>3 DEF Request, Recorded
  <2> HIDE DEF d, serial
  <2>4. client' \in [Handlers -> [server : Servers \cup {255}, tid : Tid]]
    BY <2>2, <2>3 DEF TypeInv
  <2>5. sent' \in [Handlers -> [d : Descriptors \cup {Nil}, serial : Nat, ok : BOOLEAN]]
    BY <2>1, <2>2, <2>3 DEF TypeInv
  <2>6. \A e \in DOMAIN tids' : tids'[e] \in Tid
    BY <2>3, CountedIs
  <2>7. \A e \in DOMAIN made' : made'[e] \in Nat
    <3>1. \A e \in DOMAIN made : made[e] \in Nat
      BY DEF TypeInv
    <3>2. CASE made' = Put(made, d, serial + 1)
      BY <2>2, <3>1, <3>2 DEF Put
    <3> QED
      BY <2>3, <3>1, <3>2
  <2>8. pending' \in SUBSET [d : Descriptors, tid : Tid, serial : Nat]
    BY <2>1, <2>2, <2>3 DEF TypeInv
  <2> QED
    BY <2>3, <2>4, <2>5, <2>6, <2>7, <2>8 DEF TypeInv
<1>4. ASSUME NEW p \in scenario.publishers, NEW enqueued \in BOOLEAN, Publish(p, enqueued)
      PROVE  TypeInv'
  <2>1. \A e \in DOMAIN tids' : tids'[e] \in Tid
    <3> DEFINE d == Descriptor(p.index, p.type, "broadcast", 0)
    <3>1. tids' = Counted(d, enqueued) \/ tids' = tids
      BY <1>4 DEF Publish, NoCounter
    <3> HIDE DEF d
    <3>2. \A e \in DOMAIN Counted(d, enqueued) : Counted(d, enqueued)[e] \in Tid
      BY CountedIs
    <3> QED
      BY <3>1, <3>2 DEF TypeInv
  <2> QED
    BY <1>4, <2>1 DEF Publish, TypeInv
<1>5. CASE FreeTids
  <2>1. sent' = [c \in DOMAIN sent |-> [sent[c] EXCEPT !.ok = FALSE]] /\ tids' = <<>>
    BY <1>5 DEF FreeTids
  <2>2. sent' \in [Handlers -> [d : Descriptors \cup {Nil}, serial : Nat, ok : BOOLEAN]]
    <3>1. sent \in [Handlers -> [d : Descriptors \cup {Nil}, serial : Nat, ok : BOOLEAN]]
      BY DEF TypeInv
    <3>2. \A x \in Handlers :
            [sent[x] EXCEPT !.ok = FALSE] \in [d : Descriptors \cup {Nil}, serial : Nat, ok : BOOLEAN]
      BY <3>1
    <3> QED
      BY <2>1, <3>1, <3>2
  <2>3. DOMAIN tids' = {}
    BY <2>1
  <2> QED
    BY <1>5, <2>2, <2>3 DEF FreeTids, TypeInv
<1>6. CASE HandleMessage
  <2> DEFINE m == Head(inbox)
             w == [NoWalk EXCEPT !.m = m, !.steady = {h \in InList(ListOf(m)) : ForThis(h, m)},
                                !.askers = Askers(m)]
  <2>1. inbox # <<>> /\ inbox' = Tail(inbox) /\ Call(w, Consumer(head[ListOf(m)], m))
    BY <1>6 DEF HandleMessage
  <2>2. m \in Messages /\ inbox' \in Seq(Messages)
    BY <2>1 DEF TypeInv
  <2> DEFINE all == {h \in InList(ListOf(m)) : ForThis(h, m)}
             who == Askers(m)
  <2>3. w = [m |-> m, at |-> Nil, called |-> <<>>, steady |-> all, gone |-> {}, asked |-> Nil,
             askers |-> who]
    <3>1. w = [NoWalk EXCEPT !.m = m, !.steady = all, !.askers = who]
      OBVIOUS
    <3> HIDE DEF m, all, who, w
    <3> QED
      BY <3>1 DEF NoWalk
  <2> HIDE DEF m, w, all, who
  <2>8. IsWalk(w) /\ w.m = m
    BY <2>3 DEF IsWalk
  <2>4. IsWalk(walk') /\ walk'.m = m
    BY <2>1, <2>8, CalledWalk
  <2>5. DOMAIN server' = Handlers
    BY <2>1 DEF Call, TypeInv
  <2> QED
    BY <1>6, <2>2, <2>4, <2>5 DEF HandleMessage, TypeInv
<1>7. CASE CallbackReturns
  <2>1. Call(walk, After(walk)) /\ IsWalk(walk) /\ DOMAIN server = Handlers
    BY <1>7 DEF CallbackReturns, TypeInv
  <2>2. IsWalk(walk') /\ walk'.m = walk.m
    BY <2>1, CalledWalk
  <2>3. DOMAIN server' = Handlers
    BY <2>1 DEF Call
  <2> QED
    BY <1>7, <2>2, <2>3 DEF CallbackReturns, TypeInv
<1>8. CASE WalkEnds
  <2>1. walk'.m = Nil
    BY <1>8 DEF WalkEnds, NoWalk
  <2> QED
    BY <1>8, <2>1, NoWalkIs DEF WalkEnds, TypeInv
<1>9. CASE Respond
  <2>1. IsWalk(walk') /\ walk'.m = walk.m
    BY <1>9 DEF Respond, TypeInv, IsWalk
  <2> QED
    BY <1>9, <2>1 DEF Respond, TypeInv
<1>10. ASSUME NEW p \in pending, Answer(p)
       PROVE  TypeInv'
  <2>1. PICK bad \in BOOLEAN :
          Accepted([kind |-> "response", index |-> p.d.index, type |-> p.d.type,
                    source |-> p.d.dst, tid |-> p.tid, serial |-> p.serial, bad |-> bad])
    BY <1>10 DEF Answer
  <2>2. p \in [d : Descriptors, tid : Tid, serial : Nat]
    BY DEF TypeInv
  <2>3. [kind |-> "response", index |-> p.d.index, type |-> p.d.type,
         source |-> p.d.dst, tid |-> p.tid, serial |-> p.serial, bad |-> bad] \in Messages
    <3>1. /\ p.d.index \in 0 .. NumHandlers - 1 /\ p.d.type \in Nat /\ p.d.dst \in Servers
          /\ p.tid \in Tid /\ p.serial \in Nat
      BY <2>2 DEF Descriptors
    <3> DEFINE answer == [kind |-> "response", index |-> p.d.index, type |-> p.d.type,
                          source |-> p.d.dst, tid |-> p.tid, serial |-> p.serial, bad |-> bad]
    <3>2. answer \in Answers
      BY <3>1 DEF Answers
    <3> HIDE DEF answer
    <3>3. answer \in Messages
      BY <3>2 DEF Messages
    <3> QED
      BY <3>3 DEF answer
  <2>4. inbox' \in Seq(Messages)
    BY <2>1, <2>3, ReceivedType
  <2> QED
    BY <1>10, <2>4 DEF Answer, TypeInv
<1>11. ASSUME NEW p \in pending, Lost(p)
       PROVE  TypeInv'
  BY <1>11 DEF Lost, TypeInv
<1>12. ASSUME NEW m \in scenario.transfers, Arrive(m)
       PROVE  TypeInv'
  <2>1. m \in Messages
    BY DEF TypeInv, Messages
  <2>2. inbox' \in Seq(Messages)
    BY <1>12, <2>1, ReceivedType DEF Arrive
  <2> QED
    BY <1>12, <2>2 DEF Arrive, TypeInv
<1>13. CASE UNCHANGED servicesVars
  BY <1>13 DEF servicesVars, TypeInv
<1> QED
  BY <1>1, <1>2, <1>3, <1>4, <1>5, <1>6, <1>7, <1>8, <1>9, <1>10, <1>11, <1>12, <1>13
  DEF ServicesNext

-----------------------------------------------------------------------------
(* Each handler once *)

(* A broadcast that is being handled: each handler it is for and that was there all the time    *)
(* has been called, or is further down the list; and the walk never turns back.       *)
Broadcasting(s, w, linked, rank) ==
    /\ \A k \in DOMAIN w.called : w.called[k] \in linked \cup w.gone
    /\ \A j, k \in DOMAIN w.called : j < k => rank[w.called[k]] < rank[w.called[j]]
    /\ w.at # Nil =>
          /\ w.at \in linked \cup w.gone /\ SpotOf(s, w.at) = ListOf(w.m)
          /\ \A k \in DOMAIN w.called : rank[w.at] <= rank[w.called[k]]
    /\ \A h \in w.steady :
          /\ h \in linked /\ SpotOf(s, h) = ListOf(w.m)
          /\ s.handler[h].kind = w.m.kind /\ s.handler[h].type = w.m.type /\ ~w.m.bad
          /\ \/ \E k \in DOMAIN w.called : w.called[k] = h
             \/ w.at # Nil /\ rank[h] < rank[w.at]

OnceOK(s, w, linked, rank) ==
    /\ w.m = Nil => w.gone = {}
    /\ w.m # Nil =>
          /\ w.called \in Seq(Handlers)
          /\ w.m.kind = "broadcast" => Broadcasting(s, w, linked, rank)
          /\ w.m.kind # "broadcast" => Len(w.called) <= 1 /\ (w.steady # {} => Len(w.called) = 1)

EachInv ==
    \E linked, rank, top :
        /\ Lists(scenario, head, next, linked, walk.gone, rank, top)
        /\ OnceOK(scenario, walk, linked, rank)

(* The list only has changed: the walk goes on as before, but for those that have gone. *)
LEMMA WalkKept ==
    ASSUME NEW s, NEW w, NEW linked, NEW rank, NEW more, NEW rank2, NEW w2,
           OnceOK(s, w, linked, rank),
           \A x \in linked \cup w.gone : rank2[x] = rank[x],
           linked \cup w.gone \subseteq more \cup w2.gone,
           w2.m = w.m, w2.at = w.at, w2.called = w.called,
           w2.steady \subseteq w.steady, w2.steady \cap linked \subseteq more,
           w.m = Nil => w2.gone = {}
    PROVE  OnceOK(s, w2, more, rank2)
<1>1. CASE w.m # Nil /\ w.m.kind = "broadcast"
  <2>1. Broadcasting(s, w, linked, rank)
    BY <1>1 DEF OnceOK
  <2>2. \A k \in DOMAIN w2.called : w2.called[k] \in more \cup w2.gone
    BY <2>1 DEF Broadcasting
  <2>3. \A j, k \in DOMAIN w2.called : j < k => rank2[w2.called[k]] < rank2[w2.called[j]]
    BY <2>1 DEF Broadcasting
  <2>4. w2.at # Nil =>
          /\ w2.at \in more \cup w2.gone /\ SpotOf(s, w2.at) = ListOf(w2.m)
          /\ \A k \in DOMAIN w2.called : rank2[w2.at] <= rank2[w2.called[k]]
    BY <2>1 DEF Broadcasting
  <2>5. \A h \in w2.steady :
          /\ h \in more /\ SpotOf(s, h) = ListOf(w2.m)
          /\ s.handler[h].kind = w2.m.kind /\ s.handler[h].type = w2.m.type /\ ~w2.m.bad
          /\ \/ \E k \in DOMAIN w2.called : w2.called[k] = h
             \/ w2.at # Nil /\ rank2[h] < rank2[w2.at]
    <3> TAKE h \in w2.steady
    <3>1. /\ h \in linked /\ SpotOf(s, h) = ListOf(w.m)
          /\ s.handler[h].kind = w.m.kind /\ s.handler[h].type = w.m.type /\ ~w.m.bad
          /\ \/ \E k \in DOMAIN w.called : w.called[k] = h
             \/ w.at # Nil /\ rank[h] < rank[w.at]
      BY <2>1 DEF Broadcasting
    <3>2. w.at # Nil => w.at \in linked \cup w.gone
      BY <2>1 DEF Broadcasting
    <3> QED
      BY <3>1, <3>2
  <2>6. Broadcasting(s, w2, more, rank2)
    BY <2>2, <2>3, <2>4, <2>5 DEF Broadcasting
  <2> QED
    BY <1>1, <2>6 DEF OnceOK
<1>2. CASE ~(w.m # Nil /\ w.m.kind = "broadcast")
  BY <1>2 DEF OnceOK
<1> QED
  BY <1>1, <1>2

(* Every handler whose callback a broadcast runs is in the list of the transfer. *)
LEMMA ThisHandler ==
    ASSUME NEW h, NEW m, ForThis(h, m)
    PROVE  /\ scenario.handler[h].kind = m.kind /\ scenario.handler[h].type = m.type /\ ~m.bad
BY DEF ForThis, Handles, Handler

LEMMA ForThisBroadcast ==
    ASSUME NEW h, NEW m, m.kind = "broadcast",
           scenario.handler[h].kind = m.kind, scenario.handler[h].type = m.type, ~m.bad
    PROVE  ForThis(h, m)
BY DEF ForThis, Handles, Handler

LEMMA CreateEach ==
    ASSUME TypeInv, EachInv, NEW h \in Known, Create(h)
    PROVE  EachInv'
<1>1. PICK linked, rank, top :
        /\ Lists(scenario, head, next, linked, walk.gone, rank, top)
        /\ OnceOK(scenario, walk, linked, rank)
  BY DEF EachInv
<1>2. scenario \in Scenarios
  BY DEF TypeInv
<1>3. Linked = linked
  BY <1>1, <1>2, ListOfSpot
<1>4. /\ h \in DOMAIN scenario.handler /\ h \notin linked \cup walk.gone
      /\ head' = [head EXCEPT ![SpotOf(scenario, h)] = h]
      /\ next' = [next EXCEPT ![h] = head[SpotOf(scenario, h)]]
      /\ scenario' = scenario /\ walk' = walk
  BY <1>3 DEF Create, link, List, Handler, SpotOf, Known
<1> DEFINE rank2 == [rank EXCEPT ![h] = top]
           more == linked \cup {h}
<1>5. Lists(scenario, head', next', more, walk.gone, rank2, top + 1)
  BY <1>1, <1>2, <1>4, Linking
<1>6. \A x \in linked \cup walk.gone : rank2[x] = rank[x]
  <2>1. rank \in [Handlers -> Nat] /\ linked \cup walk.gone \subseteq Handlers
    BY <1>1, <1>2, ServicesAssumption DEF Lists, IsScenario
  <2> QED
    BY <2>1, <1>4
<1>7. OnceOK(scenario, walk, more, rank2)
  <2> HIDE DEF rank2
  <2>1. walk.m = Nil => walk.gone = {}
    BY <1>1 DEF OnceOK
  <2> QED
    BY <1>1, <1>6, <2>1, WalkKept
<1> HIDE DEF rank2, more
<1> QED
  BY <1>4, <1>5, <1>7 DEF EachInv

LEMMA DestroyEach ==
    ASSUME TypeInv, EachInv, NEW h \in Known, Destroy(h)
    PROVE  EachInv'
<1>1. PICK linked, rank, top :
        /\ Lists(scenario, head, next, linked, walk.gone, rank, top)
        /\ OnceOK(scenario, walk, linked, rank)
  BY DEF EachInv
<1>2. scenario \in Scenarios /\ IsWalk(walk)
  BY DEF TypeInv
<1>3. /\ Linked = linked
      /\ \A l \in Spot : InList(l) = {y \in linked : SpotOf(scenario, y) = l}
  BY <1>1, <1>2, ListOfSpot
<1>4. h \in linked /\ SpotOf(scenario, h) \in Spot /\ List(h) = SpotOf(scenario, h) /\ scenario' = scenario
  BY <1>2, <1>3, Addressed DEF Destroy, Known, List, SpotOf, Handler
<1>5. IF head[SpotOf(scenario, h)] = h
      THEN head' = [head EXCEPT ![SpotOf(scenario, h)] = next[h]] /\ next' = next
      ELSE /\ next' = [e \in DOMAIN next |->
                         IF e \in {y \in linked : SpotOf(scenario, y) = SpotOf(scenario, h)} /\ next[e] = h
                         THEN next[h] ELSE next[e]]
           /\ head' = head
  <2>1. InList(List(h)) = {y \in linked : SpotOf(scenario, y) = SpotOf(scenario, h)}
    BY <1>3, <1>4
  <2> QED
    BY <1>4, <2>1 DEF Destroy, unlink
<1> DEFINE less == linked \ {h}
<1>6. Lists(scenario, head', next', less, walk.gone \cup {h}, rank, top)
  BY <1>1, <1>2, <1>4, <1>5, Unlinking
<1>7. walk' = IF Walking THEN [walk EXCEPT !.steady = @ \ {h}, !.gone = @ \cup {h}] ELSE walk
  BY DEF Destroy
<1>8. CASE walk.m # Nil
  <2>1. /\ walk'.m = walk.m /\ walk'.at = walk.at /\ walk'.called = walk.called
        /\ walk'.steady = walk.steady \ {h} /\ walk'.gone = walk.gone \cup {h}
    BY <1>2, <1>7, <1>8 DEF Walking, IsWalk
  <2>2. OnceOK(scenario, walk', less, rank)
    BY <1>1, <1>8, <2>1, WalkKept
  <2> HIDE DEF less
  <2> QED
    BY <1>4, <1>6, <2>1, <2>2 DEF EachInv
<1>9. CASE walk.m = Nil
  <2>1. walk' = walk /\ walk.gone = {}
    BY <1>1, <1>7, <1>9 DEF Walking, OnceOK
  <2>2. Lists(scenario, head', next', less, {}, rank, top)
    BY <1>2, <1>6, Forgetting
  <2>3. OnceOK(scenario, walk', less, rank)
    BY <2>1, <1>9 DEF OnceOK
  <2> HIDE DEF less
  <2> QED
    BY <1>4, <2>1, <2>2, <2>3 DEF EachInv
<1> QED
  BY <1>8, <1>9

LEMMA HandleEach ==
    ASSUME TypeInv, EachInv, HandleMessage
    PROVE  EachInv'
<1> DEFINE m == Head(inbox)
           l == ListOf(m)
           all == {h \in InList(l) : ForThis(h, m)}
           who == Askers(m)
           c == Consumer(head[l], m)
<1>1. PICK linked, rank, top :
        /\ Lists(scenario, head, next, linked, walk.gone, rank, top)
        /\ OnceOK(scenario, walk, linked, rank)
  BY DEF EachInv
<1>2. scenario \in Scenarios /\ inbox \in Seq(Messages) /\ inbox # <<>> /\ walk.m = Nil
  BY DEF TypeInv, HandleMessage, Walking
<1>3. m \in Messages /\ l \in Spot
  <2>1. m \in Messages
    BY <1>2
  <2> QED
    BY <2>1, MessageIs
<1>4. walk.gone = {} /\ Lists(scenario, head, next, linked, {}, rank, top)
  BY <1>1, <1>2 DEF OnceOK
<1>5. all = {y \in linked : SpotOf(scenario, y) = l /\ ForThis(y, m)}
  <2>1. InList(l) = {y \in linked : SpotOf(scenario, y) = l}
    BY <1>2, <1>3, <1>4, ListOfSpot
  <2> QED
    BY <2>1
<1>6. Finds(c, m, l, top, linked, {}, rank)
  <2>1. Below(scenario, head[l], l, top, linked, {}, rank) /\ top \in Nat
    BY <1>3, <1>4 DEF Lists
  <2> QED
    BY <1>2, <1>4, <2>1, ConsumerIs
<1>7. UNCHANGED <<scenario, head, next>>
  BY DEF HandleMessage
<1> DEFINE w == [NoWalk EXCEPT !.m = m, !.steady = all, !.askers = who]
<1>8. Call(w, c)
  BY DEF HandleMessage
<1> HIDE DEF m, l, all, who, c
<1>9. w = [m |-> m, at |-> Nil, called |-> <<>>, steady |-> all, gone |-> {}, asked |-> Nil,
           askers |-> who]
  <2>1. w = [NoWalk EXCEPT !.m = m, !.steady = all, !.askers = who]
    OBVIOUS
  <2> HIDE DEF w
  <2> QED
    BY <2>1 DEF NoWalk
<1> HIDE DEF w
<1>10. IsWalk(w) /\ w.m = m /\ w.called = <<>> /\ w.steady = all /\ w.gone = {}
  BY <1>9 DEF IsWalk
<1>11. /\ walk'.m = m /\ walk'.at = c /\ walk'.steady = all /\ walk'.gone = {}
       /\ walk'.called = IF c = Nil THEN <<>> ELSE Append(<<>>, c)
  BY <1>8, <1>10, CalledWalk
<1>12. \A y \in linked : rank[y] \in Nat /\ rank[y] < top /\ y \in Handlers
  BY <1>2, <1>4, ServicesAssumption DEF Lists, IsScenario
<1>13. CASE c = Nil
  <2>1. all = {}
    BY <1>5, <1>6, <1>12, <1>13 DEF Finds
  <2>2. walk'.called = <<>>
    BY <1>11, <1>13
  <2>3. OnceOK(scenario, walk', linked, rank)
    BY <1>11, <1>13, <2>1, <2>2 DEF OnceOK, Broadcasting
  <2> QED
    BY <1>4, <1>7, <1>11, <2>3 DEF EachInv
<1>14. CASE c # Nil
  <2>1. c \in linked /\ SpotOf(scenario, c) = l /\ rank[c] < top
    BY <1>6, <1>14 DEF Finds
  <2>2. walk'.called = <<c>>
    BY <1>11, <1>14
  <2>3. \A y \in all : y # c => rank[y] < rank[c]
    <3>1. \A y \in linked : rank[y] = rank[c] => y = c
      BY <1>4, <2>1 DEF Lists
    <3>2. \A y \in all : rank[y] <= rank[c] /\ y \in linked
      BY <1>5, <1>6, <1>12 DEF Finds
    <3> QED
      BY <3>1, <3>2, <2>1, <1>12
  <2>4. walk'.called \in Seq(Handlers) /\ DOMAIN walk'.called = {1} /\ walk'.called[1] = c
        /\ Len(walk'.called) = 1
    BY <2>1, <2>2, <1>12
  <2>5. \A y \in all : /\ y \in linked /\ SpotOf(scenario, y) = l
                       /\ scenario.handler[y].kind = m.kind /\ scenario.handler[y].type = m.type /\ ~m.bad
    BY <1>5, ThisHandler
  <2>6. l = ListOf(m)
    BY DEF l
  <2>7. Broadcasting(scenario, walk', linked, rank)
    BY <1>11, <1>12, <2>1, <2>3, <2>4, <2>5, <2>6 DEF Broadcasting
  <2>8. OnceOK(scenario, walk', linked, rank)
    BY <1>11, <2>4, <2>7 DEF OnceOK
  <2> QED
    BY <1>4, <1>7, <1>11, <2>8 DEF EachInv
<1> QED
  BY <1>13, <1>14

LEMMA CallbackEach ==
    ASSUME TypeInv, EachInv, CallbackReturns
    PROVE  EachInv'
<1> DEFINE m == walk.m
           h == walk.at
           called == walk.called
<1>1. PICK linked, rank, top :
        /\ Lists(scenario, head, next, linked, walk.gone, rank, top)
        /\ OnceOK(scenario, walk, linked, rank)
  BY DEF EachInv
<1>2. scenario \in Scenarios /\ IsWalk(walk) /\ m # Nil /\ h # Nil
  BY DEF TypeInv, CallbackReturns, Walking
<1>3. Call(walk, After(walk)) /\ UNCHANGED <<scenario, head, next>>
  BY DEF CallbackReturns
<1>4. /\ walk'.m = m /\ walk'.at = After(walk) /\ walk'.steady = walk.steady /\ walk'.gone = walk.gone
      /\ walk'.called = IF After(walk) = Nil THEN called ELSE Append(called, After(walk))
  <2> DEFINE c == After(walk)
  <2>1. Call(walk, c)
    BY <1>3
  <2> HIDE DEF c
  <2>2. walk' = [m |-> walk.m, at |-> c, called |-> IF c = Nil THEN walk.called ELSE Append(walk.called, c),
                 steady |-> walk.steady, gone |-> walk.gone,
                 asked |-> IF c # Nil /\ walk.m.kind = "response" THEN sent[c] ELSE Nil,
                 askers |-> walk.askers]
    BY <1>2, <2>1, CalledWalk
  <2> QED
    BY <2>2 DEF c
<1>5. CASE m.kind # "broadcast"
  <2>1. After(walk) = Nil
    BY <1>5 DEF After
  <2>2. OnceOK(scenario, walk', linked, rank)
    BY <1>1, <1>2, <1>4, <1>5, <2>1 DEF OnceOK
  <2> QED
    BY <1>1, <1>3, <1>4, <2>2 DEF EachInv
<1>6. CASE m.kind = "broadcast"
  <2> DEFINE c == Consumer(next[h], m)
             live == linked \cup walk.gone
             l == ListOf(m)
  <2>1. c = After(walk)
    BY <1>6 DEF After
  <2>2. Broadcasting(scenario, walk, linked, rank) /\ called \in Seq(Handlers)
    BY <1>1, <1>2, <1>6 DEF OnceOK
  <2>3. h \in live /\ SpotOf(scenario, h) = l
    BY <1>2, <2>2 DEF Broadcasting
  <2>4. live \subseteq Handlers /\ \A x \in live : rank[x] \in Nat
    BY <1>1, <1>2, ServicesAssumption DEF Lists, IsScenario
  <2>5. Finds(c, m, l, rank[h], linked, walk.gone, rank)
    <3>1. Below(scenario, next[h], l, rank[h], linked, walk.gone, rank)
      BY <1>1, <2>3 DEF Lists
    <3> QED
      BY <1>1, <1>2, <2>3, <2>4, <3>1, ConsumerIs
  <2>6. \A y \in walk.steady :
          /\ y \in linked /\ SpotOf(scenario, y) = l
          /\ scenario.handler[y].kind = m.kind /\ scenario.handler[y].type = m.type /\ ~m.bad
          /\ ForThis(y, m)
          /\ \/ \E k \in DOMAIN called : called[k] = y
             \/ rank[y] < rank[h]
    BY <2>2, <1>6, ForThisBroadcast DEF Broadcasting
  <2>7. /\ \A k \in DOMAIN called : called[k] \in live /\ rank[h] <= rank[called[k]]
        /\ \A j, k \in DOMAIN called : j < k => rank[called[k]] < rank[called[j]]
    BY <1>2, <2>2 DEF Broadcasting
  <2> HIDE DEF c, l
  <2>8. CASE c = Nil
    <3>1. \A y \in walk.steady : \E k \in DOMAIN called : called[k] = y
      BY <2>5, <2>6, <2>8 DEF Finds
    <3>2. walk'.at = Nil /\ walk'.called = called
      BY <1>4, <2>1, <2>8
    <3>3. Broadcasting(scenario, walk', linked, rank)
      BY <1>4, <2>2, <3>1, <3>2 DEF Broadcasting
    <3>4. OnceOK(scenario, walk', linked, rank)
      BY <1>2, <1>4, <1>6, <2>2, <3>2, <3>3 DEF OnceOK
    <3> QED
      BY <1>1, <1>3, <1>4, <3>4 DEF EachInv
  <2>9. CASE c # Nil
    <3>1. c \in live /\ SpotOf(scenario, c) = l /\ rank[c] < rank[h]
      BY <2>5, <2>9 DEF Finds
    <3> DEFINE more == Append(called, c)
               n == Len(called)
    <3>2. walk'.at = c /\ walk'.called = more
      BY <1>4, <2>1, <2>9
    <3>3. /\ more \in Seq(Handlers) /\ DOMAIN more = 1 .. n + 1 /\ DOMAIN called = 1 .. n /\ n \in Nat
          /\ more[n + 1] = c /\ \A k \in 1 .. n : more[k] = called[k]
      BY <2>2, <2>4, <3>1
    <3> HIDE DEF more, n
    <3>4. \A k \in 1 .. n + 1 : more[k] \in live /\ rank[c] <= rank[more[k]]
      <4> TAKE k \in 1 .. n + 1
      <4>1. CASE k = n + 1
        BY <4>1, <3>1, <3>3, <2>4
      <4>2. CASE k # n + 1
        <5>1. k \in DOMAIN called /\ more[k] = called[k]
          BY <4>2, <3>3
        <5>2. more[k] \in live /\ rank[h] <= rank[more[k]]
          BY <5>1, <2>7
        <5> QED
          BY <5>2, <3>1, <2>3, <2>4
      <4> QED
        BY <4>1, <4>2
    <3>5. \A j, k \in 1 .. n + 1 : j < k => rank[more[k]] < rank[more[j]]
      <4> SUFFICES ASSUME NEW j \in 1 .. n + 1, NEW k \in 1 .. n + 1, j < k
                   PROVE  rank[more[k]] < rank[more[j]]
        OBVIOUS
      <4>1. j \in DOMAIN called /\ more[j] = called[j]
        BY <3>3
      <4>2. CASE k = n + 1
        <5>1. more[j] \in live /\ rank[h] <= rank[more[j]]
          BY <4>1, <2>7
        <5> QED
          BY <5>1, <4>2, <3>1, <3>3, <2>3, <2>4
      <4>3. CASE k # n + 1
        <5>1. k \in DOMAIN called /\ more[k] = called[k]
          BY <4>3, <3>3
        <5> QED
          BY <4>1, <5>1, <2>7
      <4> QED
        BY <4>2, <4>3
    <3>6. \A y \in walk.steady : (\E k \in 1 .. n + 1 : more[k] = y) \/ rank[y] < rank[c]
      <4> TAKE y \in walk.steady
      <4>1. CASE \E k \in DOMAIN called : called[k] = y
        BY <4>1, <3>3
      <4>2. CASE rank[y] < rank[h]
        <5>1. rank[y] <= rank[c] /\ y \in linked
          BY <4>2, <2>5, <2>6 DEF Finds
        <5>2. rank[y] = rank[c] => y = c
          BY <5>1, <3>1, <1>1 DEF Lists
        <5>3. y = c \/ rank[y] < rank[c]
          BY <5>1, <5>2, <3>1, <2>4
        <5> QED
          BY <5>3, <3>3
      <4> QED
        BY <4>1, <4>2, <2>6
    <3>7. l = ListOf(m)
      BY DEF l
    <3>8. Broadcasting(scenario, walk', linked, rank)
      <4>1. /\ \A k \in DOMAIN walk'.called : walk'.called[k] \in linked \cup walk'.gone
            /\ \A j, k \in DOMAIN walk'.called :
                  j < k => rank[walk'.called[k]] < rank[walk'.called[j]]
        BY <1>4, <3>2, <3>3, <3>4, <3>5
      <4>2. /\ walk'.at \in linked \cup walk'.gone /\ SpotOf(scenario, walk'.at) = ListOf(walk'.m)
            /\ \A k \in DOMAIN walk'.called : rank[walk'.at] <= rank[walk'.called[k]]
        BY <1>4, <3>1, <3>2, <3>3, <3>4, <3>7
      <4>3. \A y \in walk'.steady :
              /\ y \in linked /\ SpotOf(scenario, y) = ListOf(walk'.m)
              /\ scenario.handler[y].kind = walk'.m.kind
              /\ scenario.handler[y].type = walk'.m.type /\ ~walk'.m.bad
              /\ \/ \E k \in DOMAIN walk'.called : walk'.called[k] = y
                 \/ walk'.at # Nil /\ rank[y] < rank[walk'.at]
        BY <1>4, <2>6, <2>9, <3>2, <3>3, <3>6, <3>7
      <4> QED
        BY <4>1, <4>2, <4>3 DEF Broadcasting
    <3>9. OnceOK(scenario, walk', linked, rank)
      BY <1>2, <1>4, <1>6, <3>2, <3>3, <3>8 DEF OnceOK
    <3> QED
      BY <1>1, <1>3, <1>4, <3>9 DEF EachInv
  <2> QED
    BY <2>8, <2>9
<1> QED
  BY <1>5, <1>6

LEMMA EndEach ==
    ASSUME TypeInv, EachInv, WalkEnds
    PROVE  EachInv'
<1>1. PICK linked, rank, top : Lists(scenario, head, next, linked, walk.gone, rank, top)
  BY DEF EachInv
<1>2. Lists(scenario, head, next, linked, {}, rank, top)
  BY <1>1, Forgetting DEF TypeInv
<1>3. walk' = NoWalk /\ UNCHANGED <<scenario, head, next>>
  BY DEF WalkEnds
<1>4. OnceOK(scenario, walk', linked, rank) /\ walk'.gone = {}
  BY <1>3 DEF OnceOK, NoWalk
<1> QED
  BY <1>2, <1>3, <1>4 DEF EachInv

LEMMA RespondEach ==
    ASSUME TypeInv, EachInv, Respond
    PROVE  EachInv'
<1>1. PICK linked, rank, top :
        /\ Lists(scenario, head, next, linked, walk.gone, rank, top)
        /\ OnceOK(scenario, walk, linked, rank)
  BY DEF EachInv
<1>2. /\ UNCHANGED <<scenario, head, next>>
      /\ walk'.m = walk.m /\ walk'.at = walk.at /\ walk'.called = walk.called
      /\ walk'.steady = walk.steady /\ walk'.gone = walk.gone
  BY DEF Respond, TypeInv, IsWalk
<1>3. OnceOK(scenario, walk', linked, rank)
  <2>1. walk.m = Nil => walk.gone = {}
    BY <1>1 DEF OnceOK
  <2>2. walk.steady \cap linked \subseteq linked
    OBVIOUS
  <2> QED
    BY <1>1, <1>2, <2>1, <2>2, WalkKept
<1> QED
  BY <1>1, <1>2, <1>3 DEF EachInv

LEMMA EachStep ==
    ASSUME TypeInv, EachInv, [ServicesNext]_servicesVars
    PROVE  EachInv'
<1>1. CASE UNCHANGED <<scenario, head, next, walk>>
  BY <1>1 DEF EachInv
<1>2. ASSUME NEW c \in Known, NEW dst \in scenario.servers, NEW enqueued \in BOOLEAN,
             Request(c, dst, enqueued)
      PROVE  EachInv'
  BY <1>2, <1>1 DEF Request
<1>3. ASSUME NEW p \in scenario.publishers, NEW enqueued \in BOOLEAN, Publish(p, enqueued)
      PROVE  EachInv'
  BY <1>3, <1>1 DEF Publish
<1>4. CASE FreeTids
  BY <1>4, <1>1 DEF FreeTids
<1>5. ASSUME NEW p \in pending, Answer(p) \/ Lost(p)
      PROVE  EachInv'
  BY <1>5, <1>1 DEF Answer, Lost
<1>6. ASSUME NEW m \in scenario.transfers, Arrive(m)
      PROVE  EachInv'
  BY <1>6, <1>1 DEF Arrive
<1>7. CASE UNCHANGED servicesVars
  BY <1>7, <1>1 DEF servicesVars
<1> QED
  BY <1>2, <1>3, <1>4, <1>5, <1>6, <1>7,
     CreateEach, DestroyEach, HandleEach, CallbackEach, EndEach, RespondEach DEF ServicesNext

LEMMA OncePart ==
    ASSUME EachInv, TypeInv
    PROVE  EachOnce
<1> SUFFICES ASSUME walk.m # Nil, walk.at = Nil
             PROVE  /\ walk.m.kind = "broadcast" => \A h \in walk.steady : Times(h) = 1
                    /\ walk.m.kind # "broadcast" =>
                         Len(walk.called) <= 1 /\ (walk.steady # {} => Len(walk.called) = 1)
  BY DEF EachOnce, Walking
<1>1. PICK linked, rank, top :
        /\ Lists(scenario, head, next, linked, walk.gone, rank, top)
        /\ OnceOK(scenario, walk, linked, rank)
  BY DEF EachInv
<1>2. ASSUME walk.m.kind = "broadcast", NEW h \in walk.steady
      PROVE  Times(h) = 1
  <2>1. Broadcasting(scenario, walk, linked, rank)
    BY <1>1, <1>2 DEF OnceOK
  <2>2. PICK k \in DOMAIN walk.called : walk.called[k] = h
    BY <1>2, <2>1 DEF Broadcasting
  <2>3. h \in linked /\ rank[h] \in Nat
    BY <1>1, <1>2, <2>1, ServicesAssumption DEF Broadcasting, Lists, IsScenario, TypeInv
  <2>4. \A j \in DOMAIN walk.called : walk.called[j] = h => j = k
    <3> SUFFICES ASSUME NEW j \in DOMAIN walk.called, walk.called[j] = h, j # k
                 PROVE  FALSE
      OBVIOUS
    <3>1. DOMAIN walk.called \subseteq Nat
      BY <1>1 DEF OnceOK
    <3>2. j < k \/ k < j
      BY <3>1
    <3>3. rank[h] < rank[h]
      BY <2>1, <2>2, <3>2 DEF Broadcasting
    <3> QED
      BY <2>3, <3>3
  <2>5. {j \in DOMAIN walk.called : walk.called[j] = h} = {k}
    BY <2>2, <2>4
  <2> QED
    BY <2>5, FS_Singleton DEF Times
<1> QED
  BY <1>1, <1>2 DEF OnceOK

-----------------------------------------------------------------------------
(* The first state: of the handlers of a list that are created, each leads to the one before. *)

LatestOf(s, l, n) ==
    LET of == {k \in 1 .. n : SpotOf(s, s.created[k]) = l}
    IN  IF of = {} THEN Nil ELSE s.created[CHOOSE k \in of : \A j \in of : j <= k]

LEMMA LatestIs ==
    ASSUME NEW s \in Scenarios, NEW l, NEW n \in 0 .. Len(s.created)
    PROVE  \/ LatestOf(s, l, n) = Nil /\ \A k \in 1 .. n : SpotOf(s, s.created[k]) # l
           \/ \E k \in 1 .. n :
                /\ LatestOf(s, l, n) = s.created[k] /\ SpotOf(s, s.created[k]) = l
                /\ \A j \in 1 .. n : SpotOf(s, s.created[j]) = l => j <= k
<1> DEFINE of == {k \in 1 .. n : SpotOf(s, s.created[k]) = l}
<1>1. n \in Nat
  <2>1. s.created \in Seq(DOMAIN s.handler)
    BY ServicesAssumption DEF IsScenario
  <2> QED
    BY <2>1
<1>2. CASE of = {}
  BY <1>2 DEF LatestOf
<1>3. CASE of # {}
  <2> DEFINE S == {n - k : k \in of}
  <2>1. S \subseteq Nat /\ S # {}
    <3>1. \A k \in of : n - k \in Nat
      BY <1>1
    <3> QED
      BY <3>1, <1>3
  <2>2. PICK least \in S : \A x \in S : least <= x
    <3> HIDE DEF S
    <3> QED
      BY <2>1, Least
  <2>3. PICK k \in of : least = n - k
    BY <2>2
  <2>4. \A j \in of : j <= k
    <3> TAKE j \in of
    <3>1. n - k <= n - j
      BY <2>2, <2>3
    <3> QED
      BY <3>1, <1>1
  <2> DEFINE last == CHOOSE i \in of : \A j \in of : j <= i
  <2>5. last \in of /\ \A j \in of : j <= last
    <3>1. \E i \in of : \A j \in of : j <= i
      BY <2>4
    <3> HIDE DEF of
    <3> QED
      BY <3>1
  <2>6. LatestOf(s, l, n) = s.created[last]
    BY <1>3 DEF LatestOf
  <2> HIDE DEF last
  <2> QED
    BY <2>5, <2>6
<1> QED
  BY <1>2, <1>3

LEMMA StartedIs ==
    ASSUME NEW s \in Scenarios
    PROVE  /\ Started(s).head = [l \in Spot |-> LatestOf(s, l, Len(s.created))]
           /\ Started(s).next = [h \in Handlers |->
                IF \E k \in DOMAIN s.created : s.created[k] = h
                THEN LatestOf(s, SpotOf(s, h), (CHOOSE k \in DOMAIN s.created : s.created[k] = h) - 1)
                ELSE Nil]
BY DEF Started, Spot, LatestOf, SpotOf

LEMMA EachInit ==
    ASSUME ServicesInit
    PROVE  EachInv
<1> DEFINE s == scenario
           n == Len(s.created)
           linked == {s.created[k] : k \in 1 .. n}
           rank == [h \in Handlers |-> IF \E k \in 1 .. n : s.created[k] = h
                                       THEN CHOOSE k \in 1 .. n : s.created[k] = h ELSE 0]
<1>1. s \in Scenarios /\ head = Started(s).head /\ next = Started(s).next /\ walk = NoWalk
  BY DEF ServicesInit
<1>2. /\ s.created \in Seq(DOMAIN s.handler) /\ DOMAIN s.handler \subseteq Handlers /\ Nil \notin Handlers
      /\ \A j, k \in DOMAIN s.created : s.created[j] = s.created[k] => j = k
  BY <1>1, ServicesAssumption DEF IsScenario
<1> HIDE DEF s
<1>3. /\ n \in Nat /\ DOMAIN s.created = 1 .. n
      /\ \A k \in 1 .. n : s.created[k] \in DOMAIN s.handler /\ s.created[k] \in Handlers /\ s.created[k] # Nil
  BY <1>2
<1>4. \A j, k \in 1 .. n : s.created[j] = s.created[k] => j = k
  BY <1>2, <1>3
<1> HIDE DEF n
<1>5. \A k \in 1 .. n : (CHOOSE i \in 1 .. n : s.created[i] = s.created[k]) = k
  BY <1>4
<1>6. \A k \in 1 .. n : rank[s.created[k]] = k
  BY <1>3, <1>5
<1>7. rank \in [Handlers -> Nat]
  <2>1. \A h \in Handlers : (\E k \in 1 .. n : s.created[k] = h) =>
            (CHOOSE k \in 1 .. n : s.created[k] = h) \in Nat
    BY <1>5
  <2> QED
    BY <2>1
<1>8. \A l, b : \A i \in 0 .. n :
        b = i + 1 => Below(s, LatestOf(s, l, i), l, b, linked, {}, rank) /\ LatestOf(s, l, i) \in linked \cup {Nil}
  <2> TAKE l, b
  <2> TAKE i \in 0 .. n
  <2> HAVE b = i + 1
  <2> DEFINE p == LatestOf(s, l, i)
  <2> HIDE DEF rank
  <2>1. i \in 0 .. Len(s.created)
    BY DEF n
  <2>2. \/ p = Nil /\ \A k \in 1 .. i : SpotOf(s, s.created[k]) # l
        \/ \E k \in 1 .. i :
             /\ p = s.created[k] /\ SpotOf(s, s.created[k]) = l
             /\ \A j \in 1 .. i : SpotOf(s, s.created[j]) = l => j <= k
    BY <1>1, <2>1, LatestIs DEF s
  <2> HIDE DEF p
  <2>3. CASE p = Nil /\ \A k \in 1 .. i : SpotOf(s, s.created[k]) # l
    <3>1. \A y \in linked : SpotOf(s, y) = l => ~(rank[y] < b)
      BY <2>3, <1>3, <1>6
    <3>2. Below(s, p, l, b, linked, {}, rank)
      BY <2>3, <3>1 DEF Below
    <3> QED
      BY <2>3, <3>2 DEF p
  <2>4. ASSUME NEW k \in 1 .. i,
               p = s.created[k], SpotOf(s, s.created[k]) = l,
               \A j \in 1 .. i : SpotOf(s, s.created[j]) = l => j <= k
        PROVE  Below(s, p, l, b, linked, {}, rank) /\ p \in linked
    <3>1. k \in 1 .. n /\ p \in linked /\ rank[p] = k /\ p # Nil
      BY <2>4, <1>3, <1>6
    <3>2. \A y \in linked : SpotOf(s, y) = l /\ rank[y] < b => rank[y] <= rank[p]
      BY <2>4, <3>1, <1>3, <1>6
    <3>3. rank[p] < b
      BY <3>1, <1>3
    <3> QED
      BY <2>4, <3>1, <3>2, <3>3 DEF Below
  <2> QED
    BY <2>2, <2>3, <2>4 DEF p
<1>9. \A k \in 1 .. n : next[s.created[k]] = LatestOf(s, SpotOf(s, s.created[k]), k - 1)
  <2> TAKE k \in 1 .. n
  <2> DEFINE h == s.created[k]
             Of(x) == \E i \in DOMAIN s.created : s.created[i] = x
             Place(x) == CHOOSE i \in DOMAIN s.created : s.created[i] = x
  <2>1. next = [x \in Handlers |-> IF Of(x) THEN LatestOf(s, SpotOf(s, x), Place(x) - 1) ELSE Nil]
    BY <1>1, StartedIs
  <2>2. Place(h) = k
    BY <1>3, <1>5
  <2>3. Of(h) /\ h \in Handlers
    BY <1>3
  <2> HIDE DEF Of, Place, h
  <2> QED
    BY <2>1, <2>2, <2>3 DEF h
<1>10. head = [l \in Spot |-> LatestOf(s, l, n)]
  BY <1>1, StartedIs DEF n
<1>11. head \in [Spot -> linked \cup {Nil}] /\ \A l \in Spot : Below(s, head[l], l, n + 1, linked, {}, rank)
  <2> HIDE DEF rank, linked
  <2> QED
    BY <1>3, <1>8, <1>10
<1>12. \A x \in linked : /\ Below(s, next[x], SpotOf(s, x), rank[x], linked, {}, rank)
                         /\ next[x] \in linked \cup {Nil}
  <2> SUFFICES ASSUME NEW k \in 1 .. n
               PROVE  LET x == s.created[k]
                      IN  /\ Below(s, next[x], SpotOf(s, x), rank[x], linked, {}, rank)
                          /\ next[x] \in linked \cup {Nil}
    OBVIOUS
  <2>1. k - 1 \in 0 .. n /\ k = (k - 1) + 1
    BY <1>3
  <2>2. rank[s.created[k]] = k
    BY <1>6
  <2> HIDE DEF rank, linked
  <2> QED
    BY <2>1, <2>2, <1>8, <1>9
<1>13. next \in [Handlers -> Handlers \cup {Nil}]
  <2> DEFINE Of(h) == \E k \in DOMAIN s.created : s.created[k] = h
             At(h) == LatestOf(s, SpotOf(s, h), (CHOOSE k \in DOMAIN s.created : s.created[k] = h) - 1)
  <2>1. next = [h \in Handlers |-> IF Of(h) THEN At(h) ELSE Nil]
    BY <1>1, StartedIs
  <2>2. linked \subseteq Handlers
    BY <1>3
  <2>3. \A h \in Handlers : Of(h) => At(h) \in Handlers \cup {Nil}
    <3> TAKE h \in Handlers
    <3> HAVE Of(h)
    <3>1. PICK k \in 1 .. n : s.created[k] = h
      BY <1>3
    <3>2. h \in linked
      BY <3>1
    <3>3. next[h] \in linked \cup {Nil}
      BY <3>2, <1>12
    <3>4. next[h] = At(h)
      <4> HIDE DEF At
      <4> QED
        BY <2>1
    <3> HIDE DEF At, linked
    <3> QED
      BY <3>3, <3>4, <2>2
  <2> HIDE DEF Of, At
  <2> QED
    BY <2>1, <2>3
<1>14. /\ linked \in SUBSET DOMAIN s.handler /\ {} \in SUBSET DOMAIN s.handler /\ linked \cap {} = {}
       /\ n + 1 \in Nat
       /\ \A x \in linked : rank[x] < n + 1
       /\ \A x, y \in linked : rank[x] = rank[y] => x = y
  <2> HIDE DEF rank
  <2> QED
    BY <1>3, <1>6
<1> HIDE DEF rank, linked
<1>15. linked \cup {} = linked
  OBVIOUS
<1>16. Lists(s, head, next, linked, {}, rank, n + 1)
  BY <1>7, <1>11, <1>12, <1>13, <1>14, <1>15 DEF Lists
<1>17. OnceOK(s, walk, linked, rank) /\ walk.gone = {}
  BY <1>1 DEF OnceOK, NoWalk
<1> QED
  BY <1>16, <1>17 DEF EachInv, s

(* EachOnce: whatever its callbacks create and destroy, handle_message (handler_list.h:86) calls   *)
(* every subscriber of a broadcast that was there all the time exactly once, and of the handlers   *)
(* that a request or a response is for exactly one.                                 *)
THEOREM HandlersCalledOnce == ServicesSpec => []EachOnce
<1>1. ServicesInit => TypeInv /\ EachInv
  BY TypeInit, EachInit
<1>2. TypeInv /\ EachInv /\ [ServicesNext]_servicesVars => TypeInv' /\ EachInv'
  BY TypeStep, EachStep
<1>3. TypeInv /\ EachInv => EachOnce
  BY OncePart
<1> QED
  BY <1>1, <1>2, <1>3, PTL DEF ServicesSpec

-----------------------------------------------------------------------------
(* Whose answer it is *)

TidIn(table, d) == IF d \in DOMAIN table THEN table[d] ELSE 0

(* A request with this serial number was sent under d with this transfer-ID: the counter has   *)
(* gone round a whole number of times between.                                    *)
AskedUnder(count, table, d, serial, tid) ==
    /\ d \in DOMAIN count /\ serial < count[d]
    /\ \E q \in Int : count[d] - serial = TidIn(table, d) - tid + TidMod * q

RequestOf(m) == Descriptor(m.index, m.type, "request", m.source)

(* The client whose callback runs has asked for what has come, or for something a whole number  *)
(* of rounds away.  If it was for what has come, it is among those that asked.         *)
AskerCalled(w, count) ==
    LET d == RequestOf(w.m)
    IN  /\ w.asked.d = d /\ d \in DOMAIN count
        /\ w.asked.serial \in Nat /\ w.asked.serial < count[d]
        /\ w.m.serial \in Nat /\ w.m.serial < count[d]
        /\ \E q \in Int : w.asked.serial - w.m.serial = TidMod * q
        /\ w.asked.serial = w.m.serial => w.at \in w.askers

WalkAsks(w, srv, count) ==
    w.m # Nil =>
        /\ w.m.kind = "response" /\ w.askers # {} => w.called # <<>>
        /\ w.at # Nil =>
            /\ w.m.kind = "response" /\ w.asked.ok => AskerCalled(w, count)
            /\ w.m.kind = "request" =>
                  /\ srv[w.at] = w.m.tid
                  /\ w.asked # Nil => w.asked = [to |-> w.m.source, tid |-> w.m.tid]

InboxAsks(s, in, count, table) ==
    \A i \in DOMAIN in : in[i].kind = "response" /\ in[i].source \in s.servers =>
        /\ in[i].serial \in Nat /\ in[i].tid \in Tid
        /\ AskedUnder(count, table, RequestOf(in[i]), in[i].serial, in[i].tid)

ClientAsks(s, h, cl, snt, count, table) ==
    snt.ok =>
        /\ cl.server \in s.servers
        /\ snt.d = Descriptor(s.handler[h].index, s.handler[h].type, "request", cl.server)
        /\ AskedUnder(count, table, snt.d, snt.serial, cl.tid)

AskInv ==
    /\ \A p \in pending : AskedUnder(made, tids, p.d, p.serial, p.tid)
    /\ InboxAsks(scenario, inbox, made, tids)
    /\ \A h \in Known : ClientAsks(scenario, h, client[h], sent[h], made, tids)
    /\ WalkAsks(walk, server, made)

LEMMA NextIs ==
    ASSUME NEW t \in Tid
    PROVE  (t + 1) % TidMod = IF t + 1 < TidMod THEN t + 1 ELSE 0
<1> DEFINE M == TidMod
           x == t + 1
           q == x \div M
           r == x % M
<1>1. M \in Nat \ {0} /\ x \in 1 .. M
  BY ServicesAssumption DEF Tid
<1> HIDE DEF M, x
<1>2. q \in Int /\ r \in 0 .. M - 1 /\ x = M * q + r
  BY <1>1
<1> HIDE DEF q, r
<1>3. q >= 0
  <2> SUFFICES ASSUME q <= -1
               PROVE  FALSE
    BY <1>2
  <2>1. M * q <= M * (-1)
    BY <1>1, <1>2
  <2> QED
    BY <1>1, <1>2, <2>1
<1>4. q < 2
  <2> SUFFICES ASSUME q >= 2
               PROVE  FALSE
    BY <1>2
  <2>1. M * q >= M * 2
    BY <1>1, <1>2
  <2> QED
    BY <1>1, <1>2, <2>1
<1>5. CASE q = 0
  <2>1. x = r
    BY <1>1, <1>2, <1>5
  <2> QED
    BY <1>1, <1>2, <2>1 DEF r, x, M
<1>6. CASE q = 1
  <2>1. x = M + r
    BY <1>1, <1>2, <1>6
  <2> QED
    BY <1>1, <1>2, <2>1 DEF r, x, M
<1> QED
  BY <1>2, <1>3, <1>4, <1>5, <1>6

(* Another request is made under d: those before are one further away. *)
LEMMA OneMore ==
    ASSUME NEW count, NEW table, NEW d, NEW serial \in Nat, NEW tid \in Tid,
           AskedUnder(count, table, d, serial, tid), count[d] \in Nat, TidIn(table, d) \in Tid,
           NEW count2, NEW table2, d \in DOMAIN count2, count2[d] = count[d] + 1,
           TidIn(table2, d) = (TidIn(table, d) + 1) % TidMod
    PROVE  AskedUnder(count2, table2, d, serial, tid)
<1> DEFINE t == TidIn(table, d)
           t2 == TidIn(table2, d)
<1>1. PICK q \in Int : count[d] - serial = t - tid + TidMod * q
  BY DEF AskedUnder
<1>2. t2 = IF t + 1 < TidMod THEN t + 1 ELSE 0
  BY NextIs
<1>3. TidMod \in Nat \ {0} /\ t \in Tid
  BY ServicesAssumption
<1> HIDE DEF t, t2
<1>4. CASE t + 1 < TidMod
  <2>1. count2[d] - serial = t2 - tid + TidMod * q
    BY <1>1, <1>2, <1>3, <1>4 DEF Tid
  <2> QED
    BY <2>1 DEF AskedUnder, t2
<1>5. CASE ~(t + 1 < TidMod)
  <2>1. t = TidMod - 1 /\ t2 = 0
    BY <1>2, <1>3, <1>5 DEF Tid
  <2>2. TidMod * (q + 1) = TidMod * q + TidMod /\ TidMod * q \in Int
    BY <1>1, <1>3
  <2>3. count2[d] - serial = t2 - tid + TidMod * (q + 1)
    BY <1>1, <1>3, <2>1, <2>2 DEF Tid
  <2>4. q + 1 \in Int
    BY <1>1
  <2> QED
    BY <2>3, <2>4 DEF AskedUnder, t2
<1> QED
  BY <1>4, <1>5

LEMMA NewOne ==
    ASSUME NEW table, NEW d, NEW serial \in Nat, TidIn(table, d) \in Tid,
           NEW count2, NEW table2, d \in DOMAIN count2, count2[d] = serial + 1,
           TidIn(table2, d) = (TidIn(table, d) + 1) % TidMod
    PROVE  AskedUnder(count2, table2, d, serial, TidIn(table, d))
<1> DEFINE t == TidIn(table, d)
           t2 == TidIn(table2, d)
<1>1. t2 = IF t + 1 < TidMod THEN t + 1 ELSE 0
  BY NextIs
<1>2. TidMod \in Nat \ {0} /\ t \in Tid
  BY ServicesAssumption
<1> HIDE DEF t, t2
<1>3. CASE t + 1 < TidMod
  <2>1. count2[d] - serial = t2 - t + TidMod * 0
    BY <1>1, <1>2, <1>3 DEF Tid
  <2> QED
    BY <2>1 DEF AskedUnder, t, t2
<1>4. CASE ~(t + 1 < TidMod)
  <2>1. count2[d] - serial = t2 - t + TidMod * 1
    BY <1>1, <1>2, <1>4 DEF Tid
  <2> QED
    BY <2>1 DEF AskedUnder, t, t2
<1> QED
  BY <1>3, <1>4

(* What a request or a publication does to the counters. *)
LEMMA CounterMoves ==
    ASSUME NEW d, NEW enqueued \in BOOLEAN, tids' = Counted(d, enqueued)
    PROVE  /\ \A e : e # d => TidIn(tids', e) = TidIn(tids, e)
           /\ TidIn(tids', d) = IF enqueued THEN (TidIn(tids, d) + 1) % TidMod ELSE TidIn(tids, d)
BY DEF Counted, Put, TidIn, get_tid

LEMMA SameCounters ==
    ASSUME NEW count, NEW table, NEW d, NEW serial, NEW tid,
           AskedUnder(count, table, d, serial, tid),
           NEW count2, NEW table2, d \in DOMAIN count2, count2[d] = count[d],
           TidIn(table2, d) = TidIn(table, d)
    PROVE  AskedUnder(count2, table2, d, serial, tid)
BY DEF AskedUnder

(* All that was asked remains asked. *)
AllKept(count, table, count2, table2) ==
    \A d, serial, tid :
        serial \in Nat /\ tid \in Tid /\ d.kind = "request" /\ AskedUnder(count, table, d, serial, tid) =>
            AskedUnder(count2, table2, d, serial, tid)

LEMMA RequestKeeps ==
    ASSUME TypeInv, NEW d, NEW enqueued \in BOOLEAN, tids' = Counted(d, enqueued),
           made' = IF enqueued
                   THEN Put(made, d, (IF d \in DOMAIN made THEN made[d] ELSE 0) + 1) ELSE made
    PROVE  AllKept(made, tids, made', tids')
<1> SUFFICES ASSUME NEW e, NEW serial \in Nat, NEW tid \in Tid, AskedUnder(made, tids, e, serial, tid)
             PROVE  AskedUnder(made', tids', e, serial, tid)
  BY DEF AllKept
<1>1. e \in DOMAIN made /\ made[e] \in Nat /\ TidIn(tids, e) \in Tid
  BY ZeroTid DEF AskedUnder, TypeInv, TidIn
<1>2. CASE e = d /\ enqueued
  <2>1. e \in DOMAIN made' /\ made'[e] = made[e] + 1
    BY <1>1, <1>2 DEF Put
  <2>2. TidIn(tids', e) = (TidIn(tids, e) + 1) % TidMod
    BY <1>2, CounterMoves
  <2> QED
    BY <1>1, <2>1, <2>2, OneMore
<1>3. CASE ~(e = d /\ enqueued)
  <2>1. e \in DOMAIN made' /\ made'[e] = made[e]
    BY <1>1, <1>3 DEF Put
  <2>2. TidIn(tids', e) = TidIn(tids, e)
    BY <1>3, CounterMoves
  <2> QED
    BY <2>1, <2>2, SameCounters
<1> QED
  BY <1>2, <1>3

LEMMA PublishKeeps ==
    ASSUME NEW p, NEW enqueued \in BOOLEAN,
           LET d == Descriptor(p.index, p.type, "broadcast", 0)
           IN  tids' = Counted(d, enqueued) \/ NoCounter(d, enqueued),
           made' = made
    PROVE  AllKept(made, tids, made', tids')
<1> DEFINE d == Descriptor(p.index, p.type, "broadcast", 0)
<1>1. d.kind = "broadcast"
  BY DEF Descriptor
<1> HIDE DEF d
<1> SUFFICES ASSUME NEW e, NEW serial, NEW tid, e.kind = "request",
                    AskedUnder(made, tids, e, serial, tid)
             PROVE  AskedUnder(made', tids', e, serial, tid)
  BY DEF AllKept
<1>2. e # d
  BY <1>1
<1>3. TidIn(tids', e) = TidIn(tids, e)
  <2>1. CASE tids' = tids
    BY <2>1
  <2>2. CASE tids' = Counted(d, enqueued)
    BY <1>2, <2>2, CounterMoves
  <2> QED
    BY <2>1, <2>2 DEF NoCounter, d
<1> QED
  BY <1>3 DEF AskedUnder

LEMMA InboxKept ==
    ASSUME NEW s, NEW in, NEW count, NEW table, InboxAsks(s, in, count, table),
           NEW count2, NEW table2, AllKept(count, table, count2, table2)
    PROVE  InboxAsks(s, in, count2, table2)
<1>1. \A m : RequestOf(m).kind = "request"
  BY DEF RequestOf, Descriptor
<1> QED
  BY <1>1 DEF InboxAsks, AllKept

LEMMA ClientKept ==
    ASSUME NEW s, NEW h, NEW cl, NEW snt, NEW count, NEW table, ClientAsks(s, h, cl, snt, count, table),
           cl.tid \in Tid, snt.serial \in Nat,
           NEW count2, NEW table2, AllKept(count, table, count2, table2)
    PROVE  ClientAsks(s, h, cl, snt, count2, table2)
<1>1. snt.ok => snt.d.kind = "request"
  BY DEF ClientAsks, Descriptor
<1> QED
  BY <1>1 DEF ClientAsks, AllKept

LEMMA WalkAsksKept ==
    ASSUME NEW w, NEW srv, NEW count, WalkAsks(w, srv, count), NEW w2, NEW count2,
           w2.m = w.m, w2.at = w.at, w2.asked = w.asked, w2.askers = w.askers, w2.called = w.called,
           \A d \in DOMAIN count : d \in DOMAIN count2 /\ count[d] \in Nat /\ count2[d] \in Nat
                                   /\ count[d] <= count2[d]
    PROVE  WalkAsks(w2, srv, count2)
<1> SUFFICES ASSUME w.m # Nil, w.at # Nil, w.m.kind = "response", w.asked.ok
             PROVE  AskerCalled(w2, count2)
  BY DEF WalkAsks
<1>1. AskerCalled(w, count)
  BY DEF WalkAsks
<1> QED
  BY <1>1 DEF AskerCalled

LEMMA CountsGrow ==
    ASSUME TypeInv, TypeInv', made' = made \/ \E d : made' = Put(made, d, (IF d \in DOMAIN made THEN made[d] ELSE 0) + 1)
    PROVE  \A d \in DOMAIN made : d \in DOMAIN made' /\ made[d] \in Nat /\ made'[d] \in Nat
                                  /\ made[d] <= made'[d]
<1>1. \A d \in DOMAIN made : made[d] \in Nat
  BY DEF TypeInv
<1>2. CASE made' = made
  BY <1>1, <1>2
<1>3. ASSUME NEW d, made' = Put(made, d, (IF d \in DOMAIN made THEN made[d] ELSE 0) + 1)
      PROVE  \A e \in DOMAIN made : e \in DOMAIN made' /\ made'[e] \in Nat /\ made[e] <= made'[e]
  BY <1>1, <1>3 DEF Put
<1> QED
  BY <1>1, <1>2, <1>3

LEMMA TypeClient ==
    ASSUME TypeInv, NEW h \in Known
    PROVE  h \in Handlers /\ client[h].tid \in Tid /\ sent[h].serial \in Nat
BY Addressed DEF TypeInv, Known

LEMMA AskInit ==
    ASSUME ServicesInit
    PROVE  AskInv
<1>1. pending = {} /\ inbox = <<>> /\ walk = NoWalk /\ scenario \in Scenarios
      /\ sent = [h \in Handlers |-> [d |-> Nil, serial |-> 0, ok |-> FALSE]]
  BY DEF ServicesInit
<1>2. \A h \in Known : sent[h].ok = FALSE
  BY <1>1, Addressed DEF Known
<1>3. walk.m = Nil
  BY <1>1 DEF NoWalk
<1>4. InboxAsks(scenario, inbox, made, tids)
  BY <1>1 DEF InboxAsks
<1>5. \A h \in Known : ClientAsks(scenario, h, client[h], sent[h], made, tids)
  BY <1>2 DEF ClientAsks
<1> QED
  BY <1>1, <1>3, <1>4, <1>5 DEF AskInv, WalkAsks

LEMMA CreateAsk ==
    ASSUME TypeInv, AskInv, NEW h \in Known, Create(h)
    PROVE  AskInv'
<1>1. /\ client' = [client EXCEPT ![h].server = 255]
      /\ sent' = [sent EXCEPT ![h].ok = FALSE]
      /\ UNCHANGED <<scenario, server, tids, pending, inbox, walk, made>>
  BY DEF Create
<1>2. client \in [Handlers -> [server : Servers \cup {255}, tid : Tid]] /\ scenario \in Scenarios
      /\ sent \in [Handlers -> [d : Descriptors \cup {Nil}, serial : Nat, ok : BOOLEAN]]
  BY DEF TypeInv
<1>3. \A e \in Known : e \in Handlers
  BY <1>2, Addressed DEF Known
<1>4. sent'[h].ok = FALSE
  BY <1>1, <1>2, <1>3
<1>5. \A e \in Known : e # h => client'[e] = client[e] /\ sent'[e] = sent[e]
  BY <1>1, <1>2, <1>3
<1>6. Known' = Known
  BY <1>1 DEF Known
<1>7. \A e \in Known' : ClientAsks(scenario', e, client'[e], sent'[e], made', tids')
  <2> TAKE e \in Known'
  <2>1. CASE e = h
    BY <2>1, <1>4 DEF ClientAsks
  <2>2. CASE e # h
    BY <2>2, <1>1, <1>5, <1>6 DEF AskInv
  <2> QED
    BY <2>1, <2>2
<1>8. InboxAsks(scenario', inbox', made', tids') /\ WalkAsks(walk', server', made')
      /\ \A p \in pending' : AskedUnder(made', tids', p.d, p.serial, p.tid)
  BY <1>1 DEF AskInv
<1> QED
  BY <1>7, <1>8 DEF AskInv

LEMMA DestroyAsk ==
    ASSUME TypeInv, TypeInv', AskInv, NEW h \in Known, Destroy(h)
    PROVE  AskInv'
<1>1. UNCHANGED <<scenario, client, server, tids, pending, inbox, sent, made>>
      /\ walk' = IF Walking THEN [walk EXCEPT !.steady = @ \ {h}, !.gone = @ \cup {h}] ELSE walk
  BY DEF Destroy
<1>2. /\ walk'.m = walk.m /\ walk'.at = walk.at /\ walk'.asked = walk.asked
      /\ walk'.askers = walk.askers /\ walk'.called = walk.called
  BY <1>1 DEF TypeInv, IsWalk
<1>3. WalkAsks(walk, server, made)
  BY DEF AskInv
<1>4. WalkAsks(walk', server, made)
  BY <1>2, <1>3 DEF WalkAsks, AskerCalled
<1>5. Known' = Known
  BY <1>1 DEF Known
<1> QED
  BY <1>1, <1>4, <1>5 DEF AskInv

LEMMA RequestAsk ==
    ASSUME TypeInv, TypeInv', AskInv, NEW c \in Known, NEW dst \in scenario.servers,
           NEW enqueued \in BOOLEAN, Request(c, dst, enqueued)
    PROVE  AskInv'
<1> DEFINE d == Descriptor(Handler(c).index, Handler(c).type, "request", dst)
           serial == IF d \in DOMAIN made THEN made[d] ELSE 0
           t == TidIn(tids, d)
<1>1. /\ client' = [client EXCEPT ![c] = [server |-> dst, tid |-> t]]
      /\ tids' = Counted(d, enqueued)
      /\ sent' = [sent EXCEPT ![c] = [d |-> d, serial |-> serial, ok |-> enqueued]]
      /\ made' = IF enqueued THEN Put(made, d, serial + 1) ELSE made
      /\ pending' = IF enqueued THEN pending \cup {[d |-> d, tid |-> t, serial |-> serial]} ELSE pending
      /\ UNCHANGED <<scenario, server, inbox, walk>>
  BY DEF Request, Recorded, TidIn, get_tid
<1>2. serial \in Nat /\ t \in Tid
  BY ZeroTid DEF TypeInv, TidIn
<1>3. AllKept(made, tids, made', tids')
  <2> HIDE DEF d
  <2> QED
    BY <1>1, RequestKeeps
<1>4. d = Descriptor(scenario.handler[c].index, scenario.handler[c].type, "request", dst)
  BY DEF Handler
<1> HIDE DEF d, serial
<1>5. enqueued => AskedUnder(made', tids', d, serial, t)
  <2> HAVE enqueued
  <2>1. d \in DOMAIN made' /\ made'[d] = serial + 1
    BY <1>1 DEF Put
  <2>2. TidIn(tids', d) = (TidIn(tids, d) + 1) % TidMod
    BY <1>1, CounterMoves
  <2> QED
    BY <1>2, <2>1, <2>2, NewOne
<1> HIDE DEF t
<1>6. \A p \in pending' : AskedUnder(made', tids', p.d, p.serial, p.tid)
  <2>1. \A p \in pending : AskedUnder(made', tids', p.d, p.serial, p.tid)
    <3> TAKE p \in pending
    <3>1. p.serial \in Nat /\ p.tid \in Tid /\ p.d.kind = "request"
      BY DEF TypeInv, Descriptors
    <3> QED
      BY <3>1, <1>3 DEF AskInv, AllKept
  <2> QED
    BY <1>1, <1>5, <2>1
<1>7. InboxAsks(scenario', inbox', made', tids')
  BY <1>1, <1>3, InboxKept DEF AskInv
<1>8. \A h \in Known' : ClientAsks(scenario', h, client'[h], sent'[h], made', tids')
  <2> TAKE h \in Known'
  <2>1. h \in Known /\ h \in Handlers /\ client[h].tid \in Tid /\ sent[h].serial \in Nat
    BY <1>1, TypeClient DEF Known
  <2>2. client \in [Handlers -> [server : Servers \cup {255}, tid : Tid]]
        /\ sent \in [Handlers -> [d : Descriptors \cup {Nil}, serial : Nat, ok : BOOLEAN]]
    BY DEF TypeInv
  <2>3. CASE h = c
    <3>1. client'[h] = [server |-> dst, tid |-> t]
          /\ sent'[h] = [d |-> d, serial |-> serial, ok |-> enqueued]
      BY <1>1, <2>1, <2>2, <2>3
    <3>2. /\ client'[h].server = dst /\ client'[h].tid = t
          /\ sent'[h].d = d /\ sent'[h].serial = serial /\ sent'[h].ok = enqueued
      BY <3>1
    <3>3. scenario' = scenario /\ dst \in scenario.servers
          /\ d = Descriptor(scenario'.handler[h].index, scenario'.handler[h].type, "request", dst)
      BY <1>1, <1>4, <2>3
    <3> QED
      BY <3>2, <3>3, <1>5, Zenon DEF ClientAsks
  <2>4. CASE h # c
    <3>1. client'[h] = client[h] /\ sent'[h] = sent[h]
      BY <1>1, <2>1, <2>2, <2>4
    <3>2. ClientAsks(scenario, h, client[h], sent[h], made, tids)
      BY <2>1 DEF AskInv
    <3>3. ClientAsks(scenario, h, client[h], sent[h], made', tids')
      BY <3>2, <2>1, <1>3, ClientKept
    <3> QED
      BY <3>1, <3>3, <1>1
  <2> QED
    BY <2>3, <2>4
<1>9. WalkAsks(walk', server', made')
  <2>1. \A e \in DOMAIN made : e \in DOMAIN made' /\ made[e] \in Nat /\ made'[e] \in Nat
                               /\ made[e] <= made'[e]
    BY <1>1, CountsGrow DEF serial
  <2> QED
    BY <1>1, <2>1, WalkAsksKept DEF AskInv
<1> QED
  BY <1>6, <1>7, <1>8, <1>9 DEF AskInv

LEMMA PublishAsk ==
    ASSUME TypeInv, AskInv, NEW p \in scenario.publishers, NEW enqueued \in BOOLEAN, Publish(p, enqueued)
    PROVE  AskInv'
<1>1. /\ LET d == Descriptor(p.index, p.type, "broadcast", 0)
         IN  tids' = Counted(d, enqueued) \/ NoCounter(d, enqueued)
      /\ UNCHANGED <<scenario, client, server, pending, inbox, walk, sent, made>>
  BY DEF Publish
<1>2. AllKept(made, tids, made', tids')
  BY <1>1, PublishKeeps
<1>3. \A a \in pending' : AskedUnder(made', tids', a.d, a.serial, a.tid)
  <2> TAKE a \in pending'
  <2>1. a \in pending /\ a.serial \in Nat /\ a.tid \in Tid /\ a.d.kind = "request"
    BY <1>1 DEF TypeInv, Descriptors
  <2> QED
    BY <2>1, <1>2 DEF AskInv, AllKept
<1>4. InboxAsks(scenario', inbox', made', tids')
  BY <1>1, <1>2, InboxKept DEF AskInv
<1>5. \A h \in Known' : ClientAsks(scenario', h, client'[h], sent'[h], made', tids')
  <2> TAKE h \in Known'
  <2>1. h \in Known /\ client[h].tid \in Tid /\ sent[h].serial \in Nat
    BY <1>1, TypeClient DEF Known
  <2>2. ClientAsks(scenario, h, client[h], sent[h], made, tids)
    BY <2>1 DEF AskInv
  <2> QED
    BY <1>1, <1>2, <2>1, <2>2, ClientKept
<1>6. WalkAsks(walk', server', made')
  BY <1>1 DEF AskInv
<1> QED
  BY <1>3, <1>4, <1>5, <1>6 DEF AskInv

LEMMA FreeAsk ==
    ASSUME TypeInv, AskInv, FreeTids
    PROVE  AskInv'
<1>1. pending' = {} /\ inbox' = <<>> /\ walk'.m = Nil /\ scenario' = scenario
      /\ sent' = [c \in DOMAIN sent |-> [sent[c] EXCEPT !.ok = FALSE]]
  BY DEF FreeTids, Walking
<1>2. \A h \in Known' : sent'[h].ok = FALSE
  <2>1. sent \in [Handlers -> [d : Descriptors \cup {Nil}, serial : Nat, ok : BOOLEAN]]
    BY DEF TypeInv
  <2>2. \A h \in Known' : h \in Handlers
    BY <1>1, TypeClient DEF Known
  <2> QED
    BY <1>1, <2>1, <2>2
<1> QED
  BY <1>1, <1>2 DEF AskInv, InboxAsks, ClientAsks, WalkAsks

(* A client is called only for the answer of its server, to its service, with its transfer-ID. *)
LEMMA CalledFor ==
    ASSUME TypeInv, EachInv, NEW m \in Messages, walk.m = Nil
    PROVE  LET c == Consumer(head[ListOf(m)], m)
           IN  /\ c # Nil => /\ c \in Known /\ scenario.handler[c].index = m.index
                             /\ c \in InList(ListOf(m)) /\ ForThis(c, m)
               /\ \A y \in InList(ListOf(m)) :
                    y \in Known /\ scenario.handler[y].index = m.index /\ (ForThis(y, m) => c # Nil)
<1> DEFINE l == ListOf(m)
           c == Consumer(head[l], m)
<1>1. PICK linked, rank, top :
        Lists(scenario, head, next, linked, walk.gone, rank, top) /\ walk.gone = {}
  BY DEF EachInv, OnceOK
<1>2. l \in Spot /\ scenario \in Scenarios
  BY MessageIs DEF TypeInv
<1>3. Below(scenario, head[l], l, top, linked, walk.gone, rank) /\ top \in Nat
  BY <1>1, <1>2 DEF Lists
<1>4. Finds(c, m, l, top, linked, {}, rank)
  BY <1>1, <1>2, <1>3, ConsumerIs
<1>5. InList(l) = {y \in linked : SpotOf(scenario, y) = l}
  BY <1>1, <1>2, ListOfSpot
<1> HIDE DEF c
<1>6. c # Nil => c \in InList(l) /\ ForThis(c, m)
  BY <1>4, <1>5 DEF Finds
<1>7. \A y \in InList(l) : y \in Known /\ scenario.handler[y].index = m.index
  BY <1>1, <1>5 DEF SpotOf, ListOf, Lists, Known
<1>8. \A y \in InList(l) : ForThis(y, m) => c # Nil
  BY <1>1, <1>4, <1>5 DEF Finds, Lists
<1> QED
  BY <1>6, <1>7, <1>8 DEF c

LEMMA SameRequest ==
    ASSUME NEW count, NEW table, NEW d, NEW serial1 \in Nat, NEW serial2 \in Nat, NEW tid \in Tid,
           AskedUnder(count, table, d, serial1, tid), AskedUnder(count, table, d, serial2, tid),
           count[d] \in Nat, TidIn(table, d) \in Tid
    PROVE  \E q \in Int : serial1 - serial2 = TidMod * q
<1>1. PICK q1 \in Int : count[d] - serial1 = TidIn(table, d) - tid + TidMod * q1
  BY DEF AskedUnder
<1>2. PICK q2 \in Int : count[d] - serial2 = TidIn(table, d) - tid + TidMod * q2
  BY DEF AskedUnder
<1>3. TidMod \in Nat /\ TidIn(table, d) \in Int /\ tid \in Int
  BY ServicesAssumption DEF Tid
<1>4. TidMod * (q2 - q1) = TidMod * q2 - TidMod * q1 /\ TidMod * q1 \in Int /\ TidMod * q2 \in Int
  BY <1>1, <1>2, <1>3
<1>5. serial1 - serial2 = TidMod * (q2 - q1)
  BY <1>1, <1>2, <1>3, <1>4
<1> QED
  BY <1>5

LEMMA SameTid ==
    ASSUME NEW count, NEW table, NEW d, NEW serial, NEW tid1 \in Tid, NEW tid2 \in Tid,
           AskedUnder(count, table, d, serial, tid1), AskedUnder(count, table, d, serial, tid2),
           count[d] \in Nat, serial \in Nat, TidIn(table, d) \in Tid
    PROVE  tid1 = tid2
<1>1. PICK q1 \in Int : count[d] - serial = TidIn(table, d) - tid1 + TidMod * q1
  BY DEF AskedUnder
<1>2. PICK q2 \in Int : count[d] - serial = TidIn(table, d) - tid2 + TidMod * q2
  BY DEF AskedUnder
<1> DEFINE q == q1 - q2
<1>3. TidMod \in Nat \ {0} /\ tid1 \in 0 .. TidMod - 1 /\ tid2 \in 0 .. TidMod - 1 /\ TidIn(table, d) \in Int
  BY ServicesAssumption DEF Tid
<1>4. TidMod * q = TidMod * q1 - TidMod * q2 /\ TidMod * q1 \in Int /\ TidMod * q2 \in Int
  BY <1>1, <1>2, <1>3
<1>5. q \in Int /\ tid1 - tid2 = TidMod * q
  BY <1>1, <1>2, <1>3, <1>4
<1> HIDE DEF q
<1>6. ~(q >= 1)
  <2> SUFFICES ASSUME q >= 1
               PROVE  FALSE
    OBVIOUS
  <2>1. TidMod * q >= TidMod
    BY <1>3, <1>5
  <2> QED
    BY <2>1, <1>3, <1>5
<1>7. ~(q <= -1)
  <2> SUFFICES ASSUME q <= -1
               PROVE  FALSE
    OBVIOUS
  <2>1. TidMod * q <= -TidMod
    BY <1>3, <1>5
  <2> QED
    BY <2>1, <1>3, <1>5
<1>8. q = 0
  BY <1>5, <1>6, <1>7
<1> QED
  BY <1>3, <1>5, <1>8

LEMMA HandleAsk ==
    ASSUME TypeInv, EachInv, AskInv, HandleMessage
    PROVE  AskInv'
<1> DEFINE m == Head(inbox)
           all == {h \in InList(ListOf(m)) : ForThis(h, m)}
           who == Askers(m)
           c == Consumer(head[ListOf(m)], m)
           w == [NoWalk EXCEPT !.m = m, !.steady = all, !.askers = who]
<1>1. inbox # <<>> /\ inbox' = Tail(inbox) /\ inbox \in Seq(Messages)
      /\ UNCHANGED <<scenario, client, tids, pending, sent, made>>
      /\ walk.m = Nil
  BY DEF HandleMessage, TypeInv, Walking
<1>2. m \in Messages /\ m = inbox[1] /\ 1 \in DOMAIN inbox
  BY <1>1
<1>3. Call(w, c)
  BY DEF HandleMessage
<1>4. /\ c # Nil => /\ c \in Known /\ scenario.handler[c].index = m.index
                    /\ c \in InList(ListOf(m)) /\ ForThis(c, m)
      /\ \A y \in InList(ListOf(m)) :
            y \in Known /\ scenario.handler[y].index = m.index /\ (ForThis(y, m) => c # Nil)
  BY <1>1, <1>2, CalledFor
<1> HIDE DEF m, all, who, c
<1>5. w = [m |-> m, at |-> Nil, called |-> <<>>, steady |-> all, gone |-> {}, asked |-> Nil,
           askers |-> who]
  <2>1. w = [NoWalk EXCEPT !.m = m, !.steady = all, !.askers = who]
    OBVIOUS
  <2> HIDE DEF w
  <2> QED
    BY <2>1 DEF NoWalk
<1> HIDE DEF w
<1>6. IsWalk(w) /\ w.m = m
  BY <1>5 DEF IsWalk
<1>7. /\ walk'.m = m /\ walk'.at = c
      /\ walk'.asked = IF c # Nil /\ m.kind = "response" THEN sent[c] ELSE Nil
      /\ walk'.called = (IF c = Nil THEN <<>> ELSE Append(<<>>, c)) /\ walk'.askers = who
  BY <1>3, <1>5, <1>6, CalledWalk
<1>8. InboxAsks(scenario', inbox', made', tids')
  <2>1. \A i \in DOMAIN Tail(inbox) : i + 1 \in DOMAIN inbox /\ Tail(inbox)[i] = inbox[i + 1]
    BY <1>1
  <2> QED
    BY <2>1, <1>1 DEF AskInv, InboxAsks
<1>9. WalkAsks(walk', server', made')
  <2>3. ASSUME m.kind = "response", who # {}
        PROVE  c # Nil
    <3>1. PICK y \in InList(ListOf(m)) :
            /\ Handles(y, m) /\ ~m.bad /\ sent[y].ok /\ sent[y].serial = m.serial
            /\ sent[y].d = RequestOf(m)
      BY <2>3 DEF who, Askers, RequestOf
    <3>2. y \in Known /\ client[y].tid \in Tid
      BY <1>4, TypeClient
    <3>3. ClientAsks(scenario, y, client[y], sent[y], made, tids)
      BY <3>2 DEF AskInv
    <3>4. /\ client[y].server = m.source /\ m.source \in scenario.servers
          /\ AskedUnder(made, tids, RequestOf(m), m.serial, client[y].tid)
      BY <3>1, <3>3 DEF ClientAsks, RequestOf, Descriptor
    <3>5. m.serial \in Nat /\ m.tid \in Tid /\ AskedUnder(made, tids, RequestOf(m), m.serial, m.tid)
      BY <1>2, <2>3, <3>4 DEF AskInv, InboxAsks
    <3>6. client[y].tid = m.tid
      <4> DEFINE d == RequestOf(m)
      <4>1. d \in DOMAIN made /\ made[d] \in Nat /\ TidIn(tids, d) \in Tid
        BY <3>5, ZeroTid DEF AskedUnder, TypeInv, TidIn
      <4> HIDE DEF d
      <4>2. AskedUnder(made, tids, d, m.serial, client[y].tid) /\ AskedUnder(made, tids, d, m.serial, m.tid)
        BY <3>4, <3>5 DEF d
      <4> QED
        BY <3>2, <3>5, <4>1, <4>2, SameTid
    <3>7. ForThis(y, m)
      BY <3>1, <3>4, <3>6 DEF ForThis
    <3> QED
      BY <1>4, <3>7
  <2>4. c # Nil => walk'.called # <<>>
    BY <1>7
  <2> SUFFICES ASSUME c # Nil
               PROVE  /\ m.kind = "response" /\ walk'.asked.ok => AskerCalled(walk', made')
                      /\ m.kind = "request" =>
                            /\ server'[c] = m.tid
                            /\ walk'.asked # Nil => walk'.asked = [to |-> m.source, tid |-> m.tid]
    BY <1>7, <2>3, <2>4 DEF WalkAsks
  <2>1. ASSUME m.kind = "response", walk'.asked.ok
        PROVE  AskerCalled(walk', made')
    <3> DEFINE d == RequestOf(m)
    <3>1. walk'.asked = sent[c] /\ sent[c].ok
      BY <1>7, <2>1
    <3>2. /\ client[c].server = m.source /\ client[c].tid = m.tid
          /\ scenario.handler[c].type = m.type
      BY <1>4, <2>1 DEF ForThis, Handles, Handler
    <3>3. ClientAsks(scenario, c, client[c], sent[c], made, tids)
      BY <1>4 DEF AskInv
    <3>4. /\ m.source \in scenario.servers /\ sent[c].d = d
          /\ AskedUnder(made, tids, d, sent[c].serial, m.tid)
      BY <1>4, <3>1, <3>2, <3>3 DEF ClientAsks, RequestOf
    <3>5. m.serial \in Nat /\ m.tid \in Tid /\ AskedUnder(made, tids, d, m.serial, m.tid)
      BY <1>2, <2>1, <3>4 DEF AskInv, InboxAsks
    <3>6. sent[c].serial \in Nat
      BY <1>4, TypeClient
    <3>7. d \in DOMAIN made /\ made[d] \in Nat /\ TidIn(tids, d) \in Tid
      BY <3>5, ZeroTid DEF AskedUnder, TypeInv, TidIn
    <3> HIDE DEF d
    <3>8. \E q \in Int : sent[c].serial - m.serial = TidMod * q
      BY <3>4, <3>5, <3>6, <3>7, SameRequest
    <3>9. sent[c].serial < made[d] /\ m.serial < made[d]
      BY <3>4, <3>5 DEF AskedUnder
    <3>10. sent[c].serial = m.serial => c \in who
      BY <1>4, <3>1, <3>4 DEF who, Askers, ForThis, RequestOf, d
    <3> QED
      BY <1>1, <1>7, <3>1, <3>4, <3>5, <3>6, <3>7, <3>8, <3>9, <3>10 DEF AskerCalled, d
  <2>2. ASSUME m.kind = "request"
        PROVE  server'[c] = m.tid /\ walk'.asked = Nil
    <3>1. server' = [server EXCEPT ![c] = m.tid]
      BY <1>3, <1>6, <2>2 DEF Call
    <3>2. c \in DOMAIN server
      BY <1>4, TypeClient DEF TypeInv
    <3> QED
      BY <3>1, <3>2, <1>7, <2>2
  <2> QED
    BY <2>1, <2>2
<1>10. Known' = Known
  BY <1>1 DEF Known
<1> QED
  BY <1>1, <1>8, <1>9, <1>10 DEF AskInv

LEMMA WalkOnlyAsk ==
    ASSUME AskInv, UNCHANGED <<scenario, client, tids, pending, inbox, sent, made>>,
           WalkAsks(walk', server', made')
    PROVE  AskInv'
BY DEF AskInv, Known

LEMMA CallbackAsk ==
    ASSUME TypeInv, AskInv, CallbackReturns
    PROVE  AskInv'
<1> DEFINE c == After(walk)
<1>1. Call(walk, c) /\ UNCHANGED <<scenario, client, tids, pending, inbox, sent, made>> /\ IsWalk(walk)
  BY DEF CallbackReturns, TypeInv
<1>2. walk.m.kind # "broadcast" => c = Nil
  BY DEF After
<1> HIDE DEF c
<1>3. /\ walk'.m = walk.m /\ walk'.at = c /\ walk'.askers = walk.askers
      /\ c = Nil => walk'.called = walk.called
  BY <1>1, CalledWalk
<1>4. WalkAsks(walk', server', made')
  BY <1>2, <1>3 DEF AskInv, WalkAsks
<1> QED
  BY <1>1, <1>4, WalkOnlyAsk

LEMMA RespondAsk ==
    ASSUME TypeInv, AskInv, Respond
    PROVE  AskInv'
<1>1. /\ walk' = [walk EXCEPT !.asked = [to |-> walk.m.source, tid |-> server[walk.at]]]
      /\ UNCHANGED <<scenario, client, server, tids, pending, inbox, sent, made>>
      /\ walk.m # Nil /\ walk.at # Nil /\ walk.m.kind = "request"
  BY DEF Respond, Walking
<1>2. server[walk.at] = walk.m.tid
  BY <1>1 DEF AskInv, WalkAsks
<1>3. walk'.m = walk.m /\ walk'.at = walk.at /\ walk'.asked = [to |-> walk.m.source, tid |-> walk.m.tid]
  BY <1>1, <1>2 DEF TypeInv, IsWalk
<1>4. WalkAsks(walk', server', made')
  BY <1>1, <1>2, <1>3 DEF WalkAsks
<1> QED
  BY <1>1, <1>4, WalkOnlyAsk

LEMMA ReceivedAsk ==
    ASSUME TypeInv, AskInv, NEW m, Accepted(m),
           m.kind = "response" /\ m.source \in scenario.servers =>
               m.serial \in Nat /\ m.tid \in Tid /\ AskedUnder(made, tids, RequestOf(m), m.serial, m.tid)
    PROVE  InboxAsks(scenario, inbox', made, tids)
<1>1. inbox \in Seq(Messages) /\ InboxAsks(scenario, inbox, made, tids)
  BY DEF TypeInv, AskInv
<1>2. CASE inbox' = inbox
  BY <1>1, <1>2
<1>3. CASE inbox' = Append(inbox, m)
  <2> DEFINE n == Len(inbox)
  <2>1. n \in Nat /\ DOMAIN inbox = 1 .. n /\ DOMAIN inbox' = 1 .. n + 1
        /\ inbox'[n + 1] = m /\ \A i \in 1 .. n : inbox'[i] = inbox[i]
    BY <1>1, <1>3
  <2>2. \A i \in DOMAIN inbox' : (i \in DOMAIN inbox /\ inbox'[i] = inbox[i]) \/ inbox'[i] = m
    BY <2>1
  <2> QED
    BY <1>1, <2>2 DEF InboxAsks
<1> QED
  BY <1>2, <1>3 DEF Accepted

LEMMA AnswerAsk ==
    ASSUME TypeInv, AskInv, NEW p \in pending, Answer(p)
    PROVE  AskInv'
<1>1. PICK bad \in BOOLEAN :
        Accepted([kind |-> "response", index |-> p.d.index, type |-> p.d.type,
                  source |-> p.d.dst, tid |-> p.tid, serial |-> p.serial, bad |-> bad])
  BY DEF Answer
<1> DEFINE m == [kind |-> "response", index |-> p.d.index, type |-> p.d.type,
                 source |-> p.d.dst, tid |-> p.tid, serial |-> p.serial, bad |-> bad]
<1>2. p \in [d : Descriptors, tid : Tid, serial : Nat] /\ p.d \in Descriptors
      /\ AskedUnder(made, tids, p.d, p.serial, p.tid)
  BY DEF TypeInv, AskInv
<1>3. RequestOf(m) = p.d /\ m.serial = p.serial /\ m.tid = p.tid
  BY <1>2 DEF RequestOf, Descriptor, Descriptors
<1>4. Accepted(m)
  BY <1>1
<1> HIDE DEF m
<1>5. InboxAsks(scenario, inbox', made, tids)
  BY <1>2, <1>3, <1>4, ReceivedAsk
<1>6. pending' = pending \ {p} /\ UNCHANGED <<scenario, client, server, tids, walk, sent, made>>
  BY DEF Answer
<1> QED
  BY <1>5, <1>6 DEF AskInv, Known

LEMMA ArriveAsk ==
    ASSUME TypeInv, AskInv, NEW m \in scenario.transfers, Arrive(m),
           m.kind = "response" => m.source \notin scenario.servers
    PROVE  AskInv'
<1>1. InboxAsks(scenario, inbox', made, tids)
  BY ReceivedAsk DEF Arrive
<1>2. UNCHANGED <<scenario, client, server, tids, pending, walk, sent, made>>
  BY DEF Arrive
<1> QED
  BY <1>1, <1>2 DEF AskInv, Known

(* The servers that the program asks do not answer what it has not asked. *)
Solicited == \A s \in Scenarios : \A m \in s.transfers : m.kind = "response" => m.source \notin s.servers

LEMMA AskStep ==
    ASSUME Solicited, TypeInv, TypeInv', EachInv, AskInv, [ServicesNext]_servicesVars
    PROVE  AskInv'
<1>1. CASE WalkEnds
  <2>1. WalkAsks(walk', server', made') /\ UNCHANGED <<scenario, client, tids, pending, inbox, sent, made>>
    BY <1>1 DEF WalkEnds, WalkAsks, NoWalk
  <2> QED
    BY <2>1, WalkOnlyAsk
<1>2. ASSUME NEW p \in pending, Lost(p)
      PROVE  AskInv'
  <2>1. pending' \subseteq pending /\ UNCHANGED <<scenario, client, server, tids, inbox, walk, sent, made>>
    BY <1>2 DEF Lost
  <2> QED
    BY <2>1 DEF AskInv, Known
<1>3. ASSUME NEW m \in scenario.transfers, Arrive(m)
      PROVE  AskInv'
  BY <1>3, ArriveAsk DEF Solicited, TypeInv
<1>4. CASE UNCHANGED servicesVars
  BY <1>4 DEF servicesVars, AskInv, Known
<1> QED
  BY <1>1, <1>2, <1>3, <1>4, CreateAsk, DestroyAsk, RequestAsk, PublishAsk, FreeAsk,
     HandleAsk, CallbackAsk, RespondAsk, AnswerAsk DEF ServicesNext

LEMMA AskPart ==
    ASSUME TypeInv, AskInv
    PROVE  AnswersFindAskers
<1> SUFFICES ASSUME walk.m # Nil
             PROVE  AnswersFindAskers
  BY DEF AnswersFindAskers, Walking
<1>1. ASSUME walk.m.kind = "response", walk.at # Nil, walk.asked.ok,
             Recent(walk.asked.d, walk.asked.serial), Recent(walk.asked.d, walk.m.serial)
      PROVE  walk.at \in walk.askers
  <2> DEFINE n == made[RequestOf(walk.m)]
             s1 == walk.asked.serial
             s2 == walk.m.serial
  <2>1. AskerCalled(walk, made)
    BY <1>1 DEF AskInv, WalkAsks
  <2>2. /\ n \in Nat /\ s1 \in Nat /\ s2 \in Nat /\ s1 < n /\ s2 < n
        /\ n - s1 <= TidMod /\ n - s2 <= TidMod
    BY <1>1, <2>1 DEF AskerCalled, Recent, TypeInv
  <2>3. PICK q \in Int : s1 - s2 = TidMod * q
    BY <2>1 DEF AskerCalled
  <2> HIDE DEF n, s1, s2
  <2>4. TidMod \in Nat \ {0}
    BY ServicesAssumption
  <2>5. s1 - s2 < TidMod /\ s2 - s1 < TidMod
    BY <2>2, <2>4
  <2>6. ~(q >= 1)
    <3> SUFFICES ASSUME q >= 1
                 PROVE  FALSE
      OBVIOUS
    <3>1. TidMod * q >= TidMod
      BY <2>4
    <3> QED
      BY <3>1, <2>2, <2>3, <2>4, <2>5
  <2>7. ~(q <= -1)
    <3> SUFFICES ASSUME q <= -1
                 PROVE  FALSE
      OBVIOUS
    <3>1. TidMod * q <= -TidMod
      BY <2>4
    <3> QED
      BY <3>1, <2>2, <2>3, <2>4, <2>5
  <2>8. q = 0
    BY <2>6, <2>7
  <2>9. s1 = s2
    BY <2>2, <2>3, <2>4, <2>8
  <2> QED
    BY <2>1, <2>9 DEF s1, s2, AskerCalled
<1>2. /\ walk.m.kind = "response" /\ walk.askers # {} => walk.called # <<>>
      /\ walk.m.kind = "request" /\ walk.at # Nil /\ walk.asked # Nil =>
            walk.asked = [to |-> walk.m.source, tid |-> walk.m.tid]
  BY DEF AskInv, WalkAsks
<1> QED
  BY <1>1, <1>2 DEF AnswersFindAskers

(* AnswersFindAskers: an answer that a client waits for is handed out (service_client.h:59), to   *)
(* the client that asked or to one whose own latest request was refused, and to no other as    *)
(* long as neither is a round of the counter old; a response carries its request's transfer-ID. *)
THEOREM AnswersToTheirAskers ==
    ASSUME Solicited
    PROVE  ServicesSpec => []AnswersFindAskers
<1>1. ServicesInit => TypeInv /\ EachInv /\ AskInv
  BY TypeInit, EachInit, AskInit
<1>2. TypeInv /\ EachInv /\ AskInv /\ [ServicesNext]_servicesVars => TypeInv' /\ EachInv' /\ AskInv'
  BY TypeStep, EachStep, AskStep
<1>3. TypeInv /\ EachInv /\ AskInv => AnswersFindAskers
  BY AskPart
<1> QED
  BY <1>1, <1>2, <1>3, PTL DEF ServicesSpec

=============================================================================
