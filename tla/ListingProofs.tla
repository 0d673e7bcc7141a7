---- MODULE ListingProofs ----
(***************************************************************************)
(* What model.for_auth answers, for every list upstream may send and every *)
(* catalog: the merge of the two is right for any number of items, and     *)
(* nothing but that merge is ever handed to the host as a list of models.  *)
(* A merge goes over its list one item at a time; what it has made of the  *)
(* first n items is shown for every n by taking the least n for which it   *)
(* would be wrong.                                                         *)
(***************************************************************************)
EXTENDS PluginCallsProofs, FiniteSetTheorems

-----------------------------------------------------------------------------
(* Numbers and finite sets                                                 *)

\* Some number is the least of a set of naturals.
LEMMA LeastElement ==
    ASSUME NEW T \in SUBSET Nat, T # {}
    PROVE \E n \in T : \A m \in T : n <= m
<1> DEFINE R == OpToRel(<, Nat)
<1>1. IsWellFoundedOn(R, Nat) BY NatLessThanWellFounded
<1>2. \A m, k \in Nat : m < k => <<m, k>> \in R BY DEF OpToRel
<1> HIDE DEF R
<1>3. PICK n \in T : \A m \in T : <<m, n>> \notin R BY <1>1, WFMin
<1>4. \A m \in T : ~(m < n) BY <1>2, <1>3
<1> QED BY <1>4

\* Some number is the greatest of a set of naturals that are all below a bound.
LEMMA GreatestElement ==
    ASSUME NEW max \in Nat, NEW T \in SUBSET (0..max), T # {}
    PROVE \E n \in T : \A m \in T : m <= n
<1> DEFINE U == {n \in 0..max : \A m \in T : m <= n}
<1>1. U \in SUBSET Nat /\ max \in U OBVIOUS
<1> HIDE DEF U
<1>2. PICK n \in U : \A m \in U : n <= m BY <1>1, LeastElement
<1>3. n \in 0..max /\ \A m \in T : m <= n BY <1>2 DEF U
<1>4. CASE n \in T BY <1>3, <1>4
<1>5. CASE n \notin T
  <2>1. n # 0
    <3>1. PICK m \in T : TRUE OBVIOUS
    <3> QED BY <1>3, <1>5, <3>1
  <2>2. \A m \in T : m # n /\ m <= n /\ m \in Nat BY <1>3, <1>5
  <2>3. \A m \in T : m <= n - 1 BY <1>3, <2>1, <2>2
  <2>4. n - 1 \in U BY <1>3, <2>1, <2>3 DEF U
  <2> QED BY <1>2, <1>3, <2>4
<1> QED BY <1>4, <1>5

\* What holds of 0, and of n + 1 when it holds of n, holds of every number up to max.
LEMMA InductionUpTo ==
    ASSUME NEW S, NEW max \in Nat, 0 \in S, \A n \in 0..(max - 1) : n \in S => n + 1 \in S
    PROVE 0..max \subseteq S
<1> DEFINE T == (0..max) \ S
<1> SUFFICES ASSUME T # {} PROVE FALSE OBVIOUS
<1>1. T \in SUBSET Nat OBVIOUS
<1> HIDE DEF T
<1>2. PICK n \in T : \A m \in T : n <= m BY <1>1, LeastElement
<1>3. n \in 0..max /\ n \notin S BY DEF T
<1>4. n # 0 BY <1>3
<1>5. n - 1 \in 0..(max - 1) /\ n - 1 \notin T BY <1>1, <1>2, <1>3, <1>4
<1>6. n - 1 \in S BY <1>5 DEF T
<1>7. (n - 1) + 1 \in S BY <1>5, <1>6
<1> QED BY <1>3, <1>7

-----------------------------------------------------------------------------
(* The merge, item by item                                                 *)

\* The recursive function is one: each of its values is made from the one before.
LEMMA MergedEquation ==
    ASSUME NEW remote, Len(remote) \in Nat
    PROVE MergedSoFar(remote) =
            [n \in 0..Len(remote) |->
                IF n = 0 THEN <<>> ELSE AddListed(MergedSoFar(remote)[n - 1], remote[n])]
<1> DEFINE max == Len(remote)
           UpTo(m, f) ==
             f = [n \in 0..m |-> IF n = 0 THEN <<>> ELSE AddListed(f[n - 1], remote[n])]
           S == {m \in 0..max : \E f : UpTo(m, f)}
<1>1. max \in Nat OBVIOUS
<1> HIDE DEF max
<1>2. 0 \in S
  <2>1. UpTo(0, [n \in 0..0 |-> <<>>]) OBVIOUS
  <2> HIDE DEF UpTo
  <2> QED BY <1>1, <2>1
<1>3. \A m \in 0..(max - 1) : m \in S => m + 1 \in S
  <2> SUFFICES ASSUME NEW m \in 0..(max - 1), m \in S PROVE m + 1 \in S OBVIOUS
  <2>1. PICK f : UpTo(m, f) OBVIOUS
  <2> DEFINE g == [n \in 0..(m + 1) |->
                     IF n = m + 1 THEN AddListed(f[m], remote[n]) ELSE f[n]]
  <2>2. ASSUME NEW n \in 0..m
        PROVE g[n] = IF n = 0 THEN <<>> ELSE AddListed(g[n - 1], remote[n])
    <3>1. g[n] = f[n] BY <1>1
    <3>2. n # 0 => g[n - 1] = f[n - 1] BY <1>1
    <3> HIDE DEF g
    <3> QED BY <2>1, <3>1, <3>2
  <2>3. g[m + 1] = AddListed(g[m], remote[m + 1])
    <3>1. g[m + 1] = AddListed(f[m], remote[m + 1]) BY <1>1
    <3>2. g[m] = f[m] BY <1>1
    <3> QED BY <3>1, <3>2
  <2>4. g = [n \in 0..(m + 1) |-> g[n]] OBVIOUS
  <2> HIDE DEF g
  <2>5. \A n \in 0..(m + 1) :
          g[n] = IF n = 0 THEN <<>> ELSE AddListed(g[n - 1], remote[n])
        BY <1>1, <2>2, <2>3
  <2>6. UpTo(m + 1, g) BY <2>4, <2>5
  <2>7. m + 1 \in 0..max BY <1>1
  <2> HIDE DEF UpTo
  <2> QED BY <2>6, <2>7
<1>4. max \in S
  <2>1. max \in 0..max BY <1>1
  <2> HIDE DEF S
  <2> QED BY <1>1, <1>2, <1>3, <2>1, InductionUpTo
<1>5. PICK f : UpTo(max, f) BY <1>4
<1> QED BY <1>5 DEF MergedSoFar, max

\* The catalog's model under a key is one of its models.
LEMMA CatalogEntry ==
    ASSUME NEW key \in DOMAIN Catalog
    PROVE /\ key # ""
          /\ \E i \in DOMAIN CatalogModels : Catalog[key] = CatalogModels[i]
<1> DEFINE keyed == {i \in DOMAIN CatalogModels : Lower(CatalogModels[i].id) = key}
<1>1. key # "" /\ keyed # {} BY DEF Catalog
<1>2. Len(CatalogModels) \in Nat /\ DOMAIN CatalogModels = 1..Len(CatalogModels)
      BY CatalogAssumption DEF IsList
<1>3. keyed \in SUBSET (0..Len(CatalogModels)) BY <1>2
<1>4. \E i \in keyed : \A j \in keyed : j <= i BY <1>1, <1>2, <1>3, GreatestElement
<1>5. Catalog[key] = CatalogModels[CHOOSE i \in keyed : \A j \in keyed : j <= i]
      BY DEF Catalog
<1>6. keyed \subseteq DOMAIN CatalogModels OBVIOUS
<1> HIDE DEF keyed
<1> QED BY <1>1, <1>4, <1>5, <1>6

\* So it has every field of a model.
LEMMA CatalogFields ==
    ASSUME NEW key \in DOMAIN Catalog PROVE ModelFields \subseteq DOMAIN Catalog[key]
BY CatalogEntry, CatalogAssumption

\* What the catalog adds to a model of the list leaves it the fields of a model, and
\* its ID.
LEMMA WithCatalogFields ==
    ASSUME NEW item
    PROVE LET model == WithCatalog(Discovered(item)) IN
          /\ ModelFields \subseteq DOMAIN model /\ model.id = Id(item)
          /\ DOMAIN Named(model) = DOMAIN model /\ Named(model).id = Id(item)
<1> DEFINE remote == Discovered(item)
           model == WithCatalog(remote)
           key == Lower(Id(item))
<1>1. ModelFields \subseteq DOMAIN remote /\ remote.id = Id(item)
      BY DEF Discovered, ModelFields
<1> HIDE DEF remote
<1>2. ModelFields \subseteq DOMAIN model /\ model.id = Id(item)
  <2>1. CASE key \in DOMAIN Catalog
    <3> DEFINE static == Catalog[key]
    <3>1. "id" \in DOMAIN static /\ ModelFields \subseteq DOMAIN static
          BY <2>1, CatalogFields DEF ModelFields
    <3>2. model = MergeModelMetadata(static, remote) BY <1>1, <2>1 DEF WithCatalog
    <3> HIDE DEF static, model
    <3>3. DOMAIN model = DOMAIN static /\ model.id = remote.id
          BY <3>1, <3>2 DEF MergeModelMetadata
    <3> QED BY <1>1, <3>1, <3>3
  <2>2. CASE key \notin DOMAIN Catalog
    <3>1. model = remote BY <1>1, <2>2 DEF WithCatalog
    <3> QED BY <1>1, <3>1
  <2> QED BY <2>1, <2>2
<1> HIDE DEF model
<1>3. DOMAIN Named(model) = DOMAIN model /\ Named(model).id = Id(item)
      BY <1>2 DEF Named, ModelFields
<1> QED BY <1>2, <1>3 DEF remote, model

\* A listed item has the ID of its model.
LEMMA ListedId == ASSUME NEW item PROVE Listed(item).id = Id(item)
<1> DEFINE model == Named(WithCatalog(Discovered(item)))
<1>1. model.id = Id(item) BY WithCatalogFields
<1> HIDE DEF model
<1>2. [model EXCEPT !.thinking = Thinking(item, model)].id = model.id OBVIOUS
<1> QED BY <1>1, <1>2 DEF Listed, model

-----------------------------------------------------------------------------
(* What the merge has made of the first n items                            *)

\* The items among the first n that count.
FirstsUpTo(remote, n) == {i \in Firsts(remote) : i <= n}

\* A model for each of them, in their order, and nothing else.
MergedUpTo(remote, n) ==
    LET models == MergedSoFar(remote)[n] IN
    /\ models \in Seq({Listed(remote[i]) : i \in DOMAIN remote})
    /\ Len(models) = Cardinality(FirstsUpTo(remote, n))
    /\ \A i \in FirstsUpTo(remote, n) : models[Place(remote, i)] = Listed(remote[i])
    /\ \A k \in DOMAIN models :
          \E i \in FirstsUpTo(remote, n) : models[k] = Listed(remote[i])

\* Items that count are items of the list, no earlier one has their key, and any such
\* item counts.
LEMMA FirstsFacts ==
    ASSUME NEW remote
    PROVE /\ Firsts(remote) \subseteq DOMAIN remote
          /\ \A i \in Firsts(remote) : Key(remote[i]) # ""
          /\ \A i \in Firsts(remote) : \A j \in 1..(i - 1) : Key(remote[j]) # Key(remote[i])
          /\ \A i \in DOMAIN remote :
                /\ Key(remote[i]) # ""
                /\ \A j \in 1..(i - 1) : Key(remote[j]) # Key(remote[i])
                => i \in Firsts(remote)
BY Zenon DEF Firsts

\* A list has a length.
LEMMA ListLength ==
    ASSUME NEW remote, IsList(remote)
    PROVE Len(remote) \in Nat /\ DOMAIN remote = 1..Len(remote)
BY DEF IsList

\* The numbers up to one of its places are places of the list.
LEMMA ListNumbers ==
    ASSUME NEW remote, IsList(remote), NEW n, n \in 0..Len(remote)
    PROVE n \in Nat /\ 1..n \subseteq DOMAIN remote
BY ListLength

\* A sequence has the places up to its length.
LEMMA SeqDomain == ASSUME NEW S, NEW s \in Seq(S) PROVE DOMAIN s = 1..Len(s)
OBVIOUS

\* What is appended to a sequence stands behind all the others.
LEMMA Appended ==
    ASSUME NEW S, NEW s \in Seq(S), NEW e \in S
    PROVE LET t == Append(s, e) IN
          /\ t \in Seq(S) /\ Len(t) = Len(s) + 1
          /\ \A k \in 1..Len(s) : t[k] = s[k]
          /\ t[Len(s) + 1] = e
          /\ DOMAIN s = 1..Len(s)
          /\ DOMAIN t = (DOMAIN s) \cup {Len(s) + 1}
OBVIOUS

\* No model at all is a sequence of any kind of models.
LEMMA EmptyList == ASSUME NEW S PROVE <<>> \in Seq(S) /\ Len(<<>>) = 0 /\ DOMAIN <<>> = {}
OBVIOUS

\* Items that count are finitely many, and each has its place among those up to n.
LEMMA Places ==
    ASSUME NEW remote, IsList(remote), NEW n, n \in 0..Len(remote)
    PROVE /\ IsFiniteSet(FirstsUpTo(remote, n))
          /\ Cardinality(FirstsUpTo(remote, n)) \in Nat
          /\ \A i \in FirstsUpTo(remote, n) :
                Place(remote, i) \in 1..Cardinality(FirstsUpTo(remote, n))
<1> DEFINE max == Len(remote)
<1>1. max \in Nat /\ n \in 0..max BY ListLength
<1>2. Firsts(remote) \subseteq 1..max BY ListLength, FirstsFacts
<1> HIDE DEF max
<1>3. ASSUME NEW m, m \in 0..max
      PROVE /\ IsFiniteSet(FirstsUpTo(remote, m))
            /\ Cardinality(FirstsUpTo(remote, m)) \in Nat
  <2>1. IsFiniteSet(1..max) BY <1>1, FS_Interval
  <2>2. FirstsUpTo(remote, m) \in SUBSET (1..max) BY <1>2 DEF FirstsUpTo
  <2>3. IsFiniteSet(FirstsUpTo(remote, m)) BY <2>1, <2>2, FS_Subset
  <2> QED BY <2>3, FS_CardinalityType
<1>4. ASSUME NEW i, i \in FirstsUpTo(remote, n)
      PROVE Place(remote, i) \in 1..Cardinality(FirstsUpTo(remote, n))
  <2>1. i \in 1..max /\ i <= n /\ i \in Firsts(remote) BY <1>2, <1>4 DEF FirstsUpTo
  <2>2. Place(remote, i) = Cardinality(FirstsUpTo(remote, i))
        BY DEF Place, FirstsUpTo
  <2>3. FirstsUpTo(remote, i) \in SUBSET FirstsUpTo(remote, n)
        BY <1>1, <1>2, <2>1 DEF FirstsUpTo
  <2>4. i \in FirstsUpTo(remote, i) BY <2>1 DEF FirstsUpTo
  <2>5. i \in 0..max BY <2>1
  <2>6. IsFiniteSet(FirstsUpTo(remote, i)) /\ Cardinality(FirstsUpTo(remote, i)) \in Nat
        BY <1>3, <2>5
  <2>7. Cardinality(FirstsUpTo(remote, i)) # 0 BY <2>4, <2>6, FS_EmptySet
  <2>8. Cardinality(FirstsUpTo(remote, i)) <= Cardinality(FirstsUpTo(remote, n))
        BY <1>1, <1>3, <2>3, FS_Subset
  <2>9. Cardinality(FirstsUpTo(remote, n)) \in Nat BY <1>1, <1>3
  <2> QED BY <2>2, <2>6, <2>7, <2>8, <2>9
<1> QED BY <1>1, <1>3, <1>4

\* Of some numbers up to n one has none of them before it.
LEMMA FirstSuch ==
    ASSUME NEW n \in Nat, NEW T \in SUBSET (1..n), T # {}
    PROVE \E j \in T : j \in 1..n /\ j <= n /\ \A k \in 1..(j - 1) : k \in 1..n /\ k \notin T
<1>1. T \in SUBSET Nat OBVIOUS
<1>2. PICK j \in T : \A k \in T : j <= k BY <1>1, LeastElement
<1>3. j \in 1..n OBVIOUS
<1> QED BY <1>2, <1>3

\* Among the first n items with a key, one is the first of that key.
LEMMA FirstOfKey ==
    ASSUME NEW remote, IsList(remote), NEW n, n \in 0..Len(remote), NEW i, i \in 1..n,
           Key(remote[i]) # ""
    PROVE \E j \in FirstsUpTo(remote, n) : Key(remote[j]) = Key(remote[i])
<1> DEFINE same == {j \in 1..n : Key(remote[j]) = Key(remote[i])}
<1>1. n \in Nat /\ 1..n \subseteq DOMAIN remote BY ListNumbers, Zenon
<1>2. same \in SUBSET (1..n) /\ i \in same BY Zenon
<1>3. PICK j \in same :
        j \in 1..n /\ j <= n /\ \A k \in 1..(j - 1) : k \in 1..n /\ k \notin same
  <2>1. same # {} BY <1>2, Zenon
  <2> HIDE DEF same
  <2> QED BY <1>1, <1>2, <2>1, FirstSuch
<1>4. Key(remote[j]) = Key(remote[i]) BY Zenon
<1>5. \A k \in 1..(j - 1) : Key(remote[k]) # Key(remote[j]) BY <1>3, <1>4, Zenon
<1>6. j \in Firsts(remote) BY <1>1, <1>3, <1>4, <1>5, FirstsFacts, Zenon
<1>7. j \in FirstsUpTo(remote, n) BY <1>3, <1>6, Zenon DEF FirstsUpTo
<1> QED BY <1>4, <1>7, Zenon

\* The next item is the only one that may be among the first n + 1 and not the first n.
LEMMA NextFirst ==
    ASSUME NEW remote, IsList(remote), NEW n, n \in 0..(Len(remote) - 1)
    PROVE /\ n + 1 \in Firsts(remote) =>
               FirstsUpTo(remote, n + 1) = FirstsUpTo(remote, n) \cup {n + 1}
          /\ n + 1 \notin Firsts(remote) =>
               FirstsUpTo(remote, n + 1) = FirstsUpTo(remote, n)
          /\ n + 1 \notin FirstsUpTo(remote, n)
          /\ n \in 0..Len(remote) /\ n + 1 \in 0..Len(remote) /\ n + 1 \in DOMAIN remote
          /\ \A i \in FirstsUpTo(remote, n) : i \in 1..((n + 1) - 1)
          /\ 1..((n + 1) - 1) = 1..n
<1> DEFINE max == Len(remote)
<1>1. max \in Nat /\ n \in 0..(max - 1) /\ DOMAIN remote = 1..max BY ListLength
<1>2. Firsts(remote) \subseteq 1..max BY <1>1, FirstsFacts
<1> HIDE DEF max
<1>3. \A i \in Firsts(remote) : i <= n + 1 <=> i <= n \/ i = n + 1 BY <1>1, <1>2
<1>4. FirstsUpTo(remote, n + 1) =
        {i \in Firsts(remote) : i <= n \/ i = n + 1} BY <1>3 DEF FirstsUpTo
<1>5. ~(n + 1 <= n) BY <1>1
<1>6. n \in 0..max /\ n + 1 \in 0..max /\ n + 1 \in DOMAIN remote BY <1>1
<1>7. \A i \in FirstsUpTo(remote, n) : i \in 1..((n + 1) - 1)
      BY <1>1, <1>2 DEF FirstsUpTo
<1>8. 1..((n + 1) - 1) = 1..n BY <1>1
<1> QED BY <1>4, <1>5, <1>6, <1>7, <1>8 DEF FirstsUpTo, max

\* An item that is passed over does not count: it has no ID, or a model already.
LEMMA PassedOver ==
    ASSUME NEW remote, IsList(remote), NEW n, n \in 0..(Len(remote) - 1),
           MergedUpTo(remote, n),
           LET item == remote[n + 1] IN
           Key(item) = "" \/ Seen(MergedSoFar(remote)[n], item)
    PROVE n + 1 \notin Firsts(remote)
<1> DEFINE item == remote[n + 1]
           models == MergedSoFar(remote)[n]
<1>1. CASE Key(item) = "" BY <1>1, FirstsFacts
<1>2. CASE Seen(models, item)
  <2>1. PICK k \in DOMAIN models : Lower(models[k].id) = Key(item) BY <1>2, Zenon DEF Seen
  <2>2. PICK i \in FirstsUpTo(remote, n) : models[k] = Listed(remote[i])
        BY Zenon DEF MergedUpTo
  <2>3. Key(remote[i]) = Key(item) BY <2>1, <2>2, ListedId, Zenon DEF Key
  <2>4. i \in 1..((n + 1) - 1) BY NextFirst, Zenon
  <2> QED BY <2>3, <2>4, FirstsFacts, Zenon
<1> QED BY <1>1, <1>2

\* An item that is taken counts: no model of its key is among those made so far.
LEMMA TakenCounts ==
    ASSUME NEW remote, IsList(remote), NEW n, n \in 0..(Len(remote) - 1),
           MergedUpTo(remote, n),
           LET item == remote[n + 1] IN
           Key(item) # "" /\ ~Seen(MergedSoFar(remote)[n], item)
    PROVE n + 1 \in Firsts(remote)
<1> DEFINE item == remote[n + 1]
           models == MergedSoFar(remote)[n]
<1>1. n \in 0..Len(remote) /\ n + 1 \in DOMAIN remote BY NextFirst
<1>2. ASSUME NEW k, k \in 1..n, Key(remote[k]) = Key(item) PROVE FALSE
  <2>1. Key(remote[k]) # "" BY <1>2, Zenon
  <2>a. \E j \in FirstsUpTo(remote, n) : Key(remote[j]) = Key(remote[k])
        BY <1>1, <1>2, <2>1, FirstOfKey, Zenon
  <2>2. PICK j \in FirstsUpTo(remote, n) : Key(remote[j]) = Key(item)
        BY <1>2, <2>a, Zenon
  <2>3. models[Place(remote, j)] = Listed(remote[j]) BY Zenon DEF MergedUpTo
  <2>4. Place(remote, j) \in 1..Cardinality(FirstsUpTo(remote, n)) BY <1>1, Places, Zenon
  <2>5. DOMAIN models = 1..Len(models) BY SeqDomain, Zenon DEF MergedUpTo
  <2>6. Place(remote, j) \in DOMAIN models BY <2>4, <2>5, Zenon DEF MergedUpTo
  <2>7. Lower(models[Place(remote, j)].id) = Key(item)
        BY <2>2, <2>3, ListedId, Zenon DEF Key
  <2> QED BY <2>6, <2>7, Zenon DEF Seen
<1>3. \A k \in 1..((n + 1) - 1) : Key(remote[k]) # Key(item) BY <1>2, NextFirst, Zenon
<1> QED BY <1>1, <1>3, FirstsFacts, Zenon

\* One more item, and the answer is right for it too.
LEMMA OneMoreItem ==
    ASSUME NEW remote, IsList(remote), NEW n, n \in 0..(Len(remote) - 1),
           MergedUpTo(remote, n)
    PROVE MergedUpTo(remote, n + 1)
<1> DEFINE item == remote[n + 1]
           models == MergedSoFar(remote)[n]
           later == MergedSoFar(remote)[n + 1]
           All == {Listed(remote[i]) : i \in DOMAIN remote}
<1>1. /\ n \in 0..Len(remote) /\ n + 1 \in 0..Len(remote)
      /\ n + 1 \in DOMAIN remote /\ Listed(item) \in All
      BY NextFirst, Zenon
<1>2. later = AddListed(models, item)
  <2>1. Len(remote) \in Nat BY ListLength
  <2>2. later = IF n + 1 = 0 THEN <<>>
                ELSE AddListed(MergedSoFar(remote)[(n + 1) - 1], remote[n + 1])
        BY <1>1, <2>1, MergedEquation, Zenon
  <2>3. n + 1 # 0 /\ (n + 1) - 1 = n BY <2>1
  <2> QED BY <2>2, <2>3, Zenon
<1>3. /\ models \in Seq(All)
      /\ Len(models) = Cardinality(FirstsUpTo(remote, n))
      /\ \A i \in FirstsUpTo(remote, n) : models[Place(remote, i)] = Listed(remote[i])
      /\ \A k \in DOMAIN models :
            \E i \in FirstsUpTo(remote, n) : models[k] = Listed(remote[i])
      BY Zenon DEF MergedUpTo
<1>4. CASE Key(item) = "" \/ Seen(models, item)
  <2>1. later = models BY <1>2, <1>4, Zenon DEF AddListed
  <2>2. n + 1 \notin Firsts(remote) BY <1>4, PassedOver, Zenon
  <2>3. FirstsUpTo(remote, n + 1) = FirstsUpTo(remote, n) BY <2>2, NextFirst, Zenon
  <2> QED BY <1>3, <2>1, <2>3, Zenon DEF MergedUpTo
<1>5. CASE Key(item) # "" /\ ~Seen(models, item)
  <2>1. later = Append(models, Listed(item)) BY <1>2, <1>5, Zenon DEF AddListed
  <2>2. n + 1 \in Firsts(remote) BY <1>5, TakenCounts, Zenon
  <2>3. /\ FirstsUpTo(remote, n + 1) = FirstsUpTo(remote, n) \cup {n + 1}
        /\ n + 1 \notin FirstsUpTo(remote, n)
        BY <2>2, NextFirst, Zenon
  <2>4. IsFiniteSet(FirstsUpTo(remote, n)) BY <1>1, Places, Zenon
  <2>5. Cardinality(FirstsUpTo(remote, n + 1)) = Cardinality(FirstsUpTo(remote, n)) + 1
        BY <2>3, <2>4, FS_AddElement
  <2>6. Place(remote, n + 1) = Cardinality(FirstsUpTo(remote, n + 1))
        BY Zenon DEF Place, FirstsUpTo
  <2>7. /\ later \in Seq(All) /\ Len(later) = Len(models) + 1
        /\ \A k \in 1..Len(models) : later[k] = models[k]
        /\ later[Len(models) + 1] = Listed(item)
        /\ DOMAIN models = 1..Len(models)
        /\ DOMAIN later = (DOMAIN models) \cup {Len(models) + 1}
    <3> HIDE DEF later, models, item, All
    <3> QED BY <1>1, <1>3, <2>1, Appended
  <2>8. \A i \in FirstsUpTo(remote, n) : Place(remote, i) \in 1..Len(models)
        BY <1>1, <1>3, Places, Zenon
  <2>9. \A i \in FirstsUpTo(remote, n + 1) : later[Place(remote, i)] = Listed(remote[i])
        BY <1>3, <2>3, <2>5, <2>6, <2>7, <2>8, Zenon
  <2>10. \A k \in DOMAIN later :
            \E i \in FirstsUpTo(remote, n + 1) : later[k] = Listed(remote[i])
    <3>1. ASSUME NEW k, k \in DOMAIN models
          PROVE \E i \in FirstsUpTo(remote, n + 1) : later[k] = Listed(remote[i])
      <4>1. PICK i \in FirstsUpTo(remote, n) : models[k] = Listed(remote[i])
            BY <1>3, <3>1, Zenon
      <4>2. later[k] = models[k] BY <2>7, <3>1, Zenon
      <4> QED BY <2>3, <4>1, <4>2, Zenon
    <3>2. n + 1 \in FirstsUpTo(remote, n + 1) BY <2>3, Zenon
    <3> QED BY <2>7, <3>1, <3>2, Zenon
  <2>11. Len(later) = Cardinality(FirstsUpTo(remote, n + 1)) BY <1>3, <2>5, <2>7, Zenon
  <2> QED BY <2>7, <2>9, <2>10, <2>11, Zenon DEF MergedUpTo
<1> QED BY <1>4, <1>5, Zenon

\* The merge of a list has a model for every item that counts, at its place, and no
\* other.
LEMMA MergeIsRight ==
    ASSUME NEW remote, IsList(remote)
    PROVE LET models == MergeModels(remote) IN
          /\ Len(models) = Cardinality(Firsts(remote))
          /\ \A i \in Firsts(remote) : models[Place(remote, i)] = Listed(remote[i])
<1> DEFINE max == Len(remote)
           S == {n \in 0..max : MergedUpTo(remote, n)}
<1>1. max \in Nat /\ Firsts(remote) \subseteq 1..max BY ListLength, FirstsFacts
<1>2. MergedUpTo(remote, 0)
  <2>1. 0 \in 0..Len(remote) /\ ~(\E i \in 1..max : i <= 0) BY <1>1
  <2>2. MergedSoFar(remote)[0] = <<>> BY <1>1, <2>1, MergedEquation, Zenon
  <2>3. FirstsUpTo(remote, 0) = {} BY <1>1, <2>1, Zenon DEF FirstsUpTo
  <2>4. /\ <<>> \in Seq({Listed(remote[i]) : i \in DOMAIN remote})
        /\ Len(<<>>) = 0 /\ DOMAIN <<>> = {}
        BY EmptyList
  <2>5. Cardinality(FirstsUpTo(remote, 0)) = 0 BY <2>3, FS_EmptySet, Zenon
  <2> QED BY <2>2, <2>3, <2>4, <2>5, Zenon DEF MergedUpTo
<1>3. ASSUME NEW n, n \in 0..(max - 1), n \in S PROVE n + 1 \in S
  <2>1. MergedUpTo(remote, n + 1) BY <1>3, OneMoreItem, Zenon
  <2>2. n + 1 \in 0..max BY <1>3, NextFirst, Zenon
  <2> QED BY <2>1, <2>2, Zenon
<1>4. 0 \in S /\ max \in 0..max
  <2>1. 0 \in 0..max /\ max \in 0..max BY <1>1
  <2> QED BY <1>2, <2>1, Zenon
<1>5. max \in S
  <2> HIDE DEF S, max
  <2> QED BY <1>1, <1>3, <1>4, InductionUpTo
<1>6. MergedUpTo(remote, max) BY <1>5, Zenon
<1>7. FirstsUpTo(remote, max) = Firsts(remote)
  <2> HIDE DEF max
  <2> QED BY <1>1 DEF FirstsUpTo
<1> QED BY <1>6, <1>7, Zenon DEF MergedUpTo, MergeModels

-----------------------------------------------------------------------------
(* What a listed model says                                                *)

\* The catalog's entry for an item, if it has one.
Static(item) == IF Key(item) \in DOMAIN Catalog THEN Catalog[Key(item)] ELSE Unknown

\* What the list leaves open is the catalog's, before anything is named by its ID;
\* only the owner is never left open.
LEMMA WithCatalogSays ==
    ASSUME NEW item
    PROVE LET model == WithCatalog(Discovered(item)) IN
          /\ model.owned_by = FirstOf(item.owned_by, "xAI", "")
          /\ model.name = FirstOf(item.name, Static(item).name, "")
          /\ model.display_name = FirstOf(item.name, Static(item).display_name, "")
          /\ model.context_length =
                FirstOf(FirstOf(item.context_window, item.context_length, 0),
                        Static(item).context_length, 0)
          /\ model.modalities = Static(item).modalities
          /\ model.thinking = Static(item).thinking
<1> DEFINE remote == Discovered(item)
           model == WithCatalog(remote)
           static == Static(item)
<1>1. /\ remote.id = Id(item) /\ remote.name = item.name /\ remote.display_name = item.name
      /\ remote.context_length = FirstOf(item.context_window, item.context_length, 0)
      /\ remote.modalities = Absent /\ remote.thinking = Absent
      /\ remote.owned_by = FirstOf(item.owned_by, "xAI", "")
  <2> DEFINE owner == FirstOf(item.owned_by, "xAI", "")
             context == FirstOf(item.context_window, item.context_length, 0)
  <2>1. remote = [id |-> Id(item), owned_by |-> owner, display_name |-> item.name,
                  name |-> item.name, context_length |-> context,
                  thinking |-> Absent, modalities |-> Absent]
        BY Zenon DEF Discovered
  <2> HIDE DEF owner, context, remote
  <2>2. /\ remote.id = Id(item) /\ remote.name = item.name
        /\ remote.display_name = item.name /\ remote.context_length = context
        /\ remote.modalities = Absent /\ remote.thinking = Absent
        /\ remote.owned_by = owner
        BY <2>1
  <2> QED BY <2>2, Zenon DEF context, owner
<1> HIDE DEF remote
<1>2. Lower(remote.id) = Key(item) BY <1>1 DEF Key
<1>3. CASE Key(item) \in DOMAIN Catalog
  <2>1. static = Catalog[Key(item)] BY <1>3 DEF Static
  <2>2. ModelFields \subseteq DOMAIN static BY <1>3, <2>1, CatalogFields
  <2>3. model = MergeModelMetadata(static, remote) BY <1>2, <1>3, <2>1 DEF WithCatalog
  <2> HIDE DEF static, model
  <2>4. /\ model.owned_by = FirstOf(remote.owned_by, static.owned_by, "")
        /\ model.name = FirstOf(remote.name, static.name, "")
        /\ model.display_name = FirstOf(remote.display_name, static.display_name, "")
        /\ model.context_length = FirstOf(remote.context_length, static.context_length, 0)
        /\ model.modalities = static.modalities /\ model.thinking = static.thinking
    <3> DEFINE owner == FirstOf(remote.owned_by, static.owned_by, "")
               display == FirstOf(remote.display_name, static.display_name, "")
               name == FirstOf(remote.name, static.name, "")
               context == FirstOf(remote.context_length, static.context_length, 0)
    <3>1. model = [static EXCEPT !.id = remote.id, !.owned_by = owner,
                                 !.display_name = display, !.name = name,
                                 !.context_length = context]
          BY <2>3, Zenon DEF MergeModelMetadata
    <3> HIDE DEF owner, display, name, context
    <3>2. /\ model.owned_by = owner
          /\ model.name = name /\ model.display_name = display
          /\ model.context_length = context
          /\ model.modalities = static.modalities /\ model.thinking = static.thinking
          BY <2>2, <3>1 DEF ModelFields
    <3> QED BY <3>2, Zenon DEF owner, display, name, context
  <2>5. remote.owned_by # "" BY <1>1 DEF FirstOf
  <2>6. model.owned_by = remote.owned_by BY <2>4, <2>5 DEF FirstOf
  <2> QED BY <1>1, <2>4, <2>6 DEF static, model, remote
<1>4. CASE Key(item) \notin DOMAIN Catalog
  <2>1. model = remote BY <1>2, <1>4 DEF WithCatalog
  <2>2. /\ static.name = "" /\ static.display_name = "" /\ static.context_length = 0
        /\ static.modalities = Absent /\ static.thinking = Absent
        BY <1>4 DEF Static, Unknown
  <2> HIDE DEF static, model
  <2>3. \A a, absent : FirstOf(a, absent, absent) = a BY DEF FirstOf
  <2> QED BY <1>1, <2>1, <2>2, <2>3 DEF static, model, remote
<1> QED BY <1>3, <1>4

\* The model of an item says what the item says and, where the item is silent on
\* anything but the owner, what the catalog says.
LEMMA ListedSays ==
    ASSUME NEW item, [zero_allowed |-> FALSE, levels |-> Levels(item)] # Absent
    PROVE Says(item, Listed(item), Static(item))
<1> DEFINE found == WithCatalog(Discovered(item))
           named == Named(found)
           model == Listed(item)
           static == Static(item)
           own == [zero_allowed |-> FALSE, levels |-> Levels(item)]
<1>1. /\ ModelFields \subseteq DOMAIN found /\ found.id = Id(item)
      /\ DOMAIN named = DOMAIN found
      BY WithCatalogFields
<1>2. /\ found.owned_by = FirstOf(item.owned_by, "xAI", "")
      /\ found.name = FirstOf(item.name, static.name, "")
      /\ found.display_name = FirstOf(item.name, static.display_name, "")
      /\ found.context_length =
            FirstOf(FirstOf(item.context_window, item.context_length, 0),
                    static.context_length, 0)
      /\ found.modalities = static.modalities /\ found.thinking = static.thinking
      BY WithCatalogSays
<1>3. named = Named(found) /\ model = [named EXCEPT !.thinking = Thinking(item, named)]
      BY DEF Listed
<1> HIDE DEF found, named, model, static
<1>4. /\ named.name = FirstOf(found.name, found.id, "")
      /\ named.display_name = FirstOf(found.display_name, found.id, "")
      /\ named.context_length = found.context_length
      /\ named.modalities = found.modalities /\ named.thinking = found.thinking
      /\ named.owned_by = found.owned_by
  <2> DEFINE display == FirstOf(found.display_name, found.id, "")
             name == FirstOf(found.name, found.id, "")
  <2>1. named = [found EXCEPT !.display_name = display, !.name = name]
        BY <1>3, Zenon DEF Named
  <2> HIDE DEF display, name
  <2>2. /\ named.name = name /\ named.display_name = display
        /\ named.context_length = found.context_length
        /\ named.modalities = found.modalities /\ named.thinking = found.thinking
        /\ named.owned_by = found.owned_by
        BY <1>1, <2>1 DEF ModelFields
  <2> QED BY <2>2, Zenon DEF display, name
<1>5. /\ model.name = named.name /\ model.display_name = named.display_name
      /\ model.context_length = named.context_length /\ model.modalities = named.modalities
      /\ model.thinking = Thinking(item, named) /\ model.owned_by = named.owned_by
      BY <1>1, <1>3 DEF ModelFields
<1>6. /\ model.name = FirstOf(item.name, FirstOf(static.name, Id(item), ""), "")
      /\ model.display_name = FirstOf(item.name, FirstOf(static.display_name, Id(item), ""), "")
  <2>1. /\ model.name = FirstOf(FirstOf(item.name, static.name, ""), Id(item), "")
        /\ model.display_name = FirstOf(FirstOf(item.name, static.display_name, ""), Id(item), "")
        BY <1>1, <1>2, <1>4, <1>5, Zenon
  <2>2. /\ FirstOf(FirstOf(item.name, static.name, ""), Id(item), "")
           = FirstOf(item.name, FirstOf(static.name, Id(item), ""), "")
        /\ FirstOf(FirstOf(item.name, static.display_name, ""), Id(item), "")
           = FirstOf(item.name, FirstOf(static.display_name, Id(item), ""), "")
        BY Zenon DEF FirstOf
  <2> QED BY <2>1, <2>2, Zenon
<1>7. model.context_length =
        FirstOf(item.context_window, FirstOf(item.context_length, static.context_length, 0), 0)
  <2>1. model.context_length =
          FirstOf(FirstOf(item.context_window, item.context_length, 0),
                  static.context_length, 0)
        BY <1>2, <1>4, <1>5, Zenon
  <2>2. FirstOf(FirstOf(item.context_window, item.context_length, 0),
                static.context_length, 0)
        = FirstOf(item.context_window,
                  FirstOf(item.context_length, static.context_length, 0), 0)
        BY Zenon DEF FirstOf
  <2> QED BY <2>1, <2>2, Zenon
<1>8. model.modalities = static.modalities BY <1>2, <1>4, <1>5
<1>9. own.levels = Levels(item) OBVIOUS
<1>10. model.thinking = IF item.reasons = "no" THEN Absent
                        ELSE IF Levels(item) # <<>> THEN own ELSE static.thinking
       BY <1>2, <1>4, <1>5 DEF Thinking
<1> HIDE DEF own
<1>11. own # Absent BY DEF own
<1>12. /\ (model.thinking = Absent) = (item.reasons = "no"
                                         \/ (Levels(item) = <<>> /\ static.thinking = Absent))
       /\ model.thinking # Absent =>
             model.thinking.levels = IF Levels(item) = <<>> THEN static.thinking.levels
                                     ELSE Levels(item)
       BY <1>9, <1>10, <1>11
<1>13. model.owned_by = FirstOf(item.owned_by, "xAI", "") BY <1>2, <1>4, <1>5, Zenon
<1> QED BY <1>6, <1>7, <1>8, <1>12, <1>13 DEF Says, model, static

-----------------------------------------------------------------------------
(* What the host is handed                                                 *)

\* Every list of models at the host is the merge of a list that upstream sent, and no
\* item of it is read as naming a thinking that is nil.
ListingInv == \A t \in Threads :
    Has(t, "models") =>
        LET reply == call[t].reply IN
        /\ IsList(reply.remote)
        /\ \A i \in DOMAIN reply.remote :
              [zero_allowed |-> FALSE, levels |-> Levels(reply.remote[i])] # Absent
        /\ reply.models = MergeModels(reply.remote)

\* A reply that, if it lists models, lists them so.
Merged(reply) ==
    "models" \in DOMAIN reply =>
        /\ IsList(reply.remote)
        /\ \A i \in DOMAIN reply.remote :
              [zero_allowed |-> FALSE, levels |-> Levels(reply.remote[i])] # Absent
        /\ reply.models = MergeModels(reply.remote)

\* Nothing is merged to nothing.
LEMMA MergeOfNone == IsList(<<>>) /\ MergeModels(<<>>) = <<>>
<1>1. IsList(<<>>) BY EmptyList, Zenon DEF IsList
<1>2. Len(<<>>) = 0 /\ Len(<<>>) \in Nat /\ 0 \in 0..0 BY EmptyList
<1>3. MergedSoFar(<<>>)[0] = <<>> BY <1>2, MergedEquation, Zenon
<1> QED BY <1>1, <1>2, <1>3, Zenon DEF MergeModels

\* What upstream answered, merged.
LEMMA AnswerMerged ==
    ASSUME NEW payload \in Payloads, Listing(payload) # Absent
    PROVE LET remote == Listing(payload) IN
          Merged([ok |-> TRUE, remote |-> remote, models |-> MergeModels(remote)])
<1> DEFINE remote == Listing(payload)
           reply == [ok |-> TRUE, remote |-> remote, models |-> MergeModels(remote)]
<1>1. remote \in {payload.data, payload.models} \ {Absent} BY DEF Listing
<1>2. /\ IsList(remote)
      /\ \A i \in DOMAIN remote :
            [zero_allowed |-> FALSE, levels |-> Levels(remote[i])] # Absent
      BY <1>1, PayloadsAssumption, Zenon
<1> HIDE DEF remote
<1>3. reply.remote = remote /\ reply.models = MergeModels(remote) OBVIOUS
<1> HIDE DEF reply
<1> QED BY <1>2, <1>3, Zenon DEF Merged, reply, remote

\* The answers of the other handlers list no models.
LEMMA OthersList ==
    /\ Merged(Error) /\ Merged([ok |-> TRUE])
    /\ \A prefix : Merged([ok |-> TRUE, prefix |-> prefix])
    /\ \A endpoint : Merged([ok |-> TRUE, token_endpoint |-> endpoint])
<1>1. \A reply : "models" \notin DOMAIN reply => Merged(reply) BY Zenon DEF Merged
<1>2. "models" \notin DOMAIN Error /\ "models" \notin DOMAIN [ok |-> TRUE] BY DEF Error
<1>3. /\ \A prefix : "models" \notin DOMAIN [ok |-> TRUE, prefix |-> prefix]
      /\ \A endpoint : "models" \notin DOMAIN [ok |-> TRUE, token_endpoint |-> endpoint]
      OBVIOUS
<1> QED BY <1>1, <1>2, <1>3, Zenon

\* A step that hands over a merged reply, or none, keeps the invariant.
LEMMA GoListing ==
    ASSUME ListingInv, call \in [Threads -> Calls], NEW t \in Threads, NEW c,
           call' = [call EXCEPT ![t] = c], c.pc = "replied" => Merged(c.reply)
    PROVE ListingInv'
<1>1. call'[t] = c /\ \A u \in Threads : u # t => call'[u] = call[u] OBVIOUS
<1> SUFFICES ASSUME NEW u \in Threads, Has(u, "models")'
             PROVE Merged(call'[u].reply)
    BY Zenon DEF ListingInv, Merged, Has
<1>2. CASE u = t BY <1>1, <1>2, Zenon DEF Has, At
<1>3. CASE u # t
  <2>1. call'[u] = call[u] /\ Has(u, "models") BY <1>1, <1>3, Zenon DEF Has, At
  <2> QED BY <2>1, Zenon DEF ListingInv, Merged
<1> QED BY <1>2, <1>3

\* Calls that end, with an answer that lists no models or a merged list.
LEMMA RespondListing ==
    ASSUME ListingInv, call \in [Threads -> Calls], NEW t \in Threads, NEW d, NEW reply,
           Merged(reply), Go(t, Replied(d, reply))
    PROVE ListingInv'
<1> DEFINE c == Replied(d, reply)
<1>1. c.reply = reply BY DEF Replied, Idle
<1>2. call' = [call EXCEPT ![t] = c] BY Zenon DEF Go
<1> HIDE DEF c
<1> QED BY <1>1, <1>2, GoListing, Zenon

\* Calls that begin, go on or are over: nothing is at the host.
LEMMA GoingOn ==
    ASSUME ListingInv, call \in [Threads -> Calls], NEW t \in Threads, NEW c,
           Go(t, c), c.pc \in Points \ {"replied"}
    PROVE ListingInv'
<1>1. call' = [call EXCEPT ![t] = c] /\ c.pc # "replied" BY Zenon DEF Go
<1> QED BY <1>1, GoListing, Zenon

\* The calls that begin or wait for upstream.
LEMMA WaitingListing ==
    ASSUME ListingInv, call \in [Threads -> Calls], NEW t \in Threads,
           \/ HostFree(t) \/ LoginStart(t) \/ LoginPoll(t) \/ Refresh(t)
           \/ ModelsForAuth(t) \/ TokenAnswer(t)
    PROVE ListingInv'
<1>1. CASE HostFree(t)
  <2>1. Idle.pc \in Points \ {"replied"} BY IdleCall DEF Points
  <2>2. Go(t, Idle) BY <1>1, Zenon DEF HostFree
  <2> QED BY <2>1, <2>2, GoingOn, Zenon
<1>2. CASE LoginStart(t) \/ LoginPoll(t) \/ Refresh(t) \/ ModelsForAuth(t)
  <2>1. PICK method \in {"login", "poll", "refresh", "models"},
             pc \in {"discover", "token", "models"} : Go(t, Enter(method, pc))
        BY <1>2 DEF LoginStart, LoginPoll, Refresh, ModelsForAuth
  <2>2. /\ method \in {"reconfigure", "parse", "login", "poll", "refresh", "models"}
        /\ pc \in Points \ {"replied"}
        BY DEF Points, Requests
  <2>3. Enter(method, pc).pc \in Points \ {"replied"}
    <3>1. pc \in Points BY <2>2
    <3>2. Enter(method, pc).pc = pc BY <2>2, <3>1, EnterCall
    <3> QED BY <2>2, <3>2, Zenon
  <2> QED BY <2>1, <2>3, GoingOn, Zenon
<1>3. CASE TokenAnswer(t)
  <2>1. call[t] \in Calls OBVIOUS
  <2>2. Build(call[t]).pc \in Points \ {"replied"} BY <2>1 DEF Build, Calls, Points
  <2>3. Go(t, Build(call[t])) BY <1>3, Zenon DEF TokenAnswer
  <2> QED BY <2>2, <2>3, GoingOn, Zenon
<1> QED BY <1>1, <1>2, <1>3

\* The calls that end without a list.
LEMMA PlainListing ==
    ASSUME ListingInv, call \in [Threads -> Calls], NEW t \in Threads,
           \/ AnswerAtOnce(t) \/ RequestFail(t) \/ Timeout(t) \/ DeviceAnswer(t)
    PROVE ListingInv'
<1>1. ASSUME NEW reply, Merged(reply), Respond(t, reply) PROVE ListingInv'
  <2>1. Go(t, Replied(call[t], reply)) BY <1>1 DEF Respond, Go
  <2> QED BY <1>1, <2>1, RespondListing, Zenon
<1>2. CASE Respond(t, Error) BY <1>1, <1>2, OthersList, Zenon
<1>3. CASE Respond(t, [ok |-> TRUE]) BY <1>1, <1>3, OthersList, Zenon
<1>4. CASE Respond(t, [ok |-> TRUE, token_endpoint |-> call[t].doc.token])
      BY <1>1, <1>4, OthersList, Zenon
<1>5. \/ Respond(t, Error) \/ Respond(t, [ok |-> TRUE])
      \/ Respond(t, [ok |-> TRUE, token_endpoint |-> call[t].doc.token])
      BY DEF AnswerAtOnce, RequestFail, Timeout, DeviceAnswer
<1> QED BY <1>2, <1>3, <1>4, <1>5

\* A file is parsed, or a word of the prefix read.
LEMMA PrefixListing ==
    ASSUME ListingInv, call \in [Threads -> Calls], NEW t \in Threads,
           Parse(t) \/ ReadWord(t)
    PROVE ListingInv'
<1>1. CASE Parse(t)
  <2>1. PICK own \in Prefixes :
          LET c == [Enter("parse", "build") EXCEPT !.prefix = own] IN
          Go(t, IF own = "" THEN Build(c) ELSE Replied(c, [ok |-> TRUE, prefix |-> own]))
        BY <1>1 DEF Parse
  <2> DEFINE c == [Enter("parse", "build") EXCEPT !.prefix = own]
  <2>2. c \in Calls
    <3>1. Enter("parse", "build") \in Calls BY EnterCall DEF Points
    <3> QED BY <3>1 DEF Calls
  <2>3. Go(t, Build(c)) \/ Go(t, Replied(c, [ok |-> TRUE, prefix |-> own])) BY <2>1
  <2> HIDE DEF c
  <2>4. Build(c).pc \in Points \ {"replied"} BY <2>2 DEF Build, Calls, Points
  <2>5. Merged([ok |-> TRUE, prefix |-> own]) BY OthersList, Zenon
  <2>6. CASE Go(t, Build(c)) BY <2>4, <2>6, GoingOn, Zenon
  <2>7. CASE Go(t, Replied(c, [ok |-> TRUE, prefix |-> own]))
        BY <2>5, <2>7, RespondListing, Zenon
  <2> QED BY <2>3, <2>6, <2>7
<1>2. CASE ReadWord(t)
  <2> DEFINE c == call[t]
  <2>1. c \in Calls /\ c.pc = "build" BY <1>2 DEF ReadWord
  <2>2. PICK w \in c.words :
          LET seen == [c.seen EXCEPT ![w] = pluginPrefix[w]] IN
          Go(t, IF c.words = {w} THEN Replied(c, [ok |-> TRUE, prefix |-> StringOf(seen)])
                ELSE [c EXCEPT !.seen = seen, !.words = @ \ {w}])
        BY <1>2 DEF ReadWord
  <2> DEFINE seen == [c.seen EXCEPT ![w] = pluginPrefix[w]]
             d == [c EXCEPT !.seen = seen, !.words = @ \ {w}]
  <2>3. Go(t, Replied(c, [ok |-> TRUE, prefix |-> StringOf(seen)])) \/ Go(t, d) BY <2>2
  <2>4. d.pc \in Points \ {"replied"}
    <3> HIDE DEF seen
    <3> QED BY <2>1 DEF Calls, Points
  <2> HIDE DEF c, seen, d
  <2>5. Merged([ok |-> TRUE, prefix |-> StringOf(seen)]) BY OthersList, Zenon
  <2>6. CASE Go(t, d) BY <2>4, <2>6, GoingOn, Zenon
  <2>7. CASE Go(t, Replied(c, [ok |-> TRUE, prefix |-> StringOf(seen)]))
        BY <2>5, <2>7, RespondListing, Zenon
  <2> QED BY <2>3, <2>6, <2>7
<1> QED BY <1>1, <1>2

\* An endpoint is discovered, or refused.
LEMMA DiscoverListing ==
    ASSUME ListingInv, call \in [Threads -> Calls], NEW t \in Threads, DiscoverAnswer(t)
    PROVE ListingInv'
<1>1. PICK doc \in Documents :
        IF ~Valid(doc) THEN Respond(t, Error)
        ELSE Go(t, [call[t] EXCEPT
                      !.doc = doc,
                      !.pc = IF call[t].method = "login" THEN "device" ELSE "token"])
      BY DEF DiscoverAnswer
<1> DEFINE c == [call[t] EXCEPT
                   !.doc = doc,
                   !.pc = IF call[t].method = "login" THEN "device" ELSE "token"]
<1>2. Go(t, Replied(call[t], Error)) \/ Go(t, c) BY <1>1 DEF Respond, Go
<1>3. c.pc \in Points \ {"replied"}
  <2>1. call[t] \in Calls OBVIOUS
  <2> QED BY <2>1 DEF Calls, Points, Requests
<1> HIDE DEF c
<1>4. CASE Go(t, c) BY <1>3, <1>4, GoingOn, Zenon
<1>5. CASE Go(t, Replied(call[t], Error)) BY <1>5, OthersList, RespondListing, Zenon
<1> QED BY <1>2, <1>4, <1>5

\* A reconfigure begins: the other calls keep their points and their replies.
LEMMA ReconfigureListing ==
    ASSUME ListingInv, call \in [Threads -> Calls], NEW t \in Threads, Reconfigure(t)
    PROVE ListingInv'
<1>1. PICK block \in Blocks :
        call' = [u \in Threads |->
            IF u = t
            THEN [Enter("reconfigure", "config") EXCEPT !.prefix = YamlScalar(block),
                                                        !.words = Words]
            ELSE [call[u] EXCEPT !.calm = @ /\ ~At(u, "build") /\ ~Has(u, "prefix")]]
      BY DEF Reconfigure
<1>2. call'[t].pc = "config"
  <2>1. /\ Enter("reconfigure", "config") \in Calls
        /\ Enter("reconfigure", "config").pc = "config"
        BY EnterCall DEF Points
  <2>2. call'[t] = [Enter("reconfigure", "config") EXCEPT !.prefix = YamlScalar(block),
                                                          !.words = Words]
        BY <1>1
  <2> QED BY <2>1, <2>2 DEF Calls
<1>3. ASSUME NEW u \in Threads, u # t
      PROVE call'[u].pc = call[u].pc /\ call'[u].reply = call[u].reply
  <2> DEFINE calm == call[u].calm /\ ~At(u, "build") /\ ~Has(u, "prefix")
  <2>1. call'[u] = [call[u] EXCEPT !.calm = calm] BY <1>1, <1>3
  <2>2. call[u] \in Calls OBVIOUS
  <2> HIDE DEF calm
  <2> QED BY <2>1, <2>2 DEF Calls
<1> SUFFICES ASSUME NEW u \in Threads, Has(u, "models")'
             PROVE Merged(call'[u].reply)
    BY Zenon DEF ListingInv, Merged, Has
<1>4. u # t
  <2>1. call'[u].pc = "replied" BY Zenon DEF Has, At
  <2> QED BY <1>2, <2>1
<1>5. Has(u, "models") /\ call'[u].reply = call[u].reply BY <1>3, <1>4, Zenon DEF Has, At
<1> QED BY <1>5, Zenon DEF ListingInv, Merged

\* A word of the prefix is stored.
LEMMA StoreListing ==
    ASSUME ListingInv, call \in [Threads -> Calls], NEW t \in Threads, StoreWord(t)
    PROVE ListingInv'
<1>1. call[t] \in Calls /\ call[t].pc = "config" BY DEF StoreWord
<1>2. PICK w \in call[t].words :
        call' = [call EXCEPT ![t] = IF call[t].words = {w}
                                    THEN Replied(call[t], [ok |-> TRUE])
                                    ELSE [call[t] EXCEPT !.words = @ \ {w}]]
      BY DEF StoreWord
<1> DEFINE c == Replied(call[t], [ok |-> TRUE])
           d == [call[t] EXCEPT !.words = @ \ {w}]
<1>3. c.reply = [ok |-> TRUE] BY DEF Replied, Idle
<1>4. d.pc # "replied" BY <1>1 DEF Calls
<1>5. call' = [call EXCEPT ![t] = c] \/ call' = [call EXCEPT ![t] = d] BY <1>2
<1> HIDE DEF c, d
<1>6. CASE call' = [call EXCEPT ![t] = c] BY <1>3, <1>6, OthersList, GoListing, Zenon
<1>7. CASE call' = [call EXCEPT ![t] = d] BY <1>4, <1>7, GoListing, Zenon
<1> QED BY <1>5, <1>6, <1>7

\* The lists: none for the static question, and the merge of what upstream sent.
LEMMA ModelsListing ==
    ASSUME ListingInv, call \in [Threads -> Calls], NEW t \in Threads,
           StaticModels(t) \/ ModelsAnswer(t)
    PROVE ListingInv'
<1>1. ASSUME NEW reply, Merged(reply), Respond(t, reply) PROVE ListingInv'
  <2>1. Go(t, Replied(call[t], reply)) BY <1>1 DEF Respond, Go
  <2> QED BY <1>1, <2>1, RespondListing, Zenon
<1>2. CASE StaticModels(t)
  <2> DEFINE reply == [ok |-> TRUE, remote |-> <<>>, models |-> <<>>]
  <2>1. reply.remote = <<>> /\ reply.models = <<>> OBVIOUS
  <2>2. Respond(t, reply) BY <1>2, Zenon DEF StaticModels
  <2> HIDE DEF reply
  <2>3. \A i \in DOMAIN <<>> :
          [zero_allowed |-> FALSE, levels |-> Levels(<<>>[i])] # Absent
    <3>1. DOMAIN <<>> = {} BY EmptyList
    <3> QED BY <3>1, Zenon
  <2>4. Merged(reply) BY <2>1, <2>3, MergeOfNone, Zenon DEF Merged
  <2> QED BY <1>1, <2>2, <2>4, Zenon
<1>3. CASE ModelsAnswer(t)
  <2>1. PICK payload \in Payloads :
          LET remote == Listing(payload) IN
          Respond(t, IF remote = Absent THEN Error
                     ELSE [ok |-> TRUE, remote |-> remote, models |-> MergeModels(remote)])
        BY <1>3, Zenon DEF ModelsAnswer
  <2>2. CASE Listing(payload) = Absent BY <1>1, <2>1, <2>2, OthersList, Zenon
  <2>3. CASE Listing(payload) # Absent BY <1>1, <2>1, <2>3, AnswerMerged, Zenon
  <2> QED BY <2>2, <2>3
<1> QED BY <1>2, <1>3

\* Every list at the host is a merge.
THEOREM ListingInvariant == Spec => []ListingInv
<1>1. Init => ListingInv
  <2> SUFFICES ASSUME Init, NEW t \in Threads, Has(t, "models") PROVE FALSE
      BY Zenon DEF ListingInv
  <2>1. call[t].pc = "idle" BY IdleCall DEF Init
  <2> QED BY <2>1 DEF Has, At
<1>2. CallsInv /\ ListingInv /\ [Next]_vars => ListingInv'
  <2> SUFFICES ASSUME CallsInv, ListingInv, [Next]_vars PROVE ListingInv' OBVIOUS
  <2>1. call \in [Threads -> Calls] BY DEF CallsInv, TypeInv
  <2>2. CASE UNCHANGED vars BY <2>2, Zenon DEF vars, ListingInv, Has, At
  <2>3. CASE Next
    <3>1. PICK t \in Threads : Step(t) BY <2>3 DEF Next
    <3> QED BY <2>1, <3>1, WaitingListing, PlainListing, PrefixListing, DiscoverListing,
               ReconfigureListing, StoreListing, ModelsListing DEF Step
  <2> QED BY <2>2, <2>3
<1> QED BY <1>1, <1>2, CallsInvariant, PTL DEF Spec

\* The models of an account are those its list names, each once, under the ID that came
\* first and in the list's order.
THEOREM ListingFaithful == Spec => []FirstListingWins
<1>1. ListingInv => FirstListingWins
  <2> SUFFICES ASSUME ListingInv, NEW t \in Threads, Has(t, "models")
               PROVE LET remote == call[t].reply.remote  models == call[t].reply.models IN
                     /\ Len(models) = Cardinality(Firsts(remote))
                     /\ \A i \in Firsts(remote) :
                          models[Place(remote, i)].id = Id(remote[i])
      BY Zenon DEF FirstListingWins
  <2>1. /\ IsList(call[t].reply.remote)
        /\ call[t].reply.models = MergeModels(call[t].reply.remote)
        BY Zenon DEF ListingInv
  <2> QED BY <2>1, MergeIsRight, ListedId, Zenon
<1> QED BY <1>1, ListingInvariant, PTL

\* The catalog says of a model only what the list leaves open, and nothing of its owner.
THEOREM GapsFilled == Spec => []CatalogFillsGaps
<1>1. ListingInv => CatalogFillsGaps
  <2> SUFFICES ASSUME ListingInv, NEW t \in Threads, Has(t, "models"),
                      NEW i \in Firsts(call[t].reply.remote)
               PROVE LET remote == call[t].reply.remote IN
                     Says(remote[i], call[t].reply.models[Place(remote, i)],
                          IF Key(remote[i]) \in DOMAIN Catalog THEN Catalog[Key(remote[i])]
                          ELSE Unknown)
      BY Zenon DEF CatalogFillsGaps
  <2> DEFINE remote == call[t].reply.remote
  <2>1. /\ IsList(remote) /\ call[t].reply.models = MergeModels(remote)
        /\ \A j \in DOMAIN remote :
              [zero_allowed |-> FALSE, levels |-> Levels(remote[j])] # Absent
        BY Zenon DEF ListingInv
  <2>2. i \in DOMAIN remote BY FirstsFacts, Zenon
  <2>3. call[t].reply.models[Place(remote, i)] = Listed(remote[i])
        BY <2>1, MergeIsRight, Zenon
  <2>4. Says(remote[i], Listed(remote[i]), Static(remote[i]))
        BY <2>1, <2>2, ListedSays, Zenon
  <2> QED BY <2>3, <2>4, Zenon DEF Static
<1> QED BY <1>1, ListingInvariant, PTL
====
