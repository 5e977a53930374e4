-------------------------- MODULE ProcTreeProofs --------------------------
(***************************************************************************)
(* Proofs about ProcTree for any pids and bounds.                          *)
(***************************************************************************)
EXTENDS ProcTree, FiniteSetTheorems, SequenceTheorems, WellFoundedInduction, TLAPS

-----------------------------------------------------------------------------
(* Numbers: what stands for induction below is the least counterexample.   *)

\* A set of numbers that is not empty has a least one.
LEMMA LeastNat ==
    ASSUME NEW T, T \subseteq Nat, T # {}
    PROVE  \E x \in T : \A y \in T : x <= y
<1> DEFINE R == {ss \in Nat \X Nat : ss[1] < ss[2]}
<1>1. IsWellFoundedOn(R, Nat)
  BY NatLessThanWellFounded DEF OpToRel
<1>2. PICK x \in T : \A y \in T : ~(<<y, x>> \in R)
  <2> HIDE DEF R
  <2> QED
    BY <1>1, WFMin
<1>3. ASSUME NEW y \in T PROVE x <= y
  <2>1. SUFFICES ASSUME y < x PROVE <<y, x>> \in R
    BY <1>2
  <2>2. <<y, x>> \in Nat \X Nat /\ <<y, x>>[1] = y /\ <<y, x>>[2] = x
    OBVIOUS
  <2> QED
    BY <2>1, <2>2, Zenon
<1> QED
  BY <1>3

\* A set of numbers up to m that is not empty has a greatest one.
LEMMA GreatestNat ==
    ASSUME NEW m \in Nat, NEW T, T \subseteq 0 .. m, T # {}
    PROVE  \E x \in T : \A y \in T : y <= x
<1> DEFINE D == {m - y : y \in T}
<1>1. D \subseteq Nat /\ D # {}
  <2>1. \A y \in T : m - y \in Nat
    OBVIOUS
  <2>2. \A y \in T : m - y \in D
    OBVIOUS
  <2> QED
    BY <2>1, <2>2
<1>2. PICK d \in D : \A y \in D : d <= y
  <2> HIDE DEF D
  <2> QED
    BY <1>1, LeastNat
<1>3. PICK x \in T : d = m - x
  BY <1>2
<1>4. ASSUME NEW y \in T PROVE y <= x
  <2>1. m - y \in D
    OBVIOUS
  <2> QED
    BY <1>2, <1>3, <2>1
<1> QED
  BY <1>4

LEMMA NoneIsNoUid == None \notin Uid /\ None \notin Proc
  BY DEF None, Uid, Proc

-----------------------------------------------------------------------------
(* The recursive functions of the model are what their definitions say.    *)

LEMMA UidIsFinite == IsFiniteSet(Uid)
<1>1. IsFiniteSet(1 .. MaxNode)
  BY FS_Interval, BoundsAssumption
<1> QED
  BY <1>1, PidAssumption, FS_Product DEF Uid

LEMMA UidFinite == Cardinality(Uid) \in Nat /\ Cardinality(Pid) \in Nat
  BY UidIsFinite, PidAssumption, FS_CardinalityType

\* The chain of parents exists for every tree, with or without cycles.
LEMMA ChainDef ==
    ASSUME NEW n, NEW u
    PROVE  Chain(n, u) = [k \in 1 .. Cardinality(Uid) |->
                             IF k = 1 THEN u
                             ELSE IF Chain(n, u)[k - 1] = None THEN None
                             ELSE n[Chain(n, u)[k - 1]].par]
<1> DEFINE Next1(v) == IF v = None THEN None ELSE n[v].par
           Ok(m, f) == f = [k \in 1 .. m |-> IF k = 1 THEN u ELSE Next1(f[k - 1])]
           Bad == {m \in Nat : \A f : ~Ok(m, f)}
<1>1. ASSUME Bad # {} PROVE FALSE
  <2>1. PICK m \in Bad : \A y \in Bad : m <= y
    BY <1>1, LeastNat
  <2>2. CASE m = 0
    <3> DEFINE g == [k \in 1 .. 0 |-> u]
    <3>1. Ok(0, g)
      OBVIOUS
    <3> QED
      BY <2>1, <2>2, <3>1
  <2>3. CASE m # 0
    <3>0. m \in Nat
      BY <2>1
    <3>1. m \in Nat /\ m - 1 \in Nat /\ m - 1 \notin Bad
      <4> HIDE DEF Bad
      <4> QED
        BY <2>1, <2>3, <3>0
    <3>2. PICK f : Ok(m - 1, f)
      <4> HIDE DEF Ok
      <4> QED
        BY <3>1
    <3> DEFINE g == [k \in 1 .. m |-> IF k = 1 THEN u ELSE Next1(f[k - 1])]
    <3> HIDE DEF Next1
    <3>3. \A k \in 1 .. m - 1 : f[k] = IF k = 1 THEN u ELSE Next1(f[k - 1])
      <4>1. m - 1 \in Nat
        BY <3>1
      <4> QED
        BY <3>2, <4>1
    <3>a. \A k \in 1 .. m : g[k] = IF k = 1 THEN u ELSE Next1(f[k - 1])
      OBVIOUS
    <3>b. \A k \in 1 .. m - 1 : k \in 1 .. m /\ g[k] = f[k]
      BY <3>1, <3>3, <3>a
    <3>4. \A k \in 1 .. m : g[k] = IF k = 1 THEN u ELSE Next1(g[k - 1])
      <4> HIDE DEF g
      <4>1. \A k \in 1 .. m : k # 1 => k - 1 \in 1 .. m - 1
        BY <3>1
      <4> QED
        BY <3>a, <3>b, <4>1
    <3>5. Ok(m, g)
      <4> HIDE DEF g
      <4>1. g = [k \in 1 .. m |-> g[k]]
        BY DEF g
      <4> QED
        BY <3>4, <4>1
    <3> QED
      BY <2>1, <3>5
  <2> QED
    BY <2>2, <2>3
<1>2. PICK g : Ok(Cardinality(Uid), g)
  BY <1>1, UidFinite
<1> DEFINE up[k \in 1 .. Cardinality(Uid)] ==
               IF k = 1 THEN u ELSE IF up[k - 1] = None THEN None ELSE n[up[k - 1]].par
<1>3. up = [k \in 1 .. Cardinality(Uid) |->
               IF k = 1 THEN u ELSE IF up[k - 1] = None THEN None ELSE n[up[k - 1]].par]
  BY <1>2
<1>4. Chain(n, u) = up
  BY DEF Chain
<1> HIDE DEF up
<1> QED
  BY <1>3, <1>4

LEMMA ChainAt ==
    ASSUME NEW n, NEW u, NEW k \in 1 .. Cardinality(Uid)
    PROVE  Chain(n, u)[k] = IF k = 1 THEN u
                            ELSE IF Chain(n, u)[k - 1] = None THEN None
                            ELSE n[Chain(n, u)[k - 1]].par
<1> DEFINE c == Chain(n, u)
           step(k1) == IF k1 = 1 THEN u ELSE IF c[k1 - 1] = None THEN None ELSE n[c[k1 - 1]].par
<1>1. c = [k1 \in 1 .. Cardinality(Uid) |-> step(k1)]
  BY ChainDef
<1> HIDE DEF c
<1> QED
  BY <1>1 DEF c

\* Parents of nodes there are, are nodes there are.
Closed(n) == /\ None \notin DOMAIN n
             /\ \A v \in DOMAIN n : n[v].par \in DOMAIN n \cup {None}

\* A chain stays in the tree until it ends, and does not start again.
LEMMA ChainIn ==
    ASSUME NEW n, Closed(n), NEW u \in DOMAIN n, NEW k \in 1 .. Cardinality(Uid)
    PROVE  /\ Chain(n, u)[k] \in DOMAIN n \cup {None}
           /\ Chain(n, u)[k] # None => \A j \in 1 .. k : Chain(n, u)[j] # None
<1> DEFINE c == Chain(n, u)
           Bad == {m \in 1 .. Cardinality(Uid) : ~ /\ c[m] \in DOMAIN n \cup {None}
                                                   /\ c[m] # None => \A j \in 1 .. m : c[j] # None}
<1>0. Cardinality(Uid) \in Nat
  BY UidFinite
<1>1. \A m \in 1 .. Cardinality(Uid) :
          c[m] = IF m = 1 THEN u ELSE IF c[m - 1] = None THEN None ELSE n[c[m - 1]].par
  BY ChainAt
<1> HIDE DEF c
<1>2. ASSUME Bad # {} PROVE FALSE
  <2>0. Bad \subseteq Nat
    BY <1>0
  <2>1. PICK m \in Bad : \A y \in Bad : m <= y
    <3> HIDE DEF Bad
    <3> QED
      BY <1>2, <2>0, LeastNat
  <2>2. m \in 1 .. Cardinality(Uid)
    BY <2>1
  <2>3. CASE m = 1
    <3>1. c[1] = u
      BY <1>1, <2>2, <2>3
    <3> QED
      BY <2>1, <2>3, <3>1
  <2>4. CASE m # 1
    <3>1. m - 1 \in 1 .. Cardinality(Uid) /\ m - 1 \notin Bad
      <4>1. m - 1 \in 1 .. Cardinality(Uid) /\ ~(m <= m - 1)
        BY <1>0, <2>2, <2>4
      <4> HIDE DEF Bad
      <4> QED
        BY <2>1, <4>1
    <3>2. /\ c[m - 1] \in DOMAIN n \cup {None}
          /\ c[m - 1] # None => \A j \in 1 .. m - 1 : c[j] # None
      BY <3>1
    <3>3. c[m] = IF c[m - 1] = None THEN None ELSE n[c[m - 1]].par
      BY <1>1, <2>2, <2>4
    <3>4. c[m] \in DOMAIN n \cup {None}
      BY <3>2, <3>3 DEF Closed
    <3>5. c[m] # None => \A j \in 1 .. m : c[j] # None
      BY <1>0, <2>2, <3>2, <3>3
    <3> QED
      BY <2>1, <3>4, <3>5
  <2> QED
    BY <2>3, <2>4
<1> QED
  BY <1>2 DEF c

\* The lineage of a node is a sequence of nodes that begins with it.
LEMMA LineageSeq ==
    ASSUME NEW n, Closed(n), DOMAIN n \subseteq Uid, NEW u \in DOMAIN n
    PROVE  /\ Lineage(n, u) \in Seq(DOMAIN n) /\ Len(Lineage(n, u)) >= 1
           /\ DOMAIN Lineage(n, u) = 1 .. Len(Lineage(n, u))
           /\ Len(Lineage(n, u)) \in 1 .. Cardinality(Uid)
           /\ Lineage(n, u)[1] = u
           /\ \A k \in 1 .. Len(Lineage(n, u)) : Lineage(n, u)[k] = Chain(n, u)[k]
<1> DEFINE c == Chain(n, u)
           D == {k \in 1 .. Cardinality(Uid) : c[k] # None}
<1>0. Cardinality(Uid) \in Nat /\ Cardinality(Uid) >= 1
  <2>2. Cardinality(Uid) # 0
    BY UidIsFinite, FS_EmptySet
  <2> QED
    BY <2>2, UidFinite
<1>1. c[1] = u
  <2>1. \A k \in 1 .. Cardinality(Uid) :
            c[k] = IF k = 1 THEN u ELSE IF c[k - 1] = None THEN None ELSE n[c[k - 1]].par
    BY ChainAt
  <2> HIDE DEF c
  <2> QED
    BY <1>0, <2>1
<1>2. u # None
  BY DEF Closed
<1>3. PICK m \in D : \A j \in D : j <= m
  <2> HIDE DEF c
  <2>1. 1 \in D /\ D \subseteq 0 .. Cardinality(Uid)
    BY <1>0, <1>1, <1>2
  <2> HIDE DEF D
  <2> QED
    BY <1>0, <2>1, GreatestNat
<1>4. m \in 1 .. Cardinality(Uid) /\ \A j \in 1 .. m : c[j] \in DOMAIN n /\ c[j] # None
  <2>1. m \in 1 .. Cardinality(Uid) /\ c[m] # None
    BY <1>3
  <2>2. \A j \in 1 .. m : j \in 1 .. Cardinality(Uid) /\ c[j] # None
    BY <1>0, <2>1, ChainIn
  <2>3. \A j \in 1 .. m : c[j] \in DOMAIN n \cup {None}
    BY <2>2, ChainIn
  <2> QED
    BY <2>1, <2>2, <2>3
<1>5. D = 1 .. m
  <2>1. \A j \in D : j \in 1 .. m
    BY <1>0, <1>3, <1>4
  <2>2. \A j \in 1 .. m : j \in D
    BY <1>0, <1>4
  <2> HIDE DEF D
  <2> QED
    BY <2>1, <2>2
<1>6. Lineage(n, u) = [k \in 1 .. m |-> c[k]]
  <2>1. Lineage(n, u) = [k \in D |-> c[k]]
    BY DEF Lineage
  <2> HIDE DEF D, c
  <2> QED
    BY <1>5, <2>1
<1> HIDE DEF D, c
<1>7. [k \in 1 .. m |-> c[k]] \in Seq(DOMAIN n) /\ Len([k \in 1 .. m |-> c[k]]) = m
  BY <1>4
<1>8. \A k \in 1 .. m : Lineage(n, u)[k] = c[k]
  BY <1>6
<1> QED
  BY <1>0, <1>1, <1>4, <1>6, <1>7, <1>8 DEF c

\* What Reach chooses exists: evidence reaches u and stops at the end or below the first
\* exempt node.
LEMMA ReachSeq ==
    ASSUME NEW n, Closed(n), DOMAIN n \subseteq Uid, NEW u \in DOMAIN n
    PROVE  Reach(n, u) \in Seq(DOMAIN n)
<1> DEFINE l == Lineage(n, u)
           Stop == {k \in 1 .. Len(l) : k = Len(l) \/ n[l[k + 1]].exempt}
           Good(k) == /\ \A j \in 2 .. k : ~n[l[j]].exempt
                      /\ k = Len(l) \/ n[l[k + 1]].exempt
<1>1. l \in Seq(DOMAIN n) /\ Len(l) \in Nat /\ Len(l) >= 1
  BY LineageSeq
<1> HIDE DEF l
<1>2. PICK m \in Stop : \A y \in Stop : m <= y
  <2>1. Len(l) \in Stop /\ Stop \subseteq Nat
    BY <1>1
  <2> HIDE DEF Stop
  <2> QED
    BY <2>1, LeastNat
<1>3. m \in 1 .. Len(l) /\ (m = Len(l) \/ n[l[m + 1]].exempt)
  BY <1>2
<1>4. \A j \in 2 .. m : ~n[l[j]].exempt
  <2> SUFFICES ASSUME NEW j \in 2 .. m, n[l[j]].exempt PROVE FALSE
    OBVIOUS
  <2>1. j - 1 \in 1 .. Len(l) /\ (j - 1) + 1 = j /\ ~(m <= j - 1)
    BY <1>1, <1>3
  <2>2. j - 1 \in Stop
    BY <2>1
  <2> HIDE DEF Stop
  <2> QED
    BY <1>2, <2>1, <2>2
<1>5. \E k \in 1 .. Len(l) : Good(k)
  BY <1>3, <1>4
<1> DEFINE k == CHOOSE k \in 1 .. Len(l) : Good(k)
<1>6. k \in 1 .. Len(l)
  BY <1>5
<1>7. Reach(n, u) = SubSeq(l, 1, k)
  BY DEF Reach, l
<1> HIDE DEF k
<1> QED
  BY <1>1, <1>6, <1>7

-----------------------------------------------------------------------------
(* The watchlist.                                                          *)

Stepped(n, us, k, S) == UNION {Watching(v, n, us[k]) : v \in S}

\* f are the watchlists there may be after each of the nodes us.
After(f, w, n, us) ==
    /\ f[0] = {w}
    /\ \A k \in 1 .. Len(us) : f[k] = Stepped(n, us, k, f[k - 1])
    /\ WatchingAll(w, n, us) = f[Len(us)]

\* The watchlists after a sequence of nodes are built up one node at a time.
LEMMA WatchingAllDef ==
    ASSUME NEW w, NEW n, NEW R, NEW us \in Seq(R)
    PROVE  \E f : After(f, w, n, us)
<1> DEFINE Ok(m, f) == f = [k \in 0 .. m |-> IF k = 0 THEN {w} ELSE Stepped(n, us, k, f[k - 1])]
           Bad == {m \in Nat : \A f : ~Ok(m, f)}
<1>0. Len(us) \in Nat
  OBVIOUS
<1>1. ASSUME Bad # {} PROVE FALSE
  <2>1. PICK m \in Bad : \A y \in Bad : m <= y
    BY <1>1, LeastNat
  <2>2. CASE m = 0
    <3> DEFINE g == [k \in 0 .. 0 |-> {w}]
    <3>1. Ok(0, g)
      OBVIOUS
    <3> QED
      BY <2>1, <2>2, <3>1
  <2>3. CASE m # 0
    <3>0. m \in Nat
      BY <2>1
    <3>1. m \in Nat /\ m - 1 \in Nat /\ m - 1 \notin Bad
      <4> HIDE DEF Bad
      <4> QED
        BY <2>1, <2>3, <3>0
    <3>2. PICK f : Ok(m - 1, f)
      <4> HIDE DEF Ok
      <4> QED
        BY <3>1
    <3> DEFINE g == [k \in 0 .. m |-> IF k = 0 THEN {w} ELSE Stepped(n, us, k, f[k - 1])]
    <3>3. \A k \in 0 .. m - 1 : f[k] = IF k = 0 THEN {w} ELSE Stepped(n, us, k, f[k - 1])
      <4>1. m - 1 \in Nat
        BY <3>1
      <4> QED
        BY <3>2, <4>1
    <3>a. \A k \in 0 .. m : g[k] = IF k = 0 THEN {w} ELSE Stepped(n, us, k, f[k - 1])
      OBVIOUS
    <3>b. \A k \in 0 .. m - 1 : k \in 0 .. m /\ g[k] = f[k]
      <4> HIDE DEF g, Ok
      <4>1. \A k \in 0 .. m - 1 : k \in 0 .. m
        BY <3>0
      <4> QED
        BY <3>3, <3>a, <4>1
    <3>4. \A k \in 0 .. m : g[k] = IF k = 0 THEN {w} ELSE Stepped(n, us, k, g[k - 1])
      <4> HIDE DEF g
      <4>1. \A k \in 0 .. m : k # 0 => k - 1 \in 0 .. m - 1
        BY <3>1
      <4> QED
        BY <3>a, <3>b, <4>1
    <3>5. Ok(m, g)
      <4> HIDE DEF g
      <4>1. g = [k \in 0 .. m |-> g[k]]
        BY DEF g
      <4> QED
        BY <3>4, <4>1
    <3> QED
      BY <2>1, <3>5
  <2> QED
    BY <2>2, <2>3
<1>2. PICK g : Ok(Len(us), g)
  <2> HIDE DEF Ok
  <2> QED
    BY <1>0, <1>1
<1> DEFINE after[k \in 0 .. Len(us)] ==
               IF k = 0 THEN {w} ELSE UNION {Watching(v, n, us[k]) : v \in after[k - 1]}
<1>3. after = [k \in 0 .. Len(us) |->
                  IF k = 0 THEN {w} ELSE UNION {Watching(v, n, us[k]) : v \in after[k - 1]}]
  BY <1>2 DEF Stepped
<1>4. WatchingAll(w, n, us) = after[Len(us)]
  BY DEF WatchingAll
<1> HIDE DEF after
<1>b. after = [k \in 0 .. Len(us) |-> IF k = 0 THEN {w} ELSE Stepped(n, us, k, after[k - 1])]
  BY <1>3, Zenon DEF Stepped
<1>5. after[0] = {w}
  BY <1>b
<1>6. ASSUME NEW k \in 1 .. Len(us)
      PROVE  after[k] = Stepped(n, us, k, after[k - 1])
  <2>1. k \in 0 .. Len(us) /\ k # 0
    OBVIOUS
  <2> QED
    BY <1>b, <2>1, Zenon
<1> QED
  BY <1>4, <1>5, <1>6, Zenon DEF After

\* What holds of the watchlist before the first node, and is carried by each node to the
\* next, holds after the last: Q[k] are the watchlists it holds of after k nodes.
LEMMA WatchingAllIn ==
    ASSUME NEW w, NEW n, NEW R, NEW us \in Seq(R), NEW Q, w \in Q[0],
           \A k \in 1 .. Len(us) : \A v \in Q[k - 1] : Watching(v, n, us[k]) \subseteq Q[k]
    PROVE  WatchingAll(w, n, us) \subseteq Q[Len(us)]
<1>0. ASSUME NEW k \in 1 .. Len(us), NEW S, S \subseteq Q[k - 1]
      PROVE  Stepped(n, us, k, S) \subseteq Q[k]
  <2> SUFFICES ASSUME NEW x \in Stepped(n, us, k, S) PROVE x \in Q[k]
    OBVIOUS
  <2>1. PICK v \in S : x \in Watching(v, n, us[k])
    BY Zenon DEF Stepped
  <2>2. Watching(v, n, us[k]) \subseteq Q[k]
    BY <1>0, Zenon
  <2> QED
    BY <2>1, <2>2
<1>a. PICK f : After(f, w, n, us)
  BY WatchingAllDef, Zenon
<1>1. /\ f[0] = {w}
      /\ \A k \in 1 .. Len(us) : f[k] = Stepped(n, us, k, f[k - 1])
      /\ WatchingAll(w, n, us) = f[Len(us)]
  BY <1>a, Zenon DEF After
<1> DEFINE Bad == {k \in 0 .. Len(us) : ~(f[k] \subseteq Q[k])}
<1>3. ASSUME Bad # {} PROVE FALSE
  <2>0. Bad \subseteq Nat
    OBVIOUS
  <2>1. PICK m \in Bad : \A y \in Bad : m <= y
    <3> HIDE DEF Bad
    <3> QED
      BY <1>3, <2>0, LeastNat
  <2>2. m \in 0 .. Len(us) /\ ~(f[m] \subseteq Q[m])
    BY <2>1
  <2>3. m # 0
    BY <1>1, <2>2
  <2>4. m \in 1 .. Len(us) /\ m - 1 \in 0 .. Len(us) /\ m - 1 \notin Bad
    <3>1. m \in 1 .. Len(us) /\ m - 1 \in 0 .. Len(us) /\ ~(m <= m - 1)
      BY <2>2, <2>3
    <3> HIDE DEF Bad
    <3> QED
      BY <2>1, <3>1
  <2>5. f[m - 1] \subseteq Q[m - 1]
    BY <2>4
  <2>6. f[m] = Stepped(n, us, m, f[m - 1])
    BY <1>1, <2>4
  <2>7. Stepped(n, us, m, f[m - 1]) \subseteq Q[m]
    BY <1>0, <2>4, <2>5
  <2> QED
    BY <2>2, <2>6, <2>7
<1>4. f[Len(us)] \subseteq Q[Len(us)]
  BY <1>3
<1> QED
  BY <1>1, <1>4

-----------------------------------------------------------------------------
(* Trees and what builds them.                                             *)

Typed(n) == DOMAIN n \subseteq Uid /\ n \in [DOMAIN n -> PNode] /\ Closed(n)

Sound(t) ==
    /\ t = [node |-> t.node, roots |-> t.roots, cur |-> t.cur]
    /\ Typed(t.node) /\ t.roots \subseteq DOMAIN t.node /\ t.cur \in [Pid -> 0 .. MaxNode]
    /\ \A p \in Pid : t.cur[p] # 0 => <<p, t.cur[p]>> \in DOMAIN t.node

\* The index leads to a node of the tree, of the pid asked for, or to none.
LEMMA LookupIn ==
    ASSUME NEW t, Sound(t), NEW p
    PROVE  /\ Lookup(t.cur, p) \in DOMAIN t.node \cup {None}
           /\ Lookup(t.cur, p) # None =>
                 /\ p \in Pid /\ Lookup(t.cur, p) = <<p, t.cur[p]>> /\ t.cur[p] # 0
                 /\ Lookup(t.cur, p) \in DOMAIN t.node
<1>1. CASE p \in Pid /\ t.cur[p] # 0
  BY <1>1 DEF Lookup, Sound
<1>2. CASE ~(p \in Pid /\ t.cur[p] # 0)
  BY <1>2 DEF Lookup
<1> QED
  BY <1>1, <1>2

\* create_node's key for a pid is one no node has.
LEMMA FreshFree ==
    ASSUME NEW t, NEW p \in Pid, Free(t, p) # {}
    PROVE  \E i \in 1 .. MaxNode : Fresh(t, p) = <<p, i>> /\ <<p, i>> \notin DOMAIN t.node
                                   /\ <<p, i>> \in Uid
<1>1. Free(t, p) \subseteq Nat
  BY BoundsAssumption DEF Free
<1>2. \E i \in Free(t, p) : \A j \in Free(t, p) : i <= j
  BY <1>1, LeastNat
<1> DEFINE i == CHOOSE i \in Free(t, p) : \A j \in Free(t, p) : i <= j
<1>3. i \in Free(t, p)
  BY <1>2
<1>4. Fresh(t, p) = <<p, i>>
  BY DEF Fresh
<1> HIDE DEF i
<1> QED
  BY <1>3, <1>4 DEF Free, Uid

\* The record of a new node.
Blank(of, par, exempt, supervised) ==
    [of |-> of, par |-> par, dead |-> FALSE, exempt |-> exempt, supervised |-> supervised,
     risk |-> 0, peak |-> 0, badgePeak |-> 0]

\* The tree s is t and one more node, x, which is the latest of p.
Grown(t, s, p, x) ==
    /\ Sound(s) /\ Lookup(s.cur, p) \in Uid \ DOMAIN t.node /\ Lookup(s.cur, p)[1] = p
    /\ DOMAIN s.node = DOMAIN t.node \cup {Lookup(s.cur, p)}
    /\ \A v \in DOMAIN t.node : s.node[v] = t.node[v]
    /\ s.node[Lookup(s.cur, p)] = x
    /\ \A q \in Pid : q # p => Lookup(s.cur, q) = Lookup(t.cur, q)

\* A new node is added beside the others, which stay as they are.
LEMMA AddedSound ==
    ASSUME NEW t, Sound(t), NEW p \in Pid, Free(t, p) # {}, NEW of \in 1 .. MaxInc, NEW ppid,
           NEW exempt \in BOOLEAN, NEW supervised \in BOOLEAN
    PROVE  Grown(t, Added(t, p, of, ppid, exempt, supervised), p,
                 Blank(of, Lookup(t.cur, ppid), exempt, supervised))
<1> DEFINE s == Added(t, p, of, ppid, exempt, supervised)
           par == Lookup(t.cur, ppid)
           u == Fresh(t, p)
           x == Blank(of, par, exempt, supervised)
<1>1. PICK i \in 1 .. MaxNode : u = <<p, i>> /\ <<p, i>> \notin DOMAIN t.node /\ <<p, i>> \in Uid
  BY FreshFree
<1>2. par \in DOMAIN t.node \cup {None}
  BY LookupIn
<1>3. s = [node  |-> With(t.node, u, x),
           roots |-> IF par = None THEN t.roots \cup {u} ELSE t.roots,
           cur   |-> [t.cur EXCEPT ![p] = u[2]]]
  BY DEF Added, Blank
<1> HIDE DEF par, u, x, s
<1>4. x \in PNode
  <2>1. par \in Uid \cup {None}
    BY <1>2 DEF Sound, Typed
  <2>2. 0 \in Level
    BY BoundsAssumption DEF Level
  <2> QED
    BY <2>1, <2>2 DEF x, Blank, PNode
<1>5. s.node = With(t.node, u, x)
  BY <1>3
<1>6. /\ DOMAIN s.node = DOMAIN t.node \cup {u}
      /\ \A v \in DOMAIN t.node : s.node[v] = t.node[v]
      /\ s.node[u] = x
  BY <1>1, <1>5 DEF With
<1>7. s.roots \subseteq DOMAIN s.node
  BY <1>3, <1>6 DEF Sound
<1>8. s.cur = [t.cur EXCEPT ![p] = u[2]] /\ u = <<p, u[2]>> /\ u[2] \in 1 .. MaxNode
  BY <1>1, <1>3
<1>9. s.cur \in [Pid -> 0 .. MaxNode]
  BY <1>8, BoundsAssumption DEF Sound
<1>10. \A q \in Pid : s.cur[q] # 0 => <<q, s.cur[q]>> \in DOMAIN s.node
  BY <1>6, <1>8 DEF Sound
<1>11. Lookup(s.cur, p) = u
  BY <1>8, BoundsAssumption DEF Lookup, Sound
<1>12. Typed(s.node)
  <2>1. DOMAIN s.node \subseteq Uid
    BY <1>1, <1>6 DEF Sound, Typed
  <2>2. \A v \in DOMAIN s.node : s.node[v] \in PNode
    BY <1>4, <1>6 DEF Sound, Typed
  <2>3. s.node \in [DOMAIN s.node -> PNode]
    <3>1. s.node = [v \in DOMAIN s.node |-> s.node[v]]
      BY <1>5 DEF With
    <3> QED
      BY <2>2, <3>1
  <2>4. \A v \in DOMAIN s.node : s.node[v].par \in DOMAIN s.node \cup {None}
    BY <1>2, <1>6 DEF Sound, Typed, Closed, x, Blank
  <2> QED
    BY <2>1, <2>3, <2>4, NoneIsNoUid DEF Typed, Closed
<1>13. Sound(s)
  <2>1. s = [node |-> s.node, roots |-> s.roots, cur |-> s.cur]
    BY <1>3
  <2> QED
    BY <1>7, <1>9, <1>10, <1>12, <2>1 DEF Sound
<1>14. \A q \in Pid : q # p => Lookup(s.cur, q) = Lookup(t.cur, q)
  BY <1>8 DEF Lookup, Sound
<1> QED
  BY <1>1, <1>6, <1>11, <1>13, <1>14 DEF x, par, s, Grown

\* Records of nodes may change as long as the nodes and their parents stay.
LEMMA SameShape ==
    ASSUME NEW t, Sound(t), NEW n, DOMAIN n = DOMAIN t.node, n \in [DOMAIN n -> PNode],
           \A v \in DOMAIN n : n[v].par = t.node[v].par
    PROVE  /\ Sound([t EXCEPT !.node = n]) /\ [t EXCEPT !.node = n].node = n
           /\ [t EXCEPT !.node = n].roots = t.roots /\ [t EXCEPT !.node = n].cur = t.cur
<1>1. [t EXCEPT !.node = n] = [node |-> n, roots |-> t.roots, cur |-> t.cur]
  BY DEF Sound
<1>2. Typed(n)
  BY DEF Sound, Typed, Closed
<1> QED
  BY <1>1, <1>2 DEF Sound

\* A FORK ends the node its pid has and leaves the others as they are.
LEMMA SuccessorSound ==
    ASSUME NEW t, Sound(t), NEW p \in Pid
    PROVE  LET s == SuccessorOf(t, p)
           IN /\ Sound(s) /\ s.cur = t.cur /\ s.roots = t.roots /\ DOMAIN s.node = DOMAIN t.node
              /\ \A v \in DOMAIN t.node :
                     s.node[v] = IF v = Lookup(t.cur, p) THEN Dead(t.node[v]) ELSE t.node[v]
<1> DEFINE u == Lookup(t.cur, p)
           n == [t.node EXCEPT ![u] = Dead(@)]
<1>1. CASE u = None
  <2>1. SuccessorOf(t, p) = t
    BY <1>1 DEF SuccessorOf
  <2>2. \A v \in DOMAIN t.node : v # u
    BY <1>1 DEF Sound, Typed, Closed
  <2> QED
    BY <2>1, <2>2
<1>2. CASE u # None
  <2>1. u \in DOMAIN t.node
    BY <1>2, LookupIn
  <2>2. SuccessorOf(t, p) = [t EXCEPT !.node = n]
    <3>1. SuccessorOf(t, p) = [t EXCEPT !.node[u] = Dead(@)]
      BY <1>2 DEF SuccessorOf
    <3> QED
      BY <3>1 DEF Sound
  <2>3. \A v \in DOMAIN t.node : n[v] = IF v = u THEN Dead(t.node[v]) ELSE t.node[v]
    BY <2>1 DEF Sound, Typed
  <2>4. \A x \in PNode : Dead(x) \in PNode /\ Dead(x).par = x.par
    BY DEF Dead, PNode
  <2> HIDE DEF u
  <2>5. DOMAIN n = DOMAIN t.node /\ n \in [DOMAIN n -> PNode]
    BY <2>1, <2>3, <2>4 DEF Sound, Typed
  <2>6. \A v \in DOMAIN n : n[v].par = t.node[v].par
    BY <2>3, <2>4, <2>5 DEF Sound, Typed
  <2> HIDE DEF n
  <2> QED
    BY <2>2, <2>3, <2>5, <2>6, SameShape DEF u
<1> QED
  BY <1>1, <1>2

\* The same nodes with other scores, never a lower peak.
Rescored(m, n) ==
    /\ DOMAIN n = DOMAIN m
    /\ \A v \in DOMAIN m :
           /\ n[v].of = m[v].of /\ n[v].par = m[v].par /\ n[v].dead = m[v].dead
           /\ n[v].supervised = m[v].supervised
           /\ n[v].peak >= m[v].peak /\ n[v].badgePeak >= m[v].badgePeak

\* Raising scores touches scores and peaks only, and peaks only upwards.
LEMMA LiftedRescored ==
    ASSUME NEW n, Typed(n), NEW us, NEW k \in Nat, Len(us) = k, NEW level \in [1 .. k -> Level]
    PROVE  /\ Rescored(n, Lifted(n, us, level))
           /\ Lifted(n, us, level) \in [DOMAIN n -> PNode]
           /\ \A v \in DOMAIN n : Lifted(n, us, level)[v].exempt = n[v].exempt
<1> DEFINE l == Lifted(n, us, level)
<1>1. DOMAIN l = DOMAIN n /\ l = [v \in DOMAIN n |-> l[v]]
  BY DEF Lifted
<1>2. ASSUME NEW v \in DOMAIN n
      PROVE  /\ l[v] \in PNode
             /\ l[v].of = n[v].of /\ l[v].par = n[v].par /\ l[v].dead = n[v].dead
             /\ l[v].supervised = n[v].supervised /\ l[v].exempt = n[v].exempt
             /\ l[v].peak >= n[v].peak /\ l[v].badgePeak = n[v].badgePeak
  <2> DEFINE i == CHOOSE i \in 1 .. Len(us) : us[i] = v
             to == level[i]
  <2>0. n[v] \in PNode
    BY DEF Typed
  <2>1. CASE \E i1 \in 1 .. Len(us) : us[i1] = v
    <3>1. i \in 1 .. Len(us)
      BY <2>1
    <3>2. to \in Level
      BY <3>1
    <3>3. l[v] = [n[v] EXCEPT !.risk = to, !.peak = Max2(@, to)]
      BY <2>1 DEF Lifted
    <3> HIDE DEF to
    <3>4. Max2(n[v].peak, to) \in Level /\ Max2(n[v].peak, to) >= n[v].peak
      BY <2>0, <3>2, BoundsAssumption DEF Max2, PNode, Level
    <3> QED
      BY <2>0, <3>2, <3>3, <3>4 DEF PNode
  <2>2. CASE ~ \E i1 \in 1 .. Len(us) : us[i1] = v
    <3>1. l[v] = n[v]
      BY <2>2 DEF Lifted
    <3> QED
      BY <2>0, <3>1, BoundsAssumption DEF PNode, Level
  <2> QED
    BY <2>1, <2>2
<1>3. \A v \in DOMAIN n : n[v].badgePeak >= n[v].badgePeak
  BY BoundsAssumption DEF Typed, PNode, Level
<1> HIDE DEF l
<1>4. l \in [DOMAIN n -> PNode]
  BY <1>1, <1>2
<1> QED
  BY <1>1, <1>2, <1>3, <1>4 DEF Rescored, l

\* The watchlist names nodes of the tree with a peak they have reached, and not too many.
Listed(w, n) ==
    /\ DOMAIN w \subseteq DOMAIN n /\ w \in [DOMAIN w -> Watched]
    /\ \A u \in DOMAIN w : w[u].peak > 0 /\ w[u].peak <= n[u].peak
Fits(w, n) == Listed(w, n) /\ Cardinality(DOMAIN w) <= WatchMax

\* Entries stay as they were or are made from the nodes as they are.
Told(w, v, n) ==
    \A x \in DOMAIN v : (x \in DOMAIN w /\ v[x] = w[x]) \/ v[x] = Entry(n[x])

\* Putting one node on the watchlist, when it has room.
LEMMA WithEntry ==
    ASSUME NEW n, Typed(n), NEW u \in DOMAIN n, n[u].peak # 0, NEW w, Listed(w, n),
           NEW v, v = With(w, u, Entry(n[u]))
    PROVE  Listed(v, n) /\ Told(w, v, n) /\ DOMAIN v = DOMAIN w \cup {u}
<1> DEFINE e == Entry(n[u])
<1>1. e \in Watched /\ e.peak = n[u].peak /\ e.peak > 0 /\ e.peak <= n[u].peak
  BY BoundsAssumption DEF Entry, Watched, Typed, PNode, Level
<1>a. v = With(w, u, e)
  OBVIOUS
<1> HIDE DEF e
<1>2. DOMAIN v = DOMAIN w \cup {u} /\ \A x \in DOMAIN v : v[x] = IF x = u THEN e ELSE w[x]
  BY <1>a DEF With
<1>3. v \in [DOMAIN v -> Watched]
  BY <1>1, <1>a DEF With, Listed
<1>4. Listed(v, n)
  BY <1>1, <1>2, <1>3 DEF Listed
<1>5. Told(w, v, n)
  BY <1>2 DEF Told, e
<1> QED
  BY <1>2, <1>4, <1>5

\* What update_watchlist does with one node.
LEMMA WatchingFits ==
    ASSUME NEW n, Typed(n), NEW w, Fits(w, n), NEW u \in DOMAIN n, NEW v \in Watching(w, n, u)
    PROVE  Fits(v, n) /\ Told(w, v, n)
<1>0. IsFiniteSet(DOMAIN w) /\ Cardinality(DOMAIN w) \in Nat /\ WatchMax \in Nat /\ WatchMax >= 1
  <2>1. IsFiniteSet(DOMAIN w)
    BY UidIsFinite, FS_Subset DEF Typed, Fits, Listed
  <2> QED
    BY <2>1, FS_CardinalityType, BoundsAssumption
<1>1. CASE v = w
  BY <1>1 DEF Told
<1>2. CASE /\ n[u].peak # 0 /\ v = With(w, u, Entry(n[u]))
           /\ u \in DOMAIN w \/ Cardinality(DOMAIN w) < WatchMax
  <2>1. Listed(v, n) /\ Told(w, v, n) /\ DOMAIN v = DOMAIN w \cup {u}
    <3>1. Listed(w, n) /\ n[u].peak # 0 /\ v = With(w, u, Entry(n[u]))
      BY <1>2 DEF Fits
    <3> QED
      BY <3>1, WithEntry
  <2>2. Cardinality(DOMAIN v) <= WatchMax
    <3>1. CASE u \in DOMAIN w
      <4>1. DOMAIN v = DOMAIN w
        BY <2>1, <3>1
      <4> QED
        BY <4>1 DEF Fits
    <3>2. CASE u \notin DOMAIN w
      <4>1. Cardinality(DOMAIN v) = Cardinality(DOMAIN w) + 1
        BY <1>0, <2>1, <3>2, FS_AddElement
      <4> QED
        BY <1>0, <1>2, <3>2, <4>1
    <3> QED
      BY <3>1, <3>2
  <2> QED
    BY <2>1, <2>2 DEF Fits
<1>3. CASE /\ n[u].peak # 0 /\ u \notin DOMAIN w
           /\ \E low \in DOMAIN w : v = With([x \in DOMAIN w \ {low} |-> w[x]], u, Entry(n[u]))
  <2>1. PICK low \in DOMAIN w : v = With([x \in DOMAIN w \ {low} |-> w[x]], u, Entry(n[u]))
    BY <1>3
  <2> DEFINE r == [x \in DOMAIN w \ {low} |-> w[x]]
  <2>2. Listed(r, n) /\ DOMAIN r = DOMAIN w \ {low} /\ \A x \in DOMAIN r : r[x] = w[x]
    BY DEF Fits, Listed
  <2>3. v = With(r, u, Entry(n[u]))
    BY <2>1
  <2> HIDE DEF r
  <2>4. Listed(v, n) /\ Told(r, v, n) /\ DOMAIN v = DOMAIN r \cup {u}
    <3>1. Listed(r, n) /\ n[u].peak # 0
      BY <1>3, <2>2
    <3> QED
      BY ONLY Typed(n), u \in DOMAIN n, <2>3, <3>1, WithEntry
  <2>5. Cardinality(DOMAIN v) = Cardinality(DOMAIN w)
    <3>1. IsFiniteSet(DOMAIN r) /\ Cardinality(DOMAIN r) = Cardinality(DOMAIN w) - 1
      BY <1>0, <2>2, FS_RemoveElement
    <3>2. Cardinality(DOMAIN v) = Cardinality(DOMAIN r) + 1
      BY <1>3, <2>2, <2>4, <3>1, FS_AddElement
    <3> QED
      BY <1>0, <3>1, <3>2
  <2>6. Told(w, v, n)
    BY <2>2, <2>4 DEF Told
  <2> QED
    BY <2>4, <2>5, <2>6 DEF Fits
<1>4. v = w \/ (n[u].peak # 0 /\
                \/ /\ v = With(w, u, Entry(n[u]))
                   /\ u \in DOMAIN w \/ Cardinality(DOMAIN w) < WatchMax
                \/ /\ u \notin DOMAIN w
                   /\ \E low \in DOMAIN w :
                          v = With([x \in DOMAIN w \ {low} |-> w[x]], u, Entry(n[u])))
  BY Zenon DEF Watching, Lowest
<1> QED
  BY <1>1, <1>2, <1>3, <1>4

\* The watchlists that fit a tree and tell of its nodes what w tells or what they are.
Lists(w, n) == {v \in UNION {[E -> Watched] : E \in SUBSET DOMAIN n} : Fits(v, n) /\ Told(w, v, n)}

LEMMA ListsIn == ASSUME NEW w, NEW n, NEW v, Fits(v, n), Told(w, v, n) PROVE v \in Lists(w, n)
  BY DEF Lists, Fits, Listed

\* What update_watchlist does with several nodes.
LEMMA WatchingAllFits ==
    ASSUME NEW n, Typed(n), NEW w, Fits(w, n), NEW us \in Seq(DOMAIN n),
           NEW v \in WatchingAll(w, n, us)
    PROVE  Fits(v, n) /\ Told(w, v, n)
<1> DEFINE Q == [k \in 0 .. Len(us) |-> Lists(w, n)]
<1>0. Len(us) \in Nat
  OBVIOUS
<1>1. \A k \in 0 .. Len(us) : Q[k] = Lists(w, n)
  OBVIOUS
<1> HIDE DEF Q
<1>2. w \in Q[0]
  BY <1>0, <1>1, ListsIn DEF Told
<1>3. ASSUME NEW k \in 1 .. Len(us), NEW x \in Q[k - 1]
      PROVE  Watching(x, n, us[k]) \subseteq Q[k]
  <2>1. Q[k] = Lists(w, n) /\ Q[k - 1] = Lists(w, n) /\ us[k] \in DOMAIN n
    BY <1>0, <1>1
  <2>2. Fits(x, n) /\ Told(w, x, n)
    BY <2>1 DEF Lists
  <2> SUFFICES ASSUME NEW y \in Watching(x, n, us[k]) PROVE y \in Lists(w, n)
    BY <2>1
  <2>3. Fits(y, n) /\ Told(x, y, n)
    BY <2>1, <2>2, WatchingFits
  <2>4. Told(w, y, n)
    BY <2>2, <2>3 DEF Told
  <2> QED
    BY <2>3, <2>4, ListsIn
<1>4. WatchingAll(w, n, us) \subseteq Q[Len(us)]
  BY <1>2, <1>3, WatchingAllIn
<1> QED
  BY <1>0, <1>1, <1>4 DEF Lists

\* A list that fits a tree fits a later one, in which its nodes are and no peak is lower.
LEMMA FitsLater ==
    ASSUME NEW m, Typed(m), NEW w, Fits(w, m), NEW n, Typed(n), DOMAIN w \subseteq DOMAIN n,
           \A v \in DOMAIN w : n[v].peak >= m[v].peak
    PROVE  Fits(w, n)
<1>1. ASSUME NEW v \in DOMAIN w PROVE w[v].peak > 0 /\ w[v].peak <= n[v].peak
  <2>1. w[v].peak > 0 /\ w[v].peak <= m[v].peak /\ n[v].peak >= m[v].peak
    BY DEF Fits, Listed
  <2>2. w[v].peak \in Nat /\ m[v].peak \in Nat /\ n[v].peak \in Nat
    BY BoundsAssumption DEF Fits, Listed, Typed, PNode, Watched, Level
  <2> QED
    BY <2>1, <2>2
<1> QED
  BY <1>1 DEF Fits, Listed

\* What a prefix of a sequence is, as facts the provers can use.
LEMMA PrefixSeq ==
    ASSUME NEW S, NEW s \in Seq(S), NEW k \in 1 .. Len(s)
    PROVE  SubSeq(s, 1, k) \in Seq(S) /\ Len(SubSeq(s, 1, k)) = k /\ k \in Nat
<1>1. k \in Nat /\ k >= 1 /\ \A i \in 1 .. k : s[i] \in S
  OBVIOUS
<1>2. Len(SubSeq(s, 1, k)) = IF 1 <= k THEN k - 1 + 1 ELSE 0
  BY <1>1, SubSeqProperties
<1>3. SubSeq(s, 1, k) \in Seq(S)
  OBVIOUS
<1> QED
  BY <1>1, <1>2, <1>3

\* Evidence, from the event or the call it is made of to the watchlist.
LEMMA EvidenceSound ==
    ASSUME NEW t, Sound(t), Fits(watch, t.node), NEW u \in DOMAIN t.node, NEW exempt \in BOOLEAN,
           Evidence(t, u, exempt)
    PROVE  /\ Sound(Tree)' /\ roots' = t.roots /\ cur' = t.cur
           /\ Rescored(t.node, node') /\ Fits(watch', node') /\ Told(watch, watch', node')
           /\ node'[u].exempt = exempt
           /\ \A v \in DOMAIN t.node : v # u => node'[v].exempt = t.node[v].exempt
<1> DEFINE m == t.node
<1>0. Typed(m) /\ Reach(m, u) \in Seq(DOMAIN m)
  BY ReachSeq DEF Sound, Typed
<1>1. PICK k \in 1 .. Len(Reach(m, u)) :
          LET us == SubSeq(Reach(m, u), 1, k)
          IN \E level \in [1 .. k -> Level] :
                 LET n == Lifted(m, us, level)
                 IN /\ Becomes([t EXCEPT !.node = [n EXCEPT ![u].exempt = exempt]])
                    /\ watch' \in WatchingAll(watch, n, us)
  BY Zenon DEF Evidence
<1> DEFINE us == SubSeq(Reach(m, u), 1, k)
<1>2. PICK level \in [1 .. k -> Level] :
          LET n == Lifted(m, us, level)
          IN /\ Becomes([t EXCEPT !.node = [n EXCEPT ![u].exempt = exempt]])
             /\ watch' \in WatchingAll(watch, n, us)
  BY <1>1
<1>3. us \in Seq(DOMAIN m) /\ Len(us) = k /\ k \in Nat
  BY <1>0, PrefixSeq
<1> HIDE DEF us
<1> DEFINE n == Lifted(m, us, level)
           o == [n EXCEPT ![u].exempt = exempt]
<1>4. /\ Rescored(m, n) /\ n \in [DOMAIN m -> PNode]
      /\ \A v \in DOMAIN m : n[v].exempt = m[v].exempt
  <2> HIDE DEF m
  <2> QED
    BY <1>0, <1>2, <1>3, LiftedRescored, Zenon
<1>5. Becomes([t EXCEPT !.node = o]) /\ watch' \in WatchingAll(watch, n, us)
  BY <1>2
<1> HIDE DEF n
<1>6. /\ DOMAIN o = DOMAIN m /\ o \in [DOMAIN m -> PNode]
      /\ o[u] = [n[u] EXCEPT !.exempt = exempt]
      /\ \A v \in DOMAIN m : v # u => o[v] = n[v]
  <2>1. [n[u] EXCEPT !.exempt = exempt] \in PNode
    BY <1>4 DEF PNode
  <2> QED
    BY <1>4, <2>1
<1> HIDE DEF o
<1>7. n[u] \in PNode
  BY <1>4
<1>8. \A v \in DOMAIN m : /\ o[v].of = n[v].of /\ o[v].par = n[v].par /\ o[v].dead = n[v].dead
                          /\ o[v].supervised = n[v].supervised /\ o[v].peak = n[v].peak
                          /\ o[v].badgePeak = n[v].badgePeak
  <2> DEFINE x == n[u]
             y == [x EXCEPT !.exempt = exempt]
  <2>1. /\ y.of = x.of /\ y.par = x.par /\ y.dead = x.dead /\ y.supervised = x.supervised
        /\ y.peak = x.peak /\ y.badgePeak = x.badgePeak
    <3> HIDE DEF x
    <3> QED
      BY <1>7 DEF x, PNode
  <2>2. o[u] = y
    BY <1>6
  <2> HIDE DEF y
  <2> QED
    BY <1>6, <2>1, <2>2
<1>9. Rescored(m, o)
  BY <1>4, <1>6, <1>8 DEF Rescored
<1>10. /\ Sound([t EXCEPT !.node = o]) /\ [t EXCEPT !.node = o].node = o
       /\ [t EXCEPT !.node = o].roots = t.roots /\ [t EXCEPT !.node = o].cur = t.cur
  BY <1>6, <1>9, SameShape DEF Rescored
<1>11. node' = o /\ roots' = t.roots /\ cur' = t.cur
  BY <1>5, <1>10 DEF Becomes
<1>12. Sound(Tree)'
  <2>1. [t EXCEPT !.node = o] = [node |-> o, roots |-> t.roots, cur |-> t.cur]
    BY <1>10 DEF Sound
  <2>2. Tree' = [t EXCEPT !.node = o]
    BY <1>11, <2>1 DEF Tree
  <2> QED
    BY <1>10, <2>2 DEF Sound
<1>13. Typed(n) /\ DOMAIN n = DOMAIN m
  BY <1>0, <1>4 DEF Typed, Closed, Rescored
<1>14. Fits(watch, n)
  BY <1>0, <1>4, <1>13, FitsLater DEF Rescored, Fits, Listed
<1>15. Fits(watch', n) /\ Told(watch, watch', n)
  BY <1>3, <1>5, <1>13, <1>14, WatchingAllFits
<1>16. Typed(o)
  BY <1>10 DEF Sound
<1>17. Fits(watch', o) /\ Told(watch, watch', o)
  BY <1>6, <1>8, <1>13, <1>15 DEF Fits, Listed, Told, Entry
<1>18. o[u].exempt = exempt
  BY <1>6, <1>7 DEF PNode
<1> QED
  BY <1>4, <1>6, <1>9, <1>11, <1>12, <1>17, <1>18

\* recompute_badges has a maximum to take.
LEMMA BadgeLevel == ASSUME NEW n, Typed(n), NEW u PROVE BadgeRisk(n, u) \in Level
<1> DEFINE hot == {n[v].risk : v \in {v \in DOMAIN n : ~n[v].exempt /\ Launcher(n, v) = u}}
           T == hot \cup {0}
<1>1. T \subseteq 0 .. MaxLevel /\ MaxLevel \in Nat /\ T # {}
  BY BoundsAssumption DEF Typed, PNode, Level
<1> HIDE DEF hot
<1>2. PICK r \in T : \A q \in T : q <= r
  <2> HIDE DEF T
  <2> QED
    BY <1>1, GreatestNat
<1>3. \E r1 \in hot \cup {0} : \A q \in hot : q <= r1
  BY <1>2
<1>4. (CHOOSE r1 \in hot \cup {0} : \A q \in hot : q <= r1) \in T
  BY <1>3
<1>5. BadgeRisk(n, u) = CHOOSE r1 \in hot \cup {0} : \A q \in hot : q <= r1
  BY DEF BadgeRisk, hot
<1> HIDE DEF T
<1> QED
  BY <1>1, <1>4, <1>5 DEF Level

\* A tick lowers scores and raises the peaks of badges, and leaves the rest.
LEMMA TickRescored ==
    ASSUME NEW m, Typed(m), NEW d \in Decayed(m), NEW n, n = Badged(d)
    PROVE  /\ Typed(n) /\ Rescored(m, n)
           /\ \A v \in DOMAIN m : n[v].peak = m[v].peak /\ n[v].exempt = m[v].exempt
<1>1. PICK level \in [DOMAIN m -> Level] :
          d = [u \in DOMAIN m |-> [m[u] EXCEPT !.risk = level[u]]]
  BY Zenon DEF Decayed
<1>2. /\ DOMAIN d = DOMAIN m /\ d \in [DOMAIN m -> PNode]
      /\ \A v \in DOMAIN m : /\ d[v].of = m[v].of /\ d[v].par = m[v].par /\ d[v].dead = m[v].dead
                             /\ d[v].supervised = m[v].supervised /\ d[v].exempt = m[v].exempt
                             /\ d[v].peak = m[v].peak /\ d[v].badgePeak = m[v].badgePeak
  <2>1. \A x \in PNode, r \in Level :
            /\ [x EXCEPT !.risk = r] \in PNode
            /\ LET y == [x EXCEPT !.risk = r]
               IN /\ y.of = x.of /\ y.par = x.par /\ y.dead = x.dead /\ y.exempt = x.exempt
                  /\ y.supervised = x.supervised /\ y.peak = x.peak /\ y.badgePeak = x.badgePeak
    BY DEF PNode
  <2>2. ASSUME NEW v \in DOMAIN m PROVE m[v] \in PNode /\ level[v] \in Level
    BY DEF Typed
  <2>3. DOMAIN d = DOMAIN m /\ \A v \in DOMAIN m : d[v] = [m[v] EXCEPT !.risk = level[v]]
    BY <1>1
  <2>4. d \in [DOMAIN m -> PNode]
    BY <1>1, <2>1, <2>2
  <2>5. ASSUME NEW v \in DOMAIN m
        PROVE  /\ d[v].of = m[v].of /\ d[v].par = m[v].par /\ d[v].dead = m[v].dead
               /\ d[v].supervised = m[v].supervised /\ d[v].exempt = m[v].exempt
               /\ d[v].peak = m[v].peak /\ d[v].badgePeak = m[v].badgePeak
    BY <2>2, <2>3 DEF PNode
  <2> QED
    BY <2>3, <2>4, <2>5
<1>3. Typed(d)
  BY <1>2 DEF Typed, Closed
<1>4. DOMAIN n = DOMAIN m /\ n = [v \in DOMAIN m |-> n[v]]
  BY <1>2 DEF Badged
<1>5. ASSUME NEW v \in DOMAIN m
      PROVE  /\ n[v] \in PNode
             /\ n[v].of = d[v].of /\ n[v].par = d[v].par /\ n[v].dead = d[v].dead
             /\ n[v].supervised = d[v].supervised /\ n[v].exempt = d[v].exempt
             /\ n[v].peak = d[v].peak /\ n[v].badgePeak >= d[v].badgePeak
  <2> DEFINE b == BadgeRisk(d, v)
  <2>1. b \in Level /\ d[v] \in PNode
    BY <1>2, <1>3, BadgeLevel
  <2>2. n[v] = [d[v] EXCEPT !.badgePeak = Max2(@, b)]
    BY <1>2 DEF Badged
  <2> HIDE DEF b
  <2>3. Max2(d[v].badgePeak, b) \in Level /\ Max2(d[v].badgePeak, b) >= d[v].badgePeak
    BY <2>1, BoundsAssumption DEF Max2, PNode, Level
  <2> QED
    BY <2>1, <2>2, <2>3 DEF PNode
<1>6. n \in [DOMAIN n -> PNode]
  BY <1>4, <1>5
<1>7. Typed(n)
  <2>1. \A v \in DOMAIN n : n[v].par \in DOMAIN n \cup {None}
    BY <1>2, <1>4, <1>5 DEF Typed, Closed
  <2> QED
    BY <1>4, <1>6, <2>1 DEF Typed, Closed
<1>8. Rescored(m, n)
  <2>1. \A v \in DOMAIN m : n[v].peak >= m[v].peak /\ n[v].badgePeak >= m[v].badgePeak
    BY <1>2, <1>5, BoundsAssumption DEF Typed, PNode, Level
  <2> QED
    BY <1>2, <1>4, <1>5, <2>1 DEF Rescored
<1> QED
  BY <1>2, <1>5, <1>7, <1>8

\* m is n without the nodes of S.
Thinned(n, m, S) ==
    /\ DOMAIN m = DOMAIN n \ S
    /\ \A v \in DOMAIN m :
           /\ m[v].of = n[v].of /\ m[v].dead = n[v].dead
           /\ m[v].supervised = n[v].supervised /\ m[v].exempt = n[v].exempt
           /\ m[v].peak = n[v].peak /\ m[v].badgePeak = n[v].badgePeak
           /\ m[v].par = IF n[v].par \in S THEN None ELSE n[v].par

\* What collection leaves is a tree again.
LEMMA EraseSound ==
    ASSUME NEW n, Typed(n), Sound(Tree), DOMAIN n = DOMAIN node, NEW S \in SUBSET DOMAIN n,
           Erase(n, S)
    PROVE  Sound(Tree)' /\ Thinned(n, node', S)
<1> DEFINE e == Erased(n, S)
<1>1. /\ node' = e /\ roots' = roots \ S
      /\ cur' = [p \in Pid |-> IF <<p, cur[p]>> \in S THEN 0 ELSE cur[p]]
  BY DEF Erase
<1>2. DOMAIN e = DOMAIN n \ S /\ e = [v \in DOMAIN n \ S |-> e[v]]
  BY DEF Erased
<1>3. ASSUME NEW v \in DOMAIN n \ S
      PROVE  /\ e[v] \in PNode /\ e[v].par = IF n[v].par \in S THEN None ELSE n[v].par
             /\ e[v].of = n[v].of /\ e[v].dead = n[v].dead
             /\ e[v].supervised = n[v].supervised /\ e[v].exempt = n[v].exempt
             /\ e[v].peak = n[v].peak /\ e[v].badgePeak = n[v].badgePeak
  <2>1. n[v] \in PNode
    BY DEF Typed
  <2>2. e[v] = [n[v] EXCEPT !.par = IF @ \in S THEN None ELSE @]
    BY DEF Erased
  <2> QED
    BY <2>1, <2>2 DEF PNode
<1> HIDE DEF e
<1>4. Typed(e)
  <2>1. e \in [DOMAIN e -> PNode]
    BY <1>2, <1>3
  <2>2. \A v \in DOMAIN e : e[v].par \in DOMAIN e \cup {None}
    BY <1>2, <1>3 DEF Typed, Closed
  <2> QED
    BY <1>2, <2>1, <2>2 DEF Typed, Closed
<1>5. roots \subseteq DOMAIN n /\ cur \in [Pid -> 0 .. MaxNode]
      /\ \A p \in Pid : cur[p] # 0 => <<p, cur[p]>> \in DOMAIN n
  BY DEF Sound, Tree
<1>6. cur' \in [Pid -> 0 .. MaxNode]
  BY <1>1, <1>5, BoundsAssumption
<1>7. \A p \in Pid : cur'[p] # 0 => <<p, cur'[p]>> \in DOMAIN e
  BY <1>1, <1>2, <1>5
<1>8. Sound(Tree')
  <2>1. Tree' = [node |-> e, roots |-> roots', cur |-> cur']
    BY <1>1 DEF Tree
  <2> QED
    BY <1>1, <1>2, <1>4, <1>5, <1>6, <1>7, <2>1 DEF Sound
<1>9. Sound(Tree)'
  BY <1>8 DEF Sound
<1>10. Thinned(n, e, S)
  BY <1>2, <1>3 DEF Thinned
<1> QED
  BY <1>1, <1>9, <1>10

-----------------------------------------------------------------------------
(* What is alive in the tree.                                              *)

\* The tree has no node of p, or says it is dead.
Gone(t, p) == Lookup(t.cur, p) = None \/ t.node[Lookup(t.cur, p)].dead

\* A pid has one node that is not dead at most, its latest.
Alone(t) == \A u \in DOMAIN t.node : ~t.node[u].dead => u = Lookup(t.cur, u[1])

\* The pids that may differ are those of P.
SameLife(t, s, P) == \A p \in Pid \ P : Gone(s, p) <=> Gone(t, p)

\* A new node makes its pid known to live, and leaves what is known of the others.
LEMMA GrownLife ==
    ASSUME NEW t, Sound(t), Alone(t), NEW p \in Pid, Gone(t, p), NEW x, x.dead = FALSE,
           NEW s, Grown(t, s, p, x)
    PROVE  Alone(s) /\ ~Gone(s, p) /\ SameLife(t, s, {p})
<1> DEFINE l == Lookup(s.cur, p)
<1>1. /\ l \in Uid \ DOMAIN t.node /\ l[1] = p /\ DOMAIN s.node = DOMAIN t.node \cup {l}
      /\ \A v \in DOMAIN t.node : s.node[v] = t.node[v]
      /\ s.node[l] = x
      /\ \A q \in Pid : q # p => Lookup(s.cur, q) = Lookup(t.cur, q)
  BY DEF Grown
<1>2. ~Gone(s, p)
  BY <1>1, NoneIsNoUid DEF Gone
<1> HIDE DEF l
<1>3. ASSUME NEW u \in DOMAIN s.node, ~s.node[u].dead PROVE u = Lookup(s.cur, u[1])
  <2>1. CASE u = l
    BY <1>1, <2>1 DEF l
  <2>2. CASE u # l
    <3>1. u \in DOMAIN t.node /\ ~t.node[u].dead
      BY <1>1, <1>3, <2>2
    <3>2. u = Lookup(t.cur, u[1])
      BY <3>1 DEF Alone
    <3>3. u[1] # p
      <4>1. u # None
        BY <3>1 DEF Sound, Typed, Closed
      <4> QED
        BY <3>1, <3>2, <4>1 DEF Gone
    <3>4. u \in Uid
      BY <3>1 DEF Sound, Typed
    <3>5. u[1] \in Pid
      BY <3>4 DEF Uid
    <3> QED
      BY <1>1, <3>2, <3>3, <3>5
  <2> QED
    BY <2>1, <2>2
<1>4. ASSUME NEW q \in Pid \ {p} PROVE Gone(s, q) <=> Gone(t, q)
  <2>1. Lookup(s.cur, q) = Lookup(t.cur, q) /\ Lookup(t.cur, q) \in DOMAIN t.node \cup {None}
    BY <1>1, LookupIn
  <2> QED
    BY <1>1, <2>1 DEF Gone
<1> QED
  BY <1>2, <1>3, <1>4 DEF Alone, SameLife

\* A tree with the same nodes, index and death marks knows the same lives.
LEMMA StillLife ==
    ASSUME NEW t, Sound(t), Alone(t), NEW s, s.cur = t.cur, DOMAIN s.node = DOMAIN t.node,
           \A v \in DOMAIN t.node : s.node[v].dead <=> t.node[v].dead
    PROVE  Alone(s) /\ SameLife(t, s, {})
<1>1. \A p \in Pid : Lookup(t.cur, p) \in DOMAIN t.node \cup {None}
  BY LookupIn
<1> QED
  BY <1>1 DEF Alone, SameLife, Gone

\* One node marked dead.
LEMMA EndedLife ==
    ASSUME NEW t, Sound(t), Alone(t), NEW p \in Pid, NEW s, s.cur = t.cur,
           DOMAIN s.node = DOMAIN t.node,
           \A v \in DOMAIN t.node : s.node[v].dead <=> t.node[v].dead \/ v = Lookup(t.cur, p)
    PROVE  Alone(s) /\ Gone(s, p) /\ SameLife(t, s, {p})
<1>1. \A q \in Pid : Lookup(t.cur, q) \in DOMAIN t.node \cup {None}
  BY LookupIn
<1>2. \A q \in Pid \ {p} : Lookup(t.cur, q) # None => Lookup(t.cur, q) # Lookup(t.cur, p)
  <2>1. \A q \in Pid : Lookup(t.cur, q) # None => Lookup(t.cur, q) = <<q, t.cur[q]>>
    BY LookupIn
  <2> QED
    BY <2>1
<1>3. Alone(s)
  BY DEF Alone
<1>4. Gone(s, p)
  BY <1>1 DEF Gone
<1> QED
  BY <1>1, <1>2, <1>3, <1>4 DEF SameLife, Gone

\* Dead nodes taken out.
LEMMA EraseLife ==
    ASSUME NEW n, Typed(n), Sound(Tree), Alone(Tree), DOMAIN n = DOMAIN node,
           \A v \in DOMAIN n : n[v].dead <=> node[v].dead,
           NEW S \in SUBSET DOMAIN n, \A v \in S : n[v].dead, Erase(n, S)
    PROVE  Alone(Tree)' /\ \A p \in Pid : Gone(Tree, p)' <=> Gone(Tree, p)
<1>1. /\ DOMAIN node' = DOMAIN n \ S
      /\ \A v \in DOMAIN node' : node'[v].dead <=> node[v].dead
  <2>1. Thinned(n, node', S)
    BY EraseSound
  <2> QED
    BY <2>1 DEF Thinned
<1>2. cur' = [p \in Pid |-> IF <<p, cur[p]>> \in S THEN 0 ELSE cur[p]]
  BY DEF Erase
<1>3. Tree.cur = cur /\ Tree.node = node /\ Tree'.cur = cur' /\ Tree'.node = node'
  BY DEF Tree
<1>4. ASSUME NEW p \in Pid
      PROVE  Lookup(cur', p) = IF <<p, cur[p]>> \in S THEN None ELSE Lookup(cur, p)
  BY <1>2 DEF Lookup
<1>5. \A p \in Pid : Lookup(cur, p) \in DOMAIN node \cup {None}
  BY <1>3, LookupIn
<1>6. ASSUME NEW u \in DOMAIN node', ~node'[u].dead PROVE u = Lookup(cur', u[1])
  <2>1. u \in DOMAIN node /\ ~node[u].dead /\ u \notin S
    BY <1>1, <1>6
  <2>2. u = Lookup(cur, u[1]) /\ u[1] \in Pid
    BY <1>3, <2>1 DEF Alone, Sound, Typed, Uid
  <2>3. u # None
    BY <1>3, <2>1 DEF Sound, Typed, Closed
  <2>4. u = <<u[1], cur[u[1]]>>
    BY <2>2, <2>3 DEF Lookup
  <2> QED
    BY <1>4, <2>1, <2>2, <2>4
<1>7. ASSUME NEW p \in Pid
      PROVE  (Lookup(cur', p) = None \/ node'[Lookup(cur', p)].dead)
                <=> (Lookup(cur, p) = None \/ node[Lookup(cur, p)].dead)
  <2>1. CASE <<p, cur[p]>> \in S
    <3>1. Lookup(cur', p) = None
      BY <1>4, <2>1
    <3>2. node[<<p, cur[p]>>].dead
      BY <2>1
    <3>3. Lookup(cur, p) \in {None, <<p, cur[p]>>}
      BY DEF Lookup
    <3> QED
      BY <3>1, <3>2, <3>3
  <2>2. CASE <<p, cur[p]>> \notin S
    <3>1. Lookup(cur', p) = Lookup(cur, p)
      BY <1>4, <2>2
    <3>2. Lookup(cur, p) # None => Lookup(cur, p) \in DOMAIN node'
      <4>1. Lookup(cur, p) # None => Lookup(cur, p) = <<p, cur[p]>>
        BY DEF Lookup
      <4> QED
        BY <1>1, <1>5, <2>2, <4>1
    <3> QED
      BY <1>1, <3>1, <3>2
  <2> QED
    BY <2>1, <2>2
<1>8. Alone(Tree)'
  BY <1>3, <1>6 DEF Alone
<1>9. \A p \in Pid : Gone(Tree, p)' <=> Gone(Tree, p)
  BY <1>3, <1>7 DEF Gone
<1> QED
  BY <1>8, <1>9

-----------------------------------------------------------------------------
(* The inductive invariant.                                                *)

\* The kernel: a process there is has a number.
KernelInv ==
    /\ proc \in [Pid -> Process] /\ ring \in Seq(Event)
    /\ \A p \in Pid : There(p) => proc[p].inc >= 1

\* launch() and the supervise thread.
SuperInv ==
    /\ supRoots \subseteq Pid
    /\ pc \in {"none", "launched", "idle", "asked", "kill", "signal", "unregister", "mark",
               "done"}
    /\ call \in Pid \cup {NoPid} /\ root \in Pid \cup {NoPid} /\ victims \subseteq Pid
    /\ pc # "none" => root \in Pid
    /\ scored \in 0 .. MaxScored

IInv == KernelInv /\ SuperInv /\ Sound(Tree) /\ Alone(Tree) /\ Fits(watch, node)

LEMMA IInvTypes == IInv => TypeOK
<1> SUFFICES ASSUME IInv PROVE TypeOK
  OBVIOUS
<1>1. /\ DOMAIN node \subseteq Uid /\ node \in [DOMAIN node -> PNode]
      /\ roots \subseteq DOMAIN node /\ cur \in [Pid -> 0 .. MaxNode]
  BY DEF IInv, Sound, Typed, Tree
<1>2. \A p \in Pid : Node(p) # None => Node(p) \in DOMAIN node
  BY DEF IInv, Sound, Tree, Node, Lookup
<1>3. DOMAIN watch \subseteq Uid /\ watch \in [DOMAIN watch -> Watched]
  BY <1>1 DEF IInv, Fits, Listed
<1> QED
  BY <1>1, <1>2, <1>3 DEF IInv, KernelInv, SuperInv, TypeOK

LEMMA PpidType == ASSUME KernelInv, NEW p \in Pid PROVE Ppid(p) \in Pid \cup {NoPid}
<1>1. proc[p].par \in Proc \cup {None}
  BY DEF KernelInv, Process
<1>2. \A k \in Proc : k[1] \in Pid
  BY DEF Proc
<1> QED
  BY <1>1, <1>2 DEF Ppid

\* What the kernel does to processes and ring leaves the invariant, if the types stay.
LEMMA KernelFrame ==
    ASSUME IInv, UNCHANGED <<treeVars, supRoots, watch, supVars>>, KernelInv',
           scored' \in 0 .. MaxScored
    PROVE  IInv'
<1>1. Sound(Tree)' /\ Alone(Tree)'
  <2>1. Tree' = Tree
    BY DEF Tree, treeVars
  <2> QED
    BY <2>1 DEF IInv, Sound, Alone
<1>2. Fits(watch, node)'
  BY DEF IInv, Fits, Listed, treeVars
<1>3. SuperInv'
  BY DEF IInv, SuperInv, supVars
<1> QED
  BY <1>1, <1>2, <1>3 DEF IInv

LEMMA EmitType ==
    ASSUME ring \in Seq(Event), NEW e \in Event, Emit(e)
    PROVE  ring' \in Seq(Event)
  BY DEF Emit

LEMMA BornType ==
    ASSUME KernelInv, NEW q \in Pid, NEW par \in Proc \cup {None}, NEW desc \in BOOLEAN,
           NEW group \in BOOLEAN, NEW trusted \in BOOLEAN,
           Born(q, par, desc, group, trusted)
    PROVE  /\ proc' \in [Pid -> Process] /\ proc'[q].inc \in 1 .. MaxInc
           /\ \A p \in Pid : There(p)' => proc'[p].inc >= 1
<1> DEFINE x == [inc |-> proc[q].inc + 1, state |-> "up", par |-> par, desc |-> desc,
                 group |-> group, trusted |-> trusted]
<1>1. proc' = [proc EXCEPT ![q] = x]
  BY DEF Born
<1>2. x \in Process /\ x.inc >= 1
  <2>1. proc[q].inc \in 0 .. MaxInc /\ proc[q].inc < MaxInc
    BY DEF KernelInv, Process, Born
  <2>2. proc[q].inc + 1 \in 0 .. MaxInc /\ proc[q].inc + 1 >= 1
    BY <2>1, BoundsAssumption
  <2> QED
    BY <2>2 DEF Process
<1> HIDE DEF x
<1>3. proc' \in [Pid -> Process] /\ proc'[q] = x /\ \A p \in Pid : p # q => proc'[p] = proc[p]
  BY <1>1, <1>2 DEF KernelInv
<1>4. proc'[q].inc \in 1 .. MaxInc
  BY <1>2, <1>3, BoundsAssumption DEF Process
<1> QED
  BY <1>2, <1>3, <1>4 DEF KernelInv, There

LEMMA EvType ==
    ASSUME NEW type \in {"FORK", "EXIT", "EXEC", "RISKY"}, NEW p \in Pid,
           NEW ppid \in Pid \cup {NoPid}, NEW trusted \in BOOLEAN, proc'[p].inc \in 1 .. MaxInc
    PROVE  Ev(type, p, ppid, trusted) \in Event
  BY DEF Ev, Event

\* What the traced processes do keeps the invariant.
LEMMA KernelIInv == IInv /\ Kernel => IInv'
<1> SUFFICES ASSUME IInv, Kernel PROVE IInv'
  OBVIOUS
<1>0. /\ KernelInv /\ proc \in [Pid -> Process] /\ ring \in Seq(Event)
      /\ scored \in 0 .. MaxScored
      /\ \A p \in Pid : There(p) => proc[p].inc \in 1 .. MaxInc
  BY BoundsAssumption DEF IInv, KernelInv, SuperInv, Process
<1>a. \A p \in Pid : Up(p) => There(p)
  BY DEF Up, There
<1>1. ASSUME NEW p \in Pid, NEW q \in Pid, Fork(p, q) PROVE IInv'
  <2>1. <<p, proc[p].inc>> \in Proc
    BY <1>0, <1>1, <1>a DEF Fork, Proc
  <2>2. proc[p].desc \in BOOLEAN /\ proc[p].group \in BOOLEAN /\ proc[p].trusted \in BOOLEAN
    BY <1>0 DEF Process
  <2> DEFINE g == proc[p].group /\ q \notin Leaves
  <2>3. g \in BOOLEAN
    OBVIOUS
  <2>4. Born(q, <<p, proc[p].inc>>, proc[p].desc, g, proc[p].trusted)
    BY <1>1 DEF Fork
  <2> HIDE DEF g
  <2>5. /\ proc' \in [Pid -> Process] /\ proc'[q].inc \in 1 .. MaxInc
        /\ \A x \in Pid : There(x)' => proc'[x].inc >= 1
    BY <1>0, <2>1, <2>2, <2>3, <2>4, BornType
  <2>6. ring' \in Seq(Event)
    BY <1>0, <1>1, <2>2, <2>5, EvType, EmitType DEF Fork
  <2> QED
    BY <1>0, <1>1, <2>5, <2>6, KernelFrame DEF Fork, KernelInv
<1>2. ASSUME NEW q \in Pid, ForkOutside(q) PROVE IInv'
  <2>1. Born(q, None, FALSE, FALSE, FALSE)
    BY <1>2 DEF ForkOutside
  <2>2. /\ proc' \in [Pid -> Process] /\ proc'[q].inc \in 1 .. MaxInc
        /\ \A x \in Pid : There(x)' => proc'[x].inc >= 1
    BY <1>0, <2>1, BornType
  <2>3. ring' \in Seq(Event)
    BY <1>0, <1>2, <2>2, EvType, EmitType DEF ForkOutside
  <2> QED
    BY <1>0, <1>2, <2>2, <2>3, KernelFrame DEF ForkOutside, KernelInv
<1>3. ASSUME NEW p \in Pid, Die(p) PROVE IInv'
  <2>1. proc' = [proc EXCEPT ![p].state = "none"] /\ There(p)
    BY <1>3 DEF Die
  <2>2. /\ proc' \in [Pid -> Process]
        /\ \A x \in Pid : proc'[x].inc = proc[x].inc /\ (There(x)' => There(x))
    <3>1. [proc[p] EXCEPT !.state = "none"] \in Process
      BY <1>0 DEF Process
    <3>2. [proc[p] EXCEPT !.state = "none"].inc = proc[p].inc
      BY <1>0 DEF Process
    <3> QED
      BY <1>0, <2>1, <3>1, <3>2 DEF There
  <2>3. proc[p].trusted \in BOOLEAN /\ Ppid(p) \in Pid \cup {NoPid}
    BY <1>0, PpidType DEF Process
  <2>4. ring' \in Seq(Event)
    BY <1>0, <1>3, <2>1, <2>2, <2>3, EvType, EmitType DEF Die
  <2> QED
    BY <1>0, <1>3, <2>2, <2>4, KernelFrame DEF Die, KernelInv
<1>4. ASSUME NEW p \in Pid, Exec(p) PROVE IInv'
  <2>1. PICK b \in Trusts : proc' = [proc EXCEPT ![p].trusted = b]
    BY <1>4 DEF Exec
  <2>2. /\ proc' \in [Pid -> Process]
        /\ \A x \in Pid : proc'[x].inc = proc[x].inc /\ (There(x)' => There(x))
    <3>1. [proc[p] EXCEPT !.trusted = b] \in Process
      BY <1>0, SwitchAssumption DEF Process
    <3>2. /\ [proc[p] EXCEPT !.trusted = b].inc = proc[p].inc
          /\ [proc[p] EXCEPT !.trusted = b].state = proc[p].state
      BY <1>0 DEF Process
    <3> QED
      BY <1>0, <2>1, <3>1, <3>2 DEF There
  <2>3. proc[p].trusted \in BOOLEAN /\ Ppid(p) \in Pid \cup {NoPid}
    BY <1>0, PpidType DEF Process
  <2>4. ring' \in Seq(Event)
    BY <1>0, <1>4, <1>a, <2>2, <2>3, EvType, EmitType DEF Exec
  <2>5. scored' \in 0 .. MaxScored
    BY <1>0, <1>4, BoundsAssumption DEF Exec
  <2> QED
    BY <1>0, <1>4, <2>2, <2>4, <2>5, KernelFrame DEF Exec, KernelInv
<1>5. ASSUME NEW p \in Pid, Risky(p) PROVE IInv'
  <2>1. proc' = proc
    BY <1>5 DEF Risky
  <2>2. proc[p].trusted \in BOOLEAN /\ Ppid(p) \in Pid \cup {NoPid}
    BY <1>0, PpidType DEF Process
  <2>3. ring' \in Seq(Event)
    BY <1>0, <1>5, <1>a, <2>1, <2>2, EvType, EmitType DEF Risky
  <2>4. scored' \in 0 .. MaxScored
    BY <1>0, <1>5, BoundsAssumption DEF Risky
  <2> QED
    BY <1>0, <1>5, <2>1, <2>3, <2>4, KernelFrame DEF Risky, KernelInv, There
<1> QED
  BY <1>1, <1>2, <1>3, <1>4, <1>5, Zenon DEF Kernel

\* What the tracker does to the tree and the watchlist leaves the invariant, if both are sound.
LEMMA TreeFrame ==
    ASSUME IInv, KernelInv', Sound(Tree)', Alone(Tree)', Fits(watch', node'), SuperInv'
    PROVE  IInv'
  BY DEF IInv, Fits, Listed

\* The event the poller reads.
LEMMA Took1 ==
    ASSUME IInv, NEW type, Took(type)
    PROVE  /\ KernelInv' /\ Head(ring) \in Event /\ ring # <<>> /\ Head(ring).type = type
           /\ (supRoots' \subseteq Pid => SuperInv')
<1>1. ring \in Seq(Event) /\ ring # <<>>
  BY DEF IInv, KernelInv, Took
<1>2. Head(ring) \in Event /\ Tail(ring) \in Seq(Event)
  BY <1>1
<1>3. KernelInv'
  BY <1>2 DEF IInv, KernelInv, Took, There
<1>4. supRoots' \subseteq Pid => SuperInv'
  BY DEF IInv, SuperInv, Took, supVars
<1> QED
  BY <1>1, <1>2, <1>3, <1>4 DEF Took

\* A tree that becomes t.
LEMMA BecomesSound ==
    ASSUME NEW t, Sound(t), Becomes(t)
    PROVE  Sound(Tree)' /\ node' = t.node /\ roots' = t.roots /\ cur' = t.cur
<1>1. node' = t.node /\ roots' = t.roots /\ cur' = t.cur
  BY DEF Becomes
<1>2. Tree' = t
  BY <1>1 DEF Tree, Sound
<1> QED
  BY <1>1, <1>2 DEF Sound

\* What an event does to scores leaves the tree sound and the watchlist in order.
LEMMA JudgedSound ==
    ASSUME NEW t, Sound(t), Fits(watch, t.node), NEW u \in DOMAIN t.node, Judged(t, u)
    PROVE  /\ Sound(Tree)' /\ roots' = t.roots /\ cur' = t.cur
           /\ Rescored(t.node, node') /\ Fits(watch', node') /\ Told(watch, watch', node')
<1>1. CASE t.node[u].exempt
  <2>1. Becomes(t) /\ watch' = watch
    BY <1>1 DEF Judged
  <2>2. Sound(Tree)' /\ node' = t.node /\ roots' = t.roots /\ cur' = t.cur
    BY <2>1, BecomesSound
  <2>3. Rescored(t.node, node')
    BY <2>2, BoundsAssumption DEF Rescored, Sound, Typed, PNode, Level
  <2>4. Told(watch, watch', node')
    BY <2>1 DEF Told
  <2> QED
    BY <2>1, <2>2, <2>3, <2>4
<1>2. CASE ~t.node[u].exempt
  <2>1. Evidence(t, u, FALSE)
    BY <1>2 DEF Judged
  <2> QED
    BY <2>1, EvidenceSound
<1> QED
  BY <1>1, <1>2

LEMMA TreeNow ==
    /\ Tree.node = node /\ Tree.roots = roots /\ Tree.cur = cur
    /\ \A p : Lookup(Tree.cur, p) = Node(p)
  BY DEF Tree, Node

LEMMA SameTree == ASSUME NEW t, node' = t.node, roots' = t.roots, cur' = t.cur, Sound(t)
                  PROVE  Tree' = t
  BY DEF Tree, Sound

\* Nodes stay in the tree, and what is known of their deaths and peaks is not taken back.
Lasting(n, m) ==
    /\ DOMAIN n \subseteq DOMAIN m
    /\ \A v \in DOMAIN n : /\ m[v].peak >= n[v].peak /\ m[v].badgePeak >= n[v].badgePeak
                           /\ n[v].dead => m[v].dead

LEMMA SameLasts == ASSUME NEW n, Typed(n) PROVE Lasting(n, n)
  BY BoundsAssumption DEF Typed, Lasting, PNode, Level

\* The watchlist says which nodes are dead.
Tells(w, n) == \A u \in DOMAIN w : w[u].dead = n[u].dead

\* What is made from nodes as they are tells what they are.
LEMMA TellsOn ==
    ASSUME NEW w, NEW m, Fits(w, m), Tells(w, m), NEW v, NEW n, Told(w, v, n),
           \A u \in DOMAIN w : n[u].dead = m[u].dead
    PROVE  Tells(v, n)
  BY DEF Tells, Told, Entry

\* fork_node and what it is scored.
LEMMA IngestForkKeeps ==
    ASSUME IInv, IngestFork
    PROVE  LET p == Head(ring).pid IN
           /\ IInv' /\ p \in Pid /\ Lasting(node, node') /\ Told(watch, watch', node')
           /\ \A v \in DOMAIN node : v # Node(p) => node'[v].dead = node[v].dead
           /\ ~Gone(Tree', p) /\ SameLife(Tree, Tree', {p})
<1> DEFINE e == Head(ring)
           p == e.pid
           t == SuccessorOf(Tree, p)
           i == Inherits(t, p, e.ppid)
           s == Added(t, p, e.inc, e.ppid, e.trusted, i)
           u == Lookup(s.cur, p)
           x == Blank(e.inc, Lookup(t.cur, e.ppid), e.trusted, i)
<1>1. /\ KernelInv' /\ e \in Event /\ SuperInv' /\ Judged(s, u) /\ Free(Tree, p) # {}
      /\ supRoots' = supRoots
  BY Took1 DEF IngestFork, IInv, SuperInv
<1>2. p \in Pid /\ e.inc \in 1 .. MaxInc /\ e.trusted \in BOOLEAN
  BY <1>1 DEF Event
<1>3. Sound(Tree) /\ Fits(watch, node) /\ Alone(Tree) /\ Typed(node)
  BY TreeNow DEF IInv, Sound
<1>4. /\ Sound(t) /\ t.cur = cur /\ DOMAIN t.node = DOMAIN node
      /\ \A v \in DOMAIN node : t.node[v] = IF v = Node(p) THEN Dead(node[v]) ELSE node[v]
  BY <1>2, <1>3, SuccessorSound, TreeNow
<1>5. i \in BOOLEAN
  BY DEF Inherits
<1>6. Free(t, p) # {}
  BY <1>1, <1>4, TreeNow DEF Free
<1>a. x.dead = FALSE
  BY DEF Blank
<1> HIDE DEF e, p, t, i, x
<1>7. Grown(t, s, p, x)
  BY <1>2, <1>4, <1>5, <1>6, AddedSound DEF x
<1> HIDE DEF s
<1>8. \A y \in PNode : /\ Dead(y).peak = y.peak /\ Dead(y).badgePeak = y.badgePeak
                       /\ Dead(y).dead = TRUE
  BY DEF Dead, PNode
<1>9. /\ Sound(s) /\ DOMAIN t.node \subseteq DOMAIN s.node
      /\ \A v \in DOMAIN t.node : s.node[v] = t.node[v]
      /\ u \in DOMAIN s.node
  BY <1>7 DEF Grown
<1>10. \A v \in DOMAIN node : /\ node[v] \in PNode /\ s.node[v].peak = node[v].peak
                              /\ s.node[v].badgePeak = node[v].badgePeak
                              /\ v = Node(p) => s.node[v].dead
                              /\ v # Node(p) => s.node[v].dead = node[v].dead
  <2>1. \A v \in DOMAIN node : node[v] \in PNode
    BY <1>3 DEF Typed
  <2> QED
    BY <1>4, <1>8, <1>9, <2>1
<1>11. Alone(t) /\ Gone(t, p) /\ SameLife(Tree, t, {p})
  <2>1. \A v \in DOMAIN node : t.node[v].dead <=> node[v].dead \/ v = Node(p)
    BY <1>4, <1>9, <1>10
  <2> QED
    BY <1>2, <1>3, <1>4, <2>1, EndedLife, TreeNow
<1>12. Alone(s) /\ ~Gone(s, p) /\ SameLife(t, s, {p})
  BY <1>2, <1>4, <1>7, <1>11, <1>a, GrownLife
<1> HIDE DEF u
<1>13. Fits(watch, s.node)
  <2>1. Typed(s.node)
    BY <1>9 DEF Sound
  <2>2. \A v \in DOMAIN watch : v \in DOMAIN node
    BY <1>3 DEF Fits, Listed
  <2>3. \A v \in DOMAIN watch : s.node[v].peak >= node[v].peak
    BY <1>10, <2>2, BoundsAssumption DEF PNode, Level
  <2> QED
    BY <1>3, <1>4, <1>9, <2>1, <2>2, <2>3, FitsLater
<1>14. /\ Sound(Tree)' /\ roots' = s.roots /\ cur' = s.cur /\ Rescored(s.node, node')
       /\ Fits(watch', node') /\ Told(watch, watch', node')
  BY <1>1, <1>9, <1>13, JudgedSound
<1>15. Tree'.node = node' /\ Tree'.cur = s.cur /\ Sound(Tree')
  BY <1>14 DEF Tree, Sound
<1>16. Alone(Tree') /\ SameLife(s, Tree', {})
  <2>1. DOMAIN Tree'.node = DOMAIN s.node /\ \A v \in DOMAIN s.node : Tree'.node[v].dead <=> s.node[v].dead
    BY <1>14, <1>15 DEF Rescored
  <2> QED
    BY <1>9, <1>12, <1>15, <2>1, StillLife
<1>17. IInv'
  <2>1. Alone(Tree)'
    BY <1>16 DEF Alone
  <2> QED
    BY <1>1, <1>14, <2>1, TreeFrame
<1>18. \A v \in DOMAIN node : /\ v \in DOMAIN node' /\ node'[v].dead = s.node[v].dead
                               /\ node'[v].peak >= node[v].peak
                               /\ node'[v].badgePeak >= node[v].badgePeak
  <2>1. DOMAIN node \subseteq DOMAIN s.node
    BY <1>4, <1>9
  <2> QED
    BY <1>10, <1>14, <2>1 DEF Rescored
<1>19. Lasting(node, node')
  <2>1. \A v \in DOMAIN node : node[v].dead => s.node[v].dead
    BY <1>10
  <2> QED
    BY <1>18, <2>1 DEF Lasting
<1>20. ~Gone(Tree', p) /\ SameLife(Tree, Tree', {p})
  BY <1>2, <1>11, <1>12, <1>16 DEF SameLife
<1> QED
  BY <1>2, <1>10, <1>14, <1>17, <1>18, <1>19, <1>20 DEF p, e

\* d is w, and u is dead in it if it is there.
Marked(w, d, u) ==
    /\ DOMAIN d = DOMAIN w
    /\ \A v \in DOMAIN w : d[v].dead = IF v = u THEN TRUE ELSE w[v].dead

\* EXIT.
LEMMA WatchDeadFits ==
    ASSUME NEW n, Typed(n), NEW w, Fits(w, n), NEW u \in DOMAIN n, NEW x \in PNode,
           x.dead, x.peak = n[u].peak, x.par = n[u].par
    PROVE  /\ Typed([n EXCEPT ![u] = x]) /\ Fits(WatchDead(w, u), [n EXCEPT ![u] = x])
           /\ Marked(w, WatchDead(w, u), u)
<1> DEFINE m == [n EXCEPT ![u] = x]
           d == WatchDead(w, u)
<1>1. DOMAIN m = DOMAIN n /\ \A v \in DOMAIN n : m[v] = IF v = u THEN x ELSE n[v]
  BY DEF Typed
<1>2. m \in [DOMAIN m -> PNode]
  BY DEF Typed
<1>3. Typed(m)
  <2>1. \A v \in DOMAIN n : m[v].par = n[v].par
    BY <1>1
  <2> HIDE DEF m
  <2> QED
    BY <1>1, <1>2, <2>1 DEF Typed, Closed
<1>4. \A v \in DOMAIN n : m[v].peak = n[v].peak
  BY <1>1
<1> HIDE DEF m
<1>5. /\ DOMAIN d = DOMAIN w /\ d \in [DOMAIN w -> Watched]
      /\ \A v \in DOMAIN w : /\ d[v].peak = w[v].peak
                             /\ d[v].dead = IF v = u THEN TRUE ELSE w[v].dead
  <2>1. w \in [DOMAIN w -> Watched]
    BY DEF Fits, Listed
  <2>2. CASE u \in DOMAIN w
    <3> DEFINE y == [w[u] EXCEPT !.dead = TRUE]
    <3>1. d = [w EXCEPT ![u] = y]
      BY <2>2 DEF WatchDead
    <3>2. w[u] \in Watched
      BY <2>1, <2>2
    <3>3. y \in Watched /\ y.peak = w[u].peak /\ y.dead = TRUE
      BY <3>2 DEF Watched
    <3> HIDE DEF y, d
    <3> QED
      BY <2>1, <2>2, <3>1, <3>3
  <2>3. CASE u \notin DOMAIN w
    <3>1. d = w
      BY <2>3 DEF WatchDead
    <3> QED
      BY <2>1, <2>3, <3>1
  <2> QED
    BY <2>2, <2>3
<1> HIDE DEF d
<1>6. Fits(d, m)
  BY <1>1, <1>4, <1>5 DEF Fits, Listed
<1> QED
  BY <1>3, <1>5, <1>6 DEF m, d, Marked

\* An EXIT marks the pid gone, in the tree and on the watchlist.
LEMMA IngestExitKeeps ==
    ASSUME IInv, IngestExit
    PROVE  LET p == Head(ring).pid IN
           /\ IInv' /\ p \in Pid /\ Lasting(node, node')
           /\ Tells(watch, node) => Tells(watch', node')
           /\ Gone(Tree', p) /\ SameLife(Tree, Tree', {p})
<1> DEFINE p == Head(ring).pid
           u == Node(p)
<1>1. /\ KernelInv' /\ Head(ring) \in Event /\ (supRoots' \subseteq Pid => SuperInv')
      /\ Took("EXIT")
  BY Took1 DEF IngestExit
<1>2. p \in Pid
  BY <1>1 DEF Event
<1>3. Sound(Tree) /\ Fits(watch, node) /\ Alone(Tree) /\ Typed(node) /\ supRoots \subseteq Pid
  BY TreeNow DEF IInv, Sound, SuperInv
<1>4. IF u = None THEN UNCHANGED <<treeVars, supRoots, watch>>
      ELSE /\ node' = [node EXCEPT ![u] = Dead(@)]
           /\ watch' = WatchDead(watch, u)
           /\ supRoots' = supRoots \ {p}
           /\ UNCHANGED <<roots, cur>>
  BY DEF IngestExit
<1>5. u \in DOMAIN node \cup {None}
  BY <1>3, LookupIn, TreeNow
<1> HIDE DEF p, u
<1>6. CASE u = None
  <2>1. UNCHANGED <<treeVars, supRoots, watch>>
    BY <1>4, <1>6
  <2>2. Tree' = Tree
    BY <2>1 DEF Tree, treeVars
  <2>3. Sound(Tree)' /\ Alone(Tree)' /\ Fits(watch', node')
    BY <1>3, <2>1, <2>2 DEF Sound, Alone, treeVars
  <2>4. IInv'
    BY <1>1, <1>3, <2>1, <2>3, TreeFrame
  <2>5. Gone(Tree', p)
    BY <1>6, <2>2, TreeNow DEF Gone, u
  <2> QED
    BY <1>2, <1>3, <2>1, <2>2, <2>4, <2>5, SameLasts DEF SameLife, treeVars, p
<1>7. CASE u # None
  <2>1. u \in DOMAIN node
    BY <1>5, <1>7
  <2> DEFINE y == Dead(node[u])
             n == [node EXCEPT ![u] = y]
  <2>2. /\ y \in PNode /\ y.dead = TRUE /\ y.peak = node[u].peak /\ y.par = node[u].par
        /\ y.badgePeak = node[u].badgePeak
    BY <1>3, <2>1 DEF Dead, PNode, Typed
  <2>3. node' = n /\ watch' = WatchDead(watch, u) /\ roots' = roots /\ cur' = cur
    BY <1>4, <1>7
  <2> HIDE DEF y
  <2>4. /\ Typed(n) /\ Fits(WatchDead(watch, u), n)
        /\ Marked(watch, WatchDead(watch, u), u)
    BY <1>3, <2>1, <2>2, WatchDeadFits
  <2>5. DOMAIN n = DOMAIN node /\ \A v \in DOMAIN node : n[v] = IF v = u THEN y ELSE node[v]
    BY <2>1
  <2> HIDE DEF n
  <2>6. Sound(Tree)'
    <3>1. \A v \in DOMAIN n : n[v].par = node[v].par
      BY <2>2, <2>5
    <3>2. n \in [DOMAIN n -> PNode]
      BY <2>4 DEF Typed
    <3>3. [Tree EXCEPT !.node = n] = Tree'
      BY <2>3 DEF Tree
    <3>4. Sound([Tree EXCEPT !.node = n])
      BY <1>3, <2>5, <3>1, <3>2, SameShape, TreeNow
    <3> QED
      BY <3>3, <3>4 DEF Sound
  <2>7. Alone(Tree') /\ Gone(Tree', p) /\ SameLife(Tree, Tree', {p})
    <3>1. Tree'.cur = cur /\ Tree'.node = n
      BY <2>3 DEF Tree
    <3>2. \A v \in DOMAIN node : n[v].dead <=> node[v].dead \/ v = u
      BY <2>2, <2>5
    <3> QED
      BY <1>2, <1>3, <2>5, <3>1, <3>2, EndedLife, TreeNow DEF u
  <2>8. IInv'
    <3>1. supRoots' \subseteq Pid
      BY <1>3, <1>4, <1>7
    <3>2. Alone(Tree)'
      BY <2>7 DEF Alone
    <3> QED
      BY <1>1, <2>3, <2>4, <2>6, <3>1, <3>2, TreeFrame
  <2>9. Lasting(node, node')
    <3>1. \A v \in DOMAIN node : n[v].peak >= node[v].peak /\ n[v].badgePeak >= node[v].badgePeak
      BY <1>3, <2>2, <2>5, BoundsAssumption DEF Typed, PNode, Level
    <3> QED
      BY <2>2, <2>3, <2>5, <3>1 DEF Lasting
  <2>10. Tells(watch, node) => Tells(watch', node')
    BY <1>3, <2>2, <2>3, <2>4, <2>5 DEF Tells, Fits, Listed, Marked
  <2> QED
    BY <1>2, <2>7, <2>8, <2>9, <2>10 DEF p
<1> QED
  BY <1>6, <1>7

-----------------------------------------------------------------------------
(* Steps that add to the tree and mark nothing dead.                       *)

Peaks(n, m) == \A v \in DOMAIN n : m[v].peak >= n[v].peak /\ m[v].badgePeak >= n[v].badgePeak

\* s is t, perhaps with higher peaks and other flags, and perhaps with new nodes for pids of P.
Extends(t, s, P) ==
    /\ Sound(s) /\ Alone(s) /\ DOMAIN t.node \subseteq DOMAIN s.node
    /\ Peaks(t.node, s.node)
    /\ \A v \in DOMAIN t.node : s.node[v].dead = t.node[v].dead
    /\ SameLife(t, s, P) /\ \A p \in Pid : ~Gone(t, p) => ~Gone(s, p)

LEMMA ExtendsSelf == ASSUME NEW t, Sound(t), Alone(t) PROVE Extends(t, t, {})
  BY BoundsAssumption DEF Extends, Peaks, SameLife, Sound, Typed, PNode, Level

\* Two extensions of a tree make one.
LEMMA ExtendsOn ==
    ASSUME NEW t, Sound(t), NEW s, NEW r, NEW P, NEW Q, Extends(t, s, P), Extends(s, r, Q)
    PROVE  Extends(t, r, P \cup Q)
<1>1. ASSUME NEW v \in DOMAIN t.node
      PROVE  /\ r.node[v].peak >= t.node[v].peak /\ r.node[v].badgePeak >= t.node[v].badgePeak
             /\ r.node[v].dead = t.node[v].dead
  <2>1. v \in DOMAIN s.node /\ v \in DOMAIN r.node
    BY DEF Extends
  <2>2. t.node[v] \in PNode /\ s.node[v] \in PNode /\ r.node[v] \in PNode
    BY <2>1 DEF Extends, Sound, Typed
  <2>3. \A x \in PNode : x.peak \in Nat /\ x.badgePeak \in Nat
    BY BoundsAssumption DEF PNode, Level
  <2>4. /\ s.node[v].peak >= t.node[v].peak /\ s.node[v].badgePeak >= t.node[v].badgePeak
        /\ r.node[v].peak >= s.node[v].peak /\ r.node[v].badgePeak >= s.node[v].badgePeak
    BY <2>1 DEF Extends, Peaks
  <2>5. s.node[v].dead = t.node[v].dead /\ r.node[v].dead = s.node[v].dead
    BY <2>1 DEF Extends
  <2> QED
    BY <2>2, <2>3, <2>4, <2>5
<1>2. Peaks(t.node, r.node)
  BY <1>1 DEF Peaks
<1>3. SameLife(t, r, P \cup Q)
  BY DEF Extends, SameLife
<1>4. DOMAIN t.node \subseteq DOMAIN r.node /\ \A p \in Pid : ~Gone(t, p) => ~Gone(r, p)
  BY DEF Extends
<1> QED
  BY <1>1, <1>2, <1>3, <1>4 DEF Extends

\* A node for a pid nobody knew extends the tree.
LEMMA ExtendsGrown ==
    ASSUME NEW t, Sound(t), Alone(t), NEW p \in Pid, Lookup(t.cur, p) = None, NEW x,
           x.dead = FALSE, NEW s, Grown(t, s, p, x)
    PROVE  Extends(t, s, {p})
<1>1. Gone(t, p)
  BY DEF Gone
<1>2. Alone(s) /\ ~Gone(s, p) /\ SameLife(t, s, {p})
  BY <1>1, GrownLife
<1>3. /\ Sound(s) /\ DOMAIN t.node \subseteq DOMAIN s.node
      /\ \A v \in DOMAIN t.node : s.node[v] = t.node[v]
  BY DEF Grown
<1>4. Peaks(t.node, s.node)
  BY <1>3, BoundsAssumption DEF Peaks, Sound, Typed, PNode, Level
<1> QED
  BY <1>1, <1>2, <1>3, <1>4 DEF Extends, SameLife

\* New scores on the same nodes extend the tree.
LEMMA ExtendsShape ==
    ASSUME NEW t, Sound(t), Alone(t), NEW s, Sound(s), s.cur = t.cur,
           DOMAIN s.node = DOMAIN t.node, Peaks(t.node, s.node),
           \A v \in DOMAIN t.node : s.node[v].dead = t.node[v].dead
    PROVE  Extends(t, s, {})
<1>1. Alone(s) /\ SameLife(t, s, {})
  BY StillLife
<1> QED
  BY <1>1 DEF Extends, SameLife

\* Evidence extends the tree it is added to.
LEMMA ExtendsEvidence ==
    ASSUME NEW t, Sound(t), Alone(t), Fits(watch, t.node), NEW u \in DOMAIN t.node,
           NEW exempt \in BOOLEAN, Evidence(t, u, exempt)
    PROVE  Extends(t, Tree', {}) /\ Fits(watch', node') /\ Told(watch, watch', node')
<1>1. /\ Sound(Tree)' /\ roots' = t.roots /\ cur' = t.cur
      /\ Rescored(t.node, node') /\ Fits(watch', node') /\ Told(watch, watch', node')
  BY EvidenceSound
<1>2. Tree'.node = node' /\ Tree'.cur = cur'
  BY DEF Tree
<1>3. Sound(Tree')
  BY <1>1 DEF Sound
<1>4. Extends(t, Tree', {})
  BY <1>1, <1>2, <1>3, ExtendsShape DEF Rescored, Peaks
<1> QED
  BY <1>1, <1>4

\* The watchlist of a tree serves one that extends it.
LEMMA ExtendsWatch ==
    ASSUME NEW t, Sound(t), NEW s, NEW P, Extends(t, s, P), NEW w, Fits(w, t.node)
    PROVE  /\ Fits(w, s.node) /\ Lasting(t.node, s.node)
           /\ Tells(w, t.node) => Tells(w, s.node)
<1>1. /\ Typed(t.node) /\ Typed(s.node) /\ DOMAIN w \subseteq DOMAIN t.node
      /\ DOMAIN w \subseteq DOMAIN s.node
  BY DEF Extends, Sound, Fits, Listed
<1>2. Fits(w, s.node)
  BY <1>1, FitsLater DEF Extends, Peaks
<1>3. Lasting(t.node, s.node)
  BY DEF Lasting, Extends, Peaks
<1>4. Tells(w, t.node) => Tells(w, s.node)
  BY <1>1 DEF Tells, Extends
<1> QED
  BY <1>2, <1>3, <1>4

\* What a step that extends the tree leaves.
LEMMA ExtendsFrame ==
    ASSUME IInv, KernelInv', SuperInv', NEW P, Extends(Tree, Tree', P), Fits(watch', node')
    PROVE  IInv' /\ Lasting(node, node')
<1>1. Sound(Tree)' /\ Alone(Tree)'
  BY DEF Extends, Sound, Alone
<1>2. Lasting(node, node')
  BY TreeNow, ExtendsWatch DEF Tree, IInv
<1> QED
  BY <1>1, <1>2, TreeFrame

\* The tree where ensure_node finds, or makes, the node of p.
LEMMA EnsuredExtends ==
    ASSUME NEW t, Sound(t), Alone(t), NEW p \in Pid, NEW of \in 1 .. MaxInc, NEW ppid,
           NEW exempt \in BOOLEAN, NEW supervised \in BOOLEAN,
           Lookup(t.cur, p) = None => Free(t, p) # {},
           NEW s, s = IF Lookup(t.cur, p) # None THEN t
                      ELSE Added(t, p, of, ppid, exempt, supervised)
    PROVE  Extends(t, s, {p}) /\ Lookup(s.cur, p) \in DOMAIN s.node
<1>1. CASE Lookup(t.cur, p) # None
  <2>1. s = t /\ Extends(t, t, {})
    BY <1>1, ExtendsSelf
  <2>2. Lookup(t.cur, p) \in DOMAIN t.node
    BY <1>1, LookupIn
  <2> QED
    BY <2>1, <2>2 DEF Extends, SameLife
<1>2. CASE Lookup(t.cur, p) = None
  <2> DEFINE x == Blank(of, Lookup(t.cur, ppid), exempt, supervised)
  <2>1. x.dead = FALSE
    BY DEF Blank
  <2>2. s = Added(t, p, of, ppid, exempt, supervised)
    BY <1>2
  <2>3. Grown(t, s, p, x)
    BY <1>2, <2>2, AddedSound
  <2> HIDE DEF x
  <2>4. Extends(t, s, {p})
    BY <1>2, <2>1, <2>3, ExtendsGrown
  <2> QED
    BY <2>3, <2>4 DEF Grown
<1> QED
  BY <1>1, <1>2

\* The tree with one flag changed.
LEMMA ExemptExtends ==
    ASSUME NEW t, Sound(t), Alone(t), NEW u \in DOMAIN t.node, NEW b \in BOOLEAN
    PROVE  LET s == [t EXCEPT !.node[u].exempt = b]
           IN Extends(t, s, {}) /\ s.cur = t.cur /\ DOMAIN s.node = DOMAIN t.node
              /\ s.node[u].exempt = b
<1> DEFINE x == t.node[u]
           y == [x EXCEPT !.exempt = b]
           n == [t.node EXCEPT ![u] = y]
<1>1. [t EXCEPT !.node[u].exempt = b] = [t EXCEPT !.node = n]
  BY DEF Sound
<1>4. \A v \in DOMAIN t.node : t.node[v] \in PNode
  BY DEF Sound, Typed
<1>2. /\ y \in PNode /\ y.par = x.par /\ y.dead = x.dead /\ y.peak = x.peak
      /\ y.badgePeak = x.badgePeak /\ y.exempt = b
  BY <1>4, t.node[u] \in PNode DEF PNode
<1>3. /\ t.node \in [DOMAIN t.node -> PNode]
  BY DEF Sound, Typed
<1> HIDE DEF y
<1>5. /\ n \in [DOMAIN t.node -> PNode] /\ DOMAIN n = DOMAIN t.node /\ n[u] = y
      /\ \A v \in DOMAIN t.node : v # u => n[v] = t.node[v]
  BY <1>2, <1>3
<1> HIDE DEF n
<1>6. \A v \in DOMAIN t.node : /\ n[v].par = t.node[v].par /\ n[v].dead = t.node[v].dead
                               /\ n[v].peak = t.node[v].peak
                               /\ n[v].badgePeak = t.node[v].badgePeak
  BY <1>2, <1>5
<1> DEFINE s == [t EXCEPT !.node = n]
<1>7. Sound(s) /\ s.node = n /\ s.cur = t.cur
  BY <1>5, <1>6, SameShape
<1> HIDE DEF s
<1>8. Peaks(t.node, n)
  BY <1>4, <1>6, BoundsAssumption DEF Peaks, PNode, Level
<1>9. Extends(t, s, {})
  BY <1>5, <1>6, <1>7, <1>8, ExtendsShape
<1> QED
  BY <1>1, <1>2, <1>5, <1>7, <1>9 DEF s

\* EXEC and scored events.
LEMMA IngestScoredKeeps ==
    ASSUME IInv, IngestScored
    PROVE  LET p == Head(ring).pid IN
           /\ IInv' /\ p \in Pid /\ Lasting(node, node') /\ Extends(Tree, Tree', {p})
           /\ Tells(watch, node) => Tells(watch', node')
<1> DEFINE e == Head(ring)
           p == e.pid
           b == Inherits(Tree, p, e.ppid)
           t == IF Node(p) # None THEN Tree
                ELSE Added(Tree, p, e.inc, e.ppid, e.trusted, b)
           u == Lookup(t.cur, p)
           s == IF e.type = "RISKY" THEN t ELSE [t EXCEPT !.node[u].exempt = e.trusted]
<1>1. /\ KernelInv' /\ e \in Event /\ SuperInv'
      /\ Node(p) = None => Free(Tree, p) # {}
      /\ Judged(s, u)
  <2>1. Took(e.type) /\ supRoots' = supRoots
    BY DEF IngestScored
  <2>2. KernelInv' /\ e \in Event /\ SuperInv'
    BY <2>1, Took1 DEF IInv, SuperInv
  <2> QED
    BY <2>2 DEF IngestScored
<1>2. p \in Pid /\ e.inc \in 1 .. MaxInc /\ e.trusted \in BOOLEAN /\ b \in BOOLEAN
  BY <1>1 DEF Event, Inherits
<1>3. Sound(Tree) /\ Alone(Tree) /\ Fits(watch, Tree.node)
  BY TreeNow DEF IInv
<1> HIDE DEF e, p, b
<1>4. Extends(Tree, t, {p}) /\ u \in DOMAIN t.node
  <2>1. t = IF Lookup(Tree.cur, p) # None THEN Tree
            ELSE Added(Tree, p, e.inc, e.ppid, e.trusted, b)
    BY TreeNow
  <2> HIDE DEF t
  <2> QED
    BY <1>1, <1>2, <1>3, <2>1, EnsuredExtends, TreeNow
<1> HIDE DEF t, u
<1>5. Extends(t, s, {}) /\ u \in DOMAIN s.node
  <2>1. Sound(t) /\ Alone(t)
    BY <1>4 DEF Extends
  <2> QED
    BY <1>2, <1>4, <2>1, ExtendsSelf, ExemptExtends
<1> HIDE DEF s
<1>6. Extends(Tree, s, {p})
  BY <1>3, <1>4, <1>5, ExtendsOn, {p} \cup {} = {p}
<1>7. Fits(watch, s.node) /\ (Tells(watch, node) => Tells(watch, s.node))
  BY <1>3, <1>6, ExtendsWatch, TreeNow
<1>8. Sound(s) /\ Alone(s)
  BY <1>6 DEF Extends
<1>9. CASE s.node[u].exempt
  <2>1. Becomes(s) /\ watch' = watch
    BY <1>1, <1>9 DEF Judged
  <2>2. node' = s.node /\ Tree' = s
    BY <1>8, <2>1, BecomesSound, SameTree
  <2>3. Extends(Tree, Tree', {p}) /\ Fits(watch', node')
    BY <1>6, <1>7, <2>1, <2>2
  <2> QED
    BY <1>1, <1>2, <1>7, <2>1, <2>2, <2>3, ExtendsFrame DEF p, e
<1>10. CASE ~s.node[u].exempt
  <2>0. Evidence(s, u, FALSE)
    BY <1>1, <1>10 DEF Judged
  <2>1. Extends(s, Tree', {}) /\ Fits(watch', node') /\ Told(watch, watch', node')
    BY <1>5, <1>7, <1>8, <2>0, ExtendsEvidence
  <2>2. Extends(Tree, Tree', {p})
    BY <1>3, <1>6, <2>1, ExtendsOn, {p} \cup {} = {p}
  <2>3. Tells(watch, node) => Tells(watch', node')
    <3>1. \A v \in DOMAIN watch : v \in DOMAIN s.node /\ node'[v].dead = s.node[v].dead
      BY <1>7, <2>1 DEF Fits, Listed, Extends, Tree
    <3> QED
      BY <1>7, <2>1, <3>1, TellsOn
  <2> QED
    BY <1>1, <1>2, <2>1, <2>2, <2>3, ExtendsFrame DEF p, e
<1> QED
  BY <1>9, <1>10

-----------------------------------------------------------------------------
(* Collection, and the watchlist of a tick.                                *)

\* Every element of a set is in a sequence of its elements in any order.
LEMMA SeqsCover ==
    ASSUME NEW S, IsFiniteSet(S), NEW us \in SetToSeqs(S)
    PROVE  us \in Seq(S) /\ \A x \in S : \E i \in 1 .. Len(us) : us[i] = x
<1> DEFINE c == Cardinality(S)
<1>1. c \in Nat
  BY FS_CardinalityType
<1>2. us \in [1 .. c -> S] /\ \A i, j \in 1 .. c : i # j => us[i] # us[j]
  BY DEF SetToSeqs
<1>3. us \in Seq(S) /\ Len(us) = c
  BY <1>1, <1>2
<1>4. ASSUME NEW x \in S, \A i \in 1 .. c : us[i] # x PROVE FALSE
  <2>1. us \in [1 .. c -> S \ {x}]
    BY <1>2, <1>4
  <2>2. IsFiniteSet(S \ {x}) /\ Cardinality(S \ {x}) = c - 1
    BY <1>4, FS_RemoveElement
  <2>3. IsFiniteSet(1 .. c) /\ Cardinality(1 .. c) = c
    BY <1>1, FS_Interval
  <2> HIDE DEF c
  <2>4. c - 1 < c
    BY <1>1
  <2>5. \E i, j \in 1 .. c : i # j /\ us[i] = us[j]
    BY <2>1, <2>2, <2>3, <2>4, FS_PigeonHole
  <2> QED
    BY <1>2, <2>5
<1> QED
  BY <1>3, <1>4

\* Any order of the watchable nodes has each of them.
LEMMA WatchableSeqs ==
    ASSUME NEW n, Typed(n), NEW us \in SetToSeqs(Watchable(n))
    PROVE  /\ us \in Seq(Watchable(n)) /\ us \in Seq(DOMAIN n)
           /\ \A x \in Watchable(n) : \E i \in 1 .. Len(us) : us[i] = x
<1>1. Watchable(n) \subseteq DOMAIN n
  BY DEF Watchable
<1>2. IsFiniteSet(Watchable(n))
  BY <1>1, UidIsFinite, FS_Subset DEF Typed
<1>3. /\ us \in Seq(Watchable(n))
      /\ \A x \in Watchable(n) : \E i \in 1 .. Len(us) : us[i] = x
  BY <1>2, SeqsCover
<1>4. us \in Seq(DOMAIN n)
  <2>1. /\ Len(us) \in Nat /\ us = [i \in 1 .. Len(us) |-> us[i]]
        /\ \A i \in 1 .. Len(us) : us[i] \in DOMAIN n
    BY <1>1, <1>3
  <2> QED
    BY <2>1
<1> QED
  BY <1>3, <1>4

\* A tick, by what it makes of the scores, what it collects and whom it watches.
Ticked(n, S, us) ==
    /\ Typed(n) /\ Rescored(node, n)
    /\ \A v \in DOMAIN node : n[v].peak = node[v].peak /\ n[v].exempt = node[v].exempt
    /\ S \in SUBSET Collectable(n) /\ Erase(n, S)
    /\ us \in SetToSeqs(Watchable(n)) /\ watch' \in WatchingAll(watch, n, us)

\* A tick decays, badges, collects some nodes and then offers the rest to the watchlist.
LEMMA TickIs ==
    ASSUME IInv, Tick
    PROVE  \E n, S, us : Ticked(n, S, us)
<1>1. PICK d \in Decayed(node) :
          /\ \E S \in SUBSET Collectable(Badged(d)) : Erase(Badged(d), S)
          /\ \E us \in SetToSeqs(Watchable(Badged(d))) :
                 watch' \in WatchingAll(watch, Badged(d), us)
  BY Zenon DEF Tick
<1> DEFINE n == Badged(d)
<1>2. PICK S \in SUBSET Collectable(n) : Erase(n, S)
  BY <1>1
<1>3. PICK us \in SetToSeqs(Watchable(n)) : watch' \in WatchingAll(watch, n, us)
  BY <1>1
<1> HIDE DEF n
<1>4. n = Badged(d)
  BY DEF n
<1>5. Typed(node)
  BY TreeNow DEF IInv, Sound
<1>6. /\ Typed(n) /\ Rescored(node, n)
      /\ \A v \in DOMAIN node : n[v].peak = node[v].peak /\ n[v].exempt = node[v].exempt
  BY <1>4, <1>5, TickRescored
<1>7. Ticked(n, S, us)
  BY <1>2, <1>3, <1>6, Zenon DEF Ticked
<1> QED
  BY <1>7, Zenon

\* What gc_sweep and purge_dead take is dead and was never worth keeping.
LEMMA TickKeeps ==
    ASSUME IInv, Tick
    PROVE  /\ IInv' /\ (Tells(watch, node) => Tells(watch', node'))
           /\ \A u \in DOMAIN node : Keep(node[u]) > 0 => u \in DOMAIN node'
           /\ \A p \in Pid : Gone(Tree, p)' <=> Gone(Tree, p)
           /\ \A u \in DOMAIN node' : node'[u].peak = node[u].peak /\ u \in DOMAIN node
<1>1. PICK n, S, us : Ticked(n, S, us)
  BY TickIs
<1>2. /\ Typed(n) /\ Rescored(node, n)
      /\ S \in SUBSET Collectable(n) /\ Erase(n, S)
      /\ us \in SetToSeqs(Watchable(n)) /\ watch' \in WatchingAll(watch, n, us)
  BY <1>1 DEF Ticked
<1>3. Sound(Tree) /\ Alone(Tree) /\ Fits(watch, node) /\ Typed(node)
  BY TreeNow DEF IInv, Sound
<1>4. /\ DOMAIN n = DOMAIN node
      /\ \A v \in DOMAIN node : /\ n[v].dead = node[v].dead /\ n[v].peak = node[v].peak
                                /\ n[v].badgePeak >= node[v].badgePeak
                                /\ n[v] \in PNode /\ node[v] \in PNode
  BY <1>1, <1>2, <1>3 DEF Ticked, Rescored, Typed
<1>5. S \subseteq DOMAIN n /\ \A v \in S : n[v].dead /\ ~(Keep(n[v]) > 0)
  BY <1>2 DEF Collectable, Forensic
<1>6. Sound(Tree)' /\ Thinned(n, node', S)
  BY <1>2, <1>3, <1>4, <1>5, EraseSound
<1>7. Alone(Tree)' /\ \A p \in Pid : Gone(Tree, p)' <=> Gone(Tree, p)
  BY <1>2, <1>3, <1>4, <1>5, EraseLife
<1>8. Fits(watch, n)
  <2>1. \A v \in DOMAIN watch : v \in DOMAIN n /\ n[v].peak >= node[v].peak
    BY <1>3, <1>4, BoundsAssumption DEF Fits, Listed, PNode, Level
  <2> QED
    BY <1>2, <1>3, <2>1, FitsLater
<1>9. Fits(watch', n) /\ Told(watch, watch', n)
  <2>1. us \in Seq(DOMAIN n)
    BY <1>2, WatchableSeqs
  <2> QED
    BY <1>2, <1>8, <2>1, WatchingAllFits
<1>10. DOMAIN watch' \subseteq DOMAIN node'
  <2>1. SUFFICES ASSUME NEW v \in DOMAIN watch', v \in S PROVE FALSE
    BY <1>6, <1>9 DEF Thinned, Fits, Listed
  <2>2. watch'[v].peak > 0 /\ watch'[v].peak <= n[v].peak /\ watch'[v].peak \in Nat
    BY <1>9, BoundsAssumption DEF Fits, Listed, Watched, Level
  <2>3. n[v] \in PNode /\ ~(Keep(n[v]) > 0)
    BY <1>4, <1>5, <2>1
  <2> QED
    BY <2>2, <2>3, BoundsAssumption DEF Keep, Max2, PNode, Level
<1>11. Fits(watch', node')
  BY <1>6, <1>9, <1>10 DEF Fits, Listed, Thinned
<1>12. IInv'
  <2>1. KernelInv'
    BY DEF IInv, KernelInv, Tick, There
  <2>2. SuperInv'
    BY <1>2 DEF IInv, SuperInv, Tick, Erase, supVars
  <2> QED
    BY <1>6, <1>7, <1>11, <2>1, <2>2, TreeFrame
<1>13. Tells(watch, node) => Tells(watch', node')
  <2>1. Tells(watch, node) => Tells(watch', n)
    BY <1>3, <1>4, <1>9, TellsOn DEF Fits, Listed
  <2> QED
    BY <1>6, <1>10, <2>1 DEF Tells, Thinned
<1>14. ASSUME NEW u \in DOMAIN node, Keep(node[u]) > 0 PROVE u \in DOMAIN node'
  <2>1. Keep(n[u]) > 0
    BY <1>4, <1>14, BoundsAssumption DEF Keep, Max2, PNode, Level
  <2> QED
    BY <1>4, <1>5, <1>6, <2>1 DEF Thinned
<1>15. \A u \in DOMAIN node' : node'[u].peak = node[u].peak /\ u \in DOMAIN node
  BY <1>4, <1>6 DEF Thinned
<1> QED
  BY <1>7, <1>12, <1>13, <1>14, <1>15

\* purge_dead loses only dead nodes nobody keeps, and no peak.
LEMMA PurgeKeeps ==
    ASSUME IInv, Purge
    PROVE  /\ IInv' /\ (Tells(watch, node) => Tells(watch', node'))
           /\ \A u \in DOMAIN node : Keep(node[u]) > 0 => u \in DOMAIN node'
           /\ \A p \in Pid : Gone(Tree, p)' <=> Gone(Tree, p)
           /\ \A u \in DOMAIN node' : node'[u].peak = node[u].peak /\ u \in DOMAIN node
<1> DEFINE S == {u \in DOMAIN node : node[u].dead /\ ~LiveChild(node, u) /\ ~Forensic(node[u])}
<1>1. /\ Erase(node, S) /\ watch' = [u \in DOMAIN watch \ S |-> watch[u]]
      /\ UNCHANGED <<proc, ring, supVars, scored>>
  BY DEF Purge
<1>2. S \subseteq DOMAIN node /\ \A v \in S : node[v].dead /\ ~(Keep(node[v]) > 0)
  BY DEF Forensic
<1> HIDE DEF S
<1>3. Sound(Tree) /\ Alone(Tree) /\ Fits(watch, node) /\ Typed(node)
  BY TreeNow DEF IInv, Sound
<1>4. Sound(Tree)' /\ Thinned(node, node', S)
  BY <1>1, <1>2, <1>3, EraseSound
<1>5. Alone(Tree)' /\ \A p \in Pid : Gone(Tree, p)' <=> Gone(Tree, p)
  BY <1>1, <1>2, <1>3, EraseLife
<1>6. /\ DOMAIN watch' = DOMAIN watch \ S /\ \A v \in DOMAIN watch' : watch'[v] = watch[v]
      /\ watch' \in [DOMAIN watch' -> Watched]
  BY <1>1, <1>3 DEF Fits, Listed
<1>7. Fits(watch', node')
  <2>1. Listed(watch', node')
    BY <1>3, <1>4, <1>6 DEF Fits, Listed, Thinned
  <2>2. IsFiniteSet(DOMAIN watch)
    BY <1>3, UidIsFinite, FS_Subset DEF Typed, Fits, Listed
  <2>3. Cardinality(DOMAIN watch') <= Cardinality(DOMAIN watch)
        /\ Cardinality(DOMAIN watch') \in Nat /\ Cardinality(DOMAIN watch) \in Nat
    BY <1>6, <2>2, FS_Subset, FS_CardinalityType
  <2>4. Cardinality(DOMAIN watch) <= WatchMax
    BY <1>3 DEF Fits
  <2> QED
    BY <2>1, <2>3, <2>4, BoundsAssumption DEF Fits
<1>8. IInv'
  <2>1. KernelInv'
    BY <1>1 DEF IInv, KernelInv, There
  <2>2. SuperInv'
    BY <1>1 DEF IInv, SuperInv, Erase, supVars
  <2> QED
    BY <1>4, <1>5, <1>7, <2>1, <2>2, TreeFrame
<1>9. Tells(watch, node) => Tells(watch', node')
  BY <1>4, <1>6, <1>7 DEF Tells, Thinned, Fits, Listed
<1>10. \A u \in DOMAIN node : Keep(node[u]) > 0 => u \in DOMAIN node'
  BY <1>2, <1>4 DEF Thinned
<1>11. \A u \in DOMAIN node' : node'[u].peak = node[u].peak /\ u \in DOMAIN node
  BY <1>4 DEF Thinned
<1> QED
  BY <1>5, <1>8, <1>9, <1>10, <1>11

-----------------------------------------------------------------------------
(* Launch and the supervise thread.                                        *)

\* A process whose parent is found has one that is there.
LEMMA PpidThere == ASSUME NEW p, Ppid(p) # NoPid PROVE There(Ppid(p))
  BY DEF Ppid

\* The launched root above a process is one that is there.
LEMMA RootAboveDef ==
    ASSUME NEW p, There(p)
    PROVE  RootAbove(p) = NoPid \/ (RootAbove(p) \in supRoots /\ There(RootAbove(p)))
<1> DEFINE Next1(v) == IF v = NoPid THEN NoPid ELSE Ppid(v)
           Ok(m, f) == f = [k \in 1 .. m |-> IF k = 1 THEN p ELSE Next1(f[k - 1])]
           Bad == {m \in Nat : \A f : ~Ok(m, f)}
<1>1. ASSUME Bad # {} PROVE FALSE
  <2>1. PICK m \in Bad : \A y \in Bad : m <= y
    BY <1>1, LeastNat
  <2>2. CASE m = 0
    <3> DEFINE g == [k \in 1 .. 0 |-> p]
    <3>1. Ok(0, g)
      OBVIOUS
    <3> QED
      BY <2>1, <2>2, <3>1
  <2>3. CASE m # 0
    <3>0. m \in Nat
      BY <2>1
    <3>1. m \in Nat /\ m - 1 \in Nat /\ m - 1 \notin Bad
      <4> HIDE DEF Bad
      <4> QED
        BY <2>1, <2>3, <3>0
    <3>2. PICK f : Ok(m - 1, f)
      <4> HIDE DEF Ok
      <4> QED
        BY <3>1
    <3> DEFINE g == [k \in 1 .. m |-> IF k = 1 THEN p ELSE Next1(f[k - 1])]
    <3> HIDE DEF Next1
    <3>3. \A k \in 1 .. m - 1 : f[k] = IF k = 1 THEN p ELSE Next1(f[k - 1])
      <4>1. m - 1 \in Nat
        BY <3>1
      <4> QED
        BY <3>2, <4>1
    <3>a. \A k \in 1 .. m : g[k] = IF k = 1 THEN p ELSE Next1(f[k - 1])
      OBVIOUS
    <3>b. \A k \in 1 .. m - 1 : k \in 1 .. m /\ g[k] = f[k]
      BY <3>1, <3>3, <3>a
    <3>4. \A k \in 1 .. m : g[k] = IF k = 1 THEN p ELSE Next1(g[k - 1])
      <4> HIDE DEF g
      <4>1. \A k \in 1 .. m : k # 1 => k - 1 \in 1 .. m - 1
        BY <3>1
      <4> QED
        BY <3>a, <3>b, <4>1
    <3>5. Ok(m, g)
      <4> HIDE DEF g
      <4>1. g = [k \in 1 .. m |-> g[k]]
        BY DEF g
      <4> QED
        BY <3>4, <4>1
    <3> QED
      BY <2>1, <3>5
  <2> QED
    BY <2>2, <2>3
<1>2. PICK g : Ok(Cardinality(Pid), g)
  BY <1>1, UidFinite
<1> DEFINE up[k \in 1 .. Cardinality(Pid)] ==
               IF k = 1 THEN p ELSE IF up[k - 1] = NoPid THEN NoPid ELSE Ppid(up[k - 1])
           hits == {k \in 1 .. Cardinality(Pid) : up[k] \in supRoots}
           least == CHOOSE k \in hits : \A j \in hits : k <= j
<1>3. up = [k \in 1 .. Cardinality(Pid) |->
               IF k = 1 THEN p ELSE IF up[k - 1] = NoPid THEN NoPid ELSE Ppid(up[k - 1])]
  BY <1>2
<1>4. RootAbove(p) = IF hits = {} THEN NoPid ELSE up[least]
  BY DEF RootAbove
<1> HIDE DEF up
<1>5. \A k \in 1 .. Cardinality(Pid) :
          up[k] = IF k = 1 THEN p ELSE IF up[k - 1] = NoPid THEN NoPid ELSE Ppid(up[k - 1])
  BY <1>3
<1>6. ASSUME NEW k \in 1 .. Cardinality(Pid), up[k] # NoPid PROVE There(up[k])
  BY <1>5, <1>6, PpidThere
<1>7. CASE hits # {}
  <2>1. \E k \in hits : \A j \in hits : k <= j
    <3>1. hits \subseteq Nat
      BY UidFinite
    <3> HIDE DEF hits
    <3> QED
      BY <1>7, <3>1, LeastNat
  <2>2. least \in hits
    <3> HIDE DEF hits
    <3> QED
      BY <2>1
  <2> HIDE DEF least
  <2> QED
    BY <1>4, <1>6, <1>7, <2>2
<1> QED
  BY <1>4, <1>7

\* An extension may be said of more pids.
LEMMA ExtendsMore ==
    ASSUME NEW t, NEW s, NEW P, NEW Q, Extends(t, s, P), P \subseteq Q
    PROVE  Extends(t, s, Q)
  BY DEF Extends, SameLife

\* A step that leaves the tree and the watchlist alone.
LEMMA StillFrame ==
    ASSUME IInv, KernelInv', SuperInv', UNCHANGED <<treeVars, watch>>
    PROVE  IInv' /\ Tree' = Tree
<1>1. Tree' = Tree
  BY DEF Tree, treeVars
<1>2. Sound(Tree)' /\ Alone(Tree)'
  BY <1>1 DEF IInv, Sound, Alone
<1>3. Fits(watch, node)'
  BY DEF IInv, Fits, Listed, treeVars
<1> QED
  BY <1>1, <1>2, <1>3 DEF IInv

\* A process nobody told of is synthesised, and so may be its root.
LEMMA PredictKeeps ==
    ASSUME IInv, NEW p \in Pid, Predict(p)
    PROVE  /\ IInv' /\ Lasting(node, node') /\ (Tells(watch, node) => Tells(watch', node'))
           /\ Extends(Tree, Tree', {q \in Pid : There(q)})
<1> DEFINE P == {q \in Pid : There(q)}
           t == IF Node(p) = None THEN Synth(Tree, p, p \in supRoots) ELSE Tree
           u == Lookup(t.cur, p)
           c == RootAbove(p)
           known == \/ \E v \in Ancestry(t.node, u) : v[1] \in supRoots
                    \/ c = NoPid \/ Lookup(t.cur, c) # None
<1>1. /\ There(p) /\ (Node(p) = None => Free(Tree, p) # {})
      /\ IF known THEN Becomes(t) ELSE Free(t, c) # {} /\ Becomes(Synth(t, c, TRUE))
      /\ UNCHANGED <<proc, ring, supRoots, watch, root, victims, scored>>
  BY DEF Predict, Up, There
<1>2. /\ Sound(Tree) /\ Alone(Tree) /\ Fits(watch, node) /\ Fits(watch, Tree.node)
      /\ supRoots \subseteq Pid
  BY TreeNow DEF IInv, SuperInv
<1>3. \A q \in P : proc[q].inc \in 1 .. MaxInc /\ proc[q].trusted \in BOOLEAN
  BY BoundsAssumption DEF IInv, KernelInv, Process
<1>4. Extends(Tree, t, P)
  <2> DEFINE b == p \in supRoots
             x == ~b /\ proc[p].trusted
  <2>1. b \in BOOLEAN /\ x \in BOOLEAN
    OBVIOUS
  <2>2. t = IF Lookup(Tree.cur, p) # None THEN Tree
            ELSE Added(Tree, p, proc[p].inc, Ppid(p), x, b)
    BY TreeNow DEF Synth
  <2> HIDE DEF t, b, x
  <2>3. Extends(Tree, t, {p})
    BY <1>1, <1>2, <1>3, <2>1, <2>2, EnsuredExtends, TreeNow
  <2> QED
    BY <1>1, <2>3, ExtendsMore
<1> HIDE DEF t
<1>5. Sound(t) /\ Alone(t)
  BY <1>4 DEF Extends
<1>6. Extends(Tree, Tree', P)
  <2>1. CASE known
    <3>1. Tree' = t
      BY <1>1, <1>5, <2>1, BecomesSound, SameTree
    <3> QED
      BY <1>4, <3>1
  <2>2. CASE ~known
    <3> DEFINE s == Synth(t, c, TRUE)
    <3>1. c # NoPid /\ Lookup(t.cur, c) = None /\ Free(t, c) # {} /\ Becomes(s)
      BY <1>1, <2>2
    <3> HIDE DEF u, known
    <3>2. c \in P
      BY <1>1, <1>2, <3>1, RootAboveDef
    <3> HIDE DEF c
    <3>3. s = IF Lookup(t.cur, c) # None THEN t
              ELSE Added(t, c, proc[c].inc, Ppid(c), FALSE, TRUE)
      BY <3>1 DEF Synth
    <3> HIDE DEF s
    <3>4. Extends(t, s, {c})
      BY <1>3, <1>5, <3>1, <3>2, <3>3, EnsuredExtends
    <3>5. Extends(t, s, P)
      BY <3>2, <3>4, ExtendsMore
    <3>6. Extends(Tree, s, P)
      BY <1>2, <1>4, <3>5, ExtendsOn, P \cup P = P
    <3>7. Tree' = s
      <4>1. Sound(s)
        BY <3>6 DEF Extends
      <4> QED
        BY <3>1, <4>1, BecomesSound, SameTree
    <3> QED
      BY <3>6, <3>7
  <2> QED
    BY <2>1, <2>2
<1> HIDE DEF P, u, c, known
<1>7. Tree'.node = node'
  BY DEF Tree
<1>8. Fits(watch', node') /\ (Tells(watch, node) => Tells(watch', node'))
  BY <1>1, <1>2, <1>6, <1>7, ExtendsWatch, TreeNow
<1>9. KernelInv'
  BY <1>1 DEF IInv, KernelInv, There
<1>10. SuperInv'
  BY <1>1 DEF IInv, SuperInv, Predict
<1> QED
  BY <1>6, <1>8, <1>9, <1>10, ExtendsFrame DEF P

\* A call that was allowed is scored, even if its process is exempt.
LEMMA AllowKeeps ==
    ASSUME IInv, Allow
    PROVE  /\ IInv' /\ Lasting(node, node') /\ (Tells(watch, node) => Tells(watch', node'))
           /\ Extends(Tree, Tree', {})
<1> DEFINE u == Node(call)
           t == [Tree EXCEPT !.node[u].exempt = FALSE]
<1>1. /\ Sound(Tree) /\ Alone(Tree) /\ Fits(watch, node) /\ Fits(watch, Tree.node)
      /\ Typed(node) /\ u \in DOMAIN node \cup {None}
  BY TreeNow, LookupIn DEF IInv, Sound
<1>2. /\ UNCHANGED <<proc, ring, supRoots, root, victims>>
      /\ pc = "asked" /\ pc' = "idle" /\ call' = NoPid
  BY DEF Allow, Answered
<1>3. KernelInv'
  BY <1>2 DEF IInv, KernelInv, There
<1>4. SuperInv'
  <2>1. scored' \in 0 .. MaxScored
    BY BoundsAssumption DEF Allow, IInv, SuperInv
  <2> QED
    BY <1>2, <2>1 DEF IInv, SuperInv
<1>5. CASE UNCHANGED <<treeVars, watch, scored>>
  <2>1. IInv' /\ Tree' = Tree
    BY <1>3, <1>4, <1>5, StillFrame
  <2> QED
    BY <1>1, <1>5, <2>1, ExtendsSelf, SameLasts DEF treeVars
<1>6. CASE u # None /\ Evidence(t, u, node[u].exempt)
  <2>1. u \in DOMAIN Tree.node /\ node[u].exempt \in BOOLEAN
    BY <1>1, <1>6, TreeNow DEF Typed, PNode
  <2> HIDE DEF u
  <2>2. Extends(Tree, t, {}) /\ DOMAIN t.node = DOMAIN node
    BY <1>1, <2>1, ExemptExtends, TreeNow
  <2> HIDE DEF t
  <2>3. Sound(t) /\ Alone(t) /\ u \in DOMAIN t.node
    BY <2>1, <2>2, TreeNow DEF Extends
  <2>4. Fits(watch, t.node) /\ (Tells(watch, node) => Tells(watch, t.node))
    BY <1>1, <2>2, ExtendsWatch, TreeNow
  <2>5. Extends(t, Tree', {}) /\ Fits(watch', node') /\ Told(watch, watch', node')
    BY <1>6, <2>1, <2>3, <2>4, ExtendsEvidence
  <2>6. Extends(Tree, Tree', {})
    BY <1>1, <2>2, <2>5, ExtendsOn, {} \cup {} = {}
  <2>7. Tells(watch, node) => Tells(watch', node')
    <3>1. \A v \in DOMAIN watch : v \in DOMAIN t.node /\ node'[v].dead = t.node[v].dead
      BY <2>4, <2>5 DEF Fits, Listed, Extends, Tree
    <3> QED
      BY <2>4, <2>5, <3>1, TellsOn
  <2> QED
    BY <1>3, <1>4, <2>5, <2>6, <2>7, ExtendsFrame
<1> QED
  BY <1>5, <1>6 DEF Allow

\* register_supervised changes flags only.
LEMMA RegisterKeeps ==
    ASSUME IInv, Register
    PROVE  /\ IInv' /\ Lasting(node, node') /\ (Tells(watch, node) => Tells(watch', node'))
           /\ Extends(Tree, Tree', {})
<1> DEFINE u == Node(root)
           n == [node EXCEPT ![u].supervised = TRUE, ![u].exempt = FALSE]
<1>1. /\ Sound(Tree) /\ Alone(Tree) /\ Fits(watch, node) /\ Fits(watch, Tree.node)
      /\ Typed(node) /\ u \in DOMAIN node \cup {None}
  BY TreeNow, LookupIn DEF IInv, Sound
<1>2. /\ UNCHANGED <<proc, ring, roots, cur, watch, call, root, victims, scored>>
      /\ pc' = "idle" /\ supRoots' = supRoots \cup {root} /\ pc = "launched"
      /\ node' = IF u = None THEN node ELSE n
  BY DEF Register
<1>3. KernelInv'
  BY <1>2 DEF IInv, KernelInv, There
<1>4. Extends(Tree, Tree', {}) /\ Tree'.node = node'
  <2>0. Tree' = [node |-> node', roots |-> roots, cur |-> cur] /\ Tree'.node = node'
    BY <1>2 DEF Tree
  <2>1. CASE u = None
    <3>1. Tree' = Tree
      BY <1>2, <2>1, <2>0 DEF Tree
    <3> QED
      BY <1>1, <2>0, <3>1, ExtendsSelf
  <2>2. CASE u # None
    <3>1. u \in DOMAIN node /\ node' = n
      BY <1>1, <1>2, <2>2
    <3> HIDE DEF u
    <3> DEFINE x == node[u]
               y == [x EXCEPT !.supervised = TRUE, !.exempt = FALSE]
    <3>4. /\ node \in [DOMAIN node -> PNode] /\ x \in PNode
          /\ \A v \in DOMAIN node : node[v] \in PNode
      BY <1>1, <3>1 DEF Typed
    <3>2. /\ y \in PNode /\ y.par = x.par /\ y.dead = x.dead /\ y.peak = x.peak
          /\ y.badgePeak = x.badgePeak
      <4> HIDE DEF x
      <4> QED
        BY <3>4 DEF PNode
    <3>5. n = [node EXCEPT ![u] = y]
      BY <3>1, <3>4 DEF PNode
    <3> HIDE DEF y, n
    <3>3. /\ n \in [DOMAIN node -> PNode] /\ DOMAIN n = DOMAIN node /\ n[u] = y
          /\ \A v \in DOMAIN node : v # u => n[v] = node[v]
      BY <3>1, <3>2, <3>4, <3>5
    <3>6. n \in [DOMAIN n -> PNode]
      BY <3>3
    <3>7. \A v \in DOMAIN node : /\ n[v].par = node[v].par /\ n[v].dead = node[v].dead
                                 /\ n[v].peak = node[v].peak
                                 /\ n[v].badgePeak = node[v].badgePeak
      BY <3>2, <3>3
    <3>8. Peaks(node, n)
      BY <3>4, <3>7, BoundsAssumption DEF Peaks, PNode, Level
    <3>9. Sound([Tree EXCEPT !.node = n])
      BY <1>1, <3>3, <3>6, <3>7, SameShape, TreeNow
    <3>10. [Tree EXCEPT !.node = n] = Tree'
      BY <2>0, <3>1 DEF Tree
    <3>11. Sound(Tree') /\ Tree'.cur = Tree.cur
      BY <2>0, <3>9, <3>10 DEF Tree
    <3> QED
      BY <1>1, <2>0, <3>1, <3>3, <3>7, <3>8, <3>11, ExtendsShape, TreeNow
  <2> QED
    BY <2>1, <2>2
<1>5. Fits(watch', node') /\ (Tells(watch, node) => Tells(watch', node'))
  BY <1>1, <1>2, <1>4, ExtendsWatch, TreeNow
<1>6. SuperInv'
  BY <1>2 DEF IInv, SuperInv
<1> QED
  BY <1>3, <1>4, <1>5, <1>6, ExtendsFrame

\* The child leaves the supervised tree with its node marked dead.
LEMMA MarkDeadKeeps ==
    ASSUME IInv, MarkDead
    PROVE  /\ IInv' /\ Lasting(node, node') /\ (Tells(watch, node) => Tells(watch', node'))
           /\ root \in Pid /\ SameLife(Tree, Tree', {root}) /\ Gone(Tree', root)
<1> DEFINE u == Node(root)
           y == [Dead(node[u]) EXCEPT !.supervised = FALSE]
           n == [node EXCEPT ![u] = y]
<1>1. /\ Sound(Tree) /\ Alone(Tree) /\ Fits(watch, node) /\ Typed(node)
      /\ u \in DOMAIN node \cup {None} /\ supRoots \subseteq Pid
  BY TreeNow, LookupIn DEF IInv, Sound, SuperInv
<1>2. /\ UNCHANGED <<proc, ring, roots, cur, call, root, victims, scored>>
      /\ pc = "mark" /\ pc' = "done"
      /\ IF u = None THEN UNCHANGED <<node, supRoots, watch>>
         ELSE node' = n /\ watch' = WatchDead(watch, u) /\ supRoots' = supRoots \ {root}
  BY DEF MarkDead
<1>3. KernelInv'
  BY <1>2 DEF IInv, KernelInv, There
<1>4. root \in Pid /\ SuperInv'
  BY <1>2 DEF IInv, SuperInv
<1>5. CASE u = None
  <2>1. UNCHANGED <<treeVars, watch>>
    BY <1>2, <1>5 DEF treeVars
  <2>2. IInv' /\ Tree' = Tree
    BY <1>3, <1>4, <2>1, StillFrame
  <2> QED
    BY <1>1, <1>4, <1>5, <2>1, <2>2, SameLasts, TreeNow DEF treeVars, SameLife, Gone
<1>6. CASE u # None
  <2>1. u \in DOMAIN node /\ node' = n /\ watch' = WatchDead(watch, u)
    BY <1>1, <1>2, <1>6
  <2> HIDE DEF u
  <2>2. /\ y \in PNode /\ y.dead = TRUE /\ y.peak = node[u].peak /\ y.par = node[u].par
        /\ y.badgePeak = node[u].badgePeak
    BY <1>1, <2>1 DEF Dead, PNode, Typed
  <2> HIDE DEF y
  <2>3. /\ Typed(n) /\ Fits(WatchDead(watch, u), n)
        /\ Marked(watch, WatchDead(watch, u), u)
    BY <1>1, <2>1, <2>2, WatchDeadFits
  <2>4. DOMAIN n = DOMAIN node /\ \A v \in DOMAIN node : n[v] = IF v = u THEN y ELSE node[v]
    BY <2>1
  <2> HIDE DEF n
  <2>5. Sound(Tree)'
    <3>1. \A v \in DOMAIN n : n[v].par = node[v].par
      BY <2>2, <2>4
    <3>2. n \in [DOMAIN n -> PNode]
      BY <2>3 DEF Typed
    <3>3. [Tree EXCEPT !.node = n] = Tree'
      BY <1>2, <2>1 DEF Tree
    <3>4. Sound([Tree EXCEPT !.node = n])
      BY <1>1, <2>4, <3>1, <3>2, SameShape, TreeNow
    <3> QED
      BY <3>3, <3>4 DEF Sound
  <2>6. Alone(Tree') /\ SameLife(Tree, Tree', {root}) /\ Gone(Tree', root)
    <3>1. Tree'.cur = cur /\ Tree'.node = n
      BY <1>2, <2>1 DEF Tree
    <3>2. \A v \in DOMAIN node : n[v].dead <=> node[v].dead \/ v = u
      BY <2>2, <2>4
    <3> QED
      BY <1>1, <1>4, <2>4, <3>1, <3>2, EndedLife, TreeNow DEF u
  <2>7. IInv'
    <3>1. Alone(Tree)'
      BY <2>6 DEF Alone
    <3> QED
      BY <1>3, <1>4, <2>1, <2>3, <2>5, <3>1, TreeFrame
  <2>8. Lasting(node, node')
    <3>1. \A v \in DOMAIN node : n[v].peak >= node[v].peak /\ n[v].badgePeak >= node[v].badgePeak
      BY <1>1, <2>2, <2>4, BoundsAssumption DEF Typed, PNode, Level
    <3> QED
      BY <2>1, <2>2, <2>4, <3>1 DEF Lasting
  <2>9. Tells(watch, node) => Tells(watch', node')
    BY <1>1, <2>1, <2>2, <2>3, <2>4 DEF Tells, Fits, Listed, Marked
  <2> QED
    BY <1>4, <2>6, <2>7, <2>8, <2>9
<1> QED
  BY <1>5, <1>6

\* Steps that change neither the tree nor the watchlist.
LEMMA LaunchKeeps ==
    ASSUME IInv, NEW q \in Pid, Launch(q)
    PROVE  IInv' /\ Tree' = Tree /\ UNCHANGED <<node, watch>>
<1>1. /\ Born(q, None, TRUE, TRUE, TRUE) /\ Emit(Ev("FORK", q, NoPid, TRUE))
      /\ pc' = "launched" /\ root' = q
      /\ UNCHANGED <<treeVars, supRoots, watch, call, victims, scored>>
  BY DEF Launch
<1>2. /\ proc' \in [Pid -> Process] /\ proc'[q].inc \in 1 .. MaxInc
      /\ \A p \in Pid : There(p)' => proc'[p].inc >= 1
  BY <1>1, BornType DEF IInv
<1>3. ring' \in Seq(Event)
  BY <1>1, <1>2, EvType, EmitType DEF IInv, KernelInv
<1>4. KernelInv' /\ SuperInv'
  BY <1>1, <1>2, <1>3 DEF IInv, KernelInv, SuperInv
<1> QED
  BY <1>1, <1>4, StillFrame DEF treeVars

\* Signals leave the tree and the watchlist alone.
LEMMA SignalKeeps ==
    ASSUME IInv, (\E p \in Pid : Signal(p)) \/ SignalGroup
    PROVE  IInv' /\ Tree' = Tree /\ UNCHANGED <<node, watch>>
<1>1. UNCHANGED <<ring, treeVars, supRoots, watch, call, root, scored>>
  BY DEF Signal, SignalGroup
<1>2. \A x \in Process : /\ [x EXCEPT !.state = "dying"] \in Process
                         /\ [x EXCEPT !.state = "dying"].inc = x.inc
                         /\ [x EXCEPT !.state = IF @ = "up" THEN "dying" ELSE @] \in Process
                         /\ [x EXCEPT !.state = IF @ = "up" THEN "dying" ELSE @].inc = x.inc
                         /\ [x EXCEPT !.state = IF @ = "up" THEN "dying" ELSE @].state # "none"
                                => x.state # "none"
  BY DEF Process
<1>3. /\ proc' \in [Pid -> Process]
      /\ \A p \in Pid : proc'[p].inc = proc[p].inc /\ (There(p)' => There(p))
  <2>1. proc \in [Pid -> Process]
    BY DEF IInv, KernelInv
  <2>2. CASE SignalGroup
    BY <1>2, <2>1, <2>2 DEF SignalGroup, There, Up
  <2>3. CASE \E p \in Pid : Signal(p)
    <3>1. PICK p \in Pid : Signal(p)
      BY <2>3
    <3> DEFINE y == [proc[p] EXCEPT !.state = IF @ = "up" THEN "dying" ELSE @]
    <3>2. proc' = [proc EXCEPT ![p] = y]
      BY <2>1, <3>1 DEF Signal
    <3>3. y \in Process /\ y.inc = proc[p].inc /\ (y.state # "none" => proc[p].state # "none")
      BY <1>2, <2>1
    <3> HIDE DEF y
    <3>4. \A q \in Pid : proc'[q] = IF q = p THEN y ELSE proc[q]
      BY <2>1, <3>2
    <3>5. proc' \in [Pid -> Process]
      BY <2>1, <3>2, <3>3
    <3> QED
      BY <3>3, <3>4, <3>5 DEF There
  <2> QED
    BY <2>2, <2>3
<1>4. KernelInv'
  BY <1>1, <1>3 DEF IInv, KernelInv, There
<1>5. SuperInv'
  BY <1>1 DEF IInv, SuperInv, Signal, SignalGroup
<1> QED
  BY <1>1, <1>4, <1>5, StillFrame DEF treeVars

\* So do the answers of the supervisor that add no process.
LEMMA OtherKeeps ==
    ASSUME IInv, Refuse \/ Kill \/ Collect \/ LoopEnds \/ Unregister
    PROVE  IInv' /\ Tree' = Tree /\ UNCHANGED <<proc, ring, node, watch>>
<1>1. UNCHANGED <<proc, ring, treeVars, watch, root, scored>>
  BY DEF Refuse, Kill, Collect, LoopEnds, Unregister, Answered
<1>2. KernelInv'
  BY <1>1 DEF IInv, KernelInv, There
<1>3. victims' \subseteq Pid
  <2>1. Victims(node, Node(root)) \subseteq Pid
    <3>1. Victims(node, Node(root)) \subseteq {v[1] : v \in DOMAIN node}
      BY Zenon DEF Victims
    <3>2. \A v \in DOMAIN node : v[1] \in Pid
      BY TreeNow DEF IInv, Sound, Typed, Uid
    <3> QED
      BY <3>1, <3>2
  <2> QED
    BY <2>1 DEF IInv, SuperInv, Refuse, Kill, Collect, LoopEnds, Unregister, Answered
<1>4. SuperInv'
  BY <1>1, <1>3 DEF IInv, SuperInv, Refuse, Kill, Collect, LoopEnds, Unregister, Answered
<1> QED
  BY <1>1, <1>2, <1>4, StillFrame DEF treeVars

-----------------------------------------------------------------------------
(* The theorems that need no hypothesis.                                   *)

\* The tree built from /proc at start-up is sound.
LEMMA InitIInv == Init => IInv
<1> SUFFICES ASSUME Init PROVE IInv
  OBVIOUS
<1>1. PICK par \in Lineages :
        /\ proc = [p \in Pid |->
                      [inc |-> IF p \in Seeded THEN 1 ELSE 0,
                       state |-> IF p \in Seeded THEN "up" ELSE "none",
                       par |-> IF p \in Seeded /\ par[p] # NoPid THEN <<par[p], 1>> ELSE None,
                       desc |-> FALSE, group |-> FALSE, trusted |-> FALSE]]
        /\ ring \in {<<>>} \cup
                    {<<[type |-> "FORK", pid |-> p, inc |-> 1, ppid |-> par[p],
                        trusted |-> FALSE]>> : p \in {p \in Seeded : \A q \in Seeded : par[q] # p}}
        /\ node = [u \in Seeded \X {1} |->
                      [of |-> 1, par |-> IF par[u[1]] = NoPid THEN None ELSE <<par[u[1]], 1>>,
                       dead |-> FALSE, exempt |-> FALSE, supervised |-> FALSE,
                       risk |-> 0, peak |-> 0, badgePeak |-> 0]]
        /\ roots = {u \in Seeded \X {1} : par[u[1]] = NoPid}
        /\ cur = [p \in Pid |-> IF p \in Seeded THEN 1 ELSE 0]
        /\ supRoots = {} /\ watch = << >>
        /\ pc = "none" /\ call = NoPid /\ root = NoPid /\ victims = {}
        /\ scored = 0
  BY Zenon DEF Init
<1>2. par \in [Seeded -> Seeded \cup {NoPid}] /\ Seeded \subseteq Pid
  BY PidAssumption DEF Lineages
<1>3. 1 \in 1 .. MaxInc /\ 1 \in 1 .. MaxNode /\ 0 \in Level /\ 1 \in 0 .. MaxInc /\ 0 \in 0 .. MaxInc
  BY BoundsAssumption DEF Level
<1>4. KernelInv
  <2>1. \A p \in Seeded : par[p] # NoPid => <<par[p], 1>> \in Proc
    BY <1>2, <1>3 DEF Proc
  <2>2. proc \in [Pid -> Process]
    BY <1>1, <1>3, <2>1 DEF Process
  <2>3. ring \in Seq(Event)
    <3>1. CASE ring = <<>>
      BY <3>1
    <3>2. CASE \E p \in Seeded : ring = <<[type |-> "FORK", pid |-> p, inc |-> 1,
                                           ppid |-> par[p], trusted |-> FALSE]>>
      <4>1. PICK p \in Seeded : ring = <<[type |-> "FORK", pid |-> p, inc |-> 1,
                                          ppid |-> par[p], trusted |-> FALSE]>>
        BY <3>2
      <4>2. [type |-> "FORK", pid |-> p, inc |-> 1, ppid |-> par[p], trusted |-> FALSE] \in Event
        BY <1>2, <1>3 DEF Event
      <4> QED
        BY <4>1, <4>2
    <3> QED
      BY <1>1, <3>1, <3>2
  <2>4. \A p \in Pid : There(p) => proc[p].inc >= 1
    BY <1>1 DEF There
  <2> QED
    BY <2>2, <2>3, <2>4 DEF KernelInv
<1>5. SuperInv
  BY <1>1, BoundsAssumption DEF SuperInv
<1>6. Typed(node)
  <2> DEFINE N(u) == [of |-> 1, par |-> IF par[u[1]] = NoPid THEN None ELSE <<par[u[1]], 1>>,
                      dead |-> FALSE, exempt |-> FALSE, supervised |-> FALSE,
                      risk |-> 0, peak |-> 0, badgePeak |-> 0]
  <2>1. DOMAIN node = Seeded \X {1} /\ Seeded \X {1} \subseteq Uid
        /\ \A u \in Seeded \X {1} : node[u] = N(u)
    BY <1>1, <1>2, <1>3 DEF Uid
  <2>2. \A u \in Seeded \X {1} :
            (IF par[u[1]] = NoPid THEN None ELSE <<par[u[1]], 1>>) \in (Seeded \X {1}) \cup {None}
    BY <1>2
  <2>3. \A u \in Seeded \X {1} : N(u) \in PNode
    BY <1>2, <1>3, <2>1, <2>2 DEF PNode
  <2>4. node = [u \in DOMAIN node |-> node[u]]
    BY <1>1
  <2>5. \A u \in DOMAIN node : node[u].par \in DOMAIN node \cup {None}
    BY <2>1, <2>2
  <2>6. node \in [DOMAIN node -> PNode]
    BY <2>1, <2>3, <2>4
  <2>7. None \notin DOMAIN node
    BY <2>1, NoneIsNoUid
  <2> QED
    BY <2>1, <2>5, <2>6, <2>7 DEF Typed, Closed
<1>7. /\ DOMAIN node = Seeded \X {1} /\ \A u \in DOMAIN node : ~node[u].dead
      /\ \A p \in Pid : Lookup(cur, p) = IF p \in Seeded THEN <<p, 1>> ELSE None
  BY <1>1 DEF Lookup
<1>8. Sound(Tree)
  <2>0. roots \subseteq DOMAIN node
    BY <1>1, <1>7
  <2>a. 0 \in 0 .. MaxNode /\ 1 \in 0 .. MaxNode
    BY BoundsAssumption
  <2>1. roots \subseteq DOMAIN node /\ cur \in [Pid -> 0 .. MaxNode]
    BY <1>1, <2>0, <2>a
  <2>2. \A p \in Pid : cur[p] # 0 => <<p, cur[p]>> \in DOMAIN node
    BY <1>1, <1>7
  <2> QED
    BY <1>6, <2>1, <2>2 DEF Sound, Tree
<1>9. Alone(Tree)
  BY <1>2, <1>7, TreeNow DEF Alone, Tree
<1>10. Fits(watch, node)
  <2>1. DOMAIN watch = {} /\ watch \in [DOMAIN watch -> Watched]
    BY <1>1
  <2> QED
    BY <2>1, FS_EmptySet, BoundsAssumption DEF Fits, Listed
<1> QED
  BY <1>4, <1>5, <1>8, <1>9, <1>10 DEF IInv

\* Nodes worth keeping stay.
Forensics(m, n) == \A u \in DOMAIN m : Keep(m[u]) > 0 => u \in DOMAIN n

\* A launch, and every answer to it, keeps the invariant and what the tree knows.
LEMMA SuperviseKeeps ==
    ASSUME IInv, Supervise
    PROVE  IInv' /\ Lasting(node, node')
<1>0. Typed(node)
  BY TreeNow DEF IInv, Sound
<1>1. ASSUME NEW q \in Pid, Launch(q) PROVE IInv' /\ Lasting(node, node')
  BY <1>0, <1>1, LaunchKeeps, SameLasts
<1>2. ASSUME NEW p \in Pid, Predict(p) PROVE IInv' /\ Lasting(node, node')
  BY <1>2, PredictKeeps
<1>3. CASE (\E p \in Pid : Signal(p)) \/ SignalGroup
  BY <1>0, <1>3, SignalKeeps, SameLasts
<1>4. CASE Refuse \/ Kill \/ Collect \/ LoopEnds \/ Unregister
  BY <1>0, <1>4, OtherKeeps, SameLasts
<1>5. CASE Register
  BY <1>5, RegisterKeeps
<1>6. CASE Allow
  BY <1>6, AllowKeeps
<1>7. CASE MarkDead
  BY <1>7, MarkDeadKeeps
<1> QED
  BY <1>1, <1>2, <1>3, <1>4, <1>5, <1>6, <1>7 DEF Supervise

\* Every step keeps the invariant and the forensic record.
LEMMA NextKeeps ==
    ASSUME IInv, [Next]_vars
    PROVE  IInv' /\ Forensics(node, node')
<1>1. CASE IngestFork
  BY <1>1, IngestForkKeeps DEF Forensics, Lasting
<1>2. CASE IngestExit
  BY <1>2, IngestExitKeeps DEF Forensics, Lasting
<1>3. CASE IngestScored
  BY <1>3, IngestScoredKeeps DEF Forensics, Lasting
<1>4. CASE Tick
  BY <1>4, TickKeeps DEF Forensics
<1>5. CASE Purge
  BY <1>5, PurgeKeeps DEF Forensics
<1>6. CASE Kernel
  <2>1. node' = node
    BY <1>6 DEF Kernel, Die, Exec, Risky, ForkOutside, Fork, treeVars
  <2> QED
    BY <1>6, <2>1, KernelIInv DEF Forensics
<1>7. CASE Supervise
  BY <1>7, SuperviseKeeps DEF Forensics, Lasting
<1>8. CASE UNCHANGED vars
  <2>1. UNCHANGED <<treeVars, watch, proc, ring, supRoots, supVars, scored, node>>
    BY <1>8 DEF vars, treeVars
  <2>2. KernelInv' /\ SuperInv'
    BY <2>1 DEF IInv, KernelInv, SuperInv, There, supVars
  <2> QED
    BY <2>1, <2>2, StillFrame DEF Forensics
<1> QED
  BY <1>1, <1>2, <1>3, <1>4, <1>5, <1>6, <1>7, <1>8 DEF Next, Poller

LEMMA IInvAlways == Spec => []IInv
<1>1. IInv /\ [Next]_vars => IInv'
  BY NextKeeps
<1> QED
  BY <1>1, InitIInv, PTL DEF Spec

\* Every variable has its type; the latest node of a pid, the roots and the nodes watched are
\* nodes the engine has, whatever start-up, reuse, synthesis, collection and purge did
\* (tracker.cpp: ensure_node, fork_node, synth_node, gc_sweep, purge_dead).
THEOREM TypeCorrect == Spec => []TypeOK
  BY IInvAlways, IInvTypes, PTL

\* No step takes out of the engine a node whose own peak or badge ever rose above the
\* forensic floor (gc_sweep, tracker.cpp, and purge_dead).
THEOREM ForensicsStay == Spec => ForensicKept
<1>1. IInv /\ [Next]_vars => [\A u \in DOMAIN node : Keep(node[u]) > 0 => u \in DOMAIN node']_vars
  BY NextKeeps DEF Forensics
<1> QED
  BY <1>1, IInvAlways, PTL DEF Spec, ForensicKept

-----------------------------------------------------------------------------
(* After a tick the watchlist holds the worst of what lives.               *)

\* Of the nodes of P, those on the list are there with the peak they have, and those left
\* out found it full of entries that are no lower.
Holds(w, n, P) ==
    /\ Fits(w, n)
    /\ \A p \in P : IF p \in DOMAIN w THEN w[p].peak = n[p].peak
                    ELSE /\ Cardinality(DOMAIN w) = WatchMax
                         /\ \A x \in DOMAIN w : n[p].peak <= w[x].peak

\* Replacing one entry by another leaves the watchlist as long as it was.
LEMMA SwapSize ==
    ASSUME NEW D, IsFiniteSet(D), NEW low \in D, NEW u, u \notin D
    PROVE  Cardinality((D \ {low}) \cup {u}) = Cardinality(D)
<1>1. IsFiniteSet(D \ {low}) /\ Cardinality(D \ {low}) = Cardinality(D) - 1
  BY FS_RemoveElement
<1>2. Cardinality((D \ {low}) \cup {u}) = Cardinality(D \ {low}) + 1
  BY <1>1, FS_AddElement
<1> QED
  BY <1>1, <1>2, FS_CardinalityType

\* update_watchlist on one more node: the worst of the nodes seen so far are still held.
LEMMA HoldsStep ==
    ASSUME NEW n, Typed(n), NEW w, NEW P, P \subseteq DOMAIN n, Holds(w, n, P),
           NEW u \in Watchable(n), NEW v \in Watching(w, n, u)
    PROVE  Holds(v, n, P \cup {u})
<1>1. u \in DOMAIN n /\ ~n[u].exempt /\ n[u].peak > 0 /\ n[u].peak # 0
  BY BoundsAssumption DEF Watchable, Typed, PNode, Level
<1>2. Fits(w, n) /\ Fits(v, n)
  BY <1>1, WatchingFits DEF Holds
<1>3. /\ \A x \in DOMAIN n : n[x].peak \in Nat
      /\ \A x \in DOMAIN w : w[x].peak \in Nat /\ w[x].peak <= n[x].peak
      /\ \A x \in DOMAIN v : v[x].peak \in Nat
  BY <1>2, BoundsAssumption DEF Typed, PNode, Level, Fits, Listed, Watched
<1>4. /\ IsFiniteSet(DOMAIN w) /\ Cardinality(DOMAIN w) \in Nat /\ WatchMax \in Nat
      /\ Cardinality(DOMAIN w) <= WatchMax
  <2>1. IsFiniteSet(DOMAIN w)
    BY <1>2, UidIsFinite, FS_Subset DEF Typed, Fits, Listed
  <2> QED
    BY <1>2, <2>1, FS_CardinalityType, BoundsAssumption DEF Fits
<1> DEFINE e == Entry(n[u])
<1>5. e.peak = n[u].peak
  BY DEF Entry
<1>6. \/ /\ u \in DOMAIN w \/ Cardinality(DOMAIN w) < WatchMax
         /\ v = With(w, u, e)
      \/ /\ u \notin DOMAIN w /\ ~(Cardinality(DOMAIN w) < WatchMax)
         /\ \E low \in Lowest(w) :
                v = IF w[low].peak < n[u].peak
                    THEN With([x \in DOMAIN w \ {low} |-> w[x]], u, e) ELSE w
  BY <1>1, Zenon DEF Watching, Admits
<1> HIDE DEF e
<1>7. CASE /\ u \in DOMAIN w \/ Cardinality(DOMAIN w) < WatchMax
           /\ v = With(w, u, e)
  <2>1. DOMAIN v = DOMAIN w \cup {u} /\ \A x \in DOMAIN v : v[x] = IF x = u THEN e ELSE w[x]
    BY <1>7 DEF With
  <2>2. ASSUME NEW p \in P, p # u, p \in DOMAIN w PROVE p \in DOMAIN v /\ v[p].peak = n[p].peak
    BY <2>1, <2>2 DEF Holds
  <2>3. ASSUME NEW p \in P, p # u, p \notin DOMAIN w
        PROVE  /\ p \notin DOMAIN v /\ Cardinality(DOMAIN v) = WatchMax
               /\ \A x \in DOMAIN v : n[p].peak <= v[x].peak
    <3>1. /\ Cardinality(DOMAIN w) = WatchMax
          /\ \A x \in DOMAIN w : n[p].peak <= w[x].peak
      BY <2>3 DEF Holds
    <3>a. u \in DOMAIN w
      <4>1. ~(Cardinality(DOMAIN w) < WatchMax)
        BY <1>4, <3>1
      <4> QED
        BY <1>7, <4>1
    <3>2. u \in DOMAIN w /\ DOMAIN v = DOMAIN w
      BY <2>1, <3>a
    <3>3. n[p].peak <= w[u].peak /\ w[u].peak <= n[u].peak /\ p \in DOMAIN n
      BY <1>3, <3>1, <3>2
    <3>4. n[p].peak <= n[u].peak
      BY <1>1, <1>3, <3>2, <3>3
    <3> QED
      BY <1>5, <2>1, <2>3, <3>1, <3>2, <3>4
  <2>4. v[u].peak = n[u].peak
    BY <1>5, <2>1
  <2> QED
    BY <1>2, <2>1, <2>2, <2>3, <2>4 DEF Holds
<1>8. CASE /\ u \notin DOMAIN w /\ ~(Cardinality(DOMAIN w) < WatchMax)
           /\ \E low \in Lowest(w) :
                  v = IF w[low].peak < n[u].peak
                      THEN With([x \in DOMAIN w \ {low} |-> w[x]], u, e) ELSE w
  <2>1. PICK low \in Lowest(w) :
            v = IF w[low].peak < n[u].peak
                THEN With([x \in DOMAIN w \ {low} |-> w[x]], u, e) ELSE w
    BY <1>8
  <2>2. low \in DOMAIN w /\ \A x \in DOMAIN w : w[low].peak <= w[x].peak
    BY DEF Lowest
  <2>3. Cardinality(DOMAIN w) = WatchMax
    BY <1>4, <1>8
  <2>4. CASE ~(w[low].peak < n[u].peak)
    <3>1. v = w
      BY <2>1, <2>4
    <3>2. \A x \in DOMAIN w : n[u].peak <= w[x].peak
      BY <1>1, <1>3, <2>2, <2>4
    <3> QED
      BY <1>8, <2>3, <3>1, <3>2 DEF Holds
  <2>5. CASE w[low].peak < n[u].peak
    <3> DEFINE r == [x \in DOMAIN w \ {low} |-> w[x]]
    <3>1. v = With(r, u, e)
      BY <2>1, <2>5
    <3>2. /\ DOMAIN v = (DOMAIN w \ {low}) \cup {u}
          /\ \A x \in DOMAIN v : v[x] = IF x = u THEN e ELSE w[x]
      BY <3>1 DEF With
    <3> HIDE DEF r
    <3>3. Cardinality(DOMAIN v) = WatchMax
      <4>1. Cardinality((DOMAIN w \ {low}) \cup {u}) = Cardinality(DOMAIN w)
        BY <1>4, <1>8, <2>2, SwapSize
      <4> QED
        BY <2>3, <3>2, <4>1
    <3>4. \A x \in DOMAIN v : w[low].peak <= v[x].peak
      BY <1>1, <1>3, <1>5, <2>2, <2>5, <3>2
    <3>5. ASSUME NEW p \in P, p # u, p \in DOMAIN v PROVE v[p].peak = n[p].peak
      BY <3>2, <3>5 DEF Holds
    <3>6. ASSUME NEW p \in P, p # u, p \notin DOMAIN v, NEW x \in DOMAIN v
          PROVE  n[p].peak <= v[x].peak
      <4>1. n[p].peak <= w[low].peak
        <5>1. CASE p \in DOMAIN w
          <6>1. p = low /\ w[p].peak = n[p].peak
            BY <3>2, <3>6, <5>1 DEF Holds
          <6> QED
            BY <1>3, <5>1, <6>1
        <5>2. CASE p \notin DOMAIN w
          BY <2>2, <5>2 DEF Holds
        <5> QED
          BY <5>1, <5>2
      <4> QED
        BY <1>3, <2>2, <3>4, <4>1
    <3>7. u \in DOMAIN v /\ v[u].peak = n[u].peak
      BY <1>5, <3>2
    <3> QED
      BY <1>2, <3>3, <3>5, <3>6, <3>7 DEF Holds
  <2> QED
    BY <2>4, <2>5
<1> QED
  BY <1>6, <1>7, <1>8

\* The nodes of a sequence up to its k-th.
Upto(us, k) == {us[j] : j \in 1 .. k}

\* And so, node by node, on any sequence of them.
LEMMA HoldsAll ==
    ASSUME NEW n, Typed(n), NEW w, Fits(w, n), NEW us \in Seq(Watchable(n)),
           NEW v \in WatchingAll(w, n, us)
    PROVE  Holds(v, n, Upto(us, Len(us)))
<1> DEFINE U == UNION {[E -> Watched] : E \in SUBSET DOMAIN n}
           Q == [k \in 0 .. Len(us) |-> {x \in U : Holds(x, n, Upto(us, k))}]
<1>0. Len(us) \in Nat /\ \A k \in 1 .. Len(us) : us[k] \in Watchable(n)
  OBVIOUS
<1>1. \A k \in 0 .. Len(us) : Q[k] = {x \in U : Holds(x, n, Upto(us, k))}
  OBVIOUS
<1>2. \A x : Fits(x, n) => x \in U
  BY DEF Fits, Listed
<1> HIDE DEF Q, U
<1>3. w \in Q[0]
  <2>1. Upto(us, 0) = {}
    BY DEF Upto
  <2> QED
    BY <1>0, <1>1, <1>2, <2>1 DEF Holds
<1>4. ASSUME NEW k \in 1 .. Len(us), NEW x \in Q[k - 1]
      PROVE  Watching(x, n, us[k]) \subseteq Q[k]
  <2>1. k \in 0 .. Len(us) /\ k - 1 \in 0 .. Len(us)
    BY <1>0
  <2>2. Holds(x, n, Upto(us, k - 1))
    BY <1>1, <2>1
  <2>3. Upto(us, k) = Upto(us, k - 1) \cup {us[k]}
    <3>1. 1 .. k = (1 .. (k - 1)) \cup {k}
      BY <1>0
    <3> QED
      BY <3>1 DEF Upto
  <2>4. Upto(us, k - 1) \subseteq DOMAIN n
    <3>1. \A j \in 1 .. (k - 1) : us[j] \in Watchable(n)
      BY <1>0
    <3> QED
      BY <3>1 DEF Upto, Watchable
  <2> SUFFICES ASSUME NEW y \in Watching(x, n, us[k]) PROVE y \in Q[k]
    OBVIOUS
  <2>5. Holds(y, n, Upto(us, k))
    BY <1>0, <2>2, <2>3, <2>4, HoldsStep
  <2> QED
    BY <1>1, <1>2, <2>1, <2>5 DEF Holds
<1>5. WatchingAll(w, n, us) \subseteq Q[Len(us)]
  BY <1>3, <1>4, WatchingAllIn
<1> QED
  BY <1>0, <1>1, <1>5

\* After a tick a node left out is no worse than any node held, and the list is full.
LEMMA TickHolds ==
    ASSUME IInv, Tick
    PROVE  \A u \in DOMAIN node' \ DOMAIN watch' :
               ~node'[u].dead /\ ~node'[u].exempt /\ node'[u].peak > 0
               => /\ Cardinality(DOMAIN watch') = WatchMax
                  /\ \A v \in DOMAIN watch' : watch'[v].peak >= node'[u].peak
<1>1. PICK n, S, us : Ticked(n, S, us)
  BY TickIs
<1>2. /\ Typed(n) /\ Rescored(node, n)
      /\ S \in SUBSET Collectable(n) /\ Erase(n, S)
      /\ us \in SetToSeqs(Watchable(n)) /\ watch' \in WatchingAll(watch, n, us)
      /\ \A v \in DOMAIN node : n[v].peak = node[v].peak
  BY <1>1 DEF Ticked
<1>3. Sound(Tree) /\ Fits(watch, node) /\ Typed(node)
  BY TreeNow DEF IInv, Sound
<1>4. DOMAIN n = DOMAIN node /\ S \subseteq DOMAIN n
  BY <1>2 DEF Rescored, Collectable
<1>5. Thinned(n, node', S)
  BY <1>2, <1>3, <1>4, EraseSound
<1>6. Fits(watch, n)
  <2>1. \A v \in DOMAIN watch : v \in DOMAIN n /\ n[v].peak >= node[v].peak
    BY <1>2, <1>3, <1>4 DEF Fits, Listed, Rescored
  <2> QED
    BY <1>2, <1>3, <2>1, FitsLater
<1>7. /\ us \in Seq(Watchable(n))
      /\ \A x \in Watchable(n) : \E i \in 1 .. Len(us) : us[i] = x
  BY <1>2, WatchableSeqs
<1>8. Holds(watch', n, Upto(us, Len(us)))
  BY <1>2, <1>6, <1>7, HoldsAll
<1>9. ASSUME NEW u \in DOMAIN node' \ DOMAIN watch',
             ~node'[u].dead /\ ~node'[u].exempt /\ node'[u].peak > 0
      PROVE  /\ Cardinality(DOMAIN watch') = WatchMax
             /\ \A v \in DOMAIN watch' : watch'[v].peak >= node'[u].peak
  <2>1. u \in Watchable(n) /\ n[u].peak = node'[u].peak
    BY <1>5, <1>9 DEF Thinned, Watchable
  <2>2. u \in Upto(us, Len(us))
    BY <1>7, <2>1 DEF Upto
  <2>3. /\ Cardinality(DOMAIN watch') = WatchMax
        /\ \A v \in DOMAIN watch' : n[u].peak <= watch'[v].peak
    BY <1>8, <2>2 DEF Holds
  <2>4. n[u].peak \in Nat /\ \A v \in DOMAIN watch' : watch'[v].peak \in Nat
    BY <1>2, <1>8, <2>1, BoundsAssumption DEF Holds, Fits, Listed, Watched, Typed, PNode, Level, Watchable
  <2> QED
    BY <2>1, <2>3, <2>4
<1> QED
  BY <1>9

\* However the hash map orders the nodes and whichever of several lowest entries goes, a tick
\* leaves no living node off the watchlist that was worse than one it keeps
\* (update_watchlist and tick, tracker.cpp).
THEOREM WorstAreWatched == Spec => WatchHoldsWorst
<1>1. IInv /\ [Next]_vars =>
          [Tick => \A u \in DOMAIN node' \ DOMAIN watch' :
                       ~node'[u].dead /\ ~node'[u].exempt /\ node'[u].peak > 0
                       => /\ Cardinality(DOMAIN watch') = WatchMax
                          /\ \A v \in DOMAIN watch' : watch'[v].peak >= node'[u].peak]_vars
  BY TickHolds
<1> QED
  BY <1>1, IInvAlways, PTL DEF Spec, WatchHoldsWorst

-----------------------------------------------------------------------------
(* What the ring has still to tell of the processes.                       *)

\* When k events of the ring r are read, the tracker knows p is gone.
Ended(r, t, p, k) ==
    \/ \E j \in 1 .. k : /\ r[j].pid = p /\ r[j].type = "EXIT"
                         /\ \A m \in j + 1 .. k : r[m].pid # p
    \/ Gone(t, p) /\ \A j \in 1 .. k : r[j].pid # p

\* When k events of the ring r are read, the tracker has a living node for p.
Begun(r, t, p, k) ==
    \/ \E j \in 1 .. k : /\ r[j].pid = p /\ r[j].type = "FORK"
                         /\ \A m \in j + 1 .. k : ~(r[m].pid = p /\ r[m].type = "EXIT")
    \/ ~Gone(t, p) /\ \A j \in 1 .. k : ~(r[j].pid = p /\ r[j].type = "EXIT")

\* Threads that end unseen, a ring that drops events and a launched program that outlives
\* its supervision are left out.
Settles == /\ Threads = {} /\ Loses = FALSE
           /\ RootPid # {} => EarlyEnd = FALSE /\ RootShared = FALSE /\ RootPid \cap Strays = {}

\* The launched program has its group and its pid to itself, and does not outlive the loop.
RootInv == pc # "none" =>
    /\ root \in RootPid /\ (There(root) => proc[root].desc /\ proc[root].group)
    /\ pc \in {"unregister", "mark"} => ~Up(root)

LifeInv ==
    /\ \A p \in Pid : ~There(p) => Ended(ring, Tree, p, Len(ring))
    /\ \A p \in Pid : Up(p) => Begun(ring, Tree, p, Len(ring))

\* A step of the kernel or of launch(): one event.
Emits(e) ==
    /\ ring' = Append(ring, e) /\ Tree' = Tree
    /\ \A p \in Pid \ {e.pid} : (There(p)' <=> There(p)) /\ (Up(p)' <=> Up(p))
    /\ e.type = "FORK" => ~There(e.pid) /\ There(e.pid)'
    /\ e.type = "EXIT" => ~Up(e.pid)'
    /\ e.type \notin {"FORK", "EXIT"} => Up(e.pid) /\ There(e.pid)'

\* A step of the poller: one event is read.
Reads ==
    LET h == Head(ring)
    IN /\ ring # <<>> /\ ring' = Tail(ring) /\ proc' = proc /\ h.pid \in Pid
       /\ SameLife(Tree, Tree', {h.pid})
       /\ h.type = "EXIT" => Gone(Tree', h.pid)
       /\ h.type = "FORK" => ~Gone(Tree', h.pid)
       /\ h.type \notin {"FORK", "EXIT"} => (~Gone(Tree, h.pid) => ~Gone(Tree', h.pid))

\* Any other step.
Quiet ==
    /\ ring' = ring
    /\ \A p \in Pid : ~There(p)' => ~There(p) /\ (Gone(Tree, p) => Gone(Tree', p))
    /\ \A p \in Pid : Up(p)' => Up(p) /\ (~Gone(Tree, p) => ~Gone(Tree', p))

\* Queueing an event keeps the ring consistent with who is alive.
LEMMA EmitsLife ==
    ASSUME IInv, LifeInv, NEW e \in Event, Emits(e)
    PROVE  LifeInv'
<1> DEFINE n == Len(ring)
           r == Append(ring, e)
<1>1. ring \in Seq(Event) /\ n \in Nat
  BY DEF IInv, KernelInv
<1>2. Len(r) = n + 1 /\ r[n + 1] = e /\ \A j \in 1 .. n : r[j] = ring[j]
  BY <1>1
<1>3. ring' = r /\ Tree' = Tree
  BY DEF Emits
<1> HIDE DEF r
<1>4. ASSUME NEW p \in Pid, ~There(p)' PROVE Ended(r, Tree', p, Len(r))
  <2>1. CASE p = e.pid
    <3>1. e.type = "EXIT"
      BY <1>4, <2>1 DEF Emits
    <3>2. n + 1 \in 1 .. Len(r) /\ \A m \in (n + 1) + 1 .. Len(r) : FALSE
      BY <1>1, <1>2
    <3> QED
      BY <1>2, <2>1, <3>1, <3>2 DEF Ended
  <2>2. CASE p # e.pid
    <3>1. Ended(ring, Tree, p, n)
      BY <1>4, <2>2 DEF Emits, LifeInv
    <3>2. CASE \E j \in 1 .. n : /\ ring[j].pid = p /\ ring[j].type = "EXIT"
                                 /\ \A m \in j + 1 .. n : ring[m].pid # p
      <4>1. PICK j \in 1 .. n : /\ ring[j].pid = p /\ ring[j].type = "EXIT"
                                /\ \A m \in j + 1 .. n : ring[m].pid # p
        BY <3>2
      <4>2. j \in 1 .. Len(r) /\ r[j].pid = p /\ r[j].type = "EXIT"
        BY <1>1, <1>2, <4>1
      <4>3. \A m \in j + 1 .. Len(r) : r[m].pid # p
        <5>1. \A m \in j + 1 .. Len(r) : m = n + 1 \/ (m \in j + 1 .. n /\ m \in 1 .. n)
          BY <1>1, <1>2
        <5> QED
          BY <1>2, <2>2, <4>1, <5>1
      <4> QED
        BY <4>2, <4>3 DEF Ended
    <3>3. CASE Gone(Tree, p) /\ \A j \in 1 .. n : ring[j].pid # p
      <4>1. \A j \in 1 .. Len(r) : j = n + 1 \/ j \in 1 .. n
        BY <1>1, <1>2
      <4> QED
        BY <1>2, <1>3, <2>2, <3>3, <4>1 DEF Ended
    <3> QED
      BY <3>1, <3>2, <3>3 DEF Ended
  <2> QED
    BY <2>1, <2>2
<1>5. ASSUME NEW p \in Pid, Up(p)' PROVE Begun(r, Tree', p, Len(r))
  <2>1. CASE p = e.pid /\ e.type = "FORK"
    <3>1. n + 1 \in 1 .. Len(r) /\ \A m \in (n + 1) + 1 .. Len(r) : FALSE
      BY <1>1, <1>2
    <3> QED
      BY <1>2, <2>1, <3>1 DEF Begun
  <2>2. CASE ~(p = e.pid /\ e.type = "FORK")
    <3>1. Begun(ring, Tree, p, n) /\ ~(e.pid = p /\ e.type = "EXIT")
      BY <1>5, <2>2 DEF Emits, LifeInv
    <3>2. CASE \E j \in 1 .. n : /\ ring[j].pid = p /\ ring[j].type = "FORK"
                                 /\ \A m \in j + 1 .. n : ~(ring[m].pid = p /\ ring[m].type = "EXIT")
      <4>1. PICK j \in 1 .. n :
                /\ ring[j].pid = p /\ ring[j].type = "FORK"
                /\ \A m \in j + 1 .. n : ~(ring[m].pid = p /\ ring[m].type = "EXIT")
        BY <3>2
      <4>2. j \in 1 .. Len(r) /\ r[j].pid = p /\ r[j].type = "FORK"
        BY <1>1, <1>2, <4>1
      <4>3. \A m \in j + 1 .. Len(r) : ~(r[m].pid = p /\ r[m].type = "EXIT")
        <5>1. \A m \in j + 1 .. Len(r) : m = n + 1 \/ (m \in j + 1 .. n /\ m \in 1 .. n)
          BY <1>1, <1>2
        <5> QED
          BY <1>2, <3>1, <4>1, <5>1
      <4> QED
        BY <4>2, <4>3 DEF Begun
    <3>3. CASE ~Gone(Tree, p) /\ \A j \in 1 .. n : ~(ring[j].pid = p /\ ring[j].type = "EXIT")
      <4>1. \A j \in 1 .. Len(r) : j = n + 1 \/ j \in 1 .. n
        BY <1>1, <1>2
      <4> QED
        BY <1>2, <1>3, <3>1, <3>3, <4>1 DEF Begun
    <3> QED
      BY <3>1, <3>2, <3>3 DEF Begun
  <2> QED
    BY <2>1, <2>2
<1> QED
  BY <1>3, <1>4, <1>5 DEF LifeInv

\* Reading an event does not undo that an end was, or is to be, told.
LEMMA ReadsEnded ==
    ASSUME IInv, Reads, NEW p \in Pid, NEW k \in 1 .. Len(ring), Ended(ring, Tree, p, k)
    PROVE  Ended(Tail(ring), Tree', p, k - 1)
<1> DEFINE r == Tail(ring)
<1>1. ring \in Seq(Event) /\ ring # <<>> /\ k \in Nat /\ k >= 1 /\ Len(ring) \in Nat
  BY DEF IInv, KernelInv, Reads
<1>2. Head(ring) = ring[1] /\ \A j \in 1 .. k - 1 : r[j] = ring[j + 1] /\ j + 1 \in 1 .. k
  BY <1>1
<1> HIDE DEF r
<1>3. CASE \E j \in 1 .. k : /\ ring[j].pid = p /\ ring[j].type = "EXIT"
                             /\ \A m \in j + 1 .. k : ring[m].pid # p
  <2>1. PICK j \in 1 .. k : /\ ring[j].pid = p /\ ring[j].type = "EXIT"
                            /\ \A m \in j + 1 .. k : ring[m].pid # p
    BY <1>3
  <2>2. CASE j = 1
    <3>1. Gone(Tree', p)
      BY <1>2, <2>1, <2>2 DEF Reads
    <3>2. \A m \in 1 .. k - 1 : m + 1 \in j + 1 .. k
      BY <1>1, <2>2
    <3> QED
      BY <1>2, <2>1, <3>1, <3>2 DEF Ended, r
  <2>3. CASE j # 1
    <3>1. j - 1 \in 1 .. k - 1 /\ (j - 1) + 1 = j
      BY <1>1, <2>3
    <3>2. r[j - 1] = ring[j]
      BY <1>2, <3>1
    <3>3. \A m \in (j - 1) + 1 .. k - 1 : m \in 1 .. k - 1 /\ m + 1 \in j + 1 .. k
      BY <1>1, <3>1
    <3>4. \A m \in (j - 1) + 1 .. k - 1 : r[m].pid # p
      BY <1>2, <2>1, <3>3
    <3> QED
      BY <2>1, <3>1, <3>2, <3>4 DEF Ended, r
  <2> QED
    BY <2>2, <2>3
<1>4. CASE Gone(Tree, p) /\ \A j \in 1 .. k : ring[j].pid # p
  <2>1. Head(ring).pid # p
    BY <1>1, <1>2, <1>4
  <2>2. Gone(Tree', p)
    BY <1>4, <2>1 DEF Reads, SameLife
  <2> QED
    BY <1>2, <1>4, <2>2 DEF Ended, r
<1> QED
  BY <1>3, <1>4 DEF Ended

\* Nor that a start was, or is to be, told.
LEMMA ReadsBegun ==
    ASSUME IInv, Reads, NEW p \in Pid, NEW k \in 1 .. Len(ring), Begun(ring, Tree, p, k)
    PROVE  Begun(Tail(ring), Tree', p, k - 1)
<1> DEFINE r == Tail(ring)
           Exit(e) == e.pid = p /\ e.type = "EXIT"
<1>1. ring \in Seq(Event) /\ ring # <<>> /\ k \in Nat /\ k >= 1 /\ Len(ring) \in Nat
  BY DEF IInv, KernelInv, Reads
<1>2. Head(ring) = ring[1] /\ \A j \in 1 .. k - 1 : r[j] = ring[j + 1] /\ j + 1 \in 1 .. k
  BY <1>1
<1> HIDE DEF r
<1>3. CASE \E j \in 1 .. k : /\ ring[j].pid = p /\ ring[j].type = "FORK"
                             /\ \A m \in j + 1 .. k : ~Exit(ring[m])
  <2>1. PICK j \in 1 .. k : /\ ring[j].pid = p /\ ring[j].type = "FORK"
                            /\ \A m \in j + 1 .. k : ~Exit(ring[m])
    BY <1>3
  <2>2. CASE j = 1
    <3>1. ~Gone(Tree', p)
      BY <1>2, <2>1, <2>2 DEF Reads
    <3>2. \A m \in 1 .. k - 1 : m + 1 \in j + 1 .. k
      BY <1>1, <2>2
    <3> QED
      BY <1>2, <2>1, <3>1, <3>2 DEF Begun, r
  <2>3. CASE j # 1
    <3>1. j - 1 \in 1 .. k - 1 /\ (j - 1) + 1 = j
      BY <1>1, <2>3
    <3>2. r[j - 1] = ring[j]
      BY <1>2, <3>1
    <3>3. \A m \in (j - 1) + 1 .. k - 1 : m \in 1 .. k - 1 /\ m + 1 \in j + 1 .. k
      BY <1>1, <3>1
    <3>4. \A m \in (j - 1) + 1 .. k - 1 : ~Exit(r[m])
      BY <1>2, <2>1, <3>3
    <3> QED
      BY <2>1, <3>1, <3>2, <3>4 DEF Begun, r
  <2> QED
    BY <2>2, <2>3
<1>4. CASE ~Gone(Tree, p) /\ \A j \in 1 .. k : ~Exit(ring[j])
  <2>1. ~Exit(Head(ring))
    BY <1>1, <1>2, <1>4
  <2>2. ~Gone(Tree', p)
    BY <1>4, <2>1 DEF Reads, SameLife
  <2> QED
    BY <1>2, <1>4, <2>2 DEF Begun, r
<1> QED
  BY <1>3, <1>4 DEF Begun

\* Reading an event keeps the ring consistent with who is alive.
LEMMA ReadsLife == ASSUME IInv, LifeInv, Reads PROVE LifeInv'
<1>1. /\ ring \in Seq(Event) /\ ring # <<>> /\ Len(ring) \in 1 .. Len(ring)
      /\ Len(Tail(ring)) = Len(ring) - 1
  BY DEF IInv, KernelInv, Reads
<1>2. ring' = Tail(ring) /\ proc' = proc
  BY DEF Reads
<1>3. ASSUME NEW p \in Pid, ~There(p)' PROVE Ended(Tail(ring), Tree', p, Len(Tail(ring)))
  <2>1. Ended(ring, Tree, p, Len(ring))
    BY <1>2, <1>3 DEF LifeInv, There
  <2> QED
    BY <1>1, <2>1, ReadsEnded
<1>4. ASSUME NEW p \in Pid, Up(p)' PROVE Begun(Tail(ring), Tree', p, Len(Tail(ring)))
  <2>1. Begun(ring, Tree, p, Len(ring))
    BY <1>2, <1>4 DEF LifeInv, Up
  <2> QED
    BY <1>1, <2>1, ReadsBegun
<1> QED
  BY <1>2, <1>3, <1>4 DEF LifeInv

\* A step that queues and reads nothing keeps it too.
LEMMA QuietLife == ASSUME LifeInv, Quiet PROVE LifeInv'
<1>1. ASSUME NEW p \in Pid, ~There(p)' PROVE Ended(ring, Tree', p, Len(ring))
  BY <1>1 DEF LifeInv, Quiet, Ended
<1>2. ASSUME NEW p \in Pid, Up(p)' PROVE Begun(ring, Tree', p, Len(ring))
  BY <1>2 DEF LifeInv, Quiet, Begun
<1>3. ring' = ring
  BY DEF Quiet
<1> QED
  BY <1>1, <1>2, <1>3 DEF LifeInv

\* Every step of the poller reads one event.
LEMMA PollerReads == ASSUME IInv, Poller PROVE Reads
<1> DEFINE h == Head(ring)
<1>0. Took("FORK") \/ Took("EXIT") \/ Took(h.type)
  BY DEF Poller, IngestFork, IngestExit, IngestScored
<1>1. /\ ring # <<>> /\ ring' = Tail(ring) /\ proc' = proc /\ h \in Event
  <2>1. ring # <<>> /\ ring' = Tail(ring) /\ proc' = proc
    BY <1>0 DEF Took
  <2>2. ring \in Seq(Event)
    BY DEF IInv, KernelInv
  <2> QED
    BY <2>1, <2>2
<1>2. h.pid \in Pid
  BY <1>1 DEF Event
<1>3. CASE IngestFork
  <2>1. h.type = "FORK"
    BY <1>3 DEF IngestFork, Took
  <2>2. ~Gone(Tree', h.pid) /\ SameLife(Tree, Tree', {h.pid})
    BY <1>3, IngestForkKeeps
  <2> QED
    BY <1>1, <1>2, <2>1, <2>2 DEF Reads
<1>4. CASE IngestExit
  <2>1. h.type = "EXIT"
    BY <1>4 DEF IngestExit, Took
  <2>2. Gone(Tree', h.pid) /\ SameLife(Tree, Tree', {h.pid})
    BY <1>4, IngestExitKeeps
  <2> QED
    BY <1>1, <1>2, <2>1, <2>2 DEF Reads
<1>5. CASE IngestScored
  <2>1. h.type \notin {"FORK", "EXIT"}
    BY <1>5 DEF IngestScored
  <2>2. Extends(Tree, Tree', {h.pid})
    BY <1>5, IngestScoredKeeps
  <2> QED
    BY <1>1, <1>2, <2>1, <2>2 DEF Reads, Extends
<1> QED
  BY <1>3, <1>4, <1>5 DEF Poller

\* The latest process of a pid that is not there gives way to a new one.
LEMMA BornThere ==
    ASSUME KernelInv, NEW q \in Pid, NEW par, NEW desc, NEW group, NEW trusted,
           Born(q, par, desc, group, trusted)
    PROVE  /\ ~There(q) /\ There(q)' /\ proc'[q].desc = desc /\ proc'[q].group = group
           /\ \A p \in Pid \ {q} : proc'[p] = proc[p]
  BY DEF Born, There, KernelInv

LEMMA ProcShape ==
    ASSUME NEW D, \A p \in Pid \ D : proc'[p] = proc[p]
    PROVE  \A p \in Pid \ D : (There(p)' <=> There(p)) /\ (Up(p)' <=> Up(p))
  BY DEF There, Up

\* Every step of a process queues one event, when none is lost and there are no threads.
LEMMA KernelEmits ==
    ASSUME IInv, Settles, Kernel
    PROVE  \E e \in Event : Emits(e)
<1>0. /\ KernelInv /\ proc \in [Pid -> Process] /\ Threads = {} /\ Loses = FALSE
      /\ \A p \in Pid : There(p) => proc[p].inc \in 1 .. MaxInc
      /\ \A p \in Pid : Up(p) => There(p)
  BY BoundsAssumption DEF IInv, KernelInv, Process, Settles, Up, There
<1>1. \A e : Emit(e) => ring' = Append(ring, e)
  BY <1>0 DEF Emit
<1>2. \A p \in Pid : /\ proc[p].trusted \in BOOLEAN /\ Ppid(p) \in Pid \cup {NoPid}
                     /\ proc[p].inc \in 0 .. MaxInc
  BY <1>0, PpidType DEF Process
<1>3. Tree' = Tree
  BY DEF Kernel, Die, Exec, Risky, ForkOutside, Fork, Tree, treeVars
<1>5. ASSUME NEW p \in Pid, NEW q \in Pid, Fork(p, q) PROVE \E e \in Event : Emits(e)
  <2> DEFINE e == Ev("FORK", q, p, proc[p].trusted)
             g == proc[p].group /\ q \notin Leaves
  <2>1. /\ Born(q, <<p, proc[p].inc>>, proc[p].desc, g, proc[p].trusted)
        /\ ring' = Append(ring, e)
    BY <1>1, <1>5 DEF Fork
  <2>2. proc'[q].inc \in 1 .. MaxInc
    <3>1. g \in BOOLEAN /\ <<p, proc[p].inc>> \in Proc /\ proc[p].desc \in BOOLEAN
      BY <1>0, <1>5 DEF Fork, Proc, Process
    <3> HIDE DEF g
    <3> QED
      BY <1>0, <1>2, <2>1, <3>1, BornType
  <2>3. e \in Event
    BY <1>2, <2>2, EvType
  <2>4. ~There(q) /\ There(q)' /\ \A x \in Pid \ {q} : proc'[x] = proc[x]
    BY <1>0, <2>1, BornThere
  <2>5. \A x \in Pid \ {q} : (There(x)' <=> There(x)) /\ (Up(x)' <=> Up(x))
    BY <2>4, ProcShape
  <2>6. e.pid = q /\ e.type = "FORK"
    BY DEF Ev
  <2> HIDE DEF e
  <2> QED
    BY <1>3, <2>1, <2>3, <2>4, <2>5, <2>6 DEF Emits
<1>6. ASSUME NEW q \in Pid, ForkOutside(q) PROVE \E e \in Event : Emits(e)
  <2> DEFINE e == Ev("FORK", q, NoPid, FALSE)
  <2>1. Born(q, None, FALSE, FALSE, FALSE) /\ ring' = Append(ring, e)
    BY <1>1, <1>6 DEF ForkOutside
  <2>2. proc'[q].inc \in 1 .. MaxInc
    BY <1>0, <2>1, BornType
  <2>3. e \in Event
    BY <2>2, EvType
  <2>4. ~There(q) /\ There(q)' /\ \A x \in Pid \ {q} : proc'[x] = proc[x]
    BY <1>0, <2>1, BornThere
  <2>5. \A x \in Pid \ {q} : (There(x)' <=> There(x)) /\ (Up(x)' <=> Up(x))
    BY <2>4, ProcShape
  <2>6. e.pid = q /\ e.type = "FORK"
    BY DEF Ev
  <2> HIDE DEF e
  <2> QED
    BY <1>3, <2>1, <2>3, <2>4, <2>5, <2>6 DEF Emits
<1>7. ASSUME NEW p \in Pid, Die(p) PROVE \E e \in Event : Emits(e)
  <2> DEFINE e == Ev("EXIT", p, Ppid(p), proc[p].trusted)
  <2>1. There(p) /\ proc' = [proc EXCEPT ![p].state = "none"] /\ ring' = Append(ring, e)
    BY <1>0, <1>1, <1>7 DEF Die
  <2>2. /\ proc'[p].inc \in 1 .. MaxInc /\ proc'[p].state = "none"
        /\ \A x \in Pid \ {p} : proc'[x] = proc[x]
    BY <1>0, <2>1 DEF Process
  <2>3. e \in Event
    BY <1>2, <2>2, EvType
  <2>4. \A x \in Pid \ {p} : (There(x)' <=> There(x)) /\ (Up(x)' <=> Up(x))
    BY <2>2, ProcShape
  <2>5. e.pid = p /\ e.type = "EXIT" /\ ~Up(p)'
    BY <2>2 DEF Up, Ev
  <2> HIDE DEF e
  <2> QED
    BY <1>3, <2>1, <2>3, <2>4, <2>5 DEF Emits
<1>8. ASSUME NEW p \in Pid, Exec(p) \/ Risky(p) PROVE \E e \in Event : Emits(e)
  <2> DEFINE e == IF Exec(p) THEN Ev("EXEC", p, Ppid(p), proc[p].trusted)
                  ELSE Ev("RISKY", p, Ppid(p), proc[p].trusted)
  <2>1. /\ Up(p) /\ There(p) /\ ring' = Append(ring, e)
        /\ proc' = proc \/ \E t \in Trusts : proc' = [proc EXCEPT ![p].trusted = t]
    BY <1>0, <1>1, <1>8 DEF Exec, Risky
  <2>2. /\ proc'[p].inc \in 1 .. MaxInc /\ proc'[p].state = proc[p].state
        /\ \A x \in Pid \ {p} : proc'[x] = proc[x]
    <3>1. CASE proc' = proc
      BY <1>0, <2>1, <3>1
    <3>2. CASE \E t \in Trusts : proc' = [proc EXCEPT ![p].trusted = t]
      <4>1. proc[p].inc \in 1 .. MaxInc /\ proc[p] \in Process
        BY <1>0, <2>1
      <4> QED
        BY <1>0, <3>2, <4>1 DEF Process
    <3> QED
      BY <2>1, <3>1, <3>2
  <2>3. e \in Event
    BY <1>2, <2>2, EvType
  <2>4. \A x \in Pid \ {p} : (There(x)' <=> There(x)) /\ (Up(x)' <=> Up(x))
    BY <2>2, ProcShape
  <2>5. e.pid = p /\ e.type \in {"EXEC", "RISKY"} /\ There(p)'
    BY <2>1, <2>2 DEF There, Ev
  <2> HIDE DEF e
  <2> QED
    BY <1>3, <2>1, <2>3, <2>4, <2>5 DEF Emits
<1> QED
  BY <1>5, <1>6, <1>7, <1>8 DEF Kernel

\* So does a launch.
LEMMA LaunchEmits ==
    ASSUME IInv, Settles, NEW q \in Pid, Launch(q)
    PROVE  \E e \in Event : Emits(e)
<1> DEFINE e == Ev("FORK", q, NoPid, TRUE)
<1>1. Born(q, None, TRUE, TRUE, TRUE) /\ ring' = Append(ring, e) /\ KernelInv
  BY DEF Launch, Emit, Settles, IInv
<1>2. proc'[q].inc \in 1 .. MaxInc
  BY <1>1, BornType
<1>3. e \in Event
  BY <1>2, EvType
<1>4. ~There(q) /\ There(q)' /\ \A x \in Pid \ {q} : proc'[x] = proc[x]
  BY <1>1, BornThere
<1>5. \A x \in Pid \ {q} : (There(x)' <=> There(x)) /\ (Up(x)' <=> Up(x))
  BY <1>4, ProcShape
<1>6. e.pid = q /\ e.type = "FORK"
  BY DEF Ev
<1>7. Tree' = Tree
  BY LaunchKeeps
<1> HIDE DEF e
<1> QED
  BY <1>1, <1>3, <1>4, <1>5, <1>6, <1>7 DEF Emits

\* Nobody takes the pid of the launched program, and its death precedes that of its node.
LEMMA RootKeeps ==
    ASSUME IInv, Settles, RootInv, [Next]_vars
    PROVE  RootInv'
<1>0. /\ KernelInv /\ proc \in [Pid -> Process] /\ (pc # "none" => root \in Pid)
      /\ \A p : Up(p) => There(p)
  BY DEF IInv, KernelInv, SuperInv, Up, There
<1> DEFINE Same == /\ root' = root /\ proc' = proc /\ (pc' # "none" => pc # "none")
                   /\ pc' \in {"unregister", "mark"} => pc \in {"unregister", "mark"}
<1>1. ASSUME Same PROVE RootInv'
  BY <1>1 DEF RootInv, There, Up
<1>2. CASE Poller \/ Tick \/ Purge \/ UNCHANGED vars
  <2>1. Same
    BY <1>2 DEF Poller, IngestFork, IngestExit, IngestScored, Took, Tick, Purge, vars, supVars
  <2> QED
    BY <1>1, <2>1
<1>3. CASE Register \/ Refuse \/ Allow \/ Kill \/ Collect \/ Unregister \/ MarkDead
  <2>1. Same
    BY <1>3 DEF Register, Refuse, Allow, Kill, Collect, Unregister, MarkDead, Answered
  <2> QED
    BY <1>1, <2>1
<1>4. ASSUME NEW p \in Pid, Predict(p) PROVE RootInv'
  <2>1. Same
    BY <1>4 DEF Predict
  <2> QED
    BY <1>1, <2>1
<1>5. ASSUME UNCHANGED supVars,
             pc # "none" => /\ There(root)' => There(root)
                            /\ Up(root)' => Up(root)
                            /\ proc'[root].desc = proc[root].desc
                            /\ proc'[root].group = proc[root].group
      PROVE  RootInv'
  <2>1. root' = root /\ pc' = pc
    BY <1>5 DEF supVars
  <2>2. There(root)' <=> proc'[root].state # "none"
    BY <2>1 DEF There
  <2> QED
    BY <1>5, <2>1, <2>2 DEF RootInv, There, Up
<1>6. CASE Kernel
  <2>1. ASSUME NEW p \in Pid, NEW q \in Pid, Fork(p, q) PROVE RootInv'
    <3>1. pc # "none" => root # q
      BY <2>1 DEF Fork, RootInv, Settles
    <3>2. UNCHANGED supVars /\ \A x \in Pid \ {q} : proc'[x] = proc[x]
      BY <1>0, <2>1 DEF Fork, Born
    <3>3. pc # "none" => proc'[root] = proc[root] /\ root' = root
      BY <1>0, <3>1, <3>2 DEF supVars
    <3> QED
      BY <1>5, <3>2, <3>3 DEF There, Up
  <2>2. ASSUME NEW q \in Pid, ForkOutside(q) PROVE RootInv'
    <3>1. pc # "none" => root # q
      BY <2>2 DEF ForkOutside, RootInv, Settles
    <3>2. UNCHANGED supVars /\ \A x \in Pid \ {q} : proc'[x] = proc[x]
      BY <1>0, <2>2 DEF ForkOutside, Born
    <3>3. pc # "none" => proc'[root] = proc[root] /\ root' = root
      BY <1>0, <3>1, <3>2 DEF supVars
    <3> QED
      BY <1>5, <3>2, <3>3 DEF There, Up
  <2>3. ASSUME NEW p \in Pid, Die(p) PROVE RootInv'
    <3>1. UNCHANGED supVars /\ proc' = [proc EXCEPT ![p].state = "none"]
      BY <2>3 DEF Die
    <3>2. \A x \in Pid : /\ proc'[x].state \in {proc[x].state, "none"}
                         /\ proc'[x].desc = proc[x].desc /\ proc'[x].group = proc[x].group
      BY <1>0, <3>1 DEF Process
    <3> QED
      BY <1>0, <1>5, <3>1, <3>2 DEF There, Up, supVars
  <2>4. ASSUME NEW p \in Pid, Exec(p) \/ Risky(p) PROVE RootInv'
    <3>1. /\ UNCHANGED supVars
          /\ proc' = proc \/ \E t \in Trusts : proc' = [proc EXCEPT ![p].trusted = t]
      BY <2>4 DEF Exec, Risky
    <3>2. \A x \in Pid : /\ proc'[x].state = proc[x].state
                         /\ proc'[x].desc = proc[x].desc /\ proc'[x].group = proc[x].group
      <4>1. CASE proc' = proc
        BY <4>1
      <4>2. CASE \E t \in Trusts : proc' = [proc EXCEPT ![p].trusted = t]
        BY <1>0, <4>2 DEF Process
      <4> QED
        BY <3>1, <4>1, <4>2
    <3> QED
      BY <1>0, <1>5, <3>1, <3>2 DEF There, Up, supVars
  <2> QED
    BY <1>6, <2>1, <2>2, <2>3, <2>4 DEF Kernel
<1>7. ASSUME NEW q \in Pid, Launch(q) PROVE RootInv'
  <2>1. Born(q, None, TRUE, TRUE, TRUE) /\ q \in RootPid /\ pc' = "launched" /\ root' = q
    BY <1>7 DEF Launch
  <2>2. proc'[q].desc = TRUE /\ proc'[q].group = TRUE
    BY <1>0, <2>1, BornThere
  <2> QED
    BY <2>1, <2>2 DEF RootInv
<1>8. ASSUME NEW p \in Pid, Signal(p) PROVE RootInv'
  <2>1. /\ pc = "signal" /\ pc' = pc /\ root' = root
        /\ proc' = [proc EXCEPT ![p].state = IF @ = "up" THEN "dying" ELSE @]
    BY <1>8 DEF Signal
  <2> DEFINE y == [proc[p] EXCEPT !.state = IF @ = "up" THEN "dying" ELSE @]
  <2>2. proc' = [proc EXCEPT ![p] = y]
    BY <1>0, <2>1
  <2>3. /\ y.desc = proc[p].desc /\ y.group = proc[p].group
        /\ y.state # "none" => proc[p].state # "none"
    BY <1>0 DEF Process
  <2> HIDE DEF y
  <2>4. \A x \in Pid : proc'[x] = IF x = p THEN y ELSE proc[x]
    BY <1>0, <2>2
  <2> QED
    BY <1>0, <2>1, <2>3, <2>4 DEF RootInv, There
<1>9. CASE SignalGroup
  <2>1. /\ pc = "signal" /\ pc' = "unregister" /\ root' = root /\ root \in Pid
        /\ \A p \in Pid : proc'[p] = IF Up(p) /\ proc[p].group
                                     THEN [proc[p] EXCEPT !.state = "dying"] ELSE proc[p]
    BY <1>0, <1>9 DEF SignalGroup
  <2>2. CASE Up(root)
    <3>1. proc[root].group /\ proc[root].desc
      BY <1>0, <2>1, <2>2 DEF RootInv
    <3>2. proc'[root] = [proc[root] EXCEPT !.state = "dying"] /\ proc[root] \in Process
      BY <1>0, <2>1, <2>2, <3>1
    <3>3. proc'[root].state = "dying" /\ proc'[root].group /\ proc'[root].desc
      BY <3>1, <3>2 DEF Process
    <3> QED
      BY <2>1, <3>3 DEF RootInv, Up, There
  <2>3. CASE ~Up(root)
    <3>1. proc'[root] = proc[root]
      BY <2>1, <2>3
    <3> QED
      BY <2>1, <2>3, <3>1 DEF RootInv, Up, There
  <2> QED
    BY <2>2, <2>3
<1>10. CASE LoopEnds
  <2>1. /\ pc = "idle" /\ pc' = "unregister" /\ root' = root /\ proc' = proc
        /\ EarlyEnd \/ \A p \in Pid : ~(There(p) /\ proc[p].desc)
    BY <1>10 DEF LoopEnds
  <2>2. root \in RootPid /\ root \in Pid /\ EarlyEnd = FALSE
    BY <1>0, <2>1 DEF RootInv, Settles
  <2>3. ~There(root)
    BY <2>1, <2>2 DEF RootInv
  <2> QED
    BY <1>0, <2>1, <2>2, <2>3 DEF RootInv, There, Up
<1> QED
  BY <1>2, <1>3, <1>4, <1>6, <1>7, <1>8, <1>9, <1>10 DEF Next, Supervise

\* Collection, purge, and supervision but for its launch.
LEMMA OtherQuiet ==
    ASSUME IInv, RootInv,
           \/ Tick \/ Purge \/ Register \/ Allow \/ MarkDead \/ SignalGroup \/ UNCHANGED vars
           \/ Refuse \/ Kill \/ Collect \/ LoopEnds \/ Unregister
           \/ \E p \in Pid : Predict(p) \/ Signal(p)
    PROVE  Quiet
<1>1. ASSUME UNCHANGED <<proc, ring>>,
             \A p \in Pid : ~There(p) => (Gone(Tree, p) => Gone(Tree', p)),
             \A p \in Pid : Up(p) => (~Gone(Tree, p) => ~Gone(Tree', p))
      PROVE  Quiet
  BY <1>1 DEF Quiet, There, Up
<1>2. CASE Tick \/ Purge
  <2>1. \A p \in Pid : Gone(Tree, p)' <=> Gone(Tree, p)
    BY <1>2, TickKeeps, PurgeKeeps
  <2>2. UNCHANGED <<proc, ring>>
    BY <1>2 DEF Tick, Purge
  <2>3. \A p \in Pid : Gone(Tree', p) <=> Gone(Tree, p)
    BY <2>1 DEF Gone
  <2> QED
    BY <1>1, <2>2, <2>3
<1>3. CASE Register \/ Allow
  <2>1. Extends(Tree, Tree', {}) /\ UNCHANGED <<proc, ring>>
    BY <1>3, RegisterKeeps, AllowKeeps DEF Register, Allow
  <2> QED
    BY <1>1, <2>1 DEF Extends, SameLife
<1>4. CASE MarkDead
  <2>1. /\ SameLife(Tree, Tree', {root}) /\ Gone(Tree', root) /\ root \in Pid
        /\ UNCHANGED <<proc, ring>> /\ pc = "mark"
    BY <1>4, MarkDeadKeeps DEF MarkDead
  <2>2. ~Up(root)
    BY <2>1 DEF RootInv
  <2> QED
    BY <1>1, <2>1, <2>2 DEF SameLife
<1>5. ASSUME NEW p \in Pid, Predict(p) PROVE Quiet
  <2>1. Extends(Tree, Tree', {q \in Pid : There(q)}) /\ UNCHANGED <<proc, ring>>
    BY <1>5, PredictKeeps DEF Predict
  <2> QED
    BY <1>1, <2>1 DEF Extends, SameLife
<1>6. CASE SignalGroup \/ \E p \in Pid : Signal(p)
  <2>1. Tree' = Tree /\ ring' = ring
    BY <1>6, SignalKeeps DEF Signal, SignalGroup
  <2>2. proc \in [Pid -> Process]
    BY DEF IInv, KernelInv
  <2>3. \A p \in Pid : /\ ~There(p)' => ~There(p)
                       /\ Up(p)' => Up(p)
    <3>1. CASE SignalGroup
      BY <2>2, <3>1 DEF SignalGroup, There, Up, Process
    <3>2. ASSUME NEW q \in Pid, Signal(q)
          PROVE  \A p \in Pid : (~There(p)' => ~There(p)) /\ (Up(p)' => Up(p))
      <4> DEFINE y == [proc[q] EXCEPT !.state = IF @ = "up" THEN "dying" ELSE @]
      <4>1. proc' = [proc EXCEPT ![q] = y]
        BY <2>2, <3>2 DEF Signal
      <4>2. y.state = IF proc[q].state = "up" THEN "dying" ELSE proc[q].state
        BY <2>2 DEF Process
      <4> HIDE DEF y
      <4>3. \A x \in Pid : proc'[x] = IF x = q THEN y ELSE proc[x]
        BY <2>2, <4>1
      <4> QED
        BY <4>2, <4>3 DEF There, Up
    <3> QED
      BY <1>6, <3>1, <3>2
  <2> QED
    BY <2>1, <2>3 DEF Quiet
<1>7. CASE Refuse \/ Kill \/ Collect \/ LoopEnds \/ Unregister
  BY <1>1, <1>7, OtherKeeps
<1>8. CASE UNCHANGED vars
  <2>1. Tree' = Tree /\ UNCHANGED <<proc, ring>>
    BY <1>8 DEF vars, treeVars, Tree
  <2> QED
    BY <1>1, <2>1
<1> QED
  BY <1>2, <1>3, <1>4, <1>5, <1>6, <1>7, <1>8

\* Every step keeps the ring consistent with who is alive.
LEMMA LifeKeeps ==
    ASSUME IInv, Settles, RootInv, LifeInv, [Next]_vars
    PROVE  LifeInv'
<1>1. CASE Poller
  BY <1>1, PollerReads, ReadsLife
<1>2. CASE Kernel
  BY <1>2, KernelEmits, EmitsLife
<1>3. ASSUME NEW q \in Pid, Launch(q) PROVE LifeInv'
  BY <1>3, LaunchEmits, EmitsLife
<1>4. CASE \/ Tick \/ Purge \/ Register \/ Allow \/ MarkDead \/ SignalGroup \/ UNCHANGED vars
           \/ Refuse \/ Kill \/ Collect \/ LoopEnds \/ Unregister
           \/ \E p \in Pid : Predict(p) \/ Signal(p)
  BY <1>4, OtherQuiet, QuietLife
<1> QED
  BY <1>1, <1>2, <1>3, <1>4 DEF Next, Supervise

\* Before the FORK of start-up is read nothing was scored.
Untouched == DOMAIN watch = {} /\ \A u \in DOMAIN node : node[u].peak = 0

\* A FORK is read when the process before it is known to be gone, the one of start-up apart.
RingInv ==
    \A i \in 1 .. Len(ring) :
        ring[i].type = "FORK" => \/ Ended(ring, Tree, ring[i].pid, i - 1)
                                 \/ i = 1 /\ Untouched

\* The invariants about the ring hold at start-up.
LEMMA InitLife == Init => LifeInv /\ RootInv /\ RingInv /\ Tells(watch, node)
<1> SUFFICES ASSUME Init PROVE LifeInv /\ RootInv /\ RingInv /\ Tells(watch, node)
  OBVIOUS
<1>1. PICK par \in Lineages :
        /\ proc = [p \in Pid |->
                      [inc |-> IF p \in Seeded THEN 1 ELSE 0,
                       state |-> IF p \in Seeded THEN "up" ELSE "none",
                       par |-> IF p \in Seeded /\ par[p] # NoPid THEN <<par[p], 1>> ELSE None,
                       desc |-> FALSE, group |-> FALSE, trusted |-> FALSE]]
        /\ ring \in {<<>>} \cup
                    {<<[type |-> "FORK", pid |-> p, inc |-> 1, ppid |-> par[p],
                        trusted |-> FALSE]>> : p \in {p \in Seeded : \A q \in Seeded : par[q] # p}}
        /\ node = [u \in Seeded \X {1} |->
                      [of |-> 1, par |-> IF par[u[1]] = NoPid THEN None ELSE <<par[u[1]], 1>>,
                       dead |-> FALSE, exempt |-> FALSE, supervised |-> FALSE,
                       risk |-> 0, peak |-> 0, badgePeak |-> 0]]
        /\ cur = [p \in Pid |-> IF p \in Seeded THEN 1 ELSE 0]
        /\ watch = << >> /\ pc = "none"
  BY Zenon DEF Init
<1>2. /\ DOMAIN node = Seeded \X {1}
      /\ \A u \in DOMAIN node : node[u].dead = FALSE /\ node[u].peak = 0
      /\ \A p \in Pid : Lookup(cur, p) = IF p \in Seeded THEN <<p, 1>> ELSE None
  BY <1>1 DEF Lookup
<1>3. \A p \in Pid : Gone(Tree, p) <=> p \notin Seeded
  <2>1. \A p \in Seeded : <<p, 1>> \in DOMAIN node /\ <<p, 1>> # None
    BY <1>2 DEF None
  <2> QED
    BY <1>2, <2>1 DEF Gone, Tree
<1>4. \A p \in Pid : (There(p) <=> p \in Seeded) /\ (Up(p) <=> p \in Seeded)
  BY <1>1 DEF There, Up
<1>5. Len(ring) \in 0 .. 1
      /\ \A j \in 1 .. Len(ring) : ring[j].pid \in Seeded /\ ring[j].type = "FORK"
  <2>1. CASE ring = <<>>
    BY <2>1
  <2>2. CASE \E p \in Seeded : ring = <<[type |-> "FORK", pid |-> p, inc |-> 1,
                                         ppid |-> par[p], trusted |-> FALSE]>>
    BY <2>2
  <2> QED
    BY <1>1, <2>1, <2>2
<1>6. DOMAIN watch = {}
  BY <1>1
<1>7. LifeInv
  BY <1>3, <1>4, <1>5 DEF LifeInv, Ended, Begun
<1>8. RootInv
  BY <1>1 DEF RootInv
<1>9. RingInv
  BY <1>2, <1>5, <1>6 DEF RingInv, Untouched
<1> QED
  BY <1>6, <1>7, <1>8, <1>9 DEF Tells

LEMMA LifeAlways == ASSUME Settles PROVE Spec => [](IInv /\ RootInv /\ LifeInv)
<1> DEFINE I == IInv /\ RootInv /\ LifeInv
<1>1. Init => I
  BY InitIInv, InitLife
<1>2. I /\ [Next]_vars => I'
  BY NextKeeps, RootKeeps, LifeKeeps
<1> HIDE DEF I
<1>3. Spec => []I
  BY <1>1, <1>2, PTL DEF Spec
<1> QED
  BY <1>3 DEF I

\* If the ring loses nothing and no threads are reported, and a launched root shares its pid with
\* nobody and does not outlive its loop: once its events are read, the tree says of every pid
\* whether its process runs: seeding from
\* /proc, reuse, synthesis for held calls, evidence, collection, purge and the end of
\* supervision leave no process without a living node, none with two, and no living node
\* without a process (seed_from_proc, ensure_node, fork_node, synth_node, gc_sweep,
\* mark_supervised_dead).
THEOREM SettledIsTrue == ASSUME Settles PROVE Spec => []SettledTreeIsTrue
<1>1. IInv /\ RootInv /\ LifeInv => SettledTreeIsTrue
  <2> SUFFICES ASSUME IInv, LifeInv, ring = <<>> PROVE
                   /\ \A p \in Pid : Up(p) => Node(p) # None /\ ~node[Node(p)].dead
                   /\ \A u \in DOMAIN node : ~node[u].dead => u = Node(u[1]) /\ There(u[1])
    BY DEF SettledTreeIsTrue
  <2>1. Len(ring) = 0
    OBVIOUS
  <2>2. ASSUME NEW p \in Pid, Up(p) PROVE Node(p) # None /\ ~node[Node(p)].dead
    <3>1. Begun(ring, Tree, p, 0)
      BY <2>1, <2>2 DEF LifeInv
    <3> QED
      BY <3>1, TreeNow DEF Begun, Gone
  <2>3. ASSUME NEW u \in DOMAIN node, ~node[u].dead PROVE u = Node(u[1]) /\ There(u[1])
    <3>1. u = Node(u[1]) /\ u[1] \in Pid
      BY <2>3, TreeNow DEF IInv, Alone, Sound, Typed, Uid
    <3>2. u # None
      BY TreeNow DEF IInv, Sound, Typed, Closed
    <3>3. ~There(u[1]) => Ended(ring, Tree, u[1], 0)
      BY <2>1, <3>1 DEF LifeInv
    <3> QED
      BY <2>3, <3>1, <3>2, <3>3, TreeNow DEF Ended, Gone
  <2> QED
    BY <2>2, <2>3
<1> QED
  BY <1>1, LifeAlways, PTL

-----------------------------------------------------------------------------
(* The watchlist tells deaths, when nothing is supervised.                 *)

Unsupervised == RootPid = {} /\ Threads = {} /\ Loses = FALSE

\* That an end is told depends on the first k events only.
LEMMA EndedPrefix ==
    ASSUME NEW r, NEW s, NEW t, NEW p, NEW k \in Nat, \A j \in 1 .. k : s[j] = r[j],
           Ended(r, t, p, k)
    PROVE  Ended(s, t, p, k)
<1>1. CASE \E j \in 1 .. k : /\ r[j].pid = p /\ r[j].type = "EXIT"
                             /\ \A m \in j + 1 .. k : r[m].pid # p
  <2>1. PICK j \in 1 .. k : /\ r[j].pid = p /\ r[j].type = "EXIT"
                            /\ \A m \in j + 1 .. k : r[m].pid # p
    BY <1>1
  <2>2. \A m \in j + 1 .. k : m \in 1 .. k
    OBVIOUS
  <2> QED
    BY <2>1, <2>2 DEF Ended
<1>2. CASE Gone(t, p) /\ \A j \in 1 .. k : r[j].pid # p
  BY <1>2 DEF Ended
<1> QED
  BY <1>1, <1>2 DEF Ended

\* Nobody is launched.
LEMMA NoSupervisor ==
    ASSUME Unsupervised, pc = "none", [Next]_vars
    PROVE  pc' = "none" /\ (Poller \/ Kernel \/ Tick \/ Purge \/ UNCHANGED vars)
<1>1. ~Supervise
  BY DEF Supervise, Register, Refuse, Allow, Kill, Collect, SignalGroup, LoopEnds, Unregister,
         MarkDead, Launch, Predict, Signal, Answered, Unsupervised
<1>2. CASE Poller
  BY <1>2 DEF Poller, IngestFork, IngestExit, IngestScored, Took, supVars
<1>3. CASE Kernel
  BY <1>3 DEF Kernel, Die, Exec, Risky, ForkOutside, Fork, supVars
<1>4. CASE Tick \/ Purge \/ UNCHANGED vars
  BY <1>4 DEF Tick, Purge, vars, supVars
<1> QED
  BY <1>1, <1>2, <1>3, <1>4 DEF Next

\* Without a launched root, a FORK is read only for a pid whose predecessor is marked gone.
LEMMA RingKeeps ==
    ASSUME IInv, LifeInv, RingInv, Unsupervised, pc = "none", [Next]_vars
    PROVE  RingInv'
<1>0. ring \in Seq(Event) /\ Len(ring) \in Nat /\ Settles
  BY DEF IInv, KernelInv, Unsupervised, Settles
<1>p. \A i \in 1 .. Len(ring) : ring[i].pid \in Pid
  <2>1. \A i \in 1 .. Len(ring) : ring[i] \in Event
    BY <1>0
  <2>2. \A e \in Event : e.pid \in Pid
    BY DEF Event
  <2> QED
    BY <2>1, <2>2
<1>1. CASE Poller
  <2> DEFINE r == Tail(ring)
  <2>1. Reads /\ ring' = r /\ ring # <<>>
    BY <1>1, PollerReads DEF Reads
  <2>2. /\ Len(r) = Len(ring) - 1
        /\ \A i \in 1 .. Len(r) : r[i] = ring[i + 1] /\ i + 1 \in 1 .. Len(ring)
                                  /\ r[i].pid \in Pid
    <3>1. /\ Len(r) = Len(ring) - 1
          /\ \A i \in 1 .. Len(r) : r[i] = ring[i + 1] /\ i + 1 \in 1 .. Len(ring)
      BY <1>0, <2>1
    <3> QED
      BY <3>1, <1>p
  <2> HIDE DEF r
  <2>3. ASSUME NEW i \in 1 .. Len(r), r[i].type = "FORK"
        PROVE  Ended(r, Tree', r[i].pid, i - 1)
    <3>1. i \in 1 .. Len(ring) /\ (i + 1) - 1 = i /\ i + 1 # 1
      BY <1>0, <2>2
    <3>2. Ended(ring, Tree, r[i].pid, i)
      BY <2>2, <2>3, <3>1 DEF RingInv
    <3> QED
      BY <2>1, <2>2, <3>1, <3>2, ReadsEnded DEF r
  <2> QED
    BY <2>1, <2>3 DEF RingInv
<1>2. CASE Kernel
  <2>1. PICK e \in Event : Emits(e)
    BY <1>0, <1>2, KernelEmits
  <2> DEFINE n == Len(ring)
             r == Append(ring, e)
  <2>2. ring' = r /\ Tree' = Tree
    BY <2>1 DEF Emits
  <2>3. Len(r) = n + 1 /\ r[n + 1] = e /\ \A j \in 1 .. n : r[j] = ring[j]
    BY <1>0
  <2> HIDE DEF r
  <2>4. Untouched => Untouched'
    BY <1>2 DEF Kernel, Die, Exec, Risky, ForkOutside, Fork, treeVars, Untouched
  <2>5. ASSUME NEW i \in 1 .. Len(r), r[i].type = "FORK"
        PROVE  Ended(r, Tree', r[i].pid, i - 1) \/ (i = 1 /\ Untouched')
    <3>1. CASE i = n + 1
      <4>1. e.type = "FORK" /\ ~There(e.pid) /\ e.pid \in Pid /\ i - 1 = n
        BY <1>0, <2>1, <2>3, <2>5, <3>1 DEF Emits, Event
      <4>2. Ended(ring, Tree, e.pid, n)
        BY <4>1 DEF LifeInv
      <4> QED
        BY <1>0, <2>2, <2>3, <3>1, <4>1, <4>2, EndedPrefix
    <3>2. CASE i # n + 1
      <4>1. i \in 1 .. n /\ i - 1 \in Nat /\ \A j \in 1 .. i - 1 : j \in 1 .. n
        BY <1>0, <2>3, <3>2
      <4>2. Ended(ring, Tree, r[i].pid, i - 1) \/ (i = 1 /\ Untouched)
        BY <2>3, <2>5, <4>1 DEF RingInv
      <4> QED
        BY <2>2, <2>3, <2>4, <4>1, <4>2, EndedPrefix
    <3> QED
      BY <3>1, <3>2
  <2> QED
    BY <2>2, <2>5 DEF RingInv
<1>3. CASE Tick \/ Purge
  <2>1. /\ IInv' /\ \A p \in Pid : Gone(Tree, p)' <=> Gone(Tree, p)
        /\ \A u \in DOMAIN node' : node'[u].peak = node[u].peak /\ u \in DOMAIN node
    BY <1>3, TickKeeps, PurgeKeeps
  <2>2. ring' = ring /\ \A p \in Pid : Gone(Tree', p) <=> Gone(Tree, p)
    BY <1>3, <2>1 DEF Tick, Purge, Gone
  <2>3. Untouched => Untouched'
    <3> SUFFICES ASSUME Untouched PROVE Untouched'
      OBVIOUS
    <3>1. \A u \in DOMAIN node' : node'[u].peak = 0
      BY <2>1 DEF Untouched
    <3>2. DOMAIN watch' = {}
      <4>1. SUFFICES ASSUME NEW u \in DOMAIN watch' PROVE FALSE
        OBVIOUS
      <4>2. u \in DOMAIN node' /\ watch'[u].peak > 0 /\ watch'[u].peak <= node'[u].peak
            /\ watch'[u] \in Watched
        BY <2>1, <4>1 DEF IInv, Fits, Listed
      <4> QED
        BY <3>1, <4>2, BoundsAssumption DEF Watched, Level
    <3> QED
      BY <3>1, <3>2 DEF Untouched
  <2>4. ASSUME NEW i \in 1 .. Len(ring), ring[i].type = "FORK"
        PROVE  Ended(ring, Tree', ring[i].pid, i - 1) \/ (i = 1 /\ Untouched')
    <3>1. ring[i].pid \in Pid
      BY <1>p
    <3> QED
      BY <2>2, <2>3, <2>4, <3>1 DEF RingInv, Ended
  <2> QED
    BY <2>2, <2>4 DEF RingInv
<1>4. CASE UNCHANGED vars
  <2>1. ring' = ring /\ Tree' = Tree /\ (Untouched' <=> Untouched)
    BY <1>4 DEF vars, treeVars, Tree, Untouched
  <2> QED
    BY <2>1 DEF RingInv
<1> QED
  BY <1>1, <1>2, <1>3, <1>4, NoSupervisor

\* And then the watchlist is told of every death.
LEMMA TellsKeeps ==
    ASSUME IInv, RingInv, Unsupervised, pc = "none", Tells(watch, node), [Next]_vars
    PROVE  Tells(watch', node')
<1>1. CASE IngestFork
  <2> DEFINE p == Head(ring).pid
  <2>1. /\ Lasting(node, node') /\ Told(watch, watch', node') /\ p \in Pid
        /\ \A v \in DOMAIN node : v # Node(p) => node'[v].dead = node[v].dead
        /\ IInv'
    BY <1>1, IngestForkKeeps
  <2>2. ring \in Seq(Event) /\ ring # <<>> /\ Head(ring).type = "FORK"
    BY <1>1 DEF IngestFork, Took, IInv, KernelInv
  <2>3. 1 \in 1 .. Len(ring) /\ Head(ring) = ring[1] /\ 1 - 1 = 0
    BY <2>2
  <2>4. Ended(ring, Tree, p, 0) \/ Untouched
    BY <2>2, <2>3 DEF RingInv
  <2>5. CASE Untouched
    BY <2>1, <2>5 DEF Untouched, Tells, Told, Entry
  <2>6. CASE Ended(ring, Tree, p, 0)
    <3>1. Node(p) = None \/ node[Node(p)].dead
      BY <2>6, TreeNow DEF Ended, Gone
    <3>2. /\ Fits(watch, node) /\ Typed(node) /\ Typed(node') /\ None \notin DOMAIN node
      <4>1. Sound(Tree)' => Typed(node')
        BY DEF Sound, Tree, Typed, Closed
      <4> QED
        BY <2>1, <4>1, TreeNow DEF IInv, Sound, Typed, Closed
    <3> HIDE DEF p
    <3>3. ASSUME NEW u \in DOMAIN watch PROVE node'[u].dead = node[u].dead
      <4>1. u \in DOMAIN node /\ u \in DOMAIN node'
        BY <2>1, <3>2 DEF Fits, Listed, Lasting
      <4>2. node[u].dead \in BOOLEAN /\ node'[u].dead \in BOOLEAN
        BY <3>2, <4>1 DEF Typed, PNode
      <4>3. CASE u = Node(p)
        <5>1. node[u].dead
          BY <3>1, <3>2, <4>1, <4>3
        <5>2. node'[u].dead
          BY <2>1, <4>1, <5>1 DEF Lasting
        <5> QED
          BY <4>2, <5>1, <5>2
      <4> QED
        BY <2>1, <4>1, <4>3
    <3> QED
      BY <2>1, <3>2, <3>3, TellsOn
  <2> QED
    BY <2>4, <2>5, <2>6
<1>2. CASE IngestExit
  BY <1>2, IngestExitKeeps
<1>3. CASE IngestScored
  BY <1>3, IngestScoredKeeps
<1>4. CASE Tick \/ Purge
  BY <1>4, TickKeeps, PurgeKeeps
<1>5. CASE Kernel \/ UNCHANGED vars
  <2>1. node' = node /\ watch' = watch
    BY <1>5 DEF Kernel, Die, Exec, Risky, ForkOutside, Fork, treeVars, vars
  <2> QED
    BY <2>1
<1> QED
  BY <1>1, <1>2, <1>3, <1>4, <1>5, NoSupervisor DEF Poller

\* Without a launched program, threads and losses:
\* whatever the order in which deaths, reuse, scores, ticks and purges reach it, the watchlist
\* names nodes the engine has and says of each whether it is dead (update_watchlist,
\* handle_event, purge_dead).
THEOREM DeathsAreTold == ASSUME Unsupervised PROVE Spec => []WatchTellsDeath
<1> DEFINE I == IInv /\ RootInv /\ LifeInv /\ RingInv /\ pc = "none" /\ Tells(watch, node)
<1>1. Init => I
  <2>1. Init => pc = "none"
    BY DEF Init
  <2> QED
    BY <2>1, InitIInv, InitLife
<1>2. I /\ [Next]_vars => I'
  <2> SUFFICES ASSUME I, [Next]_vars PROVE I'
    OBVIOUS
  <2>0. Settles
    BY DEF Settles, Unsupervised
  <2>1. IInv' /\ RootInv' /\ LifeInv'
    BY <2>0, NextKeeps, RootKeeps, LifeKeeps
  <2>2. RingInv' /\ pc' = "none" /\ Tells(watch', node')
    BY RingKeeps, NoSupervisor, TellsKeeps
  <2>3. Tells(watch, node)'
    BY <2>2 DEF Tells
  <2> QED
    BY <2>1, <2>2, <2>3
<1>3. I => WatchTellsDeath
  BY DEF WatchTellsDeath, Tells, IInv, Fits, Listed
<1> HIDE DEF I
<1> QED
  BY <1>1, <1>2, <1>3, PTL DEF Spec

-----------------------------------------------------------------------------
(* Who descends from the launched program, and what the tree makes of it.  *)

\* The ways a process comes.
Comes(q, e) ==
    /\ ~There(q) /\ ~Unseen(q) /\ q \notin victims
    /\ \A p \in Pid \ {q} : proc'[p] = proc[p]
    /\ proc'[q].inc = proc[q].inc + 1 /\ proc'[q].state = "up"
    /\ ring' = Append(ring, e) /\ e.type = "FORK" /\ e.pid = q /\ e.inc = proc'[q].inc
    /\ Tree' = Tree /\ UNCHANGED <<supRoots, victims>>

Child(p, q, e) ==
    /\ Up(p) /\ e.ppid = p /\ q \notin RootPid /\ UNCHANGED supVars
    /\ proc'[q].par = <<p, proc[p].inc>> /\ (proc'[q].desc <=> proc[p].desc)
    /\ proc'[q].group => proc[p].group
    /\ proc[p].desc /\ pc = "launched" => EarlyFork

Stray(q, e) ==
    /\ e.ppid = NoPid /\ q \notin RootPid /\ UNCHANGED supVars
    /\ proc'[q].par = None /\ ~proc'[q].desc /\ ~proc'[q].group

Launched(q, e) ==
    /\ e.ppid = NoPid /\ q \in RootPid /\ pc = "none" /\ pc' = "launched" /\ root' = q
    /\ proc'[q].par = None /\ proc'[q].desc

SameProc(p) ==
    /\ proc'[p].inc = proc[p].inc /\ proc'[p].par = proc[p].par
    /\ (proc'[p].desc <=> proc[p].desc) /\ (proc'[p].group <=> proc[p].group)

\* What a process there is does.
Says(p, e) ==
    /\ ring' = Append(ring, e) /\ e.type # "FORK" /\ e.pid = p
    /\ e.inc = proc[p].inc /\ e.ppid = Ppid(p)
    /\ \A x \in Pid : SameProc(x) /\ (x # p => proc'[x].state = proc[x].state)
    /\ e.type = "EXIT" => proc'[p].state = "none" /\ ~(proc[p].desc /\ pc = "launched")
    /\ e.type # "EXIT" => proc'[p].state = proc[p].state /\ Up(p)
    /\ Tree' = Tree /\ UNCHANGED <<supRoots, supVars>>

LEMMA BornComes ==
    ASSUME IInv, Settles, SlowReuse, NEW q \in Pid, NEW p \in Pid \cup {NoPid}, NEW par \in Proc \cup {None},
           NEW desc \in BOOLEAN, NEW group \in BOOLEAN, NEW trusted \in BOOLEAN, NEW trust \in BOOLEAN,
           Born(q, par, desc, group, trusted), Emit(Ev("FORK", q, p, trust)),
           UNCHANGED <<treeVars, supRoots, victims>>
    PROVE  \E e \in Event : /\ Comes(q, e) /\ e.ppid = p
                            /\ proc'[q].par = par /\ proc'[q].desc = desc /\ proc'[q].group = group
<1> DEFINE x == [inc |-> proc[q].inc + 1, state |-> "up", par |-> par, desc |-> desc,
                 group |-> group, trusted |-> trusted]
           e == Ev("FORK", q, p, trust)
<1>1. KernelInv /\ proc \in [Pid -> Process] /\ Loses = FALSE
  BY DEF IInv, KernelInv, Settles
<1>2. proc' = [proc EXCEPT ![q] = x] /\ ~There(q) /\ ~Unseen(q) /\ q \notin victims
  BY DEF Born
<1>3. /\ x.inc = proc[q].inc + 1 /\ x.state = "up" /\ x.par = par /\ x.desc = desc
      /\ x.group = group
  OBVIOUS
<1> HIDE DEF x
<1>4. proc'[q] = x /\ \A y \in Pid \ {q} : proc'[y] = proc[y]
  BY <1>1, <1>2
<1>5. proc'[q].inc \in 1 .. MaxInc
  BY <1>1, BornType
<1>6. e \in Event /\ e.type = "FORK" /\ e.pid = q /\ e.inc = proc'[q].inc /\ e.ppid = p
  BY <1>5, EvType DEF Ev
<1>7. ring' = Append(ring, e)
  BY <1>1 DEF Emit
<1>8. Tree' = Tree
  BY DEF Tree, treeVars
<1>9. UNCHANGED <<supRoots, victims>>
  OBVIOUS
<1> HIDE DEF e
<1>10. Comes(q, e)
  BY <1>2, <1>3, <1>4, <1>6, <1>7, <1>8, <1>9 DEF Comes
<1> QED
  BY <1>3, <1>4, <1>6, <1>10

\* Every step of a process is one of these.
LEMMA KernelIs ==
    ASSUME IInv, Settles, SlowReuse, Kernel
    PROVE  \E q \in Pid, e \in Event :
               \/ Comes(q, e) /\ \E p \in Pid : Child(p, q, e)
               \/ Comes(q, e) /\ Stray(q, e)
               \/ Says(q, e)
<1>0. /\ proc \in [Pid -> Process] /\ Threads = {} /\ Loses = FALSE
      /\ \A p \in Pid : There(p) => proc[p].inc \in 1 .. MaxInc
      /\ \A p \in Pid : Up(p) => There(p)
  BY BoundsAssumption DEF IInv, KernelInv, Process, Settles, Up, There
<1>1. \A p \in Pid : /\ proc[p].trusted \in BOOLEAN /\ Ppid(p) \in Pid \cup {NoPid}
                     /\ proc[p].inc \in 0 .. MaxInc
  BY <1>0, PpidType DEF Process, IInv
<1>2. \A e : Emit(e) => ring' = Append(ring, e)
  BY <1>0 DEF Emit
<1>3. Tree' = Tree
  BY DEF Kernel, Die, Exec, Risky, ForkOutside, Fork, Tree, treeVars
<1>4. ASSUME NEW p \in Pid, NEW q \in Pid, Fork(p, q)
      PROVE  \E e \in Event : Comes(q, e) /\ Child(p, q, e)
  <2> DEFINE g == proc[p].group /\ q \notin Leaves
  <2>1. /\ Born(q, <<p, proc[p].inc>>, proc[p].desc, g, proc[p].trusted)
        /\ Emit(Ev("FORK", q, p, proc[p].trusted))
        /\ Up(p) /\ (q \in RootPid => RootShared) /\ (proc[p].desc /\ pc = "launched" => EarlyFork)
        /\ UNCHANGED <<treeVars, supRoots, victims>> /\ UNCHANGED supVars
    BY <1>4 DEF Fork, supVars
  <2>2. /\ g \in BOOLEAN /\ <<p, proc[p].inc>> \in Proc /\ proc[p].desc \in BOOLEAN
        /\ g => proc[p].group
    BY <1>0, <2>1 DEF Proc, Process
  <2> HIDE DEF g
  <2>3. PICK e \in Event : /\ Comes(q, e) /\ e.ppid = p
                           /\ proc'[q].par = <<p, proc[p].inc>>
                           /\ proc'[q].desc = proc[p].desc /\ proc'[q].group = g
    BY <1>1, <2>1, <2>2, BornComes
  <2>4. q \notin RootPid
    BY <2>1 DEF Settles
  <2>5. Child(p, q, e)
    BY <2>1, <2>2, <2>3, <2>4 DEF Child
  <2> QED
    BY <2>3, <2>5
<1>5. ASSUME NEW q \in Pid, ForkOutside(q)
      PROVE  \E e \in Event : Comes(q, e) /\ Stray(q, e)
  <2>1. /\ Born(q, None, FALSE, FALSE, FALSE) /\ Emit(Ev("FORK", q, NoPid, FALSE)) /\ q \in Strays
        /\ UNCHANGED <<treeVars, supRoots, victims>> /\ UNCHANGED supVars
    BY <1>5 DEF ForkOutside, supVars
  <2>2. PICK e \in Event : /\ Comes(q, e) /\ e.ppid = NoPid /\ proc'[q].par = None
                           /\ proc'[q].desc = FALSE /\ proc'[q].group = FALSE
    BY <2>1, BornComes
  <2>3. q \notin RootPid
    BY <2>1 DEF Settles
  <2> QED
    BY <2>1, <2>2, <2>3 DEF Stray
<1>6. ASSUME NEW p \in Pid, Die(p) PROVE \E e \in Event : Says(p, e)
  <2> DEFINE e == Ev("EXIT", p, Ppid(p), proc[p].trusted)
  <2>1. /\ There(p) /\ proc' = [proc EXCEPT ![p].state = "none"] /\ ring' = Append(ring, e)
        /\ ~(proc[p].desc /\ pc = "launched") /\ UNCHANGED <<supRoots, supVars>>
    BY <1>0, <1>2, <1>6 DEF Die
  <2>2. /\ \A x \in Pid : SameProc(x) /\ (x # p => proc'[x].state = proc[x].state)
        /\ proc'[p].state = "none"
    BY <1>0, <2>1 DEF Process, SameProc
  <2>3. proc'[p].inc \in 1 .. MaxInc /\ proc'[p].inc = proc[p].inc
    BY <1>0, <2>1, <2>2 DEF SameProc
  <2>4. /\ e \in Event /\ e.type = "EXIT" /\ e.pid = p /\ e.inc = proc[p].inc /\ e.ppid = Ppid(p)
    BY <1>1, <2>3, EvType DEF Ev
  <2> HIDE DEF e
  <2>5. Says(p, e)
    BY <1>3, <2>1, <2>2, <2>4 DEF Says
  <2> QED
    BY <2>4, <2>5
<1>7. ASSUME NEW p \in Pid, Exec(p) \/ Risky(p) PROVE \E e \in Event : Says(p, e)
  <2>1. PICK type \in {"EXEC", "RISKY"} :
            /\ Up(p) /\ There(p) /\ ring' = Append(ring, Ev(type, p, Ppid(p), proc[p].trusted))
            /\ proc' = proc \/ \E t \in Trusts : proc' = [proc EXCEPT ![p].trusted = t]
            /\ UNCHANGED <<supRoots, supVars>>
    BY <1>0, <1>2, <1>7 DEF Exec, Risky
  <2> DEFINE e == Ev(type, p, Ppid(p), proc[p].trusted)
  <2>2. \A x \in Pid : SameProc(x) /\ proc'[x].state = proc[x].state
    <3>1. CASE proc' = proc
      BY <3>1 DEF SameProc
    <3>2. CASE \E t \in Trusts : proc' = [proc EXCEPT ![p].trusted = t]
      BY <1>0, <3>2 DEF SameProc, Process
    <3> QED
      BY <2>1, <3>1, <3>2
  <2>3. proc'[p].inc \in 1 .. MaxInc /\ proc'[p].inc = proc[p].inc
    BY <1>0, <2>1, <2>2 DEF SameProc
  <2>4. /\ e \in Event /\ e.type = type /\ e.pid = p /\ e.inc = proc[p].inc /\ e.ppid = Ppid(p)
    BY <1>1, <2>3, EvType DEF Ev
  <2>5. ring' = Append(ring, e)
    BY <2>1
  <2> HIDE DEF e
  <2>6. Says(p, e)
    BY <1>3, <2>1, <2>2, <2>4, <2>5 DEF Says
  <2> QED
    BY <2>4, <2>6
<1> QED
  BY <1>4, <1>5, <1>6, <1>7 DEF Kernel

LEMMA LaunchIs ==
    ASSUME IInv, Settles, SlowReuse, NEW q \in Pid, Launch(q)
    PROVE  \E e \in Event : Comes(q, e) /\ Launched(q, e)
<1>1. /\ Born(q, None, TRUE, TRUE, TRUE) /\ Emit(Ev("FORK", q, NoPid, TRUE)) /\ q \in RootPid
      /\ pc = "none" /\ pc' = "launched" /\ root' = q
      /\ UNCHANGED <<treeVars, supRoots, victims>>
  BY DEF Launch
<1>2. PICK e \in Event : /\ Comes(q, e) /\ e.ppid = NoPid /\ proc'[q].par = None
                         /\ proc'[q].desc = TRUE /\ proc'[q].group = TRUE
  BY <1>1, BornComes
<1> QED
  BY <1>1, <1>2 DEF Launched

\* The launched program has its pid to itself from the start, and a pid waits for its events and
\* for a kill of it before it is used again.
Steady == Settles /\ SlowReuse /\ RootPid \cap Seeded = {}

\* desc says of a process that it descends from the launched program, as its parent does.
Bred ==
    /\ \A p \in Pid : proc[p].group \/ proc[p].state = "dying" \/ p \in victims => proc[p].desc
    /\ \A p \in Pid : proc[p].par # None =>
           LET k == proc[p].par
           IN /\ k[2] <= proc[k[1]].inc
              /\ k[2] = proc[k[1]].inc => (proc[p].desc <=> proc[k[1]].desc)
    /\ pc # "none" => proc[root].desc

Before == pc = "none" => /\ \A p \in Pid : ~proc[p].desc
                         /\ \A q \in RootPid : proc[q].inc = 0

Rooted == supRoots \subseteq IF pc = "none" THEN {} ELSE {root}

\* What no process does itself leaves all but states alone.
LEMMA OthersProc ==
    ASSUME IInv, [Next]_vars, ~Kernel, ~(\E p \in Pid : Launch(p))
    PROVE  \A x \in Pid : /\ SameProc(x) /\ (There(x)' <=> There(x)) /\ (Up(x)' => Up(x))
                          /\ proc'[x].state = "dying" =>
                                proc[x].state = "dying" \/ x \in victims \/ proc[x].group
<1>0. proc \in [Pid -> Process]
  BY DEF IInv, KernelInv
<1>1. CASE proc' = proc
  BY <1>1 DEF SameProc, There, Up
<1>2. ASSUME NEW p \in Pid, Signal(p)
      PROVE  \A x \in Pid : /\ SameProc(x) /\ (There(x)' <=> There(x)) /\ (Up(x)' => Up(x))
                            /\ proc'[x].state = "dying" =>
                                  proc[x].state = "dying" \/ x \in victims \/ proc[x].group
  <2> DEFINE y == [proc[p] EXCEPT !.state = IF @ = "up" THEN "dying" ELSE @]
  <2>1. proc' = [proc EXCEPT ![p] = y] /\ p \in victims
    BY <1>0, <1>2 DEF Signal
  <2>2. /\ y.inc = proc[p].inc /\ y.par = proc[p].par /\ y.desc = proc[p].desc
        /\ y.group = proc[p].group /\ y.state \in {proc[p].state, "dying"} /\ y.state # "up"
        /\ y.state # "none" <=> proc[p].state # "none"
    BY <1>0 DEF Process
  <2> HIDE DEF y
  <2>3. \A x \in Pid : proc'[x] = IF x = p THEN y ELSE proc[x]
    BY <1>0, <2>1
  <2> QED
    BY <2>1, <2>2, <2>3 DEF SameProc, There, Up
<1>3. CASE SignalGroup
  <2>1. \A x \in Pid : proc'[x] = IF Up(x) /\ proc[x].group
                                  THEN [proc[x] EXCEPT !.state = "dying"] ELSE proc[x]
    BY <1>3 DEF SignalGroup
  <2>2. \A z \in Process :
            LET y == [z EXCEPT !.state = "dying"]
            IN /\ y.inc = z.inc /\ y.par = z.par /\ y.desc = z.desc /\ y.group = z.group
               /\ y.state = "dying"
    BY DEF Process
  <2>3. SUFFICES ASSUME NEW x \in Pid
                 PROVE  /\ SameProc(x) /\ (There(x)' <=> There(x)) /\ (Up(x)' => Up(x))
                        /\ proc'[x].state = "dying" =>
                              proc[x].state = "dying" \/ x \in victims \/ proc[x].group
    OBVIOUS
  <2>4. CASE Up(x) /\ proc[x].group
    <3>1. proc'[x] = [proc[x] EXCEPT !.state = "dying"] /\ proc[x] \in Process
      BY <1>0, <2>1, <2>4
    <3>2. /\ proc'[x].inc = proc[x].inc /\ proc'[x].par = proc[x].par
          /\ proc'[x].desc = proc[x].desc /\ proc'[x].group = proc[x].group
          /\ proc'[x].state = "dying"
      BY <2>2, <3>1
    <3> QED
      BY <2>4, <3>2 DEF SameProc, There, Up
  <2>5. CASE ~(Up(x) /\ proc[x].group)
    BY <2>1, <2>5 DEF SameProc, There, Up
  <2> QED
    BY <2>4, <2>5
<1>4. proc' = proc \/ SignalGroup \/ \E p \in Pid : Signal(p)
  BY DEF Next, Poller, IngestFork, IngestExit, IngestScored, Took, Tick, Supervise, Register,
         Refuse, Allow, Kill, Collect, LoopEnds, Unregister, MarkDead, Predict, Purge, vars
<1> QED
  BY <1>1, <1>2, <1>3, <1>4

\* What it does to the supervise thread.
LEMMA OthersPc ==
    ASSUME [Next]_vars, ~Kernel, ~(\E p \in Pid : Launch(p))
    PROVE  /\ root' = root /\ (pc' = "none" <=> pc = "none")
           /\ pc' = "launched" => pc = "launched"
           /\ \/ victims' \subseteq victims
              \/ pc = "kill" /\ victims' = IF Node(root) = None THEN {}
                                           ELSE Victims(node, Node(root))
<1>1. CASE UNCHANGED supVars
  BY <1>1 DEF supVars
<1>2. CASE \/ Register \/ Refuse \/ Allow \/ Kill \/ Collect \/ SignalGroup \/ LoopEnds
           \/ Unregister \/ MarkDead \/ \E p \in Pid : Predict(p) \/ Signal(p)
  BY <1>2 DEF Register, Refuse, Allow, Kill, Collect, SignalGroup, LoopEnds, Unregister,
              MarkDead, Predict, Signal, Answered
<1>3. CASE Poller \/ Tick \/ Purge
  BY <1>1, <1>3 DEF Poller, IngestFork, IngestExit, IngestScored, Took, Tick, Purge
<1> QED
  BY <1>1, <1>2, <1>3 DEF Next, Supervise, vars

LEMMA BredKeeps ==
    ASSUME IInv, Steady, RootInv, Bred, Before, [Next]_vars,
           pc = "kill" /\ Node(root) # None => \A p \in Victims(node, Node(root)) : proc[p].desc
    PROVE  Bred' /\ Before'
<1>0. /\ proc \in [Pid -> Process] /\ (pc # "none" => root \in Pid) /\ Settles /\ SlowReuse
      /\ victims \subseteq Pid
      /\ \A p \in Pid : proc[p].par \in Proc \cup {None} /\ proc[p].inc \in Nat
  BY BoundsAssumption DEF IInv, KernelInv, SuperInv, Steady, Process
<1>a. \A p \in Pid : proc[p].par # None => proc[p].par[1] \in Pid /\ proc[p].par[2] \in Nat
  BY <1>0, BoundsAssumption DEF Proc
<1>1. ASSUME NEW q \in Pid, NEW e, Comes(q, e),
             (\E p \in Pid : Child(p, q, e)) \/ Stray(q, e) \/ Launched(q, e)
      PROVE  Bred' /\ Before'
  <2>1. /\ \A p \in Pid \ {q} : proc'[p] = proc[p]
        /\ proc'[q].inc = proc[q].inc + 1 /\ proc'[q].state = "up" /\ victims' = victims
        /\ q \notin victims /\ ~There(q)
    BY <1>1 DEF Comes
  <2>2. \A p \in Pid : /\ proc'[p].inc \in Nat /\ proc[p].inc <= proc'[p].inc
                       /\ (p = q => proc[p].inc < proc'[p].inc)
    BY <1>0, <2>1
  <2>3. ASSUME NEW p \in Pid
        PROVE  proc'[p].group \/ proc'[p].state = "dying" \/ p \in victims' => proc'[p].desc
    <3>1. CASE p = q
      BY <1>1, <2>1, <3>1 DEF Child, Stray, Launched, Bred
    <3>2. CASE p # q
      BY <2>1, <3>2 DEF Bred
    <3> QED
      BY <3>1, <3>2
  <2>4. ASSUME NEW p \in Pid, proc'[p].par # None, NEW k, k = proc'[p].par
        PROVE  /\ k[2] <= proc'[k[1]].inc
               /\ k[2] = proc'[k[1]].inc => (proc'[p].desc <=> proc'[k[1]].desc)
    <3>1. CASE p = q
      <4>1. PICK r \in Pid : Child(r, q, e)
        BY <1>1, <2>4, <3>1 DEF Stray, Launched
      <4>2. r # q /\ proc'[r] = proc[r] /\ k[1] = r /\ k[2] = proc[r].inc
        BY <2>1, <2>4, <3>1, <4>1 DEF Child, Up, There
      <4> QED
        BY <1>0, <3>1, <4>1, <4>2 DEF Child
    <3>2. CASE p # q
      <4>1. proc'[p] = proc[p] /\ k = proc[p].par /\ k[1] \in Pid /\ k[2] \in Nat
        BY <1>a, <2>1, <2>4, <3>2
      <4>2. k[2] <= proc[k[1]].inc /\ (k[2] = proc[k[1]].inc => (proc[p].desc <=> proc[k[1]].desc))
        BY <2>4, <4>1 DEF Bred
      <4>3. CASE k[1] = q
        BY <1>0, <2>2, <4>1, <4>2, <4>3
      <4>4. CASE k[1] # q
        BY <2>1, <4>1, <4>2, <4>4
      <4> QED
        BY <4>3, <4>4
    <3> QED
      BY <3>1, <3>2
  <2>5. CASE Launched(q, e)
    <3>1. pc' # "none" /\ proc'[root'].desc
      BY <2>5 DEF Launched
    <3> QED
      BY <2>3, <2>4, <3>1 DEF Bred, Before
  <2>6. CASE (\E p \in Pid : Child(p, q, e)) \/ Stray(q, e)
    <3>1. pc' = pc /\ root' = root /\ q \notin RootPid
      BY <2>6 DEF Child, Stray, supVars
    <3>2. pc # "none" => proc'[root].desc
      <4>1. pc # "none" => root # q
        BY <3>1 DEF RootInv
      <4> QED
        BY <1>0, <2>1, <4>1 DEF Bred
    <3>3. ASSUME pc = "none", NEW p \in Pid PROVE ~proc'[p].desc
      <4>1. ~proc[p].desc /\ \A x \in Pid : ~proc[x].desc
        BY <3>3 DEF Before
      <4> QED
        BY <2>1, <2>6, <4>1 DEF Child, Stray
    <3>4. RootPid \subseteq Pid
      BY PidAssumption
    <3>5. pc = "none" => \A x \in RootPid : proc'[x].inc = 0
      BY <2>1, <3>1, <3>4 DEF Before
    <3> QED
      BY <2>3, <2>4, <3>1, <3>2, <3>3, <3>5 DEF Bred, Before
  <2> QED
    BY <1>1, <2>5, <2>6
<1>2. ASSUME \A x \in Pid : /\ SameProc(x)
                            /\ proc'[x].state = "dying" =>
                                  proc[x].state = "dying" \/ x \in victims \/ proc[x].group,
             root' = root, pc' = "none" <=> pc = "none",
             \A p \in victims' : proc[p].desc
      PROVE  Bred' /\ Before'
  <2>1. \A x \in Pid : /\ proc'[x].inc = proc[x].inc /\ proc'[x].par = proc[x].par
                       /\ (proc'[x].desc <=> proc[x].desc) /\ (proc'[x].group <=> proc[x].group)
    BY <1>2 DEF SameProc
  <2>2. \A p \in Pid : proc'[p].group \/ proc'[p].state = "dying" \/ p \in victims' => proc'[p].desc
    BY <1>2, <2>1 DEF Bred
  <2>3. ASSUME NEW p \in Pid, proc'[p].par # None, NEW k, k = proc'[p].par
        PROVE  /\ k[2] <= proc'[k[1]].inc
               /\ k[2] = proc'[k[1]].inc => (proc'[p].desc <=> proc'[k[1]].desc)
    <3>1. k = proc[p].par /\ proc[p].par # None /\ k[1] \in Pid
      BY <1>a, <2>1, <2>3
    <3>2. k[2] <= proc[k[1]].inc /\ (k[2] = proc[k[1]].inc => (proc[p].desc <=> proc[k[1]].desc))
      BY <3>1 DEF Bred
    <3> QED
      BY <2>1, <3>1, <3>2
  <2>4. pc # "none" => proc'[root].desc
    BY <1>0, <2>1 DEF Bred
  <2>5. Bred'
    BY <1>2, <2>2, <2>3, <2>4 DEF Bred
  <2>6. RootPid \subseteq Pid
    BY PidAssumption
  <2> QED
    BY <1>2, <2>1, <2>5, <2>6 DEF Before
<1>3. CASE Kernel
  <2>1. PICK q \in Pid, e \in Event :
               \/ Comes(q, e) /\ \E p \in Pid : Child(p, q, e)
               \/ Comes(q, e) /\ Stray(q, e)
               \/ Says(q, e)
    BY <1>0, <1>3, KernelIs
  <2>2. CASE Says(q, e)
    <3>1. /\ \A x \in Pid : SameProc(x) /\ (proc'[x].state = "dying" => proc[x].state = "dying")
          /\ UNCHANGED supVars
      BY <2>2 DEF Says
    <3>2. \A p \in victims' : proc[p].desc
      BY <1>0, <3>1 DEF Bred, supVars
    <3> QED
      BY <1>2, <3>1, <3>2 DEF supVars
  <2> QED
    BY <1>1, <2>1, <2>2
<1>4. ASSUME NEW q \in Pid, Launch(q) PROVE Bred' /\ Before'
  BY <1>0, <1>1, <1>4, LaunchIs
<1>5. CASE ~Kernel /\ ~(\E p \in Pid : Launch(p))
  <2>1. \A p \in victims' : proc[p].desc
    <3>1. \/ victims' \subseteq victims
          \/ pc = "kill" /\ victims' = IF Node(root) = None THEN {}
                                       ELSE Victims(node, Node(root))
      BY <1>5, OthersPc
    <3> QED
      BY <1>0, <3>1 DEF Bred
  <2>2. /\ root' = root /\ (pc' = "none" <=> pc = "none")
    BY <1>5, OthersPc
  <2> QED
    BY <1>2, <1>5, <2>1, <2>2, OthersProc
<1> QED
  BY <1>3, <1>4, <1>5

\* The supervised root is the launched one.
LEMMA RootedKeeps == ASSUME Rooted, SuperInv, [Next]_vars PROVE Rooted'
<1>1. CASE Kernel
  BY <1>1 DEF Kernel, Die, Exec, Risky, ForkOutside, Fork, supVars, Rooted
<1>2. ASSUME NEW q \in Pid, Launch(q) PROVE Rooted'
  BY <1>2 DEF Launch, Rooted
<1>3. CASE ~Kernel /\ ~(\E p \in Pid : Launch(p))
  <2>1. root' = root /\ (pc' = "none" <=> pc = "none")
    BY <1>3, OthersPc
  <2>2. supRoots' \subseteq supRoots \/ (supRoots' = supRoots \cup {root} /\ pc = "launched")
    BY <1>3 DEF Next, Poller, IngestFork, IngestExit, IngestScored, Tick, Supervise, Register,
         Refuse, Allow, Kill, Collect, LoopEnds, Unregister, MarkDead, Predict, Purge, vars, Erase,
         SignalGroup, Signal
  <2> QED
    BY <2>1, <2>2 DEF Rooted
<1> QED
  BY <1>1, <1>2, <1>3

\* After k events of the ring the tracker has a living node for p, unless the end of the loop
\* took the launched program for dead.
Knows(p, k) == Begun(ring, Tree, p, k) \/ (pc = "done" /\ p = root)

\* The process that q stood for when event i was queued still has the pid.
Lasts(q, i) == There(q) \/ \E j \in i + 1 .. Len(ring) : ring[j].type = "EXIT" /\ ring[j].pid = q

\* What an event says of a process and its parent is still so when it is read.
LineAt(i) ==
    LET p == ring[i].pid
        q == ring[i].ppid
    IN /\ ring[i].inc = proc[p].inc
       /\ ring[i].type # "EXIT" /\ q # NoPid => proc[p].par = <<q, proc[q].inc>> /\ Lasts(q, i)
       /\ ring[i].type \in {"EXEC", "RISKY"} => Knows(p, i - 1)
       /\ ring[i].type = "FORK" =>
              /\ \A j \in 1 .. i - 1 : ring[j].pid # p
              /\ q # NoPid => /\ Knows(q, i - 1)
                              /\ \A j \in i .. Len(ring) : ring[j].type = "FORK" => ring[j].pid # q
              /\ q = NoPid /\ proc[p].desc => p = root

Line == \A i \in 1 .. Len(ring) : LineAt(i)

LEMMA BegunPrefix ==
    ASSUME NEW r, NEW s, NEW t, NEW p, NEW k, \A j \in 1 .. k : s[j] = r[j], k \in Int,
           Begun(r, t, p, k)
    PROVE  Begun(s, t, p, k)
<1>1. CASE \E j \in 1 .. k : /\ r[j].pid = p /\ r[j].type = "FORK"
                             /\ \A m \in j + 1 .. k : ~(r[m].pid = p /\ r[m].type = "EXIT")
  <2>1. PICK j \in 1 .. k : /\ r[j].pid = p /\ r[j].type = "FORK"
                            /\ \A m \in j + 1 .. k : ~(r[m].pid = p /\ r[m].type = "EXIT")
    BY <1>1
  <2>2. \A m \in j + 1 .. k : m \in 1 .. k
    OBVIOUS
  <2> QED
    BY <2>1, <2>2 DEF Begun
<1>2. CASE ~Gone(t, p) /\ \A j \in 1 .. k : ~(r[j].pid = p /\ r[j].type = "EXIT")
  BY <1>2 DEF Begun
<1> QED
  BY <1>1, <1>2 DEF Begun

\* One more event at the end of the ring.
LEMMA Longer ==
    ASSUME IInv, NEW e \in Event, ring' = Append(ring, e)
    PROVE  /\ Len(ring)' = Len(ring) + 1 /\ Len(ring) \in Nat
           /\ \A i \in 1 .. Len(ring) : ring'[i] = ring[i] /\ ring[i] \in Event
           /\ ring'[Len(ring) + 1] = e
<1>1. ring \in Seq(Event)
  BY DEF IInv, KernelInv
<1> QED
  BY <1>1

\* The events before it stay true, if the processes they name stay what they are.
LEMMA LineBefore ==
    ASSUME IInv, Line, NEW e \in Event, ring' = Append(ring, e), Tree' = Tree,
           pc = "done" => pc' = "done" /\ root' = root,
           \A p \in Pid : Unseen(p) => SameProc(p),
           \A q \in Pid : There(q) => SameProc(q) /\ (There(q)' \/ (e.type = "EXIT" /\ e.pid = q)),
           \A p \in Pid : proc[p].desc => root' = root,
           e.type = "FORK" => ~There(e.pid) /\ ~Unseen(e.pid),
           NEW i \in 1 .. Len(ring)
    PROVE  LineAt(i)'
<1> DEFINE n == Len(ring)
           p == ring[i].pid
           q == ring[i].ppid
<1>1. /\ Len(ring') = n + 1 /\ n \in Nat
      /\ \A j \in 1 .. n : ring'[j] = ring[j] /\ ring[j] \in Event
      /\ ring'[n + 1] = e
  BY Longer
<1>2. /\ p \in Pid /\ q \in Pid \cup {NoPid} /\ ring'[i] = ring[i] /\ LineAt(i)
      /\ i \in Nat /\ i >= 1 /\ i <= n /\ i - 1 \in Int
  BY <1>1 DEF Event, Line
<1>3. SameProc(p) /\ Unseen(p)
  BY <1>2 DEF Unseen
<1>4. ASSUME NEW x, Knows(x, i - 1) PROVE Knows(x, i - 1)'
  <2>1. CASE pc = "done" /\ x = root
    BY <2>1 DEF Knows
  <2>2. CASE Begun(ring, Tree, x, i - 1)
    <3>1. \A j \in 1 .. i - 1 : ring'[j] = ring[j]
      BY <1>1, <1>2
    <3>2. Begun(ring', Tree, x, i - 1)
      BY <1>2, <2>2, <3>1, BegunPrefix
    <3> QED
      BY <3>2 DEF Knows
  <2> QED
    BY <1>4, <2>1, <2>2 DEF Knows
<1>5. ASSUME q # NoPid, Lasts(q, i)
      PROVE  SameProc(q) /\ Lasts(q, i)' /\ (There(q) \/ Unseen(q))
  <2>1. q \in Pid
    BY <1>2, <1>5
  <2>2. CASE There(q)
    <3>1. CASE There(q)'
      BY <2>1, <2>2, <3>1 DEF Lasts
    <3>2. CASE e.type = "EXIT" /\ e.pid = q
      <4>1. n + 1 \in i + 1 .. n + 1 /\ ring'[n + 1] = e
        BY <1>1, <1>2
      <4>2. \E j \in i + 1 .. Len(ring') : ring'[j].type = "EXIT" /\ ring'[j].pid = q
        BY <1>1, <3>2, <4>1
      <4> QED
        BY <1>2, <2>1, <2>2, <4>2 DEF Lasts
    <3> QED
      BY <2>1, <2>2, <3>1, <3>2
  <2>3. CASE ~There(q)
    <3>1. PICK j \in i + 1 .. n : ring[j].type = "EXIT" /\ ring[j].pid = q
      BY <1>5, <2>3 DEF Lasts
    <3>2. j \in 1 .. n /\ j \in i + 1 .. n + 1 /\ ring'[j] = ring[j]
      BY <1>1, <1>2
    <3>3. Unseen(q)
      BY <3>1, <3>2 DEF Unseen
    <3>4. \E m \in i + 1 .. Len(ring') : ring'[m].type = "EXIT" /\ ring'[m].pid = q
      BY <1>1, <3>1, <3>2
    <3> QED
      BY <1>2, <2>1, <3>3, <3>4 DEF Lasts
  <2> QED
    BY <2>2, <2>3
<1>6. ring'[i].inc = proc'[p].inc
  BY <1>2, <1>3 DEF LineAt, SameProc
<1>7. ASSUME ring[i].type # "EXIT", q # NoPid
      PROVE  proc'[p].par = <<q, proc'[q].inc>> /\ Lasts(q, i)'
  BY <1>2, <1>3, <1>5, <1>7 DEF LineAt, SameProc
<1>8. ASSUME ring[i].type = "FORK"
      PROVE  /\ \A j \in 1 .. i - 1 : ring'[j].pid # p
             /\ q # NoPid => /\ Knows(q, i - 1)'
                             /\ \A j \in i .. Len(ring') : ring'[j].type = "FORK" => ring'[j].pid # q
             /\ q = NoPid /\ proc'[p].desc => p = root'
  <2>1. \A j \in 1 .. i - 1 : ring'[j].pid # p
    BY <1>1, <1>2, <1>8 DEF LineAt
  <2>2. ASSUME q # NoPid
        PROVE  /\ Knows(q, i - 1)'
               /\ \A j \in i .. Len(ring') : ring'[j].type = "FORK" => ring'[j].pid # q
    <3>1. Knows(q, i - 1)' /\ Lasts(q, i)
      BY <1>2, <1>4, <1>8, <2>2 DEF LineAt
    <3>2. ASSUME NEW j \in i .. n, ring'[j].type = "FORK" PROVE ring'[j].pid # q
      <4>1. ring'[j] = ring[j]
        BY <1>1, <1>2
      <4> QED
        BY <1>2, <1>8, <2>2, <3>2, <4>1 DEF LineAt
    <3>3. e.type = "FORK" => e.pid # q
      BY <1>5, <2>2, <3>1
    <3>4. \A j \in i .. n + 1 : j \in i .. n \/ j = n + 1
      BY <1>1, <1>2
    <3> QED
      BY <1>1, <3>1, <3>2, <3>3, <3>4
  <2>3. ASSUME q = NoPid, proc'[p].desc PROVE p = root'
    <3>1. proc[p].desc
      BY <1>3, <2>3 DEF SameProc
    <3> QED
      BY <1>2, <1>8, <2>3, <3>1 DEF LineAt
  <2> QED
    BY <2>1, <2>2, <2>3
<1>9. ring[i].type \in {"EXEC", "RISKY"} => Knows(p, i - 1)'
  BY <1>2, <1>4 DEF LineAt
<1>10. ring'[i] = ring[i]
  BY <1>2
<1> QED
  BY <1>6, <1>7, <1>8, <1>9, <1>10 DEF LineAt

\* Nothing comes after the end of supervision.
LEMMA DoneStays == ASSUME pc = "done", [Next]_vars PROVE pc' = "done" /\ root' = root
<1>1. CASE UNCHANGED supVars
  BY <1>1 DEF supVars
<1>2. ~Supervise
  BY DEF Supervise, Register, Refuse, Allow, Kill, Collect, SignalGroup, LoopEnds,
         Unregister, MarkDead, Launch, Predict, Signal, Answered
<1>3. CASE Poller \/ Tick \/ Purge
  BY <1>1, <1>3 DEF Poller, IngestFork, IngestExit, IngestScored, Took, Tick, Purge
<1>4. CASE Kernel
  BY <1>1, <1>4 DEF Kernel, Die, Exec, Risky, ForkOutside, Fork
<1> QED
  BY <1>1, <1>2, <1>3, <1>4 DEF Next, vars

\* A living process is known after the events there are.
LEMMA UpKnown ==
    ASSUME IInv, LifeInv, NEW p \in Pid, Up(p), NEW e \in Event, ring' = Append(ring, e),
           Tree' = Tree, NEW k, k = Len(ring)
    PROVE  Knows(p, k)'
<1>1. Begun(ring, Tree, p, k) /\ k \in Nat /\ k \in Int
  BY DEF LifeInv, IInv, KernelInv
<1>2. \A j \in 1 .. k : ring'[j] = ring[j]
  BY Longer
<1>3. Begun(ring', Tree, p, k)
  BY <1>1, <1>2, BegunPrefix
<1> QED
  BY <1>3 DEF Knows

\* What is queued is true.
LEMMA LineAppends ==
    ASSUME IInv, LifeInv, Line, Bred, Before, NEW q \in Pid, NEW e \in Event,
           \/ Comes(q, e) /\ \E p \in Pid : Child(p, q, e)
           \/ Comes(q, e) /\ (Stray(q, e) \/ Launched(q, e))
           \/ Says(q, e),
           pc = "done" => pc' = "done" /\ root' = root
    PROVE  Line'
<1>0. PICK n : n = Len(ring)
  OBVIOUS
<1>1. /\ ring' = Append(ring, e) /\ Tree' = Tree /\ e.pid = q
  BY DEF Comes, Says
<1>2. /\ Len(ring') = n + 1 /\ n \in Nat
      /\ \A j \in 1 .. n : ring'[j] = ring[j] /\ ring[j] \in Event
      /\ ring'[n + 1] = e
  BY <1>0, <1>1, Longer
<1>3. ASSUME Comes(q, e) PROVE \A i \in 1 .. n : LineAt(i)'
  <2>1. /\ ~There(q) /\ ~Unseen(q) /\ e.type = "FORK"
        /\ \A p \in Pid \ {q} : proc'[p] = proc[p]
    BY <1>3 DEF Comes
  <2>2. \A p \in Pid : p # q => SameProc(p) /\ (There(p)' <=> There(p))
    BY <2>1 DEF SameProc, There
  <2>3. \A p \in Pid : proc[p].desc => root' = root
    BY <1>3 DEF Child, Stray, Launched, Before, supVars, Says
  <2> QED
    BY <1>1, <2>1, <2>2, <2>3, <1>0, LineBefore
<1>4. ASSUME Says(q, e) PROVE \A i \in 1 .. n : LineAt(i)'
  <2>1. /\ \A x \in Pid : SameProc(x) /\ (x # q => proc'[x].state = proc[x].state)
        /\ e.type # "FORK" /\ root' = root
        /\ e.type # "EXIT" => proc'[q].state = proc[q].state
    BY <1>4 DEF Says, supVars
  <2>2. \A x \in Pid : There(x) => There(x)' \/ (e.type = "EXIT" /\ e.pid = x)
    BY <1>1, <2>1 DEF There
  <2> QED
    BY <1>1, <2>1, <2>2, <1>0, LineBefore
<1>5. ASSUME NEW i, i = n + 1 PROVE LineAt(i)'
  <2>0. ring'[i] = e /\ i - 1 = n /\ \A j \in i .. Len(ring') : j = i
    BY <1>2, <1>5
  <2>1. CASE Says(q, e)
    <3>1. /\ SameProc(q) /\ e.type # "FORK" /\ e.inc = proc[q].inc /\ e.ppid = Ppid(q)
          /\ \A x \in Pid : SameProc(x) /\ (x # q => proc'[x].state = proc[x].state)
          /\ e.type # "EXIT" => proc'[q].state = proc[q].state /\ Up(q)
      BY <2>1 DEF Says
    <3>2. ASSUME e.type # "EXIT", e.ppid # NoPid
          PROVE  proc'[q].par = <<e.ppid, proc'[e.ppid].inc>> /\ Lasts(e.ppid, i)'
      <4>1. proc[q].par \in Proc \cup {None}
        BY DEF IInv, KernelInv, Process
      <4>2. /\ proc[q].par # None /\ There(proc[q].par[1]) /\ e.ppid = proc[q].par[1]
            /\ proc[e.ppid].inc = proc[q].par[2]
        BY <3>1, <3>2 DEF Ppid
      <4>3. e.ppid \in Pid /\ proc[q].par = <<e.ppid, proc[e.ppid].inc>>
        BY <4>1, <4>2 DEF Proc
      <4>4. There(e.ppid)'
        BY <3>1, <3>2, <4>2, <4>3 DEF There
      <4> QED
        BY <3>1, <4>3, <4>4 DEF Lasts, SameProc
    <3>3. e.type \in {"EXEC", "RISKY"} => Knows(q, n)'
      BY <1>1, <3>1, <1>0, UpKnown
    <3>4. proc'[q].inc = proc[q].inc
      BY <3>1 DEF SameProc
    <3> QED
      BY <1>1, <2>0, <3>1, <3>2, <3>3, <3>4 DEF LineAt
  <2>2. CASE Comes(q, e)
    <3>1. /\ e.inc = proc'[q].inc /\ e.type = "FORK" /\ ~Unseen(q) /\ ~There(q)
          /\ \A x \in Pid \ {q} : proc'[x] = proc[x]
      BY <2>2 DEF Comes
    <3>2. \A j \in 1 .. n : ring'[j].pid # q
      BY <1>0, <1>2, <3>1 DEF Unseen
    <3>3. ASSUME NEW p \in Pid, Child(p, q, e)
          PROVE  /\ e.ppid = p /\ proc'[q].par = <<p, proc'[p].inc>> /\ Lasts(p, i)'
                 /\ Knows(p, n)' /\ p # q
      <4>1. Up(p) /\ e.ppid = p /\ proc'[q].par = <<p, proc[p].inc>>
        BY <3>3 DEF Child
      <4>2. p # q /\ proc'[p] = proc[p] /\ There(p)'
        BY <3>1, <4>1 DEF Up, There
      <4> QED
        BY <1>1, <4>1, <4>2, <1>0, UpKnown DEF Lasts
    <3>4. CASE \E p \in Pid : Child(p, q, e)
      <4>1. PICK p \in Pid : Child(p, q, e)
        BY <3>4
      <4>2. /\ e.ppid = p /\ proc'[q].par = <<p, proc'[p].inc>> /\ Lasts(p, i)'
            /\ Knows(p, n)' /\ p # q
        BY <3>3, <4>1
      <4>3. \A j \in i .. Len(ring') : ring'[j].pid # p
        BY <1>1, <2>0, <4>2
      <4>4. p # NoPid
        BY PidAssumption
      <4> QED
        BY <1>1, <2>0, <3>1, <3>2, <4>2, <4>3, <4>4 DEF LineAt
    <3>5. CASE Stray(q, e) \/ Launched(q, e)
      <4>1. e.ppid = NoPid /\ (proc'[q].desc => q = root')
        BY <3>5 DEF Stray, Launched
      <4> QED
        BY <1>1, <2>0, <3>1, <3>2, <4>1 DEF LineAt
    <3> QED
      BY <2>2, <3>1, <3>4, <3>5 DEF Says
  <2> QED
    BY <2>1, <2>2
<1> QED
  BY <1>2, <1>3, <1>4, <1>5 DEF Line

\* Reading the first event leaves the others true.
LEMMA LineReads ==
    ASSUME IInv, Line, Reads, UNCHANGED supVars
    PROVE  Line'
<1>0. PICK n : n = Len(ring)
  OBVIOUS
<1>1. /\ n \in Nat /\ n >= 1 /\ ring' = Tail(ring) /\ proc' = proc /\ pc' = pc /\ root' = root
      /\ Len(ring') = n - 1
      /\ \A j \in 1 .. n - 1 : ring'[j] = ring[j + 1] /\ j + 1 \in 1 .. n
      /\ \A j \in 1 .. n : ring[j] \in Event
  <2>1. ring \in Seq(Event) /\ ring # <<>> /\ ring' = Tail(ring)
    BY DEF IInv, KernelInv, Reads
  <2>2. Len(ring') = n - 1 /\ \A j \in 1 .. n - 1 : ring'[j] = ring[j + 1]
    BY <1>0, <2>1
  <2>3. proc' = proc /\ pc' = pc /\ root' = root
    BY DEF Reads, supVars
  <2> QED
    BY <1>0, <2>1, <2>2, <2>3
<1> SUFFICES ASSUME NEW i \in 1 .. n - 1 PROVE LineAt(i)'
  BY <1>1 DEF Line
<1>a. PICK p, q : p = ring[i + 1].pid /\ q = ring[i + 1].ppid
  OBVIOUS
<1>2. /\ i + 1 \in 1 .. n /\ ring'[i] = ring[i + 1] /\ LineAt(i + 1) /\ i \in Nat /\ i >= 1
      /\ p \in Pid /\ q \in Pid \cup {NoPid} /\ i \in 1 .. n
  BY <1>0, <1>a, <1>1 DEF Line, Event
<1>3. ASSUME NEW x \in Pid, Knows(x, i) PROVE Knows(x, i - 1)'
  <2>1. CASE pc = "done" /\ x = root
    BY <1>1, <2>1 DEF Knows
  <2>2. CASE Begun(ring, Tree, x, i)
    <3>1. Begun(Tail(ring), Tree', x, i - 1)
      BY <1>0, <1>2, <2>2, ReadsBegun
    <3> QED
      BY <1>1, <3>1 DEF Knows
  <2> QED
    BY <1>3, <2>1, <2>2 DEF Knows
<1>4. ASSUME Lasts(q, i + 1) PROVE Lasts(q, i)'
  <2>1. CASE There(q)
    BY <1>1, <2>1 DEF Lasts, There
  <2>2. ASSUME NEW j \in i + 2 .. n, ring[j].type = "EXIT" /\ ring[j].pid = q PROVE Lasts(q, i)'
    <3>1. j - 1 \in i + 1 .. n - 1 /\ j - 1 \in 1 .. n - 1 /\ ring'[j - 1] = ring[(j - 1) + 1]
          /\ (j - 1) + 1 = j
      BY <1>1, <1>2
    <3>2. ring'[j - 1].type = "EXIT" /\ ring'[j - 1].pid = q
      BY <2>2, <3>1
    <3> QED
      BY <1>1, <1>2, <3>1, <3>2 DEF Lasts
  <2>3. (i + 1) + 1 = i + 2
    BY <1>2
  <2> QED
    BY <1>0, <1>4, <2>1, <2>2, <2>3 DEF Lasts
<1>5. (i + 1) - 1 = i
  BY <1>2
<1>6. /\ ring[i + 1].inc = proc[p].inc
      /\ ring[i + 1].type # "EXIT" /\ q # NoPid => proc[p].par = <<q, proc[q].inc>> /\ Lasts(q, i + 1)
      /\ ring[i + 1].type \in {"EXEC", "RISKY"} => Knows(p, i)
  BY <1>a, <1>2, <1>5 DEF LineAt
<1>7. ASSUME ring[i + 1].type = "FORK"
      PROVE  /\ \A j \in 1 .. i - 1 : ring'[j].pid # p
             /\ q # NoPid => /\ Knows(q, i - 1)'
                             /\ \A j \in i .. n - 1 : ring'[j].type = "FORK" => ring'[j].pid # q
             /\ q = NoPid /\ proc'[p].desc => p = root'
  <2>1. /\ \A j \in 1 .. i : ring[j].pid # p
        /\ q # NoPid => /\ Knows(q, i)
                        /\ \A j \in i + 1 .. n : ring[j].type = "FORK" => ring[j].pid # q
        /\ q = NoPid /\ proc[p].desc => p = root
    BY <1>0, <1>a, <1>2, <1>5, <1>7 DEF LineAt
  <2>2. \A j \in 1 .. i - 1 : ring'[j].pid # p
    <3>1. \A j \in 1 .. i - 1 : j + 1 \in 1 .. i /\ ring'[j] = ring[j + 1]
      BY <1>1, <1>2
    <3> QED
      BY <2>1, <3>1
  <2>3. q # NoPid => \A j \in i .. n - 1 : ring'[j].type = "FORK" => ring'[j].pid # q
    <3>1. \A j \in i .. n - 1 : j + 1 \in i + 1 .. n /\ ring'[j] = ring[j + 1]
      BY <1>1, <1>2
    <3> QED
      BY <2>1, <3>1
  <2> QED
    BY <1>1, <1>2, <1>3, <2>1, <2>2, <2>3
<1>8. ring'[i].pid = p /\ ring'[i].ppid = q /\ ring'[i].type = ring[i + 1].type
      /\ ring'[i].inc = ring[i + 1].inc
  BY <1>a, <1>2
<1> QED
  BY <1>1, <1>2, <1>3, <1>4, <1>6, <1>7, <1>8 DEF LineAt

\* What leaves the ring alone leaves it true, as long as known processes stay known.
LEMMA LineStays ==
    ASSUME IInv, Line, ring' = ring, root' = root,
           \A x \in Pid : SameProc(x) /\ (There(x)' <=> There(x)),
           \A x \in Pid, k \in Nat : Knows(x, k) => Knows(x, k)'
    PROVE  Line'
<1> SUFFICES ASSUME NEW i \in 1 .. Len(ring) PROVE LineAt(i)'
  BY DEF Line
<1>a. PICK p, q : p = ring[i].pid /\ q = ring[i].ppid
  OBVIOUS
<1>1. /\ ring \in Seq(Event) /\ ring[i] \in Event /\ LineAt(i) /\ i - 1 \in Nat
      /\ p \in Pid /\ q \in Pid \cup {NoPid}
  <2>1. ring \in Seq(Event) /\ ring[i] \in Event /\ i - 1 \in Nat
    BY DEF IInv, KernelInv
  <2> QED
    BY <1>a, <2>1 DEF Line, Event
<1>2. SameProc(p) /\ (q # NoPid => SameProc(q)) /\ (Knows(p, i - 1) => Knows(p, i - 1)')
      /\ (q # NoPid => (Knows(q, i - 1) => Knows(q, i - 1)'))
  BY <1>1
<1>3. q # NoPid /\ Lasts(q, i) => Lasts(q, i)'
  BY <1>1 DEF Lasts
<1>4. /\ proc'[p].inc = proc[p].inc /\ proc'[p].par = proc[p].par /\ (proc'[p].desc <=> proc[p].desc)
      /\ q # NoPid => proc'[q].inc = proc[q].inc
  BY <1>2 DEF SameProc
<1>5. /\ ring[i].inc = proc[p].inc
      /\ ring[i].type # "EXIT" /\ q # NoPid => proc[p].par = <<q, proc[q].inc>> /\ Lasts(q, i)
      /\ ring[i].type \in {"EXEC", "RISKY"} => Knows(p, i - 1)
      /\ ring[i].type = "FORK" =>
             /\ \A j \in 1 .. i - 1 : ring[j].pid # p
             /\ q # NoPid => /\ Knows(q, i - 1)
                             /\ \A j \in i .. Len(ring) : ring[j].type = "FORK" => ring[j].pid # q
             /\ q = NoPid /\ proc[p].desc => p = root
  BY <1>a, <1>1 DEF LineAt
<1>6. ring'[i].pid = p /\ ring'[i].ppid = q
  BY <1>a
<1> QED
  BY <1>2, <1>3, <1>4, <1>5, <1>6 DEF LineAt

LEMMA LineKeeps ==
    ASSUME IInv, Steady, RootInv, LifeInv, Bred, Before, Line, [Next]_vars
    PROVE  Line'
<1>0. Settles /\ SlowReuse /\ (pc = "done" => pc' = "done" /\ root' = root)
  BY DoneStays DEF Steady
<1>1. CASE Poller
  <2>1. UNCHANGED supVars
    BY <1>1 DEF Poller, IngestFork, IngestExit, IngestScored, Took
  <2> QED
    BY <1>1, <2>1, PollerReads, LineReads
<1>2. CASE Kernel
  <2>1. PICK q \in Pid, e \in Event :
               \/ Comes(q, e) /\ \E p \in Pid : Child(p, q, e)
               \/ Comes(q, e) /\ Stray(q, e)
               \/ Says(q, e)
    BY <1>0, <1>2, KernelIs
  <2> QED
    BY <1>0, <2>1, LineAppends
<1>3. ASSUME NEW q \in Pid, Launch(q) PROVE Line'
  <2>1. PICK e \in Event : Comes(q, e) /\ Launched(q, e)
    BY <1>0, <1>3, LaunchIs
  <2> QED
    BY <1>0, <2>1, LineAppends
<1>4. CASE ~Poller /\ ~Kernel /\ ~(\E p \in Pid : Launch(p))
  <2>1. /\ \A x \in Pid : SameProc(x) /\ (There(x)' <=> There(x))
        /\ root' = root
    BY <1>4, OthersProc, OthersPc
  <2>2. ring' = ring
    BY <1>4 DEF Next, Tick, Supervise, Register, Refuse, Allow, Kill, Collect, LoopEnds,
         Unregister, MarkDead, Predict, Purge, vars, SignalGroup, Signal
  <2>3. \/ \A x \in Pid : ~Gone(Tree, x) => ~Gone(Tree', x)
        \/ pc' = "done" /\ SameLife(Tree, Tree', {root})
    <3>1. CASE Tick \/ Purge
      <4>1. \A x \in Pid : Gone(Tree, x)' <=> Gone(Tree, x)
        BY <3>1, TickKeeps, PurgeKeeps
      <4> QED
        BY <4>1 DEF Gone
    <3>2. CASE Register \/ Allow \/ \E p \in Pid : Predict(p)
      BY <3>2, RegisterKeeps, AllowKeeps, PredictKeeps DEF Extends
    <3>3. CASE MarkDead
      BY <3>3, MarkDeadKeeps DEF MarkDead
    <3>4. CASE \/ Refuse \/ Kill \/ Collect \/ LoopEnds \/ Unregister
               \/ SignalGroup \/ \E p \in Pid : Signal(p)
      BY <3>4, OtherKeeps, SignalKeeps
    <3>5. CASE UNCHANGED vars
      BY <3>5 DEF vars, treeVars, Tree
    <3> QED
      BY <1>4, <3>1, <3>2, <3>3, <3>4, <3>5 DEF Next, Supervise
  <2>4. ASSUME NEW x \in Pid, NEW k \in Nat, Knows(x, k) PROVE Knows(x, k)'
    <3>1. CASE pc = "done" /\ x = root
      BY <1>0, <3>1 DEF Knows
    <3>2. CASE Begun(ring, Tree, x, k)
      <4>1. (~Gone(Tree, x) => ~Gone(Tree', x)) \/ (pc' = "done" /\ x = root')
        BY <2>1, <2>3 DEF SameLife
      <4>2. CASE pc' = "done" /\ x = root'
        BY <4>2 DEF Knows
      <4>3. CASE ~Gone(Tree, x) => ~Gone(Tree', x)
        BY <2>2, <3>2, <4>3 DEF Knows, Begun
      <4> QED
        BY <4>1, <4>2, <4>3
    <3> QED
      BY <2>4, <3>1, <3>2 DEF Knows
  <2> QED
    BY <2>1, <2>2, <2>4, LineStays
<1> QED
  BY <1>1, <1>2, <1>3, <1>4

-----------------------------------------------------------------------------
(* How steps shape the tree.                                               *)

\* m is n with nodes taken out, marked dead (those of pids in D) or put under supervision
\* (those of pids in P).
Trims(n, m, D, P) ==
    /\ DOMAIN m \subseteq DOMAIN n
    /\ \A v \in DOMAIN m :
           /\ m[v].of = n[v].of /\ m[v].par \in {n[v].par, None}
           /\ (n[v].dead => m[v].dead) /\ (m[v].dead => n[v].dead \/ v[1] \in D)
           /\ m[v].supervised => n[v].supervised \/ v[1] \in P
           /\ n[v].supervised /\ ~m[v].dead => m[v].supervised

LEMMA TrimsSelf == ASSUME NEW n PROVE Trims(n, n, {}, {})
  BY DEF Trims

LEMMA RescoredTrims == ASSUME NEW n, NEW m, Rescored(n, m) PROVE Trims(n, m, {}, {})
  BY DEF Trims, Rescored

LEMMA TrimsOn ==
    ASSUME NEW n, NEW m, NEW o, NEW D, NEW P, Trims(n, m, {}, {}), Trims(m, o, D, P)
    PROVE  Trims(n, o, D, P)
<1>1. ASSUME NEW v \in DOMAIN o
      PROVE  /\ o[v].of = n[v].of /\ o[v].par \in {n[v].par, None}
             /\ (n[v].dead => o[v].dead) /\ (o[v].dead => n[v].dead \/ v[1] \in D)
             /\ o[v].supervised => n[v].supervised \/ v[1] \in P
             /\ n[v].supervised /\ ~o[v].dead => o[v].supervised
  <2>1. v \in DOMAIN m
    BY DEF Trims
  <2>2. /\ m[v].of = n[v].of /\ m[v].par \in {n[v].par, None}
        /\ (n[v].dead => m[v].dead) /\ (m[v].dead => n[v].dead)
        /\ m[v].supervised => n[v].supervised
        /\ n[v].supervised /\ ~m[v].dead => m[v].supervised
    BY <2>1 DEF Trims
  <2>3. /\ o[v].of = m[v].of /\ o[v].par \in {m[v].par, None}
        /\ (m[v].dead => o[v].dead) /\ (o[v].dead => m[v].dead \/ v[1] \in D)
        /\ o[v].supervised => m[v].supervised \/ v[1] \in P
        /\ m[v].supervised /\ ~o[v].dead => o[v].supervised
    BY <1>1 DEF Trims
  <2> QED
    BY <2>2, <2>3
<1> QED
  BY <1>1 DEF Trims

\* A flag of exemption changes none of this.
LEMMA ExemptTrims ==
    ASSUME NEW t, Sound(t), Alone(t), NEW u \in DOMAIN t.node, NEW b \in BOOLEAN
    PROVE  LET s == [t EXCEPT !.node[u].exempt = b]
           IN Sound(s) /\ Alone(s) /\ Trims(t.node, s.node, {}, {}) /\ s.cur = t.cur
              /\ u \in DOMAIN s.node
<1> DEFINE x == t.node[u]
           y == [x EXCEPT !.exempt = b]
           n == [t.node EXCEPT ![u] = y]
           s == [t EXCEPT !.node[u].exempt = b]
<1>1. s = [t EXCEPT !.node = n]
  BY DEF Sound
<1>2. x \in PNode
  BY DEF Sound, Typed
<1>3. Extends(t, s, {}) /\ s.cur = t.cur /\ DOMAIN s.node = DOMAIN t.node
  BY ExemptExtends
<1>4. s.node = n
  BY <1>1 DEF Sound
<1> HIDE DEF s
<1>5. y.of = x.of /\ y.par = x.par /\ y.dead = x.dead /\ y.supervised = x.supervised
  <2> HIDE DEF x
  <2> QED
    BY <1>2 DEF PNode
<1> HIDE DEF y
<1>6. \A v \in DOMAIN t.node : v # u => n[v] = t.node[v]
  OBVIOUS
<1>7. n[u] = y
  OBVIOUS
<1> HIDE DEF n
<1>8. Trims(t.node, s.node, {}, {})
  BY <1>3, <1>4, <1>5, <1>6, <1>7 DEF Trims
<1> QED
  BY <1>3, <1>8 DEF Extends, s

\* fork_node: the node the pid had ends, and a new one is made and judged.
Forks(t, s, e) ==
    /\ Sound(t) /\ t.cur = cur /\ Gone(t, e.pid) /\ Trims(node, t.node, {e.pid}, {})
    /\ DOMAIN t.node = DOMAIN node
    /\ Grown(t, s, e.pid, Blank(e.inc, Lookup(cur, e.ppid), e.trusted, Inherits(t, e.pid, e.ppid)))
    /\ Trims(s.node, node', {}, {}) /\ DOMAIN node' = DOMAIN s.node

LEMMA ForkIs ==
    ASSUME IInv, IngestFork
    PROVE  Head(ring) \in Event /\ Head(ring).type = "FORK" /\ \E t, s : Forks(t, s, Head(ring))
<1> DEFINE e == Head(ring)
           p == e.pid
           t == SuccessorOf(Tree, p)
           i == Inherits(t, p, e.ppid)
           s == Added(t, p, e.inc, e.ppid, e.trusted, i)
           x == Blank(e.inc, Lookup(t.cur, e.ppid), e.trusted, i)
<1> DEFINE u == Lookup(s.cur, p)
<1>1. /\ e \in Event /\ Free(Tree, p) # {} /\ Judged(s, u) /\ e.type = "FORK"
  BY Took1 DEF IngestFork
<1>2. p \in Pid /\ e.inc \in 1 .. MaxInc /\ e.trusted \in BOOLEAN /\ i \in BOOLEAN
  BY <1>1 DEF Event, Inherits
<1>3. Sound(Tree) /\ Alone(Tree) /\ Typed(node)
  BY TreeNow DEF IInv, Sound
<1>4. /\ Sound(t) /\ t.cur = cur /\ DOMAIN t.node = DOMAIN node
      /\ \A v \in DOMAIN node : t.node[v] = IF v = Node(p) THEN Dead(node[v]) ELSE node[v]
  BY <1>2, <1>3, SuccessorSound, TreeNow
<1>5. Free(t, p) # {}
  BY <1>1, <1>4, TreeNow DEF Free
<1> HIDE DEF e, p, t, i, x
<1>6. Grown(t, s, p, x)
  BY <1>2, <1>4, <1>5, AddedSound DEF x
<1> HIDE DEF s
<1>7. Trims(s.node, node', {}, {}) /\ DOMAIN node' = DOMAIN s.node
  <2>1. Sound(s) /\ u \in DOMAIN s.node
    BY <1>6 DEF Grown
  <2>2. Fits(watch, s.node)
    <3>1. \A v \in DOMAIN node : node[v] \in PNode /\ Dead(node[v]).peak = node[v].peak
      BY <1>3 DEF Typed, Dead, PNode
    <3>2. /\ DOMAIN node \subseteq DOMAIN s.node
          /\ \A v \in DOMAIN node : s.node[v].peak >= node[v].peak
      BY <1>4, <1>6, <3>1, BoundsAssumption DEF Grown, PNode, Level
    <3>3. DOMAIN watch \subseteq DOMAIN node /\ Fits(watch, node)
      BY DEF IInv, Fits, Listed
    <3> QED
      BY <1>3, <2>1, <3>2, <3>3, FitsLater DEF Sound
  <2>3. Rescored(s.node, node')
    BY <1>1, <2>1, <2>2, JudgedSound
  <2> QED
    BY <2>3, RescoredTrims DEF Rescored
<1>8. Node(p) # None => Node(p)[1] = p
  BY DEF Node, Lookup
<1>9. \A y \in PNode : /\ Dead(y).of = y.of /\ Dead(y).par = y.par /\ Dead(y).dead = TRUE
                       /\ Dead(y).supervised = y.supervised
  BY DEF Dead, PNode
<1>10. Trims(node, t.node, {p}, {})
  <2>1. \A v \in DOMAIN node : node[v] \in PNode /\ v # None
    BY <1>3 DEF Typed, Closed
  <2> QED
    BY <1>4, <1>8, <1>9, <2>1 DEF Trims
<1>11. Gone(t, p)
  <2>1. Lookup(t.cur, p) = Node(p) /\ Node(p) \in DOMAIN node \cup {None}
    BY <1>3, <1>4, LookupIn, TreeNow
  <2>2. \A v \in DOMAIN node : node[v] \in PNode
    BY <1>3 DEF Typed
  <2> QED
    BY <1>4, <1>9, <2>1, <2>2 DEF Gone
<1>12. Forks(t, s, e)
  BY <1>4, <1>6, <1>7, <1>10, <1>11 DEF Forks, x, i, p
<1> QED
  BY <1>1, <1>12 DEF e

\* ensure_node and the score.
Scores(s, e) ==
    /\ Sound(s)
    /\ \/ Node(e.pid) # None /\ s = Tree
       \/ Node(e.pid) = None /\ Grown(Tree, s, e.pid, Blank(e.inc, Lookup(cur, e.ppid), e.trusted,
                                                Inherits(Tree, e.pid, e.ppid)))
    /\ Trims(s.node, node', {}, {})

LEMMA ScoredIs ==
    ASSUME IInv, IngestScored
    PROVE  /\ Head(ring) \in Event /\ Head(ring).type \in {"EXEC", "RISKY"}
           /\ \E t : Scores(t, Head(ring))
<1> DEFINE e == Head(ring)
           p == e.pid
           b == Inherits(Tree, p, e.ppid)
           t == IF Node(p) # None THEN Tree
                ELSE Added(Tree, p, e.inc, e.ppid, e.trusted, b)
           u == Lookup(t.cur, p)
           s == IF e.type = "RISKY" THEN t ELSE [t EXCEPT !.node[u].exempt = e.trusted]
<1>1. /\ e \in Event /\ e.type \in {"EXEC", "RISKY"}
      /\ Node(p) = None => Free(Tree, p) # {}
      /\ Judged(s, u)
  BY Took1 DEF IngestScored
<1>2. p \in Pid /\ e.inc \in 1 .. MaxInc /\ e.trusted \in BOOLEAN /\ b \in BOOLEAN
  BY <1>1 DEF Event, Inherits
<1>3. Sound(Tree) /\ Alone(Tree) /\ Fits(watch, Tree.node)
  BY TreeNow DEF IInv
<1> HIDE DEF e, p, b
<1>4. Extends(Tree, t, {p}) /\ u \in DOMAIN t.node
  <2>1. t = IF Lookup(Tree.cur, p) # None THEN Tree
            ELSE Added(Tree, p, e.inc, e.ppid, e.trusted, b)
    BY TreeNow
  <2> HIDE DEF t
  <2> QED
    BY <1>1, <1>2, <1>3, <2>1, EnsuredExtends, TreeNow
<1>5. \/ Node(p) # None /\ t = Tree
      \/ Node(p) = None /\ Grown(Tree, t, p, Blank(e.inc, Lookup(cur, e.ppid), e.trusted, b))
  <2>1. CASE Node(p) = None
    <3>1. t = Added(Tree, p, e.inc, e.ppid, e.trusted, b)
      BY <2>1
    <3> HIDE DEF t
    <3> QED
      BY <1>1, <1>2, <1>3, <2>1, <3>1, AddedSound, TreeNow
  <2> QED
    BY <2>1
<1> HIDE DEF t, u
<1>6. /\ Extends(t, s, {}) /\ u \in DOMAIN s.node /\ Sound(s) /\ Alone(s)
      /\ Trims(t.node, s.node, {}, {})
  <2>1. Sound(t) /\ Alone(t)
    BY <1>4 DEF Extends
  <2>2. CASE e.type = "RISKY"
    BY <1>4, <2>1, <2>2, ExtendsSelf, TrimsSelf
  <2>3. CASE e.type # "RISKY"
    BY <1>2, <1>4, <2>1, <2>3, ExemptExtends, ExemptTrims
  <2> QED
    BY <2>2, <2>3
<1> HIDE DEF s
<1>7. Fits(watch, s.node)
  <2>1. Extends(Tree, s, {p})
    BY <1>3, <1>4, <1>6, ExtendsOn, {p} \cup {} = {p}
  <2> QED
    BY <1>3, <2>1, ExtendsWatch
<1>8. Trims(s.node, node', {}, {})
  BY <1>1, <1>6, <1>7, JudgedSound, RescoredTrims
<1>9. Trims(t.node, node', {}, {})
  BY <1>6, <1>8, TrimsOn
<1>10. Scores(t, e)
  <2>1. Sound(t)
    BY <1>4 DEF Extends
  <2> QED
    BY <1>5, <1>9, <2>1 DEF Scores, p, b
<1> QED
  BY <1>1, <1>10 DEF e

\* synth_node: for a process of the tree nobody told of, with its parent as /proc tells it.
Synths(t, s, p, supervised) ==
    /\ Lookup(t.cur, p) = None
    /\ \E exempt \in BOOLEAN :
           Grown(t, s, p, Blank(proc[p].inc, Lookup(t.cur, Ppid(p)), exempt, supervised))

LEMMA SynthIs ==
    ASSUME IInv, NEW t, Sound(t), NEW p \in Pid, There(p), Lookup(t.cur, p) = None, Free(t, p) # {},
           NEW supervised \in BOOLEAN
    PROVE  Synths(t, Synth(t, p, supervised), p, supervised)
<1> DEFINE x == ~supervised /\ proc[p].trusted
<1>1. proc[p].inc \in 1 .. MaxInc
  BY BoundsAssumption DEF IInv, KernelInv, Process
<1>2. Synth(t, p, supervised) = Added(t, p, proc[p].inc, Ppid(p), x, supervised)
  BY DEF Synth
<1>3. x \in BOOLEAN
  BY DEF IInv, KernelInv, Process
<1> HIDE DEF x
<1> QED
  BY <1>1, <1>2, <1>3, AddedSound DEF Synths

LEMMA PredictIs ==
    ASSUME IInv, NEW p \in Pid, Predict(p)
    PROVE  /\ Up(p) /\ proc[p].desc
           /\ \E t : /\ Sound(t) /\ ((Node(p) # None /\ t = Tree) \/ Synths(Tree, t, p, p \in supRoots))
                     /\ Tree' = t \/ \E c \in supRoots : There(c) /\ Synths(t, Tree', c, TRUE)
<1> DEFINE t == IF Node(p) = None THEN Synth(Tree, p, p \in supRoots) ELSE Tree
           u == Lookup(t.cur, p)
           c == RootAbove(p)
           known == \/ \E v \in Ancestry(t.node, u) : v[1] \in supRoots
                    \/ c = NoPid \/ Lookup(t.cur, c) # None
<1>1. /\ Up(p) /\ There(p) /\ proc[p].desc /\ (Node(p) = None => Free(Tree, p) # {})
      /\ IF known THEN Becomes(t) ELSE Free(t, c) # {} /\ Becomes(Synth(t, c, TRUE))
  BY DEF Predict, Up, There
<1>2. Sound(Tree) /\ supRoots \subseteq Pid
  BY DEF IInv, SuperInv
<1>3. Sound(t) /\ ((Node(p) # None /\ t = Tree) \/ Synths(Tree, t, p, p \in supRoots))
  <2>1. CASE Node(p) = None
    <3> DEFINE b == p \in supRoots
    <3>1. t = Synth(Tree, p, b) /\ b \in BOOLEAN
      BY <2>1
    <3> HIDE DEF t, b
    <3>2. Synths(Tree, t, p, b)
      BY <1>1, <1>2, <2>1, <3>1, SynthIs, TreeNow
    <3> QED
      BY <3>2 DEF Synths, Grown, b
  <2>2. CASE Node(p) # None
    BY <1>2, <2>2
  <2> QED
    BY <2>1, <2>2
<1> HIDE DEF t
<1>4. Tree' = t \/ \E d \in supRoots : There(d) /\ Synths(t, Tree', d, TRUE)
  <2>1. CASE known
    BY <1>1, <1>3, <2>1, BecomesSound, SameTree
  <2>2. CASE ~known
    <3> DEFINE s == Synth(t, c, TRUE)
    <3>1. c # NoPid /\ Lookup(t.cur, c) = None /\ Free(t, c) # {} /\ Becomes(s)
      BY <1>1, <2>2
    <3> HIDE DEF u, known
    <3>2. c \in supRoots /\ There(c)
      BY <1>1, <1>2, <3>1, RootAboveDef
    <3> HIDE DEF c
    <3>3. Synths(t, s, c, TRUE)
      BY <1>2, <1>3, <3>1, <3>2, SynthIs
    <3> HIDE DEF s
    <3>4. Tree' = s
      BY <3>1, <3>3, BecomesSound, SameTree DEF Synths, Grown
    <3> QED
      BY <3>2, <3>3, <3>4
  <2> QED
    BY <2>1, <2>2
<1> QED
  BY <1>1, <1>3, <1>4

\* One node with another record.
LEMMA OneTrims ==
    ASSUME NEW n, NEW u \in DOMAIN n, NEW y, NEW D, NEW P, n \in [DOMAIN n -> PNode],
           y.of = n[u].of, y.par = n[u].par,
           n[u].dead => y.dead, y.dead => n[u].dead \/ u[1] \in D,
           y.supervised => n[u].supervised \/ u[1] \in P,
           n[u].supervised /\ ~y.dead => y.supervised
    PROVE  Trims(n, [n EXCEPT ![u] = y], D, P)
<1> DEFINE m == [n EXCEPT ![u] = y]
<1>1. DOMAIN m = DOMAIN n /\ m[u] = y /\ \A v \in DOMAIN n : v # u => m[v] = n[v]
  OBVIOUS
<1> HIDE DEF m
<1>2. Trims(n, m, D, P)
  BY <1>1 DEF Trims
<1> QED
  BY <1>2 DEF m

LEMMA ExitIs ==
    ASSUME IInv, IngestExit
    PROVE  Head(ring) \in Event /\ Trims(node, node', {Head(ring).pid}, {})
<1> DEFINE p == Head(ring).pid
           u == Node(p)
<1>1. Head(ring) \in Event /\ Sound(Tree) /\ Typed(node)
  BY Took1, TreeNow DEF IngestExit, IInv, Sound
<1>2. u \in DOMAIN node \cup {None}
  BY <1>1, LookupIn, TreeNow
<1>3. node' = IF u = None THEN node ELSE [node EXCEPT ![u] = Dead(@)]
  BY DEF IngestExit, treeVars
<1>4. CASE u = None
  BY <1>1, <1>3, <1>4 DEF Trims
<1>5. CASE u # None
  <2>1. u \in DOMAIN node /\ u[1] = p
    BY <1>2, <1>5 DEF Node, Lookup
  <2> HIDE DEF u
  <2> DEFINE y == Dead(node[u])
  <2>2. node \in [DOMAIN node -> PNode] /\ node[u] \in PNode
    BY <1>1, <2>1 DEF Typed
  <2>3. /\ y.of = node[u].of /\ y.par = node[u].par /\ y.dead = TRUE
        /\ y.supervised = node[u].supervised
    BY <2>2 DEF Dead, PNode
  <2>4. node' = [node EXCEPT ![u] = y]
    BY <1>3, <1>5
  <2> HIDE DEF y, p
  <2>5. Trims(node, [node EXCEPT ![u] = y], {p}, {})
    BY <2>1, <2>2, <2>3, OneTrims
  <2> QED
    BY <1>1, <2>4, <2>5 DEF p
<1> QED
  BY <1>4, <1>5

LEMMA ThinnedTrims ==
    ASSUME NEW n, NEW m, NEW S, Thinned(n, m, S)
    PROVE  Trims(n, m, {}, {})
  BY DEF Thinned, Trims

LEMMA CollectsIs ==
    ASSUME IInv, Tick \/ Purge
    PROVE  Trims(node, node', {}, {})
<1>1. Sound(Tree) /\ Typed(node)
  BY TreeNow DEF IInv, Sound
<1>2. CASE Tick
  <2>1. PICK n, S, us : Ticked(n, S, us)
    BY <1>2, TickIs
  <2>2. /\ Typed(n) /\ Rescored(node, n) /\ DOMAIN n = DOMAIN node
        /\ S \in SUBSET DOMAIN n /\ Erase(n, S)
    BY <2>1 DEF Ticked, Rescored, Collectable
  <2>3. Thinned(n, node', S)
    BY <1>1, <2>2, EraseSound
  <2> QED
    BY <2>2, <2>3, RescoredTrims, ThinnedTrims, TrimsOn
<1>3. CASE Purge
  <2> DEFINE S == {u \in DOMAIN node : node[u].dead /\ ~LiveChild(node, u) /\ ~Forensic(node[u])}
  <2>1. S \in SUBSET DOMAIN node /\ Erase(node, S)
    BY <1>3 DEF Purge
  <2> HIDE DEF S
  <2>2. Thinned(node, node', S)
    BY <1>1, <2>1, EraseSound
  <2> QED
    BY <2>2, ThinnedTrims
<1> QED
  BY <1>2, <1>3

LEMMA AllowIs ==
    ASSUME IInv, Allow
    PROVE  Trims(node, node', {}, {})
<1> DEFINE u == Node(call)
           t == [Tree EXCEPT !.node[u].exempt = FALSE]
<1>1. /\ Sound(Tree) /\ Alone(Tree) /\ Fits(watch, node) /\ Fits(watch, Tree.node)
      /\ Typed(node) /\ u \in DOMAIN node \cup {None}
  BY TreeNow, LookupIn DEF IInv, Sound
<1>2. CASE UNCHANGED treeVars
  BY <1>2, TrimsSelf DEF treeVars
<1>3. CASE u # None /\ Evidence(t, u, node[u].exempt)
  <2>1. u \in DOMAIN Tree.node /\ node[u].exempt \in BOOLEAN
    BY <1>1, <1>3, TreeNow DEF Typed, PNode
  <2> HIDE DEF u
  <2>2. Sound(t) /\ Trims(node, t.node, {}, {}) /\ Extends(Tree, t, {}) /\ u \in DOMAIN t.node
    BY <1>1, <2>1, ExemptTrims, ExemptExtends, TreeNow
  <2> HIDE DEF t
  <2>3. Fits(watch, t.node)
    BY <1>1, <2>2, ExtendsWatch
  <2>4. Trims(t.node, node', {}, {})
    BY <1>3, <2>1, <2>2, <2>3, EvidenceSound, RescoredTrims
  <2> QED
    BY <2>2, <2>4, TrimsOn
<1> QED
  BY <1>2, <1>3 DEF Allow

LEMMA RegisterIs ==
    ASSUME IInv, Register
    PROVE  /\ Trims(node, node', {}, {root})
           /\ Node(root) # None => Node(root) \in DOMAIN node' /\ node'[Node(root)].supervised
<1> DEFINE u == Node(root)
<1>1. Typed(node) /\ u \in DOMAIN node \cup {None} /\ (u # None => u[1] = root)
  <2>1. u # None => u[1] = root
    BY DEF Node, Lookup
  <2> QED
    BY <2>1, TreeNow, LookupIn DEF IInv, Sound
<1>2. node' = IF u = None THEN node
              ELSE [node EXCEPT ![u].supervised = TRUE, ![u].exempt = FALSE]
  BY DEF Register
<1>3. CASE u = None
  BY <1>2, <1>3 DEF Trims
<1>4. CASE u # None
  <2> HIDE DEF u
  <2> DEFINE x == node[u]
             y == [x EXCEPT !.supervised = TRUE, !.exempt = FALSE]
  <2>1. u \in DOMAIN node /\ node \in [DOMAIN node -> PNode] /\ x \in PNode
    BY <1>1, <1>4 DEF Typed
  <2>2. y.of = x.of /\ y.par = x.par /\ y.dead = x.dead /\ y.supervised = TRUE
    <3> HIDE DEF x
    <3> QED
      BY <2>1 DEF PNode
  <2>3. node' = [node EXCEPT ![u] = y]
    BY <1>2, <1>4, <2>1 DEF PNode
  <2> HIDE DEF y
  <2>4. Trims(node, [node EXCEPT ![u] = y], {}, {root})
    BY <1>1, <1>4, <2>1, <2>2, OneTrims
  <2>5. u \in DOMAIN node' /\ node'[u] = y
    BY <2>1, <2>3
  <2> QED
    BY <2>2, <2>3, <2>4, <2>5 DEF u
<1> QED
  BY <1>3, <1>4

LEMMA MarkDeadIs ==
    ASSUME IInv, MarkDead
    PROVE  Trims(node, node', {root}, {})
<1> DEFINE u == Node(root)
<1>1. Typed(node) /\ u \in DOMAIN node \cup {None} /\ (u # None => u[1] = root)
  <2>1. u # None => u[1] = root
    BY DEF Node, Lookup
  <2> QED
    BY <2>1, TreeNow, LookupIn DEF IInv, Sound
<1>2. node' = IF u = None THEN node
              ELSE [node EXCEPT ![u] = [Dead(@) EXCEPT !.supervised = FALSE]]
  BY DEF MarkDead
<1>3. CASE u = None
  BY <1>2, <1>3 DEF Trims
<1>4. CASE u # None
  <2> HIDE DEF u
  <2> DEFINE x == node[u]
             y == [Dead(x) EXCEPT !.supervised = FALSE]
  <2>1. u \in DOMAIN node /\ node \in [DOMAIN node -> PNode] /\ x \in PNode
    BY <1>1, <1>4 DEF Typed
  <2>2. y.of = x.of /\ y.par = x.par /\ y.dead = TRUE /\ y.supervised = FALSE
    <3> HIDE DEF x
    <3> QED
      BY <2>1 DEF PNode, Dead
  <2>3. node' = [node EXCEPT ![u] = y]
    BY <1>2, <1>4, <2>1
  <2> HIDE DEF y
  <2>4. Trims(node, [node EXCEPT ![u] = y], {root}, {})
    BY <1>1, <1>4, <2>1, <2>2, OneTrims
  <2> QED
    BY <2>3, <2>4
<1> QED
  BY <1>3, <1>4

-----------------------------------------------------------------------------
(* What the tree says of the processes f.                                  *)

\* A node stands for a process its pid has or had.  One that is not dead stands for the latest,
\* and if its parent is not dead either, theirs are parent and child.
Made(n, f) ==
    \A u \in DOMAIN n :
        /\ n[u].of <= f[u[1]].inc
        /\ ~n[u].dead =>
               /\ n[u].of = f[u[1]].inc
               /\ n[u].par # None /\ ~n[n[u].par].dead =>
                      f[u[1]].par = <<n[u].par[1], f[n[u].par[1]].inc>>

\* M has the nodes under supervision, themselves or for their pid in G, and all below them.
Marks(n, f, G, M) ==
    \A u \in DOMAIN n :
        /\ n[u].supervised \/ u[1] \in G => u \in M
        /\ n[u].par # None /\ n[u].par \in M => u \in M
        /\ u \in M /\ n[u].of = f[u[1]].inc => f[u[1]].desc

\* Nodes of other processes are not under it.
Within(n, f, G) == \E M : Marks(n, f, G, M)

Mirrors(n, f, G) == Made(n, f) /\ Within(n, f, G)

LEMMA MirrorsTrims ==
    ASSUME NEW n, NEW m, Closed(m), NEW f, NEW G, NEW D, NEW P, Trims(n, m, D, P), P \subseteq G,
           Mirrors(n, f, G)
    PROVE  Mirrors(m, f, G)
<1>1. ASSUME NEW v \in DOMAIN m
      PROVE  /\ v \in DOMAIN n /\ m[v].of = n[v].of /\ (~m[v].dead => ~n[v].dead)
             /\ m[v].supervised => n[v].supervised \/ v[1] \in G
             /\ m[v].par # None => m[v].par = n[v].par /\ m[v].par \in DOMAIN m
  BY DEF Trims, Closed
<1>2. Made(m, f)
  <2> SUFFICES ASSUME NEW v \in DOMAIN m
               PROVE  /\ m[v].of <= f[v[1]].inc
                      /\ ~m[v].dead =>
                            /\ m[v].of = f[v[1]].inc
                            /\ m[v].par # None /\ ~m[m[v].par].dead =>
                                  f[v[1]].par = <<m[v].par[1], f[m[v].par[1]].inc>>
    BY DEF Made
  <2>1. /\ n[v].of <= f[v[1]].inc
        /\ ~n[v].dead =>
               /\ n[v].of = f[v[1]].inc
               /\ n[v].par # None /\ ~n[n[v].par].dead =>
                      f[v[1]].par = <<n[v].par[1], f[n[v].par[1]].inc>>
    BY <1>1 DEF Mirrors, Made
  <2> QED
    BY <1>1, <2>1
<1>3. PICK M : Marks(n, f, G, M)
  BY DEF Mirrors, Within
<1>4. Marks(m, f, G, M)
  BY <1>1, <1>3 DEF Marks
<1> QED
  BY <1>2, <1>4 DEF Mirrors, Within

\* The new node says what is so of p and its parent.
Apt(t, p, x, f, G) ==
    /\ x.of = f[p].inc /\ x.par \in DOMAIN t.node \cup {None} /\ x.dead = FALSE
    /\ x.par # None => /\ f[p].par = <<x.par[1], f[x.par[1]].inc>>
                       /\ t.node[x.par].dead => f[p].desc
    /\ x.supervised => \/ f[p].desc
                       \/ x.par # None /\ (t.node[x.par].supervised \/ x.par[1] \in G)

\* A process descends from the launched program as its parent does.
Akin(f, G) ==
    /\ \A p \in Pid : \A q \in Pid :
           f[p].par = <<q, f[q].inc>> => (f[p].desc <=> f[q].desc)
    /\ \A p \in G : f[p].desc
    /\ \A p \in Pid : f[p].inc \in Nat

LEMMA MirrorsGrown ==
    ASSUME NEW t, Sound(t), NEW p \in Pid, NEW x, NEW s, Grown(t, s, p, x),
           NEW f, NEW G, Akin(f, G), Apt(t, p, x, f, G), Mirrors(t.node, f, G)
    PROVE  Mirrors(s.node, f, G)
<1> DEFINE u == Lookup(s.cur, p)
           n == t.node
           m == s.node
<1>1. /\ u \notin DOMAIN n /\ u[1] = p /\ DOMAIN m = DOMAIN n \cup {u} /\ m[u] = x
      /\ \A v \in DOMAIN n : m[v] = n[v]
  BY DEF Grown
<1> HIDE DEF u, m
<1>2. /\ None \notin DOMAIN n
      /\ \A v \in DOMAIN n : (n[v].par # None => n[v].par \in DOMAIN n) /\ v[1] \in Pid
  BY DEF Sound, Typed, Closed, Uid
<1>3. Made(m, f)
  <2>1. ASSUME NEW v \in DOMAIN n
        PROVE  /\ m[v].of <= f[v[1]].inc
               /\ ~m[v].dead =>
                      /\ m[v].of = f[v[1]].inc
                      /\ m[v].par # None /\ ~m[m[v].par].dead =>
                             f[v[1]].par = <<m[v].par[1], f[m[v].par[1]].inc>>
    <3>1. /\ n[v].of <= f[v[1]].inc
          /\ ~n[v].dead =>
                 /\ n[v].of = f[v[1]].inc
                 /\ n[v].par # None /\ ~n[n[v].par].dead =>
                        f[v[1]].par = <<n[v].par[1], f[n[v].par[1]].inc>>
      BY DEF Mirrors, Made
    <3> QED
      BY <1>1, <1>2, <3>1
  <2>2. /\ m[u].of <= f[u[1]].inc
        /\ ~m[u].dead =>
               /\ m[u].of = f[u[1]].inc
               /\ m[u].par # None /\ ~m[m[u].par].dead =>
                      f[u[1]].par = <<m[u].par[1], f[m[u].par[1]].inc>>
    BY <1>1 DEF Apt, Akin
  <2> QED
    BY <1>1, <2>1, <2>2 DEF Made
<1>4. PICK M : Marks(n, f, G, M)
  BY DEF Mirrors, Within
<1>5. x.par # None /\ x.par \in M => f[p].desc
  <2> SUFFICES ASSUME x.par # None, x.par \in M, ~n[x.par].dead PROVE f[p].desc
    BY DEF Apt
  <2>1. x.par \in DOMAIN n /\ x.par[1] \in Pid
    BY <1>2 DEF Apt
  <2>2. n[x.par].of = f[x.par[1]].inc
    BY <2>1 DEF Mirrors, Made
  <2>3. f[x.par[1]].desc
    BY <1>4, <2>1, <2>2 DEF Marks
  <2> QED
    BY <2>1, <2>3 DEF Apt, Akin
<1>6. x.supervised => f[p].desc
  <2>1. x.par # None /\ (n[x.par].supervised \/ x.par[1] \in G) => x.par \in M
    BY <1>4 DEF Apt, Marks
  <2> QED
    BY <1>5, <2>1 DEF Apt
<1> DEFINE N == (M \ {u}) \cup IF f[p].desc THEN {u} ELSE {}
<1>7. Marks(m, f, G, N)
  <2>1. ASSUME NEW v \in DOMAIN n
        PROVE  /\ m[v].supervised \/ v[1] \in G => v \in N
               /\ m[v].par # None /\ m[v].par \in N => v \in N
               /\ v \in N /\ m[v].of = f[v[1]].inc => f[v[1]].desc
    <3>1. /\ n[v].supervised \/ v[1] \in G => v \in M
          /\ n[v].par # None /\ n[v].par \in M => v \in M
          /\ v \in M /\ n[v].of = f[v[1]].inc => f[v[1]].desc
      BY <1>4 DEF Marks
    <3>2. m[v] = n[v] /\ v # u /\ (n[v].par # None => n[v].par # u)
      BY <1>1, <1>2
    <3> QED
      BY <3>1, <3>2
  <2>2. /\ m[u].supervised \/ u[1] \in G => u \in N
        /\ m[u].par # None /\ m[u].par \in N => u \in N
        /\ u \in N /\ m[u].of = f[u[1]].inc => f[u[1]].desc
    <3>1. u[1] \in G => f[p].desc
      BY <1>1 DEF Akin
    <3>2. x.par # None => x.par # u
      BY <1>1 DEF Apt
    <3> QED
      BY <1>1, <1>5, <1>6, <3>1, <3>2
  <2> HIDE DEF N
  <2> QED
    BY <1>1, <2>1, <2>2 DEF Marks
<1> QED
  BY <1>3, <1>7 DEF Mirrors, Within, m

\* Another process of q comes when the one before it is known to be gone.
LEMMA MirrorsBorn ==
    ASSUME NEW t, Sound(t), Alone(t), NEW q \in Pid, Gone(t, q), NEW f, NEW g,
           \A p \in Pid \ {q} : g[p] = f[p], f[q].inc \in Nat, g[q].inc = f[q].inc + 1,
           NEW G, NEW H, H = G \/ (H = {q} /\ G = {} /\ f[q].inc = 0),
           Mirrors(t.node, f, G)
    PROVE  Mirrors(t.node, g, H)
<1> DEFINE n == t.node
<1>1. \A u \in DOMAIN n : /\ u # None /\ n[u] \in PNode /\ u[1] \in Pid
                          /\ n[u].of \in Nat /\ n[u].of >= 1
                          /\ n[u].par # None => n[u].par \in DOMAIN n
  <2>1. \A x \in PNode : x.of \in Nat /\ x.of >= 1
    BY BoundsAssumption DEF PNode
  <2> QED
    BY <2>1 DEF Sound, Typed, Closed, Uid
<1>2. \A u \in DOMAIN n : ~n[u].dead => u[1] # q
  BY <1>1 DEF Alone, Gone
<1>3. \A u \in DOMAIN n : u[1] = q => n[u].of <= f[q].inc /\ n[u].of # g[q].inc
  BY <1>1 DEF Mirrors, Made
<1>4. Made(n, g)
  <2> SUFFICES ASSUME NEW u \in DOMAIN n
               PROVE  /\ n[u].of <= g[u[1]].inc
                      /\ ~n[u].dead =>
                             /\ n[u].of = g[u[1]].inc
                             /\ n[u].par # None /\ ~n[n[u].par].dead =>
                                    g[u[1]].par = <<n[u].par[1], g[n[u].par[1]].inc>>
    BY DEF Made
  <2>1. /\ n[u].of <= f[u[1]].inc
        /\ ~n[u].dead =>
               /\ n[u].of = f[u[1]].inc
               /\ n[u].par # None /\ ~n[n[u].par].dead =>
                      f[u[1]].par = <<n[u].par[1], f[n[u].par[1]].inc>>
    BY DEF Mirrors, Made
  <2>2. u[1] # q => g[u[1]] = f[u[1]]
    BY <1>1
  <2>3. n[u].par # None /\ ~n[n[u].par].dead => g[n[u].par[1]] = f[n[u].par[1]]
    BY <1>1, <1>2
  <2>4. n[u].of <= g[u[1]].inc
    BY <1>1, <1>3, <2>1, <2>2
  <2> QED
    BY <1>2, <2>1, <2>2, <2>3, <2>4
<1>5. PICK M : Marks(n, f, G, M)
  BY DEF Mirrors, Within
<1>6. \A u \in DOMAIN n : u[1] \in H => u[1] \in G
  BY <1>1, <1>3
<1>7. Marks(n, g, H, M)
  BY <1>1, <1>3, <1>5, <1>6 DEF Marks
<1> QED
  BY <1>4, <1>7 DEF Mirrors, Within

\* Other changes of a process do not concern the tree.
LEMMA MirrorsSame ==
    ASSUME NEW n, Typed(n), NEW f, NEW g, NEW G,
           \A p \in Pid : g[p].inc = f[p].inc /\ g[p].par = f[p].par /\ (g[p].desc <=> f[p].desc),
           Mirrors(n, f, G)
    PROVE  Mirrors(n, g, G)
<1>1. \A u \in DOMAIN n : u[1] \in Pid /\ (n[u].par # None => n[u].par \in DOMAIN n)
  BY DEF Typed, Closed, Uid
<1>2. Made(n, g)
  BY <1>1 DEF Mirrors, Made
<1>3. PICK M : Marks(n, f, G, M)
  BY DEF Mirrors, Within
<1>4. Marks(n, g, G, M)
  BY <1>1, <1>3 DEF Marks
<1> QED
  BY <1>2, <1>4 DEF Mirrors, Within

-----------------------------------------------------------------------------
(* Every step keeps the tree true to the processes.                        *)

Owned == IF pc = "none" THEN {} ELSE {root}

MirrorInv == Mirrors(node, proc, Owned)

LEMMA OwnedAkin == ASSUME IInv, Bred PROVE Akin(proc, Owned)
<1>1. \A p \in Pid : proc[p].inc \in Nat
  BY BoundsAssumption DEF IInv, KernelInv, Process
<1>2. \A p \in Pid : \A q \in Pid :
          proc[p].par = <<q, proc[q].inc>> => (proc[p].desc <=> proc[q].desc)
  BY DEF Bred, None
<1>3. \A p \in Owned : proc[p].desc
  BY DEF Bred, Owned
<1> QED
  BY <1>1, <1>2, <1>3 DEF Akin

\* A node made from the event that is read.
LEMMA EventApt ==
    ASSUME IInv, Bred, Rooted, Line, ring # <<>>, NEW e, e = ring[1], NEW p, p = e.pid,
           NEW q, q = e.ppid, e.type # "EXIT",
           NEW t, Sound(t), t.cur = cur, NEW exempt,
           Lookup(cur, q) # None /\ t.node[Lookup(cur, q)].dead => Gone(Tree, q) \/ proc[p].desc,
           e.type = "FORK" \/ Node(p) = None
    PROVE  Apt(t, p, Blank(e.inc, Lookup(cur, q), exempt, Inherits(t, p, q)), proc, Owned)
<1> DEFINE u == Lookup(cur, q)
           i == Inherits(t, p, q)
           x == Blank(e.inc, u, exempt, i)
<1>1. x.of = e.inc /\ x.par = u /\ x.dead = FALSE /\ x.supervised = i
  BY DEF Blank
<1>2. 1 \in 1 .. Len(ring) /\ e \in Event
  BY DEF IInv, KernelInv
<1>3. p \in Pid /\ LineAt(1) /\ ring[1].pid = p /\ ring[1].ppid = q
  BY <1>2 DEF Event, Line
<1>4. u \in DOMAIN t.node \cup {None} /\ (u # None => q \in Pid /\ q # NoPid /\ u[1] = q)
  <2>1. u \in DOMAIN t.node \cup {None}
    BY LookupIn
  <2>2. u # None => q \in Pid /\ u[1] = q
    BY DEF Lookup
  <2> QED
    BY <2>1, <2>2, PidAssumption
<1>5. e.inc = proc[p].inc /\ (q # NoPid => proc[p].par = <<q, proc[q].inc>>)
  BY <1>3 DEF LineAt
<1>6. \A k \in Pid : Knows(k, 0) /\ Gone(Tree, k) => proc[k].desc
  <2> SUFFICES ASSUME NEW k \in Pid, Knows(k, 0), Gone(Tree, k) PROVE proc[k].desc
    OBVIOUS
  <2>1. ~Begun(ring, Tree, k, 0)
    BY DEF Begun
  <2>2. pc = "done" /\ k = root
    BY <2>1 DEF Knows
  <2> QED
    BY <2>2 DEF Bred
<1>7. u # None /\ t.node[u].dead => proc[p].desc
  <2> SUFFICES ASSUME u # None, Gone(Tree, q) PROVE proc[p].desc
    OBVIOUS
  <2>1. CASE e.type = "FORK"
    <3>1. Knows(q, 0)
      BY <1>3, <1>4, <2>1 DEF LineAt
    <3>2. proc[q].desc
      BY <1>4, <1>6, <3>1
    <3> QED
      BY <1>3, <1>4, <1>5, <3>2, OwnedAkin DEF Akin
  <2>2. CASE e.type # "FORK"
    <3>1. e.type \in {"EXEC", "RISKY"} /\ Gone(Tree, p)
      BY <1>2, <2>2, TreeNow DEF Event, Gone
    <3>2. Knows(p, 0)
      BY <1>3, <3>1 DEF LineAt
    <3> QED
      BY <1>3, <1>6, <3>1, <3>2
  <2> QED
    BY <2>1, <2>2
<1>8. i => proc[p].desc \/ (u # None /\ (t.node[u].supervised \/ u[1] \in Owned))
  <2>1. supRoots \subseteq Owned
    BY DEF Rooted, Owned
  <2>2. p \in Owned => proc[p].desc
    BY DEF Bred, Owned
  <2> QED
    BY <2>1, <2>2 DEF Inherits
<1> HIDE DEF u, i, x
<1>9. Apt(t, p, x, proc, Owned)
  BY <1>1, <1>4, <1>5, <1>7, <1>8 DEF Apt
<1> QED
  BY <1>9 DEF x, u, i

LEMMA MirrorReads ==
    ASSUME IInv, Bred, Rooted, Line, MirrorInv, Poller
    PROVE  Mirrors(node', proc, Owned)
<1>0. ring \in Seq(Event) /\ ring # <<>> /\ Head(ring) = ring[1] /\ Sound(Tree) /\ IInv'
  <2>1. ring \in Seq(Event)
    BY DEF IInv, KernelInv
  <2>2. ring # <<>>
    BY DEF Poller, IngestFork, IngestExit, IngestScored, Took
  <2>3. [Next]_vars
    BY DEF Next
  <2> QED
    BY <2>1, <2>2, <2>3, NextKeeps DEF IInv
<1>1. Closed(node) /\ Closed(node') /\ Akin(proc, Owned) /\ Sound(Tree')
  <2>1. Sound(Tree)'
    BY <1>0 DEF IInv
  <2>2. Sound(Tree') /\ Tree'.node = node'
    BY <2>1 DEF Sound, Tree
  <2> QED
    BY <1>0, <2>2, TreeNow, OwnedAkin DEF Sound, Typed
<1> DEFINE e == ring[1]
           p == e.pid
           q == e.ppid
<1>2. CASE IngestFork
  <2>1. PICK t, s : Forks(t, s, e)
    BY <1>0, <1>2, ForkIs
  <2>2. e.type = "FORK" /\ p \in Pid
    BY <1>0, <1>2, ForkIs DEF Event
  <2> DEFINE i == Inherits(t, p, q)
             x == Blank(e.inc, Lookup(cur, q), e.trusted, i)
  <2>3. /\ Sound(t) /\ t.cur = cur /\ Trims(node, t.node, {p}, {}) /\ Grown(t, s, p, x)
        /\ DOMAIN t.node = DOMAIN node /\ Trims(s.node, node', {}, {})
    BY <2>1 DEF Forks
  <2>4. Mirrors(t.node, proc, Owned)
    <3>1. Closed(t.node)
      BY <2>3 DEF Sound, Typed
    <3> QED
      BY <2>3, <3>1, MirrorsTrims DEF MirrorInv
  <2>5. Lookup(cur, q) # None /\ t.node[Lookup(cur, q)].dead => Gone(Tree, q)
    <3> SUFFICES ASSUME Lookup(cur, q) # None, t.node[Lookup(cur, q)].dead PROVE Gone(Tree, q)
      OBVIOUS
    <3>1. Lookup(cur, q) \in DOMAIN node /\ Lookup(cur, q)[1] = q /\ q \in Pid /\ q # NoPid
      <4>1. Lookup(cur, q) \in DOMAIN node
        BY <1>0, LookupIn, TreeNow
      <4> QED
        BY <4>1, PidAssumption DEF Lookup
    <3>2. q # p
      <4>1. LineAt(1) /\ 1 \in 1 .. Len(ring)
        BY <1>0 DEF Line
      <4>2. \A j \in 1 .. Len(ring) : ring[j].type = "FORK" => ring[j].pid # q
        BY <2>2, <3>1, <4>1 DEF LineAt
      <4> QED
        BY <2>2, <4>1, <4>2
    <3>3. node[Lookup(cur, q)].dead
      BY <2>3, <3>1, <3>2 DEF Trims
    <3> QED
      BY <3>3, TreeNow DEF Gone, Node
  <2> HIDE DEF i
  <2>6. Apt(t, p, x, proc, Owned)
    <3> HIDE DEF e
    <3> QED
      BY <1>0, <2>2, <2>3, <2>5, EventApt DEF e, i
  <2> HIDE DEF x
  <2>7. Mirrors(s.node, proc, Owned)
    <3>1. Closed(s.node)
      BY <2>3 DEF Grown, Sound, Typed
    <3> QED
      BY <1>1, <2>2, <2>3, <2>4, <2>6, <3>1, MirrorsGrown
  <2> QED
    BY <1>1, <2>3, <2>7, MirrorsTrims
<1>3. CASE IngestScored
  <2>1. PICK t : Scores(t, e)
    BY <1>0, <1>3, ScoredIs
  <2>2. e.type # "EXIT" /\ p \in Pid
    BY <1>0, <1>3, ScoredIs DEF Event
  <2> DEFINE i == Inherits(Tree, p, q)
             x == Blank(e.inc, Lookup(cur, q), e.trusted, i)
  <2>3. Sound(t) /\ Trims(t.node, node', {}, {})
    BY <2>1 DEF Scores
  <2>4. Mirrors(t.node, proc, Owned)
    <3>1. CASE t = Tree
      BY <3>1, TreeNow DEF MirrorInv
    <3>2. CASE Node(p) = None /\ Grown(Tree, t, p, x)
      <4>1. Lookup(cur, q) # None /\ Tree.node[Lookup(cur, q)].dead => Gone(Tree, q)
        BY TreeNow DEF Gone
      <4> HIDE DEF i
      <4>2. Apt(Tree, p, x, proc, Owned)
        <5> HIDE DEF e
        <5> QED
          BY <1>0, <2>2, <3>2, <4>1, EventApt, TreeNow DEF e, i
      <4> HIDE DEF x
      <4>3. Mirrors(Tree.node, proc, Owned)
        BY TreeNow DEF MirrorInv
      <4> QED
        BY <1>0, <1>1, <2>2, <3>2, <4>2, <4>3, MirrorsGrown
    <3> QED
      BY <2>1, <3>1, <3>2 DEF Scores
  <2> QED
    BY <1>1, <2>3, <2>4, MirrorsTrims
<1>4. CASE IngestExit
  <2>1. Trims(node, node', {Head(ring).pid}, {})
    BY <1>4, ExitIs
  <2> QED
    BY <1>1, <2>1, MirrorsTrims DEF MirrorInv
<1> QED
  BY <1>2, <1>3, <1>4 DEF Poller

LEMMA MirrorSynths ==
    ASSUME IInv, Bred, NEW t, Sound(t), NEW s, NEW p \in Pid, NEW b \in BOOLEAN,
           Synths(t, s, p, b), proc[p].desc, Mirrors(t.node, proc, Owned)
    PROVE  Mirrors(s.node, proc, Owned)
<1> DEFINE par == Lookup(t.cur, Ppid(p))
<1>1. PICK exempt \in BOOLEAN : Grown(t, s, p, Blank(proc[p].inc, par, exempt, b))
  BY DEF Synths
<1> DEFINE x == Blank(proc[p].inc, par, exempt, b)
<1>2. x.of = proc[p].inc /\ x.par = par /\ x.dead = FALSE
  BY DEF Blank
<1>3. par \in DOMAIN t.node \cup {None}
  BY LookupIn
<1>4. par # None => par[1] = Ppid(p) /\ Ppid(p) # NoPid
  BY PidAssumption DEF Lookup
<1>5. Ppid(p) # NoPid => proc[p].par = <<Ppid(p), proc[Ppid(p)].inc>>
  <2>1. proc[p].par \in Proc \cup {None}
    BY DEF IInv, KernelInv, Process
  <2> QED
    BY <2>1 DEF Ppid, Proc
<1> HIDE DEF x, par
<1>6. Apt(t, p, x, proc, Owned)
  BY <1>2, <1>3, <1>4, <1>5 DEF Apt
<1> QED
  BY <1>1, <1>6, OwnedAkin, MirrorsGrown DEF x

LEMMA MirrorPredicts ==
    ASSUME IInv, Bred, Rooted, MirrorInv, NEW p \in Pid, Predict(p)
    PROVE  Mirrors(node', proc, Owned)
<1>1. PICK t : /\ Sound(t) /\ ((Node(p) # None /\ t = Tree) \/ Synths(Tree, t, p, p \in supRoots))
               /\ Tree' = t \/ \E c \in supRoots : There(c) /\ Synths(t, Tree', c, TRUE)
  BY PredictIs
<1>2. proc[p].desc /\ Sound(Tree) /\ Mirrors(Tree.node, proc, Owned) /\ Tree'.node = node'
  BY PredictIs, TreeNow DEF MirrorInv, IInv, Tree
<1>3. Mirrors(t.node, proc, Owned)
  <2>1. CASE Synths(Tree, t, p, p \in supRoots)
    <3> DEFINE b == p \in supRoots
    <3>1. b \in BOOLEAN /\ Synths(Tree, t, p, b)
      BY <2>1
    <3> HIDE DEF b
    <3> QED
      BY <1>2, <3>1, MirrorSynths
  <2> QED
    BY <1>1, <1>2, <2>1
<1>4. ASSUME NEW c \in supRoots, Synths(t, Tree', c, TRUE)
      PROVE  Mirrors(Tree'.node, proc, Owned)
  <2>1. c \in Pid /\ proc[c].desc
    BY DEF IInv, SuperInv, Rooted, Bred
  <2> QED
    BY <1>1, <1>3, <1>4, <2>1, MirrorSynths
<1> QED
  BY <1>1, <1>2, <1>3, <1>4

LEMMA MirrorComes ==
    ASSUME IInv, LifeInv, Before, MirrorInv, NEW q \in Pid, NEW e, Comes(q, e),
           (\E p \in Pid : Child(p, q, e)) \/ Stray(q, e) \/ Launched(q, e)
    PROVE  Mirrors(node', proc', Owned')
<1>1. /\ ~There(q) /\ ~Unseen(q) /\ \A p \in Pid \ {q} : proc'[p] = proc[p]
      /\ proc'[q].inc = proc[q].inc + 1 /\ node' = node
  BY DEF Comes, Tree
<1>2. Gone(Tree, q)
  <2>1. Ended(ring, Tree, q, Len(ring))
    BY <1>1 DEF LifeInv
  <2> QED
    BY <1>1, <2>1 DEF Ended, Unseen
<1>3. proc[q].inc \in Nat /\ Sound(Tree) /\ Alone(Tree) /\ Mirrors(Tree.node, proc, Owned)
  BY BoundsAssumption, TreeNow DEF IInv, KernelInv, Process, MirrorInv
<1>4. PICK H : H = Owned'
  OBVIOUS
<1>5. H = Owned \/ (H = {q} /\ Owned = {} /\ proc[q].inc = 0)
  BY <1>4 DEF Child, Stray, Launched, Owned, supVars, Before
<1>6. PICK g : g = proc'
  OBVIOUS
<1>7. Mirrors(Tree.node, g, H)
  BY <1>1, <1>2, <1>3, <1>5, <1>6, MirrorsBorn
<1> QED
  BY <1>1, <1>4, <1>6, <1>7, TreeNow

LEMMA MirrorKeeps ==
    ASSUME IInv, Steady, LifeInv, Bred, Before, Rooted, Line, MirrorInv, [Next]_vars
    PROVE  MirrorInv'
<1>0. Settles /\ SlowReuse /\ Typed(node) /\ Closed(node')
  <2>1. Sound(Tree)'
    BY NextKeeps DEF IInv
  <2> QED
    BY <2>1, TreeNow DEF Steady, IInv, Sound, Typed, Tree
<1> SUFFICES Mirrors(node', proc', Owned')
  BY DEF MirrorInv
<1>1. CASE Poller
  <2>1. proc' = proc /\ Owned' = Owned
    BY <1>1 DEF Poller, IngestFork, IngestExit, IngestScored, Took, supVars, Owned
  <2> QED
    BY <1>1, <2>1, MirrorReads
<1>2. CASE Kernel
  <2>1. PICK q \in Pid, e \in Event :
               \/ Comes(q, e) /\ \E p \in Pid : Child(p, q, e)
               \/ Comes(q, e) /\ Stray(q, e)
               \/ Says(q, e)
    BY <1>0, <1>2, KernelIs
  <2>2. CASE Says(q, e)
    <3>1. /\ \A p \in Pid : /\ proc'[p].inc = proc[p].inc /\ proc'[p].par = proc[p].par
                            /\ proc'[p].desc <=> proc[p].desc
          /\ node' = node /\ Owned' = Owned
      BY <2>2 DEF Says, SameProc, Tree, Owned, supVars
    <3> QED
      BY <1>0, <3>1, MirrorsSame DEF MirrorInv
  <2> QED
    BY <2>1, <2>2, MirrorComes
<1>3. ASSUME NEW q \in Pid, Launch(q) PROVE Mirrors(node', proc', Owned')
  BY <1>0, <1>3, LaunchIs, MirrorComes
<1>4. CASE ~Poller /\ ~Kernel /\ ~(\E p \in Pid : Launch(p))
  <2>1. /\ \A p \in Pid : /\ proc'[p].inc = proc[p].inc /\ proc'[p].par = proc[p].par
                          /\ proc'[p].desc <=> proc[p].desc
        /\ Owned' = Owned
    BY <1>4, OthersProc, OthersPc DEF SameProc, Owned
  <2>2. Mirrors(node', proc, Owned)
    <3>1. CASE Tick \/ Purge
      BY <1>0, <3>1, CollectsIs, MirrorsTrims DEF MirrorInv
    <3>2. CASE Register
      <4>1. {root} \subseteq Owned
        BY <3>2 DEF Register, Owned
      <4> QED
        BY <1>0, <3>2, <4>1, RegisterIs, MirrorsTrims DEF MirrorInv
    <3>3. CASE Allow
      BY <1>0, <3>3, AllowIs, MirrorsTrims DEF MirrorInv
    <3>4. CASE MarkDead
      BY <1>0, <3>4, MarkDeadIs, MirrorsTrims DEF MirrorInv
    <3>5. CASE \E p \in Pid : Predict(p)
      BY <3>5, MirrorPredicts
    <3>6. CASE \/ Refuse \/ Kill \/ Collect \/ LoopEnds \/ Unregister
               \/ SignalGroup \/ \E p \in Pid : Signal(p)
      BY <3>6, OtherKeeps, SignalKeeps DEF MirrorInv
    <3>7. CASE UNCHANGED vars
      BY <3>7 DEF vars, treeVars, MirrorInv
    <3> QED
      BY <1>4, <3>1, <3>2, <3>3, <3>4, <3>5, <3>6, <3>7 DEF Next, Supervise
  <2>3. Typed(node')
    BY NextKeeps, TreeNow DEF IInv, Sound, Tree, Typed, Closed
  <2>4. PICK g : g = proc'
    OBVIOUS
  <2>5. Mirrors(node', g, Owned)
    BY <2>1, <2>2, <2>3, <2>4, MirrorsSame
  <2> QED
    BY <2>1, <2>4, <2>5
<1> QED
  BY <1>1, <1>2, <1>3, <1>4

-----------------------------------------------------------------------------
(* Whom the kill of a tree reaches.                                        *)

\* What kill_supervised_tree walks down to from the root descends from it.
LEMMA VictimsDescend ==
    ASSUME IInv, Bred, MirrorInv, pc # "none", Node(root) # None
    PROVE  \A p \in Victims(node, Node(root)) : proc[p].desc
<1> DEFINE r == Node(root)
<1>1. Typed(node) /\ Akin(proc, Owned) /\ Made(node, proc) /\ proc[root].desc /\ r[1] = root
  BY OwnedAkin, TreeNow DEF IInv, Sound, Bred, MirrorInv, Mirrors, Node, Lookup
<1> HIDE DEF r
<1>2. ASSUME NEW u \in DOMAIN node, NEW l, l = Lineage(node, u), NEW k \in 1 .. Len(l), l[k] = r,
             \A j \in 1 .. k : ~node[l[j]].dead
      PROVE  proc[u[1]].desc
  <2>1. /\ l \in Seq(DOMAIN node) /\ Len(l) \in 1 .. Cardinality(Uid) /\ l[1] = u
        /\ \A j \in 1 .. Len(l) : l[j] = Chain(node, u)[j]
        /\ Cardinality(Uid) \in Nat
    BY <1>1, <1>2, LineageSeq, UidFinite DEF Typed
  <2>2. /\ k \in Nat /\ \A j \in 1 .. k : /\ l[j] \in DOMAIN node /\ l[j] # None
                                          /\ l[j][1] \in Pid
    BY <1>1, <2>1 DEF Typed, Closed, Uid
  <2>3. ASSUME NEW j \in 1 .. k, j # k PROVE node[l[j]].par = l[j + 1] /\ j + 1 \in 1 .. k
    <3>1. j + 1 \in 1 .. k /\ j + 1 \in 1 .. Cardinality(Uid) /\ j + 1 # 1 /\ (j + 1) - 1 = j
          /\ j \in 1 .. Len(l) /\ j + 1 \in 1 .. Len(l)
      BY <2>1, <2>2, <2>3
    <3>2. l[j] = Chain(node, u)[j] /\ l[j + 1] = Chain(node, u)[j + 1] /\ l[j] # None
      BY <2>1, <2>2, <3>1
    <3>3. Chain(node, u)[j + 1] = node[Chain(node, u)[j]].par
      BY <3>1, <3>2, ChainAt
    <3> QED
      BY <3>1, <3>2, <3>3
  <2> DEFINE Bad == {j \in 1 .. k : ~proc[l[j][1]].desc}
  <2>4. ASSUME Bad # {} PROVE FALSE
    <3>1. PICK j \in Bad : \A y \in Bad : y <= j
      <4>1. Bad \subseteq 0 .. k
        OBVIOUS
      <4> HIDE DEF Bad
      <4> QED
        BY <2>2, <2>4, <4>1, GreatestNat
    <3>2. j \in 1 .. k /\ ~proc[l[j][1]].desc
      BY <3>1
    <3>3. j # k
      BY <1>1, <1>2, <3>2
    <3>4. node[l[j]].par = l[j + 1] /\ j + 1 \in 1 .. k
      BY <2>3, <3>2, <3>3
    <3>5. proc[l[j + 1][1]].desc
      <4>1. j + 1 \notin Bad
        <5>1. ~(j + 1 <= j)
          BY <3>2
        <5> HIDE DEF Bad
        <5> QED
          BY <3>1, <5>1
      <4> QED
        BY <3>4, <4>1
    <3>6. proc[l[j][1]].par = <<l[j + 1][1], proc[l[j + 1][1]].inc>>
      BY <1>1, <1>2, <2>2, <3>2, <3>4 DEF Made
    <3> QED
      BY <1>1, <2>2, <3>2, <3>4, <3>5, <3>6 DEF Akin
  <2>5. 1 \in 1 .. k /\ 1 \notin Bad
    BY <2>2, <2>4
  <2> QED
    BY <2>1, <2>5
<1> SUFFICES ASSUME NEW p \in Victims(node, r) PROVE proc[p].desc
  BY DEF r
<1>3. PICK u \in DOMAIN node :
          /\ p = u[1]
          /\ \E k \in 1 .. Len(Lineage(node, u)) :
                 Lineage(node, u)[k] = r /\ \A j \in 1 .. k : ~node[Lineage(node, u)[j]].dead
  BY Zenon DEF Victims
<1> QED
  BY <1>2, <1>3

-----------------------------------------------------------------------------
(* The kill.                                                               *)

TreeInv == IInv /\ RootInv /\ LifeInv /\ Bred /\ Before /\ Rooted /\ Line /\ MirrorInv

LEMMA TreeInit == ASSUME Steady, Init PROVE TreeInv
<1>1. PICK par \in Lineages :
        /\ proc = [p \in Pid |->
                      [inc |-> IF p \in Seeded THEN 1 ELSE 0,
                       state |-> IF p \in Seeded THEN "up" ELSE "none",
                       par |-> IF p \in Seeded /\ par[p] # NoPid THEN <<par[p], 1>> ELSE None,
                       desc |-> FALSE, group |-> FALSE, trusted |-> FALSE]]
        /\ ring \in {<<>>} \cup
                    {<<[type |-> "FORK", pid |-> p, inc |-> 1, ppid |-> par[p],
                        trusted |-> FALSE]>> : p \in {p \in Seeded : \A q \in Seeded : par[q] # p}}
        /\ node = [u \in Seeded \X {1} |->
                      [of |-> 1, par |-> IF par[u[1]] = NoPid THEN None ELSE <<par[u[1]], 1>>,
                       dead |-> FALSE, exempt |-> FALSE, supervised |-> FALSE,
                       risk |-> 0, peak |-> 0, badgePeak |-> 0]]
        /\ cur = [p \in Pid |-> IF p \in Seeded THEN 1 ELSE 0]
        /\ supRoots = {} /\ victims = {} /\ pc = "none"
  BY Zenon DEF Init
<1>2. IInv /\ RootInv /\ LifeInv /\ Seeded \subseteq Pid /\ RootPid \cap Seeded = {}
  BY InitIInv, InitLife, PidAssumption DEF Steady
<1>3. /\ par \in [Seeded -> Seeded \cup {NoPid}] /\ NoPid \notin Pid
      /\ \A p \in Seeded : par[p] # p
  <2>1. PICK rank \in [Seeded -> 1 .. Cardinality(Seeded)] :
            \A p \in Seeded : par[p] # NoPid => rank[par[p]] < rank[p]
    BY <1>1 DEF Lineages
  <2>2. par \in [Seeded -> Seeded \cup {NoPid}] /\ NoPid \notin Pid
    BY <1>1, PidAssumption DEF Lineages
  <2>3. IsFiniteSet(Seeded)
    BY <1>2, PidAssumption, FS_Subset
  <2>4. Cardinality(Seeded) \in Nat
    BY <2>3, FS_CardinalityType
  <2>5. \A p \in Seeded : p # NoPid /\ rank[p] \in Nat
    BY <1>2, <2>2, <2>4
  <2>6. \A p \in Seeded : ~(rank[p] < rank[p])
    BY <2>5
  <2> QED
    BY <2>1, <2>2, <2>5, <2>6
<1>4. \A p \in Pid : /\ proc[p].inc = IF p \in Seeded THEN 1 ELSE 0
                     /\ There(p) <=> p \in Seeded
                     /\ proc[p].state # "dying" /\ proc[p].desc = FALSE /\ proc[p].group = FALSE
                     /\ proc[p].par = IF p \in Seeded /\ par[p] # NoPid THEN <<par[p], 1>> ELSE None
  BY <1>1 DEF There
<1>0. \A p \in Seeded : par[p] # NoPid =>
        /\ par[p] \in Seeded /\ par[p] \in Pid /\ p \in Pid
        /\ proc[p].par = <<par[p], 1>> /\ proc[par[p]].inc = 1
        /\ proc[par[p]].desc = FALSE /\ There(par[p]) /\ proc[p].desc = FALSE
  <2> SUFFICES ASSUME NEW p \in Seeded, par[p] # NoPid
               PROVE  /\ par[p] \in Seeded /\ par[p] \in Pid /\ p \in Pid
                      /\ proc[p].par = <<par[p], 1>> /\ proc[par[p]].inc = 1
                      /\ proc[par[p]].desc = FALSE /\ There(par[p]) /\ proc[p].desc = FALSE
    OBVIOUS
  <2>1. par[p] \in Seeded
    BY <1>3
  <2>2. p \in Pid /\ par[p] \in Pid
    BY <1>2, <2>1
  <2>3. proc[p].par = <<par[p], 1>> /\ proc[p].desc = FALSE
    BY <1>4, <2>2
  <2> DEFINE q == par[p]
  <2>4. q \in Seeded /\ q \in Pid
    BY <2>1, <2>2
  <2> HIDE DEF q
  <2>5. proc[q].inc = 1 /\ proc[q].desc = FALSE /\ There(q)
    BY <1>4, <2>4
  <2> QED
    BY <2>1, <2>2, <2>3, <2>5 DEF q
<1>5. Bred /\ Before /\ Rooted
  <2>1. \A p \in Pid : proc[p].par # None =>
            LET k == proc[p].par
            IN /\ k[2] <= proc[k[1]].inc
               /\ k[2] = proc[k[1]].inc => (proc[p].desc <=> proc[k[1]].desc)
    <3> SUFFICES ASSUME NEW p \in Pid, proc[p].par # None
                 PROVE  LET k == proc[p].par
                        IN /\ k[2] <= proc[k[1]].inc
                           /\ k[2] = proc[k[1]].inc => (proc[p].desc <=> proc[k[1]].desc)
      OBVIOUS
    <3>1. p \in Seeded /\ par[p] # NoPid
      BY <1>4
    <3> DEFINE q == par[p]
    <3>2. /\ proc[p].par = <<q, 1>> /\ proc[q].inc = 1
          /\ proc[q].desc = FALSE /\ proc[p].desc = FALSE
      BY <1>0, <3>1
    <3> HIDE DEF q
    <3> QED
      BY <3>2
  <2>2. RootPid \subseteq Pid
    BY PidAssumption
  <2> QED
    BY <1>1, <1>2, <1>4, <2>1, <2>2 DEF Bred, Before, Rooted
<1>6. Line
  <2>1. CASE ring = <<>>
    BY <2>1 DEF Line
  <2>2. CASE ring # <<>>
    <3>1. PICK p \in Seeded : /\ \A q \in Seeded : par[q] # p
                              /\ ring = <<[type |-> "FORK", pid |-> p, inc |-> 1, ppid |-> par[p],
                                           trusted |-> FALSE]>>
      BY <1>1, <2>2
    <3>2. /\ Len(ring) = 1 /\ ring[1].type = "FORK" /\ ring[1].pid = p /\ ring[1].ppid = par[p]
          /\ ring[1].inc = 1
      BY <3>1
    <3>3. ASSUME par[p] # NoPid
          PROVE  /\ proc[p].par = <<par[p], proc[par[p]].inc>> /\ There(par[p])
                 /\ par[p] # p /\ Knows(par[p], 0)
      <4>1. par[p] \in Seeded /\ par[p] \in Pid /\ p \in Pid
        BY <1>2, <1>3, <3>3
      <4>2. ~Gone(Tree, par[p])
        <5>1. Node(par[p]) = <<par[p], 1>> /\ <<par[p], 1>> \in DOMAIN node
          BY <1>1, <4>1 DEF Node, Lookup
        <5>2. node[<<par[p], 1>>].dead = FALSE /\ <<par[p], 1>> # None
          BY <1>1, <5>1 DEF None
        <5> QED
          BY <5>1, <5>2, TreeNow DEF Gone
      <4>3. Knows(par[p], 0)
        BY <4>2 DEF Knows, Begun
      <4> QED
        BY <1>3, <1>4, <3>3, <4>1, <4>3
    <3>4. LineAt(1)
      <4>1. p \in Pid /\ proc[p].inc = 1 /\ proc[p].desc = FALSE
        BY <1>2, <1>4
      <4>2. ring[1].ppid = NoPid \/ (ring[1].ppid # NoPid /\ ring[1].ppid = par[p])
        BY <3>2
      <4> QED
        BY <1>3, <3>2, <3>3, <4>1, <4>2 DEF LineAt, Lasts
    <3> QED
      BY <3>2, <3>4 DEF Line
  <2> QED
    BY <2>1, <2>2
<1>7. MirrorInv
  <2>1. \A u \in DOMAIN node :
            /\ u[1] \in Seeded /\ u[1] \in Pid
            /\ node[u].of = 1 /\ node[u].supervised = FALSE
            /\ node[u].par = IF par[u[1]] = NoPid THEN None ELSE <<par[u[1]], 1>>
    BY <1>1, <1>2
  <2>2. Made(node, proc)
    <3> SUFFICES ASSUME NEW u \in DOMAIN node
                 PROVE  /\ node[u].of <= proc[u[1]].inc /\ node[u].of = proc[u[1]].inc
                        /\ node[u].par # None =>
                              proc[u[1]].par = <<node[u].par[1], proc[node[u].par[1]].inc>>
      BY DEF Made
    <3>1. node[u].of = 1 /\ proc[u[1]].inc = 1
      BY <1>4, <2>1
    <3>2. ASSUME node[u].par # None
          PROVE  proc[u[1]].par = <<node[u].par[1], proc[node[u].par[1]].inc>>
      <4>1. node[u].par = <<par[u[1]], 1>> /\ par[u[1]] \in Seeded /\ par[u[1]] # NoPid
        BY <1>3, <2>1, <3>2
      <4> DEFINE q == par[u[1]]
      <4>2. proc[u[1]].par = <<q, 1>> /\ proc[q].inc = 1
        BY <1>0, <2>1, <4>1
      <4>3. node[u].par = <<q, 1>>
        BY <4>1
      <4> HIDE DEF q
      <4> QED
        BY <4>2, <4>3
    <3> QED
      BY <3>1, <3>2
  <2>3. Marks(node, proc, Owned, {})
    BY <1>1, <2>1 DEF Marks, Owned
  <2> QED
    BY <2>2, <2>3 DEF MirrorInv, Mirrors, Within
<1> QED
  BY <1>2, <1>5, <1>6, <1>7 DEF TreeInv

LEMMA TreeKeeps == ASSUME Steady, TreeInv, [Next]_vars PROVE TreeInv'
<1>1. Settles /\ SuperInv
  BY DEF Steady, TreeInv, IInv
<1>2. IInv' /\ RootInv' /\ LifeInv'
  BY <1>1, NextKeeps, RootKeeps, LifeKeeps DEF TreeInv
<1>3. Bred' /\ Before'
  BY BredKeeps, VictimsDescend DEF TreeInv
<1>4. Rooted' /\ Line' /\ MirrorInv'
  BY <1>1, RootedKeeps, LineKeeps, MirrorKeeps DEF TreeInv
<1> QED
  BY <1>2, <1>3, <1>4 DEF TreeInv

LEMMA TreeAlways == ASSUME Steady PROVE Spec => []TreeInv
<1>1. Init => TreeInv
  BY TreeInit
<1>2. TreeInv /\ [Next]_vars => TreeInv'
  BY TreeKeeps
<1> QED
  BY <1>1, <1>2, PTL DEF Spec

\* If the ring loses nothing and no threads are reported, the launched program shares its pid
\* with nobody, before or after, and does not outlive the loop, and a pid is not used again while
\* its events or a signal are due: whatever synthesis, late FORKs, reuse, collection and purges
\* make of the tree, the kill of the supervised tree signals its processes and nobody else
\* (kill_supervised_tree).  With a lost event or a thread's FORK it may not.
THEOREM KillIsOfTheTree == ASSUME Steady PROVE Spec => []KillHitsTheTree
<1>1. TreeInv => KillHitsTheTree
  BY DEF TreeInv, Bred, KillHitsTheTree
<1> QED
  BY <1>1, TreeAlways, PTL

-----------------------------------------------------------------------------
(* Who is muted.                                                           *)

\* The processes whose FORK is still in the ring.
Unread == {p \in Pid : \E i \in 1 .. Len(ring) : ring[i].type = "FORK" /\ ring[i].pid = p}

Active == {"idle", "asked", "kill", "signal"}

\* The living nodes of the launched tree are under supervision, but for those of pids in R.
Muted(n, f, R) == \A u \in DOMAIN n : ~n[u].dead /\ f[u[1]].desc /\ u[1] \notin R => n[u].supervised

Kept(n, p) == \A u \in DOMAIN n : u[1] = p => ~n[u].dead

\* Until the launched program is registered there is nobody else in its tree; until its FORK is
\* read it will be found under supervision by whatever makes its node.
MuteInv ==
    /\ pc = "launched" => /\ Up(root) /\ \A p \in Pid : proc[p].desc => p = root
                          /\ root \in Unread => \A u \in DOMAIN node : u[1] # root
    /\ pc \in Active => /\ Muted(node, proc, Unread)
                        /\ root \in Unread => root \in supRoots /\ Kept(node, root)

LEMMA MutedTrims ==
    ASSUME NEW n, NEW m, NEW D, NEW P, Trims(n, m, D, P), NEW f, NEW R, Muted(n, f, R)
    PROVE  Muted(m, f, R)
  BY DEF Muted, Trims

LEMMA KeptTrims ==
    ASSUME NEW n, NEW m, NEW D, NEW P, Trims(n, m, D, P), NEW p, p \notin D, Kept(n, p)
    PROVE  Kept(m, p)
  BY DEF Kept, Trims

\* A node more, muted or of a process whose FORK is unread.
LEMMA MutedGrown ==
    ASSUME NEW t, NEW s, NEW p, NEW x, Grown(t, s, p, x), x.dead = FALSE, NEW R,
           x.supervised \/ p \in R, NEW f, Muted(t.node, f, R)
    PROVE  /\ Muted(s.node, f, R)
           /\ \A q : Kept(t.node, q) => Kept(s.node, q)
<1>1. \A v \in DOMAIN s.node :
          \/ v \in DOMAIN t.node /\ s.node[v] = t.node[v]
          \/ s.node[v] = x /\ v[1] = p
  BY DEF Grown
<1> QED
  BY <1>1 DEF Muted, Kept

\* Reading an event changes this for the process of a FORK only; one that remains unread comes
\* before all other events of its process.
LEMMA UnreadTail ==
    ASSUME IInv, Line, ring # <<>>, ring' = Tail(ring)
    PROVE  /\ Unread' \subseteq Unread /\ ring[1].pid \notin Unread'
           /\ \A p \in Unread : p \in Unread' \/ (ring[1].type = "FORK" /\ ring[1].pid = p)
<1>1. /\ ring \in Seq(Event) /\ Len(ring) \in Nat /\ Len(ring') = Len(ring) - 1
      /\ \A i \in 1 .. Len(ring) - 1 : ring'[i] = ring[i + 1]
      /\ 1 \in 1 .. Len(ring)
  BY DEF IInv, KernelInv
<1>2. ASSUME NEW p \in Unread' PROVE p \in Unread /\ ring[1].pid # p
  <2>1. PICK i \in 1 .. Len(ring) - 1 : ring'[i].type = "FORK" /\ ring'[i].pid = p
    BY <1>1 DEF Unread
  <2>2. /\ i + 1 \in 1 .. Len(ring) /\ 1 \in 1 .. (i + 1) - 1
        /\ ring[i + 1].type = "FORK" /\ ring[i + 1].pid = p
    BY <1>1, <2>1
  <2>3. p \in Unread
    <3>1. p \in Pid
      BY DEF Unread
    <3> QED
      BY <2>2, <3>1 DEF Unread
  <2>4. LineAt(i + 1)
    BY <2>2 DEF Line
  <2>5. \A j \in 1 .. (i + 1) - 1 : ring[j].pid # p
    BY <2>2, <2>4 DEF LineAt
  <2> QED
    BY <2>2, <2>3, <2>5
<1>3. ASSUME NEW p \in Unread, ~(ring[1].type = "FORK" /\ ring[1].pid = p) PROVE p \in Unread'
  <2>1. PICK i \in 1 .. Len(ring) : ring[i].type = "FORK" /\ ring[i].pid = p
    BY DEF Unread
  <2>2. i - 1 \in 1 .. Len(ring') /\ ring'[i - 1] = ring[i]
    <3>1. i # 1
      BY <1>3, <2>1
    <3>2. i - 1 \in 1 .. Len(ring) - 1 /\ (i - 1) + 1 = i
      BY <1>1, <3>1
    <3> QED
      BY <1>1, <3>2
  <2>3. p \in Pid
    BY DEF Unread
  <2> QED
    BY <2>1, <2>2, <2>3 DEF Unread
<1> QED
  BY <1>2, <1>3

LEMMA UnreadAppend ==
    ASSUME IInv, NEW e \in Event, ring' = Append(ring, e)
    PROVE  Unread' = IF e.type = "FORK" THEN Unread \cup {e.pid} ELSE Unread
<1>1. /\ Len(ring)' = Len(ring) + 1 /\ Len(ring) \in Nat
      /\ \A i \in 1 .. Len(ring) : ring'[i] = ring[i] /\ ring[i] \in Event
      /\ ring'[Len(ring) + 1] = e
  BY Longer
<1>2. e.pid \in Pid
  BY DEF Event
<1>3. ASSUME NEW p \in Unread' PROVE p \in Unread \/ (e.type = "FORK" /\ p = e.pid)
  <2>1. PICK i \in 1 .. Len(ring) + 1 : ring'[i].type = "FORK" /\ ring'[i].pid = p
    BY <1>1 DEF Unread
  <2>2. p \in Pid
    BY DEF Unread
  <2>3. CASE i = Len(ring) + 1
    BY <1>1, <2>1, <2>3
  <2>4. CASE i # Len(ring) + 1
    <3>1. i \in 1 .. Len(ring)
      BY <1>1, <2>4
    <3> QED
      BY <1>1, <2>1, <2>2, <3>1 DEF Unread
  <2> QED
    BY <2>3, <2>4
<1>4. ASSUME NEW p \in Unread PROVE p \in Unread'
  <2>1. PICK i \in 1 .. Len(ring) : ring[i].type = "FORK" /\ ring[i].pid = p
    BY DEF Unread
  <2>2. i \in 1 .. Len(ring)' /\ ring'[i] = ring[i] /\ p \in Pid
    BY <1>1 DEF Unread
  <2> QED
    BY <2>1, <2>2 DEF Unread
<1>5. ASSUME e.type = "FORK" PROVE e.pid \in Unread'
  <2>1. Len(ring) + 1 \in 1 .. Len(ring)'
    BY <1>1
  <2> QED
    BY <1>1, <1>2, <1>5, <2>1 DEF Unread
<1> QED
  BY <1>3, <1>4, <1>5


\* Whom an event names as it is read, when supervision is not over.
LEMMA HeadKnown ==
    ASSUME IInv, Bred, Line, ring # <<>>, pc # "done", NEW p, p = ring[1].pid, NEW q, q = ring[1].ppid
    PROVE  /\ p \in Pid
           /\ ring[1].type \in {"EXEC", "RISKY"} => Node(p) # None
           /\ ring[1].type = "FORK" /\ proc[p].desc /\ p # root =>
                  /\ q \in Pid /\ q # p /\ q \notin Unread /\ proc[q].desc
                  /\ Node(q) \in DOMAIN node /\ ~node[Node(q)].dead
<1>1. 1 \in 1 .. Len(ring) /\ ring[1] \in Event /\ Sound(Tree)
  BY DEF IInv, KernelInv
<1>2. p \in Pid /\ LineAt(1) /\ q \in Pid \cup {NoPid}
  BY <1>1 DEF Event, Line
<1>3. \A x : Knows(x, 0) => Node(x) # None /\ ~node[Node(x)].dead
  BY TreeNow DEF Knows, Begun, Gone
<1>4. ASSUME ring[1].type = "FORK", proc[p].desc, p # root
      PROVE  /\ q \in Pid /\ q # p /\ q \notin Unread /\ proc[q].desc
             /\ Node(q) \in DOMAIN node /\ ~node[Node(q)].dead
  <2>1. q # NoPid
    BY <1>2, <1>4 DEF LineAt
  <2>2. /\ proc[p].par = <<q, proc[q].inc>> /\ Knows(q, 0)
        /\ \A j \in 1 .. Len(ring) : ring[j].type = "FORK" => ring[j].pid # q
    BY <1>2, <1>4, <2>1 DEF LineAt
  <2>3. q \in Pid /\ q # p /\ q \notin Unread
    BY <1>1, <1>2, <1>4, <2>1, <2>2 DEF Unread
  <2>4. proc[q].desc
    BY <1>2, <1>4, <2>2, <2>3, OwnedAkin DEF Akin
  <2>5. Node(q) # None /\ ~node[Node(q)].dead
    BY <1>3, <2>2
  <2> QED
    BY <1>1, <2>3, <2>4, <2>5, LookupIn, TreeNow
<1>5. ring[1].type \in {"EXEC", "RISKY"} => Node(p) # None
  BY <1>2, <1>3 DEF LineAt
<1> QED
  BY <1>2, <1>4, <1>5

\* The FORK of a process of the tree finds its parent muted.
LEMMA MuteForks ==
    ASSUME IInv, Bred, Line, MuteInv, IngestFork
    PROVE  MuteInv'
<1>0. /\ pc' = pc /\ root' = root /\ proc' = proc /\ supRoots' = supRoots
      /\ ring # <<>> /\ ring' = Tail(ring) /\ Head(ring) = ring[1]
      /\ pc \in Active => pc # "done"
  <2>1. ring \in Seq(Event)
    BY DEF IInv, KernelInv
  <2> QED
    BY <2>1 DEF IngestFork, Took, supVars, Active
<1> DEFINE e == ring[1]
           p == e.pid
           q == e.ppid
<1>1. PICK t, s : Forks(t, s, e)
  BY <1>0, ForkIs
<1>2. e.type = "FORK" /\ p \in Pid
  BY <1>0, ForkIs DEF Event
<1> DEFINE i == Inherits(t, p, q)
           x == Blank(e.inc, Lookup(cur, q), e.trusted, i)
<1>3. /\ t.cur = cur /\ Gone(t, p) /\ Trims(node, t.node, {p}, {}) /\ DOMAIN t.node = DOMAIN node
      /\ Grown(t, s, p, x) /\ Trims(s.node, node', {}, {}) /\ DOMAIN node' = DOMAIN s.node
  BY <1>1 DEF Forks, Tree
<1>4. /\ Unread' \subseteq Unread /\ p \notin Unread'
      /\ \A y \in Unread : y \in Unread' \/ y = p
  BY <1>0, UnreadTail
<1>5. x.dead = FALSE /\ x.supervised = i
  BY DEF Blank
<1>6. ASSUME pc \in Active PROVE Muted(t.node, proc, Unread')
  <2> SUFFICES ASSUME NEW v \in DOMAIN t.node, ~t.node[v].dead, proc[v[1]].desc, v[1] \notin Unread'
               PROVE  t.node[v].supervised
    BY DEF Muted
  <2>1. v \in DOMAIN node /\ ~node[v].dead
    BY <1>3 DEF Trims
  <2>2. v = Lookup(cur, v[1])
    BY <2>1, TreeNow DEF IInv, Alone
  <2>3. v[1] # p
    <3>1. v # None
      BY <2>1 DEF IInv, Sound, Typed, Closed, Tree
    <3> QED
      BY <1>3, <2>2, <3>1 DEF Gone
  <2>4. v[1] \notin Unread
    BY <1>4, <2>3
  <2>5. node[v].supervised
    BY <1>6, <2>1, <2>4 DEF MuteInv, Muted
  <2> QED
    BY <1>3, <2>1, <2>5 DEF Trims
<1>7. ASSUME pc \in Active, proc[p].desc PROVE i
  <2>1. CASE p = root
    <3>1. root \in Unread
      <4>1. 1 \in 1 .. Len(ring)
        BY <1>0 DEF IInv, KernelInv
      <4> QED
        BY <1>2, <2>1, <4>1 DEF Unread
    <3>2. p \in supRoots
      BY <1>7, <2>1, <3>1 DEF MuteInv
    <3> QED
      BY <3>2 DEF Inherits
  <2>2. CASE p # root
    <3>1. /\ q \in Pid /\ q # p /\ q \notin Unread /\ proc[q].desc
          /\ Node(q) \in DOMAIN node /\ ~node[Node(q)].dead
      BY <1>0, <1>2, <1>7, <2>2, HeadKnown
    <3> DEFINE u == Lookup(cur, q)
    <3>2. u = Node(q) /\ u # None /\ u[1] = q
      <4>1. None \notin DOMAIN node
        BY TreeNow DEF IInv, Sound, Typed, Closed
      <4>2. u # None
        BY <3>1, <4>1 DEF Node
      <4> QED
        BY <4>2 DEF Node, Lookup
    <3>3. node[u].supervised
      BY <1>7, <3>1, <3>2 DEF MuteInv, Muted
    <3>4. t.node[u].supervised
      BY <1>3, <3>1, <3>2, <3>3 DEF Trims
    <3> QED
      BY <1>3, <3>2, <3>4 DEF Inherits
  <2> QED
    BY <2>1, <2>2
<1> HIDE DEF x, i, e
<1>8. ASSUME pc \in Active PROVE Muted(node', proc, Unread')
  <2>1. \A v \in DOMAIN s.node : \/ v \in DOMAIN t.node /\ s.node[v] = t.node[v]
                                 \/ s.node[v] = x /\ v[1] = p
    BY <1>3 DEF Grown
  <2>2. Muted(t.node, proc, Unread')
    BY <1>6, <1>8
  <2>3. Muted(s.node, proc, Unread')
    BY <1>5, <1>7, <1>8, <2>1, <2>2 DEF Muted
  <2> QED
    BY <1>3, <2>3, MutedTrims
<1>9. ASSUME root \in Unread', pc \in Active PROVE root \in supRoots /\ Kept(node', root)
  <2>1. root \in supRoots /\ Kept(node, root) /\ root # p
    BY <1>4, <1>9 DEF MuteInv
  <2>2. Kept(t.node, root)
    BY <1>3, <2>1, KeptTrims
  <2>3. \A v \in DOMAIN s.node : \/ v \in DOMAIN t.node /\ s.node[v] = t.node[v]
                                 \/ v[1] = p
    BY <1>3 DEF Grown
  <2>4. Kept(s.node, root)
    BY <2>1, <2>2, <2>3 DEF Kept
  <2> QED
    BY <1>3, <2>1, <2>4, KeptTrims
<1>10. ASSUME root \in Unread', pc = "launched" PROVE \A u \in DOMAIN node' : u[1] # root
  <2>1. root # p /\ \A u \in DOMAIN node : u[1] # root
    BY <1>4, <1>10 DEF MuteInv
  <2>2. \A v \in DOMAIN node' : v \in DOMAIN node \/ v[1] = p
    BY <1>3 DEF Grown
  <2> QED
    BY <2>1, <2>2
<1>11. pc = "launched" => Up(root) /\ \A y \in Pid : proc[y].desc => y = root
  BY DEF MuteInv
<1> QED
  BY <1>0, <1>8, <1>9, <1>10, <1>11 DEF MuteInv, Up

\* A step that makes no node and reads no FORK.
LEMMA MuteTrims ==
    ASSUME MuteInv, NEW D, NEW P, Trims(node, node', D, P), proc' = proc, root' = root,
           pc' \in Active => pc \in Active, pc' = "launched" => pc = "launched",
           Unread' \subseteq Unread, \A p \in Unread : p \in Unread' \/ pc' \notin Active,
           root \in Unread' /\ pc' \in Active => root \notin D /\ (root \in supRoots => root \in supRoots')
    PROVE  MuteInv'
<1>1. ASSUME pc' = "launched"
      PROVE  /\ Up(root) /\ \A p \in Pid : proc[p].desc => p = root
             /\ root \in Unread' => \A u \in DOMAIN node' : u[1] # root
  BY <1>1 DEF MuteInv, Trims
<1>2. ASSUME pc' \in Active
      PROVE  /\ Muted(node', proc, Unread')
             /\ root \in Unread' => root \in supRoots' /\ Kept(node', root)
  <2>1. Unread' = Unread /\ pc \in Active /\ Muted(node, proc, Unread)
    BY <1>2 DEF MuteInv
  <2>2. Muted(node', proc, Unread)
    BY <2>1, MutedTrims
  <2>3. ASSUME root \in Unread PROVE root \in supRoots' /\ Kept(node', root)
    <3>1. root \in supRoots /\ Kept(node, root) /\ root \notin D
      BY <1>2, <2>1, <2>3 DEF MuteInv
    <3> QED
      BY <1>2, <2>1, <2>3, <3>1, KeptTrims
  <2> QED
    BY <2>1, <2>2, <2>3
<1> QED
  BY <1>1, <1>2 DEF MuteInv, Up


LEMMA MuteReads ==
    ASSUME IInv, Bred, Line, MuteInv, Poller
    PROVE  MuteInv'
<1>1. CASE IngestFork
  BY <1>1, MuteForks
<1>2. CASE IngestExit \/ IngestScored
  <2>0. /\ pc' = pc /\ root' = root /\ proc' = proc
        /\ ring # <<>> /\ ring' = Tail(ring) /\ Head(ring) = ring[1] /\ ring[1].type # "FORK"
    <3>1. ring \in Seq(Event)
      BY DEF IInv, KernelInv
    <3>2. CASE IngestExit
      BY <3>1, <3>2 DEF IngestExit, Took, supVars
    <3>3. CASE IngestScored
      <4>1. Head(ring).type \in {"EXEC", "RISKY"} /\ Took(Head(ring).type)
        BY <3>3 DEF IngestScored
      <4>2. /\ ring # <<>> /\ ring' = Tail(ring) /\ pc' = pc /\ root' = root /\ proc' = proc
        BY <4>1 DEF Took, supVars
      <4> QED
        BY <3>1, <4>1, <4>2
    <3> QED
      BY <1>2, <3>2, <3>3
  <2> DEFINE p == ring[1].pid
  <2>1. Unread' = Unread /\ p \notin Unread'
    <3>1. Unread' \subseteq Unread /\ p \notin Unread' /\ \A y \in Unread : y \in Unread'
      BY <2>0, UnreadTail
    <3> QED
      BY <3>1
  <2>2. CASE IngestExit
    <3>1. Trims(node, node', {p}, {})
      BY <2>0, <2>2, ExitIs
    <3>2. supRoots' = supRoots \/ supRoots' = supRoots \ {p}
      BY <2>0, <2>2 DEF IngestExit
    <3> HIDE DEF p
    <3>3. root \in Unread' => root \notin {p} /\ (root \in supRoots => root \in supRoots')
      BY <2>1, <3>2
    <3> QED
      BY <2>0, <2>1, <3>1, <3>3, MuteTrims
  <2>3. CASE IngestScored
    <3>1. CASE pc = "done"
      BY <2>0, <3>1 DEF MuteInv, Active
    <3>2. CASE pc # "done"
      <4>1. PICK s : Scores(s, ring[1])
        BY <2>0, <2>3, ScoredIs
      <4>2. Node(p) # None
        <5>1. ring[1].type \in {"EXEC", "RISKY"}
          BY <2>0, <2>3, ScoredIs
        <5> QED
          BY <2>0, <3>2, <5>1, HeadKnown
      <4>3. Trims(node, node', {}, {})
        BY <4>1, <4>2, TreeNow DEF Scores
      <4>4. supRoots' = supRoots
        BY <2>3 DEF IngestScored
      <4> QED
        BY <2>0, <2>1, <4>3, <4>4, MuteTrims
    <3> QED
      BY <3>1, <3>2
  <2> QED
    BY <1>2, <2>2, <2>3
<1> QED
  BY <1>1, <1>2 DEF Poller

\* Synthesis makes a node that is not muted only before the FORK is read.
LEMMA MutePredicts ==
    ASSUME IInv, LifeInv, MuteInv, NEW p \in Pid, Predict(p)
    PROVE  MuteInv'
<1>1. PICK t : /\ Sound(t) /\ ((Node(p) # None /\ t = Tree) \/ Synths(Tree, t, p, p \in supRoots))
               /\ Tree' = t \/ \E c \in supRoots : There(c) /\ Synths(t, Tree', c, TRUE)
  BY PredictIs
<1>2. /\ pc = "idle" /\ pc' = "asked" /\ Up(p) /\ UNCHANGED <<proc, ring, supRoots, root>>
      /\ Tree.node = node /\ Tree'.node = node'
  BY DEF Predict, Tree
<1> DEFINE R == Unread
<1>3. Muted(Tree.node, proc, R) /\ (root \in R => root \in supRoots /\ Kept(Tree.node, root))
  BY <1>2 DEF MuteInv, Active
<1>4. ASSUME Synths(Tree, t, p, p \in supRoots)
      PROVE  Muted(t.node, proc, R) /\ (root \in R => root \in supRoots /\ Kept(t.node, root))
  <2> DEFINE b == p \in supRoots
  <2>1. PICK exempt \in BOOLEAN :
            Grown(Tree, t, p, Blank(proc[p].inc, Lookup(Tree.cur, Ppid(p)), exempt, b))
    BY <1>4 DEF Synths
  <2>2. p \in R
    <3>1. Begun(ring, Tree, p, Len(ring)) /\ Gone(Tree, p)
      BY <1>2, <1>4 DEF LifeInv, Synths, Gone
    <3> QED
      BY <3>1 DEF Begun, Unread
  <2> DEFINE x == Blank(proc[p].inc, Lookup(Tree.cur, Ppid(p)), exempt, b)
  <2>3. x.dead = FALSE /\ Grown(Tree, t, p, x)
    BY <2>1 DEF Blank
  <2> HIDE DEF x, R
  <2>4. Muted(t.node, proc, R) /\ \A q : Kept(Tree.node, q) => Kept(t.node, q)
    BY <1>3, <2>2, <2>3, MutedGrown
  <2> QED
    BY <1>3, <2>4
<1>5. Muted(t.node, proc, R) /\ (root \in R => root \in supRoots /\ Kept(t.node, root))
  BY <1>1, <1>3, <1>4
<1>6. ASSUME NEW c \in supRoots, Synths(t, Tree', c, TRUE)
      PROVE  Muted(Tree'.node, proc, R) /\ (root \in R => root \in supRoots /\ Kept(Tree'.node, root))
  <2>1. PICK exempt \in BOOLEAN :
            Grown(t, Tree', c, Blank(proc[c].inc, Lookup(t.cur, Ppid(c)), exempt, TRUE))
    BY <1>6 DEF Synths
  <2> DEFINE x == Blank(proc[c].inc, Lookup(t.cur, Ppid(c)), exempt, TRUE)
  <2>2. x.dead = FALSE /\ x.supervised /\ Grown(t, Tree', c, x)
    BY <2>1 DEF Blank
  <2> HIDE DEF x, R
  <2>3. PICK s : s = Tree'
    OBVIOUS
  <2>4. Muted(s.node, proc, R) /\ \A q : Kept(t.node, q) => Kept(s.node, q)
    BY <1>5, <2>2, <2>3, MutedGrown
  <2> QED
    BY <1>5, <2>3, <2>4
<1>7. Muted(node', proc, R) /\ (root \in R => root \in supRoots /\ Kept(node', root))
  BY <1>1, <1>2, <1>5, <1>6
<1>8. Unread' = R
  BY <1>2 DEF Unread
<1> HIDE DEF R
<1> QED
  BY <1>2, <1>7, <1>8 DEF MuteInv

LEMMA MuteComes ==
    ASSUME IInv, RootInv, Before, MirrorInv, MuteInv, EarlyFork = FALSE, NEW q \in Pid,
           NEW e \in Event, Comes(q, e),
           (\E p \in Pid : Child(p, q, e)) \/ Stray(q, e) \/ Launched(q, e)
    PROVE  MuteInv'
<1>1. /\ node' = node /\ supRoots' = supRoots /\ \A p \in Pid \ {q} : proc'[p] = proc[p]
      /\ proc'[q].state = "up" /\ Unread' = Unread \cup {q}
  <2>1. ring' = Append(ring, e) /\ e.type = "FORK" /\ e.pid = q
    BY DEF Comes
  <2> QED
    BY <2>1, UnreadAppend DEF Comes, Tree
<1>2. CASE Launched(q, e)
  <2>1. pc = "none" /\ pc' = "launched" /\ root' = q /\ q \in RootPid
    BY <1>2 DEF Launched
  <2>2. \A p \in Pid : proc'[p].desc => p = q
    BY <1>1, <2>1 DEF Before
  <2>3. ASSUME NEW u \in DOMAIN node PROVE u[1] # q
    <3>1. node[u].of \in 1 .. MaxInc /\ u[1] \in Pid
      BY TreeNow DEF IInv, Sound, Typed, PNode, Uid
    <3>2. node[u].of <= proc[u[1]].inc
      BY DEF MirrorInv, Mirrors, Made
    <3>3. proc[q].inc = 0
      BY <2>1 DEF Before
    <3> QED
      BY <3>1, <3>2, <3>3, BoundsAssumption
  <2> QED
    BY <1>1, <2>1, <2>2, <2>3 DEF MuteInv, Up, Active
<1>3. CASE (\E p \in Pid : Child(p, q, e)) \/ Stray(q, e)
  <2>1. pc' = pc /\ root' = root /\ q \notin RootPid
    BY <1>3 DEF Child, Stray, supVars
  <2>2. pc \in Active \cup {"launched"} => root # q /\ root \in Pid
    BY <2>1 DEF RootInv, IInv, SuperInv, Active
  <2>3. pc = "launched" => ~proc'[q].desc
    <3>1. ASSUME NEW p \in Pid, Child(p, q, e), pc = "launched" PROVE ~proc'[q].desc
      BY <3>1 DEF Child
    <3> QED
      BY <1>3, <3>1 DEF Stray
  <2>4. ASSUME pc = "launched"
        PROVE  /\ Up(root)' /\ \A p \in Pid : proc'[p].desc => p = root
               /\ root \in Unread' => \A u \in DOMAIN node' : u[1] # root
    BY <1>1, <2>1, <2>2, <2>3, <2>4 DEF MuteInv, Up
  <2>5. ASSUME pc \in Active
        PROVE  /\ Muted(node', proc', Unread')
               /\ root \in Unread' => root \in supRoots' /\ Kept(node', root)
    <3>1. \A u \in DOMAIN node : u[1] \in Pid
      BY TreeNow DEF IInv, Sound, Typed, Uid
    <3>2. Muted(node, proc, Unread)
      BY <2>5 DEF MuteInv
    <3>3. PICK f, R : f = proc' /\ R = Unread'
      OBVIOUS
    <3>4. Muted(node, f, R)
      BY <1>1, <3>1, <3>2, <3>3 DEF Muted
    <3>5. root \in Unread' => root \in supRoots' /\ Kept(node', root)
      BY <1>1, <2>2, <2>5 DEF MuteInv
    <3> QED
      BY <1>1, <3>3, <3>4, <3>5
  <2> QED
    BY <2>1, <2>4, <2>5 DEF MuteInv
<1> QED
  BY <1>2, <1>3


\* What erasing takes from the roots of supervision.
LEMMA CollectsRoots ==
    ASSUME IInv, Tick \/ Purge, NEW p, Kept(node, p), p \in supRoots
    PROVE  p \in supRoots'
<1>1. PICK S : S \in SUBSET DOMAIN node /\ supRoots' = supRoots \ {u[1] : u \in S}
               /\ \A u \in S : node[u].dead
  <2>1. CASE Tick
    <3>1. PICK n, S, us : Ticked(n, S, us)
      BY <2>1, TickIs
    <3> QED
      BY <3>1 DEF Ticked, Rescored, Collectable, Erase
  <2>2. CASE Purge
    <3> DEFINE S == {u \in DOMAIN node : node[u].dead /\ ~LiveChild(node, u) /\ ~Forensic(node[u])}
    <3>1. S \in SUBSET DOMAIN node /\ Erase(node, S) /\ \A u \in S : node[u].dead
      BY <2>2 DEF Purge
    <3> HIDE DEF S
    <3> QED
      BY <3>1 DEF Erase
  <2> QED
    BY <2>1, <2>2
<1> QED
  BY <1>1 DEF Kept

LEMMA MuteKeeps ==
    ASSUME Steady, EarlyFork = FALSE, TreeInv, MuteInv, [Next]_vars
    PROVE  MuteInv'
<1>0. /\ Settles /\ SlowReuse /\ IInv /\ RootInv /\ LifeInv /\ Bred /\ Before /\ Line /\ MirrorInv
      /\ Sound(Tree) /\ Alone(Tree)
  BY DEF Steady, TreeInv, IInv
<1>1. CASE Poller
  BY <1>0, <1>1, MuteReads
<1>2. CASE Kernel
  <2>1. PICK q \in Pid, e \in Event :
               \/ Comes(q, e) /\ \E p \in Pid : Child(p, q, e)
               \/ Comes(q, e) /\ Stray(q, e)
               \/ Says(q, e)
    BY <1>0, <1>2, KernelIs
  <2>2. CASE Says(q, e)
    <3>1. /\ pc' = pc /\ root' = root /\ supRoots' = supRoots /\ node' = node /\ Unread' = Unread
      BY <1>0, <2>2, UnreadAppend DEF Says, Tree, supVars
    <3>2. \A p \in Pid : proc'[p].desc <=> proc[p].desc
      BY <2>2 DEF Says, SameProc
    <3>3. ASSUME pc = "launched" PROVE Up(root)'
      <4>1. Up(root) /\ root \in Pid /\ proc[root].desc
        BY <1>0, <3>3 DEF MuteInv, IInv, SuperInv, Bred
      <4>2. e.type # "EXIT" \/ q # root
        BY <2>2, <3>3, <4>1 DEF Says
      <4>3. proc'[root].state = proc[root].state
        BY <2>2, <4>1, <4>2 DEF Says
      <4> QED
        BY <3>1, <4>1, <4>3 DEF Up
    <3>4. \A u \in DOMAIN node : u[1] \in Pid
      BY <1>0, TreeNow DEF Sound, Typed, Uid
    <3>5. PICK f, R : f = proc' /\ R = Unread'
      OBVIOUS
    <3>6. Muted(node, proc, R) => Muted(node, f, R)
      BY <3>2, <3>4, <3>5 DEF Muted
    <3> QED
      BY <3>1, <3>2, <3>3, <3>5, <3>6 DEF MuteInv
  <2> QED
    BY <1>0, <2>1, <2>2, MuteComes
<1>3. ASSUME NEW q \in Pid, Launch(q) PROVE MuteInv'
  BY <1>0, <1>3, LaunchIs, MuteComes
<1>4. CASE Tick \/ Purge
  <2>1. proc' = proc /\ ring' = ring /\ pc' = pc /\ root' = root
    BY <1>4 DEF Tick, Purge, supVars
  <2>2. Unread' = Unread
    BY <2>1 DEF Unread
  <2>3. ASSUME pc' \in Active, root \in Unread', root \in supRoots PROVE root \in supRoots'
    <3>1. Kept(node, root)
      BY <2>1, <2>2, <2>3 DEF MuteInv
    <3> QED
      BY <1>0, <1>4, <2>3, <3>1, CollectsRoots
  <2> QED
    BY <1>0, <1>4, <2>1, <2>2, <2>3, CollectsIs, MuteTrims
<1>5. CASE Register
  <2>1. /\ pc = "launched" /\ pc' = "idle" /\ supRoots' = supRoots \cup {root}
        /\ UNCHANGED <<proc, ring, root>>
    BY <1>5 DEF Register
  <2>2. Trims(node, node', {}, {root})
        /\ (Node(root) # None => Node(root) \in DOMAIN node' /\ node'[Node(root)].supervised)
    BY <1>0, <1>5, RegisterIs
  <2>3. Unread' = Unread
    BY <2>1 DEF Unread
  <2>4. Muted(node', proc, Unread)
    <3> SUFFICES ASSUME NEW u \in DOMAIN node', ~node'[u].dead, proc[u[1]].desc
                 PROVE  node'[u].supervised
      BY DEF Muted
    <3>1. u \in DOMAIN node /\ ~node[u].dead
      BY <2>2 DEF Trims
    <3>2. u[1] \in Pid /\ u = Node(u[1]) /\ u # None
      BY <1>0, <3>1, TreeNow DEF Sound, Typed, Uid, Closed, Alone
    <3>3. u[1] = root
      BY <2>1, <3>2 DEF MuteInv
    <3> QED
      BY <2>2, <3>2, <3>3
  <2>5. root \in Unread => Kept(node', root)
    BY <2>1, <2>2 DEF MuteInv, Trims, Kept
  <2> QED
    BY <2>1, <2>3, <2>4, <2>5 DEF MuteInv
<1>6. CASE Allow
  <2>1. UNCHANGED <<proc, ring, supRoots, root>> /\ pc = "asked" /\ pc' = "idle"
    BY <1>6 DEF Allow, Answered
  <2>2. Unread' = Unread
    BY <2>1 DEF Unread
  <2>3. pc' \in Active /\ pc \in Active /\ pc' # "launched"
    BY <2>1 DEF Active
  <2> QED
    BY <1>0, <1>6, <2>1, <2>2, <2>3, AllowIs, MuteTrims
<1>7. CASE \E p \in Pid : Predict(p)
  BY <1>0, <1>7, MutePredicts
<1>8. CASE Refuse \/ Kill \/ Collect
  <2>1. /\ UNCHANGED <<proc, ring, node, supRoots, root>>
        /\ pc \in Active /\ pc' \in Active /\ pc' # "launched"
    BY <1>8 DEF Refuse, Kill, Collect, Answered, Active, treeVars
  <2>2. Unread' = Unread
    BY <2>1 DEF Unread
  <2> QED
    BY <2>1, <2>2, TrimsSelf, MuteTrims
<1>9. CASE \E p \in Pid : Signal(p)
  <2>1. PICK p \in Pid : Signal(p)
    BY <1>9
  <2>2. /\ UNCHANGED <<ring, node, supRoots, root, pc>> /\ pc = "signal"
    BY <2>1 DEF Signal, treeVars
  <2>3. \A q \in Pid : proc'[q].desc <=> proc[q].desc
    BY <1>0, <2>1 DEF Signal, IInv, KernelInv
  <2>4. \A u \in DOMAIN node : u[1] \in Pid
    BY <1>0, TreeNow DEF Sound, Typed, Uid
  <2>5. Unread' = Unread
    BY <2>2 DEF Unread
  <2>6. PICK f : f = proc'
    OBVIOUS
  <2>7. Muted(node, proc, Unread) => Muted(node, f, Unread)
    BY <2>3, <2>4, <2>6 DEF Muted
  <2> QED
    BY <2>2, <2>5, <2>6, <2>7 DEF MuteInv
<1>10. CASE SignalGroup \/ LoopEnds \/ Unregister \/ MarkDead
  BY <1>10 DEF SignalGroup, LoopEnds, Unregister, MarkDead, MuteInv, Active
<1>11. CASE UNCHANGED vars
  <2>1. UNCHANGED <<proc, ring, node, supRoots, root, pc>>
    BY <1>11 DEF vars, treeVars, supVars
  <2>2. Unread' = Unread
    BY <2>1 DEF Unread
  <2> QED
    BY <2>1, <2>2, TrimsSelf, MuteTrims
<1> QED
  BY <1>1, <1>2, <1>3, <1>4, <1>5, <1>6, <1>7, <1>8, <1>9, <1>10, <1>11 DEF Next, Supervise

-----------------------------------------------------------------------------
(* The launched tree is muted and nothing else.                            *)

\* Supervision is inherited up the parent pointers no further than the tree's nodes reach.
LEMMA OnlyTree ==
    ASSUME IInv, Rooted, MirrorInv
    PROVE  OnlyTreeIsMuted
<1>1. Typed(node) /\ Sound(Tree)
  BY TreeNow DEF IInv, Sound
<1>2. PICK M : Marks(node, proc, Owned, M)
  BY DEF MirrorInv, Mirrors, Within
<1>3. supRoots \subseteq Owned
  BY DEF Rooted, Owned
<1>4. ASSUME NEW u \in DOMAIN node, Supervised(node, u) PROVE u \in M
  <2> DEFINE l == Lineage(node, u)
             N == Len(l)
  <2>1. /\ l \in Seq(DOMAIN node) /\ N \in 1 .. Cardinality(Uid) /\ l[1] = u
        /\ DOMAIN l = 1 .. N
        /\ \A j \in 1 .. N : l[j] = Chain(node, u)[j]
        /\ Cardinality(Uid) \in Nat
    BY <1>1, LineageSeq, UidFinite DEF Typed
  <2>2. PICK k \in 1 .. N : node[l[k]].supervised \/ l[k][1] \in supRoots
    BY <1>4, <2>1 DEF Supervised, Ancestry
  <2> DEFINE In == {j \in 1 .. N : l[j] \in M}
  <2>3. k \in In
    BY <1>2, <1>3, <2>1, <2>2 DEF Marks
  <2>4. PICK j \in In : \A y \in In : j <= y
    <3>1. In \subseteq Nat /\ In # {}
      BY <2>1, <2>3
    <3> HIDE DEF In
    <3> QED
      BY <3>1, LeastNat
  <2>5. j \in 1 .. N /\ l[j] \in M
    BY <2>4
  <2>6. ASSUME j # 1 PROVE FALSE
    <3>1. /\ j - 1 \in 1 .. N /\ j \in 1 .. Cardinality(Uid) /\ j - 1 \in Int /\ j \in Int
          /\ ~(j <= j - 1)
      BY <2>1, <2>5, <2>6
    <3>2. /\ l[j - 1] = Chain(node, u)[j - 1] /\ l[j] = Chain(node, u)[j]
          /\ l[j - 1] \in DOMAIN node /\ l[j - 1] # None /\ l[j] \in DOMAIN node /\ l[j] # None
      <4>1. l[j - 1] \in DOMAIN node /\ l[j] \in DOMAIN node
        BY <2>1, <2>5, <3>1
      <4> QED
        BY <1>1, <2>1, <2>5, <3>1, <4>1 DEF Typed, Closed
    <3>3. l[j] = node[l[j - 1]].par
      <4>1. Chain(node, u)[j] = node[Chain(node, u)[j - 1]].par
        BY <2>6, <3>1, <3>2, ChainAt
      <4> QED
        BY <3>2, <4>1
    <3>4. l[j - 1] \in M
      BY <1>2, <2>5, <3>2, <3>3 DEF Marks
    <3>5. j - 1 \in In
      BY <3>1, <3>4
    <3> HIDE DEF In
    <3> QED
      BY <2>4, <3>1, <3>5
  <2> QED
    BY <2>1, <2>5, <2>6
<1> SUFFICES ASSUME NEW p \in Pid, Followed(p), Supervised(node, Node(p)) PROVE proc[p].desc
  BY DEF OnlyTreeIsMuted
<1>5. /\ Node(p) \in DOMAIN node /\ Node(p)[1] = p /\ node[Node(p)].of = proc[p].inc
  <2>1. Node(p) # None /\ node[Node(p)].of = proc[p].inc
    BY DEF Followed
  <2>2. Node(p)[1] = p
    BY <2>1 DEF Node, Lookup
  <2> QED
    BY <1>1, <2>1, <2>2, LookupIn, TreeNow
<1> QED
  BY <1>2, <1>4, <1>5 DEF Marks

LEMMA WholeTree ==
    ASSUME IInv, LifeInv, MuteInv
    PROVE  MutedTree
<1> SUFFICES ASSUME NEW p \in Pid, Up(p), proc[p].desc, Followed(p), pc \in Active
             PROVE  Supervised(node, Node(p))
  BY DEF MutedTree, Active
<1>1. Typed(node) /\ Sound(Tree)
  BY TreeNow DEF IInv, Sound
<1>2. p \notin Unread
  BY DEF Followed, Unread
<1>3. ~Gone(Tree, p)
  <2>1. Begun(ring, Tree, p, Len(ring))
    BY DEF LifeInv
  <2> QED
    BY <1>2, <2>1 DEF Begun, Unread
<1> DEFINE u == Node(p)
<1>4. u \in DOMAIN node /\ u[1] = p /\ ~node[u].dead
  <2>1. u # None /\ ~node[u].dead
    BY <1>3, TreeNow DEF Gone
  <2>2. u[1] = p
    BY <2>1 DEF Node, Lookup
  <2> QED
    BY <1>1, <2>1, <2>2, LookupIn, TreeNow
<1> HIDE DEF u
<1>5. node[u].supervised
  BY <1>2, <1>4 DEF MuteInv, Muted
<1>6. u \in Ancestry(node, u)
  <2>1. /\ Lineage(node, u)[1] = u /\ 1 \in DOMAIN Lineage(node, u)
    BY <1>1, <1>4, LineageSeq DEF Typed
  <2> QED
    BY <2>1 DEF Ancestry
<1> QED
  BY <1>5, <1>6 DEF Supervised, u

LEMMA MuteAlways == ASSUME Steady, EarlyFork = FALSE PROVE Spec => [](TreeInv /\ MuteInv)
<1>1. Init => TreeInv /\ MuteInv
  <2>1. Init => pc = "none"
    BY DEF Init
  <2> QED
    BY <2>1, TreeInit DEF MuteInv, Active
<1>2. TreeInv /\ MuteInv /\ [Next]_vars => (TreeInv /\ MuteInv)'
  BY TreeKeeps, MuteKeeps
<1> QED
  BY <1>1, <1>2, PTL DEF Spec

\* Under the hypotheses of KillIsOfTheTree - no lost events, no threads, a pid of the root's own,
\* no outliving the loop, slow reuse - and if the launched program does not fork before it is
\* registered: of the processes the tracker has caught up with, those of the launched tree are
\* muted while it is supervised and no others ever are.  Inheriting from the parent's node,
\* synthesis and the roots of supervision agree with the kernel's tree, whatever ended or was
\* collected above (fork_node, predict_for_syscall, node_is_supervised).
THEOREM TreeIsMuted == ASSUME Steady, EarlyFork = FALSE PROVE Spec => []ExactlyTreeIsMuted
<1>1. TreeInv /\ MuteInv => ExactlyTreeIsMuted
  BY OnlyTree, WholeTree DEF TreeInv, ExactlyTreeIsMuted
<1> QED
  BY <1>1, MuteAlways, PTL
=============================================================================
