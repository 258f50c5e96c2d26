---------------------------- MODULE SectionsProofs ----------------------------
(***************************************************************************)
(* What Store does to a network: it stays one, and the parts an edit is    *)
(* not about stay as they are.                                             *)
(***************************************************************************)
EXTENDS Sections, FiniteSetTheorems, SequenceTheorems, WellFoundedInduction, TLAPS

(* A set of naturals has a least element. *)
LEMMA Least ==
  ASSUME NEW T, \A n \in T : n \in Nat, T # {}
  PROVE  \E n \in T : \A m \in T : n <= m
<1>1. \A x, y \in Nat : x < y => <<x, y>> \in OpToRel(<, Nat)
  BY DEF OpToRel
<1> DEFINE R == OpToRel(<, Nat)
<1>2. IsWellFoundedOn(R, Nat)
  BY NatLessThanWellFounded
<1>3. \A x, y \in Nat : x < y => <<x, y>> \in R
  BY <1>1
<1> HIDE DEF R
<1>4. T \subseteq Nat
  OBVIOUS
<1>5. PICK x \in T : \A y \in T : <<y, x>> \notin R
  BY <1>2, <1>4, WFMin
<1>6. ASSUME NEW y \in T PROVE x <= y
  <2>1. x \in Nat /\ y \in Nat
    BY <1>4
  <2>2. ~ (y < x)
    BY <2>1, <1>3, <1>5
  <2> QED BY <2>1, <2>2
<1> QED BY <1>6

(* Induction up to a bound: otherwise there is a least counterexample. *)
LEMMA UpTo ==
  ASSUME NEW N \in Nat, NEW Good, 0 \in Good,
         \A n \in 0..N : n # 0 /\ n - 1 \in Good => n \in Good
  PROVE  0..N \subseteq Good
<1> SUFFICES ASSUME (0..N) \ Good # {} PROVE FALSE
  OBVIOUS
<1>1. \A n \in (0..N) \ Good : n \in Nat
  OBVIOUS
<1>2. PICK n \in (0..N) \ Good : \A m \in (0..N) \ Good : n <= m
  BY <1>1, Least
<1>3. n \in Nat /\ n # 0 /\ n - 1 \in 0..N
  BY <1>2
<1>4. n - 1 \in Good
  BY <1>2, <1>3
<1> QED BY <1>2, <1>3, <1>4

(* Min, which the places of a sequence are found with, is that element. *)
LEMMA LeastIs ==
  ASSUME NEW T, \A n \in T : n \in Nat, T # {}
  PROVE  Min(T) \in T /\ \A n \in T : Min(T) <= n
BY Least DEF Min

--------------------------------------------------------------------------
(* The sequences of a network. *)

(* A sequence over its own elements has them at its places. *)
LEMMA Places ==
  ASSUME NEW s, s \in Seq(ToSet(s))
  PROVE  /\ Len(s) \in Nat /\ DOMAIN s = 1..Len(s)
         /\ \A k \in DOMAIN s : s[k] \in ToSet(s)
         /\ \A x : x \in ToSet(s) <=> \E k \in DOMAIN s : s[k] = x
BY DEF ToSet

(* find gives the first interface of a name. *)
LEMMA FoundIs ==
  ASSUME NEW f, IfacesType(f), NEW n
  PROVE  \/ Found(f, n) = 0 /\ \A k \in DOMAIN f : f[k].name # n
         \/ /\ Found(f, n) \in DOMAIN f /\ Found(f, n) # 0 /\ f[Found(f, n)].name = n
            /\ \A k \in DOMAIN f : f[k].name = n => Found(f, n) <= k
<1>1. Len(f) \in Nat /\ DOMAIN f = 1..Len(f)
  BY Places DEF IfacesType
<1> DEFINE I == {k \in 1..Len(f) : f[k].name = n}
<1>2. Found(f, n) = IF I # {} THEN Min(I) ELSE 0
  BY DEF Found, SelectInSeq
<1>3. \A k \in I : k \in Nat
  OBVIOUS
<1>4. I # {} => Min(I) \in I /\ \A k \in I : Min(I) <= k
  <2> HIDE DEF I
  <2> QED BY <1>3, LeastIs
<1> QED BY <1>1, <1>2, <1>4

(* It depends on the names only. *)
LEMMA FoundSame ==
  ASSUME NEW f, NEW g, Len(f) = Len(g), \A k \in 1..Len(f) : f[k].name = g[k].name, NEW n
  PROVE  Found(f, n) = Found(g, n)
<1>1. {k \in 1..Len(f) : f[k].name = n} = {k \in 1..Len(g) : g[k].name = n}
  OBVIOUS
<1> QED BY <1>1 DEF Found, SelectInSeq

(* A route added at the end. *)
LEMMA AppendIs ==
  ASSUME NEW S, NEW s \in Seq(S), NEW x \in S
  PROVE  Append(s, x) \in Seq(S) /\ ToSet(Append(s, x)) = ToSet(s) \cup {x}
<1>1. /\ Len(s) \in Nat /\ DOMAIN s = 1..Len(s) /\ Append(s, x) \in Seq(S)
      /\ DOMAIN Append(s, x) = 1..(Len(s) + 1)
      /\ \A i \in 1..Len(s) : Append(s, x)[i] = s[i]
      /\ Append(s, x)[Len(s) + 1] = x
  OBVIOUS
<1> QED BY <1>1 DEF ToSet

(* A route put in the place of another. *)
LEMMA ReplacedIs ==
  ASSUME NEW S, NEW s \in Seq(S), NEW k \in 1..Len(s), NEW x \in S
  PROVE  /\ [s EXCEPT ![k] = x] \in Seq(S)
         /\ \A y : y # x /\ y # s[k] => (y \in ToSet([s EXCEPT ![k] = x]) <=> y \in ToSet(s))
<1> DEFINE t == [s EXCEPT ![k] = x]
<1>1. Len(s) \in Nat /\ DOMAIN s = 1..Len(s) /\ \A i \in 1..Len(s) : s[i] \in S
  OBVIOUS
<1>2. t = [i \in 1..Len(s) |-> IF i = k THEN x ELSE s[i]]
  BY <1>1
<1>3. t \in Seq(S)
  BY <1>1, <1>2
<1>4. DOMAIN t = 1..Len(s) /\ \A i \in 1..Len(s) : t[i] = IF i = k THEN x ELSE s[i]
  BY <1>2
<1> HIDE DEF t
<1>5. \A y : y # x /\ y # s[k] => (y \in ToSet(t) <=> y \in ToSet(s))
  BY <1>1, <1>4 DEF ToSet
<1> QED BY <1>3, <1>5 DEF t

(* A route taken out of its place. *)
LEMMA RemovedIs ==
  ASSUME NEW S, NEW s \in Seq(S), NEW k \in 1..Len(s)
  PROVE  /\ RemoveAt(s, k) \in Seq(S)
         /\ \A y : y # s[k] => (y \in ToSet(RemoveAt(s, k)) <=> y \in ToSet(s))
<1> DEFINE t == RemoveAt(s, k)
           f == SubSeq(s, 1, k - 1)
           g == SubSeq(s, k + 1, Len(s))
<1>1. /\ Len(s) \in Nat /\ DOMAIN s = 1..Len(s) /\ k \in Nat
      /\ \A i \in 1..Len(s) : s[i] \in S
  OBVIOUS
<1>2. f \in Seq(S) /\ Len(f) = k - 1 /\ \A i \in 1..(k - 1) : f[i] = s[i]
  <2>1. \A i \in 1..(k - 1) : s[i] \in S
    BY <1>1
  <2>2. 1 \in Int /\ k - 1 \in Int /\ (k - 1) - 1 + 1 = k - 1 /\ \A i \in 1..(k - 1) : 1 + i - 1 = i
    BY <1>1
  <2> QED BY <1>1, <2>1, <2>2, SubSeqProperties
<1>3. g \in Seq(S) /\ Len(g) = Len(s) - k /\ \A i \in 1..(Len(s) - k) : g[i] = s[k + i]
  <2> DEFINE m == k + 1
             n == Len(s)
  <2>1. /\ m \in Int /\ n \in Int /\ k \in Int /\ 1 <= k /\ k <= n /\ m = k + 1
        /\ \A i \in m..n : s[i] \in S
    BY <1>1
  <2>2. g = SubSeq(s, m, n)
    OBVIOUS
  <2> HIDE DEF m, n, g
  <2>3. /\ g \in Seq(S) /\ Len(g) = IF m <= n THEN n - m + 1 ELSE 0
        /\ \A i \in 1..(n - m + 1) : g[i] = s[m + i - 1]
    BY <2>1, <2>2, SubSeqProperties
  <2>4. n - m + 1 = n - k /\ (IF m <= n THEN n - m + 1 ELSE 0) = n - k
    BY <2>1
  <2>5. \A i \in 1..(n - k) : m + i - 1 = k + i
    BY <2>1
  <2>6. g \in Seq(S) /\ Len(g) = n - k /\ \A i \in 1..(n - k) : g[i] = s[k + i]
    BY <2>3, <2>4, <2>5
  <2> QED BY <2>6 DEF n
<1>4. t = f \o g
  BY DEF RemoveAt
<1> HIDE DEF f, g, t
<1>5. /\ t \in Seq(S) /\ Len(t) = Len(s) - 1 /\ DOMAIN t = 1..(Len(s) - 1)
      /\ \A i \in 1..(k - 1) : t[i] = f[i]
      /\ \A i \in 1..(Len(s) - k) : t[k - 1 + i] = g[i]
  <2>1. /\ t \in Seq(S) /\ Len(t) = Len(f) + Len(g)
        /\ \A i \in 1..(Len(f) + Len(g)) : t[i] = IF i <= Len(f) THEN f[i] ELSE g[i - Len(f)]
    BY <1>2, <1>3, <1>4, ConcatProperties
  <2>2. Len(f) + Len(g) = Len(s) - 1 /\ Len(f) = k - 1 /\ Len(s) - 1 \in Nat
    BY <1>1, <1>2, <1>3
  <2>3. Len(t) = Len(s) - 1 /\ DOMAIN t = 1..(Len(s) - 1)
    BY <2>1, <2>2
  <2>4. \A i \in 1..(Len(s) - 1) : t[i] = IF i <= k - 1 THEN f[i] ELSE g[i - (k - 1)]
    BY <2>1, <2>2
  <2>5. \A i \in 1..(k - 1) : t[i] = f[i]
    BY <1>1, <2>4
  <2>6. ASSUME NEW i \in 1..(Len(s) - k) PROVE t[k - 1 + i] = g[i]
    <3>1. k - 1 + i \in 1..(Len(s) - 1) /\ ~ (k - 1 + i <= k - 1) /\ k - 1 + i - (k - 1) = i
      BY <1>1
    <3> QED BY <2>4, <3>1
  <2> QED BY <2>1, <2>3, <2>5, <2>6
<1>6. ASSUME NEW y, y # s[k] PROVE y \in ToSet(t) <=> y \in ToSet(s)
  <2>1. ASSUME NEW i \in 1..Len(s), s[i] = y
        PROVE  \E j \in 1..(Len(s) - 1) : t[j] = y
    <3>1. CASE i < k
      BY <1>1, <1>2, <1>5, <2>1, <3>1
    <3>2. CASE i > k
      <4>1. i - k \in 1..(Len(s) - k) /\ k + (i - k) = i /\ k - 1 + (i - k) = i - 1
            /\ i - 1 \in 1..(Len(s) - 1)
        BY <1>1, <3>2
      <4>2. t[i - 1] = y
        BY <1>3, <1>5, <2>1, <4>1
      <4> QED BY <4>1, <4>2
    <3> QED BY <1>1, <1>6, <2>1, <3>1, <3>2
  <2>2. ASSUME NEW i \in 1..(Len(s) - 1), t[i] = y
        PROVE  \E j \in 1..Len(s) : s[j] = y
    <3>1. CASE i < k
      BY <1>1, <1>2, <1>5, <2>2, <3>1
    <3>2. CASE i >= k
      <4>1. i - k + 1 \in 1..(Len(s) - k) /\ k - 1 + (i - k + 1) = i
            /\ k + (i - k + 1) = i + 1 /\ i + 1 \in 1..Len(s)
        BY <1>1, <3>2
      <4>2. t[i] = g[i - k + 1] /\ g[i - k + 1] = s[i + 1]
        BY <1>3, <1>5, <4>1
      <4> QED BY <2>2, <4>1, <4>2
    <3> QED BY <1>1, <3>1, <3>2
  <2> QED BY <1>1, <1>5, <2>1, <2>2 DEF ToSet
<1> QED BY <1>5, <1>6 DEF t

(* What is kept of the first k routes, as without defines it. *)
Matches(r, route) == r.to = route.to /\ r.dev = route.dev
KeptBody(routes, route, f, k) ==
  IF k = 0 THEN <<>>
  ELSE IF routes[k].to = route.to /\ routes[k].dev = route.dev THEN f[k - 1]
  ELSE Append(f[k - 1], routes[k])
IsKept(routes, route, n, f) == f = [k \in 0..n |-> KeptBody(routes, route, f, k)]

(* The recursion has a solution, at every length. *)
LEMMA KeptDefined ==
  ASSUME NEW routes \in Seq(Routes), NEW route
  PROVE  \E f : IsKept(routes, route, Len(routes), f)
<1> DEFINE Good == {n \in 0..Len(routes) : \E f : IsKept(routes, route, n, f)}
<1>1. \E f : IsKept(routes, route, 0, f)
  <2> DEFINE g == [k \in 0..0 |-> <<>>]
  <2>1. g = [k \in 0..0 |-> KeptBody(routes, route, g, k)]
    BY DEF KeptBody
  <2> HIDE DEF g
  <2> QED BY <2>1 DEF IsKept
<1>2. ASSUME NEW n \in 0..Len(routes), n # 0, n - 1 \in Good
      PROVE  \E f : IsKept(routes, route, n, f)
  <2>1. PICK f : f = [k \in 0..(n - 1) |-> KeptBody(routes, route, f, k)]
    BY <1>2 DEF IsKept
  <2> DEFINE g == [k \in 0..n |-> IF k = n THEN KeptBody(routes, route, f, n) ELSE f[k]]
  <2>2. ASSUME NEW k \in 0..n PROVE g[k] = KeptBody(routes, route, g, k)
    <3>1. n \in Nat \ {0} /\ k \in Nat
      BY <1>2
    <3>2. KeptBody(routes, route, g, k) = KeptBody(routes, route, f, k)
      BY <3>1 DEF KeptBody
    <3>3. CASE k # n
      <4>1. k \in 0..(n - 1)
        BY <3>1, <3>3
      <4> QED BY <4>1, <3>3, <3>2, <2>1
    <3> QED BY <3>2, <3>3
  <2>3. g = [k \in 0..n |-> KeptBody(routes, route, g, k)]
    BY <2>2
  <2> HIDE DEF g
  <2> QED BY <2>3 DEF IsKept
<1>3. Len(routes) \in Nat
  OBVIOUS
<1>4. 0..Len(routes) \subseteq Good
  <2>1. 0 \in Good
    BY <1>1, <1>3
  <2>2. \A n \in 0..Len(routes) : n # 0 /\ n - 1 \in Good => n \in Good
    BY <1>2
  <2> HIDE DEF Good
  <2> QED BY <1>3, <2>1, <2>2, UpTo
<1> QED BY <1>3, <1>4

(* without drops the routes that match and no others. *)
LEMMA WithoutIs ==
  ASSUME NEW routes \in Seq(Routes), NEW route
  PROVE  /\ without(routes, route) \in Seq(Routes)
         /\ ToSet(without(routes, route)) = {r \in ToSet(routes) : ~ Matches(r, route)}
<1> DEFINE f == CHOOSE g : IsKept(routes, route, Len(routes), g)
           N == Len(routes)
           Kept(k) == {r \in Routes : ~ Matches(r, route) /\ \E i \in 1..k : routes[i] = r}
           Good == {k \in 0..N : f[k] \in Seq(Routes) /\ ToSet(f[k]) = Kept(k)}
<1>1. N \in Nat /\ DOMAIN routes = 1..N /\ \A i \in 1..N : routes[i] \in Routes
  OBVIOUS
<1>2. without(routes, route) = f[N]
  BY DEF without, IsKept, KeptBody
<1>3. IsKept(routes, route, N, f)
  BY KeptDefined
<1>4. \A k \in 0..N : f[k] = KeptBody(routes, route, f, k)
  <2> HIDE DEF f
  <2> QED BY <1>3 DEF IsKept
<1> HIDE DEF f
<1>5. 0 \in Good
  <2>1. 0 \in 0..N /\ f[0] = <<>>
    BY <1>1, <1>4 DEF KeptBody
  <2>2. ToSet(<<>>) = {} /\ Kept(0) = {}
    BY DEF ToSet
  <2>3. f[0] \in Seq(Routes) /\ ToSet(f[0]) = Kept(0)
    BY <2>1, <2>2
  <2> HIDE DEF Kept
  <2> QED BY <2>1, <2>3
<1>6. ASSUME NEW k \in 0..N, k # 0, k - 1 \in Good
      PROVE  k \in Good
  <2>1. k \in 1..N /\ routes[k] \in Routes /\ f[k - 1] \in Seq(Routes)
        /\ ToSet(f[k - 1]) = Kept(k - 1)
    BY <1>1, <1>6
  <2>2. \A i \in 1..k : i \in 1..(k - 1) \/ i = k
    BY <1>1, <2>1
  <2>3. 1..(k - 1) \subseteq 1..k /\ k \in 1..k
    BY <1>1, <2>1
  <2>4. CASE Matches(routes[k], route)
    <3>1. f[k] = f[k - 1]
      BY <1>4, <1>6, <2>4 DEF KeptBody, Matches
    <3>2. Kept(k) = Kept(k - 1)
      BY <2>2, <2>3, <2>4
    <3> QED BY <2>1, <3>1, <3>2
  <2>5. CASE ~ Matches(routes[k], route)
    <3>1. f[k] = Append(f[k - 1], routes[k])
      BY <1>4, <1>6, <2>5 DEF KeptBody, Matches
    <3>2. Kept(k) = Kept(k - 1) \cup {routes[k]}
      BY <2>1, <2>2, <2>3, <2>5
    <3>3. f[k] \in Seq(Routes) /\ ToSet(f[k]) = ToSet(f[k - 1]) \cup {routes[k]}
      BY <2>1, <3>1, AppendIs
    <3> QED BY <2>1, <3>2, <3>3
  <2> QED BY <2>4, <2>5
<1>7. N \in Good
  <2> HIDE DEF Good
  <2>1. 0..N \subseteq Good
    BY <1>1, <1>5, <1>6, UpTo
  <2> QED BY <1>1, <2>1
<1>8. Kept(N) = {r \in ToSet(routes) : ~ Matches(r, route)}
  BY <1>1 DEF ToSet
<1> QED BY <1>2, <1>7, <1>8

--------------------------------------------------------------------------
(* Parts. *)

(* The parts outside a set are the same in two networks. *)
SameParts(n, m, about) == \A p \in Parts \ about : PartOf(m, p) = PartOf(n, p)

Singles == {"ui", "prefix", "pool", "pd", "fw", "confirm"}
IfaceShape(i) == [name |-> i.name, role |-> i.role, addrs |-> i.addrs]

(* What PartOf gives of each kind of part. *)
LEMMA PartKinds ==
  ASSUME NEW net
  PROVE  /\ \A r : PartOf(net, <<"route", r>>) = (r \in ToSet(net.routes))
         /\ \A n : PartOf(net, <<"acq", n>>) = acquisition(net.ifaces, n)
         /\ \A t : PartOf(net, <<"wg", t>>) = IF t \in DOMAIN net.wg THEN <<net.wg[t]>> ELSE <<>>
         /\ \A d : PartOf(net, <<"qd", d>>) = IF d \in DOMAIN net.qd THEN <<net.qd[d]>> ELSE <<>>
         /\ PartOf(net, <<"one", "ifaces">>) =
              [k \in DOMAIN net.ifaces |-> IfaceShape(net.ifaces[k])]
         /\ \A x \in Singles : PartOf(net, <<"one", x>>) = net[x]
<1>1. \A r : PartOf(net, <<"route", r>>) = (r \in ToSet(net.routes))
  BY DEF PartOf
<1>2. \A n : PartOf(net, <<"acq", n>>) = acquisition(net.ifaces, n)
  BY DEF PartOf
<1>3. \A t : PartOf(net, <<"wg", t>>) = IF t \in DOMAIN net.wg THEN <<net.wg[t]>> ELSE <<>>
  BY DEF PartOf
<1>4. \A d : PartOf(net, <<"qd", d>>) = IF d \in DOMAIN net.qd THEN <<net.qd[d]>> ELSE <<>>
  BY DEF PartOf
<1>5. PartOf(net, <<"one", "ifaces">>) = [k \in DOMAIN net.ifaces |-> IfaceShape(net.ifaces[k])]
  BY DEF PartOf, IfaceShape
<1>6. \A x \in Singles : PartOf(net, <<"one", x>>) = net[x]
  BY DEF PartOf, Singles
<1> QED BY <1>1, <1>2, <1>3, <1>4, <1>5, <1>6

(* Two networks share the parts outside a set when each kind agrees there. *)
LEMMA PartsAre ==
  ASSUME NEW n, NEW m, NEW about,
         \A r \in Routes : <<"route", r>> \notin about =>
           (r \in ToSet(m.routes) <=> r \in ToSet(n.routes)),
         \A x \in Nics : <<"acq", x>> \notin about =>
           acquisition(m.ifaces, x) = acquisition(n.ifaces, x),
         \A t \in Tunnels : <<"wg", t>> \notin about =>
           /\ t \in DOMAIN m.wg <=> t \in DOMAIN n.wg
           /\ t \in DOMAIN n.wg => m.wg[t] = n.wg[t],
         \A d \in Devices : <<"qd", d>> \notin about =>
           /\ d \in DOMAIN m.qd <=> d \in DOMAIN n.qd
           /\ d \in DOMAIN n.qd => m.qd[d] = n.qd[d],
         <<"one", "ifaces">> \notin about =>
           /\ DOMAIN m.ifaces = DOMAIN n.ifaces
           /\ \A k \in DOMAIN n.ifaces : IfaceShape(m.ifaces[k]) = IfaceShape(n.ifaces[k]),
         \A x \in Singles : <<"one", x>> \notin about => m[x] = n[x]
  PROVE  SameParts(n, m, about)
<1> SUFFICES ASSUME NEW p \in Parts \ about PROVE PartOf(m, p) = PartOf(n, p)
  BY DEF SameParts
<1>1. ASSUME NEW r \in Routes, p = <<"route", r>> PROVE PartOf(m, p) = PartOf(n, p)
  <2>1. /\ PartOf(m, p) = (r \in ToSet(m.routes))
        /\ PartOf(n, p) = (r \in ToSet(n.routes))
    BY <1>1, PartKinds
  <2>2. r \in ToSet(m.routes) <=> r \in ToSet(n.routes)
    BY <1>1
  <2> QED BY <2>1, <2>2
<1>2. ASSUME NEW x \in Nics, p = <<"acq", x>> PROVE PartOf(m, p) = PartOf(n, p)
  <2>1. /\ PartOf(m, p) = acquisition(m.ifaces, x)
        /\ PartOf(n, p) = acquisition(n.ifaces, x)
    BY <1>2, PartKinds
  <2> QED BY <1>2, <2>1
<1>3. ASSUME NEW t \in Tunnels, p = <<"wg", t>> PROVE PartOf(m, p) = PartOf(n, p)
  <2>1. /\ PartOf(m, p) = IF t \in DOMAIN m.wg THEN <<m.wg[t]>> ELSE <<>>
        /\ PartOf(n, p) = IF t \in DOMAIN n.wg THEN <<n.wg[t]>> ELSE <<>>
    BY <1>3, PartKinds
  <2> QED BY <1>3, <2>1
<1>4. ASSUME NEW d \in Devices, p = <<"qd", d>> PROVE PartOf(m, p) = PartOf(n, p)
  <2>1. /\ PartOf(m, p) = IF d \in DOMAIN m.qd THEN <<m.qd[d]>> ELSE <<>>
        /\ PartOf(n, p) = IF d \in DOMAIN n.qd THEN <<n.qd[d]>> ELSE <<>>
    BY <1>4, PartKinds
  <2> QED BY <1>4, <2>1
<1>5. CASE p = <<"one", "ifaces">>
  <2>1. /\ PartOf(m, p) = [k \in DOMAIN m.ifaces |-> IfaceShape(m.ifaces[k])]
        /\ PartOf(n, p) = [k \in DOMAIN n.ifaces |-> IfaceShape(n.ifaces[k])]
    BY <1>5, PartKinds
  <2> QED BY <1>5, <2>1
<1>6. ASSUME NEW x \in Singles, p = <<"one", x>> PROVE PartOf(m, p) = PartOf(n, p)
  <2>1. PartOf(m, p) = m[x] /\ PartOf(n, p) = n[x]
    BY <1>6, PartKinds
  <2> QED BY <1>6, <2>1
<1> QED BY <1>1, <1>2, <1>3, <1>4, <1>5, <1>6 DEF Parts, Singles

--------------------------------------------------------------------------
(* One edit. *)

(* What an edit changes: one that names no tunnel stores nothing. *)
Touched(e) == IF e.section = "wireguard" /\ e.name = None THEN {} ELSE About(e)

Stored(n, m, e) == NetType(m) /\ SameParts(n, m, Touched(e))

(* The fields an edit leaves alone. *)
Leaves(n, m, changed) == DOMAIN m = Fields /\ \A x \in Fields \ changed : m[x] = n[x]

(* Routes: all replaced, or one added, replaced or taken out. *)
LEMMA RoutesStored ==
  ASSUME NEW n, NetType(n), NEW e, EditType(e), Fits(n, e),
         e.section \in {"routes", "add", "change", "remove"}
  PROVE  Stored(n, Store(n, e), e)
<1> DEFINE m == Store(n, e)
           routes == changedRoutes(n.routes, e)
<1>1. m = [n EXCEPT !.routes = routes]
  BY DEF Store
<1>2. Leaves(n, m, {"routes"}) /\ m.routes = routes
  BY <1>1 DEF Leaves, NetType, Fields
<1> DEFINE s == n.routes
<1>3. /\ s \in Seq(Routes) /\ Len(s) \in Nat /\ DOMAIN s = 1..Len(s)
      /\ \A k \in 1..Len(s) : s[k] \in Routes
  BY DEF NetType
<1>4. /\ routes \in Seq(Routes)
      /\ \A r \in Routes : <<"route", r>> \notin About(e) =>
           (r \in ToSet(routes) <=> r \in ToSet(s))
  <2>1. CASE e.section = "routes"
    BY <2>1 DEF changedRoutes, About, EditType
  <2>2. CASE e.section = "add"
    <3>1. routes = Append(s, e.route) /\ e.route \in Routes
      BY <2>2 DEF changedRoutes, EditType
    <3>2. About(e) = {<<"route", e.route>>}
      BY <2>2 DEF About
    <3> QED BY <3>1, <3>2, <1>3, AppendIs
  <2>3. CASE e.section \in {"change", "remove"}
    <3> DEFINE K == Occurrences(s, e.original)
               k == CHOOSE i \in K : TRUE
    <3>1. Cardinality(K) = 1
      BY <2>3 DEF Fits
    <3>2. k \in K
      BY <3>1, FS_EmptySet
    <3>3. k \in 1..Len(s) /\ s[k] = e.original
      BY <1>3, <3>2 DEF Occurrences
    <3> HIDE DEF k
    <3>4. CASE e.section = "change"
      <4>1. routes = [s EXCEPT ![k] = e.route] /\ e.route \in Routes
        BY <3>4 DEF changedRoutes, EditType, k
      <4>2. About(e) = {<<"route", e.original>>, <<"route", e.route>>}
        BY <3>4 DEF About
      <4> QED BY <3>3, <4>1, <4>2, <1>3, ReplacedIs
    <3>5. CASE e.section = "remove"
      <4>1. routes = RemoveAt(s, k)
        BY <3>5 DEF changedRoutes, k
      <4>2. About(e) = {<<"route", e.original>>}
        BY <3>5 DEF About
      <4> QED BY <3>3, <4>1, <4>2, <1>3, RemovedIs
    <3> QED BY <2>3, <3>4, <3>5
  <2> QED BY <2>1, <2>2, <2>3
<1> HIDE DEF m, routes
<1>5. Touched(e) = About(e)
  BY DEF Touched
<1>6. NetType(m)
  BY <1>2, <1>4 DEF Leaves, NetType, Fields
<1>7. SameParts(n, m, Touched(e))
  BY <1>2, <1>4, <1>5, PartsAre DEF Leaves, Fields, Singles
<1> QED BY <1>6, <1>7 DEF Stored, m

(* The prefix that follows the first LAN moves with its pool, nothing else. *)
LEMMA PrefixSynced ==
  ASSUME NEW m, DOMAIN m = Fields
  PROVE  Leaves(m, sync_lan_prefix_from_first_lan(m), {"prefix", "pool"})
<1>1. CASE sync_lan_prefix_from_first_lan(m) = m
  BY <1>1 DEF Leaves
<1>2. CASE \E p, q : sync_lan_prefix_from_first_lan(m) = [m EXCEPT !.prefix = p, !.pool = q]
  BY <1>2 DEF Leaves, Fields
<1> QED BY <1>1, <1>2 DEF sync_lan_prefix_from_first_lan

(* The interfaces and what follows them: a WAN keeps its acquisition. *)
LEMMA InterfacesStored ==
  ASSUME NEW n, NetType(n), NEW e, EditType(e), e.section = "interfaces"
  PROVE  Stored(n, Store(n, e), e)
<1> DEFINE f == e.ifaces
           g == [k \in DOMAIN f |-> [f[k] EXCEPT !.acq = keptAcq(n, f[k])]]
           o == [n EXCEPT !.ifaces = g, !.ui = e.ui]
           m == Store(n, e)
<1>1. m = sync_lan_prefix_from_first_lan(o)
  BY DEF Store, store_interface_section
<1>2. Leaves(n, o, {"ifaces", "ui"}) /\ o.ifaces = g
  BY DEF Leaves, NetType, Fields
<1> HIDE DEF o
<1>3. Leaves(o, m, {"prefix", "pool"})
  BY <1>1, <1>2, PrefixSynced DEF Leaves
<1>4. Leaves(n, m, {"ifaces", "ui", "prefix", "pool"}) /\ m.ifaces = g
  BY <1>2, <1>3 DEF Leaves, Fields
<1>5. /\ IfacesType(f) /\ Len(f) \in Nat /\ DOMAIN f = 1..Len(f)
      /\ \A k \in DOMAIN f : f[k] \in ToSet(f)
  BY Places DEF EditType, IfacesType
<1>6. \A k \in DOMAIN f : /\ DOMAIN g[k] = {"name", "role", "addrs", "acq"}
                          /\ g[k].name = f[k].name /\ g[k].acq = keptAcq(n, f[k])
  BY <1>5 DEF IfacesType
<1>7. IfacesType(g) /\ Len(g) = Len(f)
  <2>1. DOMAIN g = 1..Len(f) /\ g = [k \in 1..Len(f) |-> g[k]]
    BY <1>5
  <2> HIDE DEF g
  <2>2. \A k \in 1..Len(f) : g[k] \in ToSet(g)
    BY <2>1 DEF ToSet
  <2>3. g \in Seq(ToSet(g)) /\ Len(g) = Len(f)
    BY <1>5, <2>1, <2>2
  <2>4. \A i \in ToSet(g) : DOMAIN i = {"name", "role", "addrs", "acq"}
    BY <1>5, <1>6, <2>1 DEF ToSet
  <2> QED BY <2>3, <2>4 DEF IfacesType
<1> HIDE DEF f, g, m
<1>8. ASSUME NEW x \in Nics, <<"acq", x>> \notin About(e)
      PROVE  acquisition(g, x) = acquisition(n.ifaces, x)
  <2>1. staysWan(f, x)
    BY <1>8 DEF About, f
  <2>2. Found(f, x) # 0 /\ f[Found(f, x)].role = "wan"
    BY <2>1 DEF staysWan
  <2>3. Found(f, x) \in DOMAIN f /\ f[Found(f, x)].name = x
    BY <1>5, <2>2, FoundIs
  <2>4. Found(g, x) = Found(f, x)
    BY <1>5, <1>6, <1>7, FoundSame
  <2>5. acquisition(g, x) = keptAcq(n, f[Found(f, x)])
    BY <1>6, <2>2, <2>3, <2>4 DEF acquisition
  <2> QED BY <2>2, <2>3, <2>5 DEF keptAcq
<1>9. Touched(e) = About(e) /\ One({"ifaces", "ui", "prefix", "pool"}) \subseteq About(e)
  BY DEF Touched, About
<1>10. NetType(m)
  BY <1>4, <1>7 DEF Leaves, NetType, Fields
<1>11. SameParts(n, m, Touched(e))
  BY <1>4, <1>8, <1>9, PartsAre DEF Leaves, Fields, Singles, One
<1> QED BY <1>10, <1>11 DEF Stored, m

(* WAN IPv6: the first interface that is a WAN and has the name. *)
LEMMA WanIs ==
  ASSUME NEW f, IfacesType(f), NEW x
  PROVE  wan(f, x) = 0 \/ (wan(f, x) \in DOMAIN f /\ f[wan(f, x)].name = x)
<1>1. Len(f) \in Nat /\ DOMAIN f = 1..Len(f)
  BY Places DEF IfacesType
<1> DEFINE I == {k \in 1..Len(f) : f[k].name = x /\ f[k].role = "wan"}
<1>2. wan(f, x) = IF I # {} THEN Min(I) ELSE 0
  BY DEF wan, SelectInSeq
<1>3. \A k \in I : k \in Nat
  OBVIOUS
<1>4. I # {} => Min(I) \in I
  <2> HIDE DEF I
  <2> QED BY <1>3, LeastIs
<1> QED BY <1>1, <1>2, <1>4

(* One interface gets another acquisition; find is not misled by it. *)
LEMMA Ipv6Stored ==
  ASSUME NEW n, NetType(n), NEW e, EditType(e), e.section = "ipv6"
  PROVE  Stored(n, Store(n, e), e)
<1> DEFINE f == n.ifaces
           k == wan(f, e.name)
           m == Store(n, e)
<1>1. m = IF k = 0 THEN n ELSE [n EXCEPT !.ifaces[k].acq = e.acq]
  BY DEF Store, store_ipv6
<1>2. /\ IfacesType(f) /\ Len(f) \in Nat /\ DOMAIN f = 1..Len(f)
      /\ \A i \in DOMAIN f : f[i] \in ToSet(f)
  BY Places DEF NetType, IfacesType
<1>3. Touched(e) = {<<"acq", e.name>>}
  BY DEF Touched, About
<1>4. CASE k = 0
  BY <1>1, <1>4 DEF Stored, SameParts
<1>5. CASE k # 0
  <2> DEFINE g == [f EXCEPT ![k] = [f[k] EXCEPT !.acq = e.acq]]
  <2>1. k \in DOMAIN f /\ f[k].name = e.name
    BY <1>2, <1>5, WanIs
  <2>2. m = [n EXCEPT !.ifaces = g]
    BY <1>1, <1>5
  <2>3. Leaves(n, m, {"ifaces"}) /\ m.ifaces = g
    BY <2>2 DEF Leaves, NetType, Fields
  <2> HIDE DEF k
  <2>4. /\ DOMAIN g = 1..Len(f)
        /\ \A i \in 1..Len(f) : g[i] = IF i = k THEN [f[k] EXCEPT !.acq = e.acq] ELSE f[i]
    BY <1>2, <2>1
  <2>5. \A i \in 1..Len(f) : DOMAIN f[i] = {"name", "role", "addrs", "acq"}
    BY <1>2 DEF IfacesType
  <2>6. g = [i \in 1..Len(f) |-> g[i]]
    BY <1>2
  <2> HIDE DEF g, m
  <2>7. \A i \in 1..Len(f) : /\ DOMAIN g[i] = {"name", "role", "addrs", "acq"}
                             /\ g[i].name = f[i].name /\ g[i].role = f[i].role
                             /\ g[i].addrs = f[i].addrs
    BY <2>1, <2>4, <2>5
  <2>8. IfacesType(g) /\ Len(g) = Len(f)
    <3>1. \A i \in 1..Len(f) : g[i] \in ToSet(g)
      BY <2>4 DEF ToSet
    <3>2. g \in Seq(ToSet(g)) /\ Len(g) = Len(f)
      BY <1>2, <2>6, <3>1
    <3>3. ASSUME NEW i \in ToSet(g) PROVE DOMAIN i = {"name", "role", "addrs", "acq"}
      <4>1. PICK j \in 1..Len(f) : i = g[j]
        BY <2>4 DEF ToSet
      <4> QED BY <4>1, <2>7
    <3> QED BY <3>2, <3>3 DEF IfacesType
  <2>9. ASSUME NEW x, x # e.name PROVE acquisition(g, x) = acquisition(f, x)
    <3>1. Found(g, x) = Found(f, x)
      BY <1>2, <2>7, <2>8, FoundSame
    <3>2. Found(f, x) = 0 \/ (Found(f, x) \in DOMAIN f /\ f[Found(f, x)].name = x)
      BY <1>2, FoundIs
    <3>3. Found(f, x) # 0 => g[Found(f, x)] = f[Found(f, x)]
      BY <1>2, <2>1, <2>4, <2>9, <3>2
    <3> QED BY <3>1, <3>3 DEF acquisition
  <2>10. NetType(m)
    BY <2>3, <2>8 DEF Leaves, NetType, Fields
  <2>11. DOMAIN g = DOMAIN f /\ \A i \in DOMAIN f : IfaceShape(g[i]) = IfaceShape(f[i])
    BY <1>2, <2>4, <2>7 DEF IfaceShape
  <2>12. SameParts(n, m, Touched(e))
    BY <1>3, <2>3, <2>9, <2>11, PartsAre DEF Leaves, Fields, Singles
  <2> QED BY <2>10, <2>12 DEF Stored, m
<1> QED BY <1>4, <1>5

(* A tunnel, and the route it asks for. *)
LEMMA WireguardStored ==
  ASSUME NEW n, NetType(n), NEW e, EditType(e), e.section = "wireguard"
  PROVE  Stored(n, Store(n, e), e)
<1> DEFINE m == Store(n, e)
<1>1. CASE e.name = None
  <2>1. m = n
    BY <1>1 DEF Store, store_wireguard
  <2> QED BY <2>1 DEF Stored, SameParts
<1>2. CASE e.name # None
  <2> DEFINE tunnels == [t \in DOMAIN n.wg \cup {e.name} |->
                           IF t = e.name THEN storedTunnel(n, e) ELSE n.wg[t]]
             routes == routed(n.routes, e)
  <2>1. m = [n EXCEPT !.wg = tunnels, !.routes = routes]
    BY <1>2 DEF Store, store_wireguard
  <2>2. Leaves(n, m, {"wg", "routes"}) /\ m.wg = tunnels /\ m.routes = routes
    BY <2>1 DEF Leaves, NetType, Fields
  <2>3. Touched(e) = {<<"wg", e.name>>}
          \cup {<<"route", r>> : r \in {q \in Routes : e.route # None /\ Matches(q, e.route)}}
    BY <1>2 DEF Touched, About, Matches
  <2>4. \A t \in Tunnels : t # e.name =>
          /\ t \in DOMAIN tunnels <=> t \in DOMAIN n.wg
          /\ t \in DOMAIN n.wg => tunnels[t] = n.wg[t]
    OBVIOUS
  <2>5. /\ routes \in Seq(Routes)
        /\ \A r \in Routes : ~ (e.route # None /\ Matches(r, e.route)) =>
             (r \in ToSet(routes) <=> r \in ToSet(n.routes))
    <3>1. n.routes \in Seq(Routes)
      BY DEF NetType
    <3>2. CASE e.route = None
      BY <3>1, <3>2 DEF routed
    <3>3. CASE e.route # None
      <4>1. routes = Append(without(n.routes, e.route), e.route) /\ e.route \in Routes
        BY <3>3 DEF routed, EditType
      <4>2. Matches(e.route, e.route)
        BY DEF Matches
      <4> QED BY <3>1, <3>3, <4>1, <4>2, WithoutIs, AppendIs
    <3> QED BY <3>2, <3>3
  <2> HIDE DEF m, tunnels, routes
  <2>6. NetType(m)
    BY <2>2, <2>5 DEF Leaves, NetType, Fields
  <2>7. SameParts(n, m, Touched(e))
    BY <2>2, <2>3, <2>4, <2>5, PartsAre DEF Leaves, Fields, Singles
  <2> QED BY <2>6, <2>7 DEF Stored, m
<1> QED BY <1>1, <1>2

(* The edits of one or more fields that nothing else depends on. *)
LEMMA FieldsStored ==
  ASSUME NEW n, NetType(n), NEW e, EditType(e),
         e.section \in {"services", "firewall", "qdiscs", "confirmation"}
  PROVE  Stored(n, Store(n, e), e)
<1> DEFINE m == Store(n, e)
<1>1. Touched(e) = About(e)
  BY DEF Touched
<1>2. CASE e.section = "services"
  <2>1. m = [n EXCEPT !.prefix = e.prefix, !.pool = e.pool, !.pd = e.pd]
    BY <1>2 DEF Store, store_lan_services
  <2>2. Leaves(n, m, {"prefix", "pool", "pd"})
    BY <2>1 DEF Leaves, NetType, Fields
  <2>3. About(e) = One({"prefix", "pool", "pd"})
    BY <1>2 DEF About
  <2> HIDE DEF m
  <2>4. NetType(m)
    BY <2>2 DEF Leaves, NetType, Fields
  <2>5. SameParts(n, m, Touched(e))
    BY <1>1, <2>2, <2>3, PartsAre DEF Leaves, Fields, Singles, One
  <2> QED BY <2>4, <2>5 DEF Stored, m
<1>3. CASE e.section = "firewall"
  <2>1. m = [n EXCEPT !.fw = e.fw]
    BY <1>3 DEF Store
  <2>2. Leaves(n, m, {"fw"})
    BY <2>1 DEF Leaves, NetType, Fields
  <2>3. About(e) = One({"fw"})
    BY <1>3 DEF About
  <2> HIDE DEF m
  <2>4. NetType(m)
    BY <2>2 DEF Leaves, NetType, Fields
  <2>5. SameParts(n, m, Touched(e))
    BY <1>1, <2>2, <2>3, PartsAre DEF Leaves, Fields, Singles, One
  <2> QED BY <2>4, <2>5 DEF Stored, m
<1>4. CASE e.section = "qdiscs"
  <2> DEFINE q == [d \in DOMAIN n.qd \cup {e.dev} |-> IF d = e.dev THEN e.kind ELSE n.qd[d]]
  <2>1. m = [n EXCEPT !.qd = q]
    BY <1>4 DEF Store, store_qdiscs
  <2>2. Leaves(n, m, {"qd"}) /\ m.qd = q
    BY <2>1 DEF Leaves, NetType, Fields
  <2>3. About(e) = {<<"qd", e.dev>>}
    BY <1>4 DEF About
  <2>4. \A d \in Devices : d # e.dev =>
          /\ d \in DOMAIN q <=> d \in DOMAIN n.qd
          /\ d \in DOMAIN n.qd => q[d] = n.qd[d]
    OBVIOUS
  <2> HIDE DEF m, q
  <2>5. NetType(m)
    BY <2>2 DEF Leaves, NetType, Fields
  <2>6. SameParts(n, m, Touched(e))
    BY <1>1, <2>2, <2>3, <2>4, PartsAre DEF Leaves, Fields, Singles
  <2> QED BY <2>5, <2>6 DEF Stored, m
<1>5. CASE e.section = "confirmation"
  <2>1. m = [n EXCEPT !.confirm = e.confirm]
    BY <1>5 DEF Store
  <2>2. Leaves(n, m, {"confirm"})
    BY <2>1 DEF Leaves, NetType, Fields
  <2>3. About(e) = One({"confirm"})
    BY <1>5 DEF About
  <2> HIDE DEF m
  <2>4. NetType(m)
    BY <2>2 DEF Leaves, NetType, Fields
  <2>5. SameParts(n, m, Touched(e))
    BY <1>1, <2>2, <2>3, PartsAre DEF Leaves, Fields, Singles, One
  <2> QED BY <2>4, <2>5 DEF Stored, m
<1> QED BY <1>2, <1>3, <1>4, <1>5

(* Whatever the section, an edit changes what it is about and nothing else. *)
THEOREM EditKeepsOthers ==
  ASSUME NEW n, NetType(n), NEW e, EditType(e),
         e.section \in {"change", "remove"} => Fits(n, e)
  PROVE  /\ NetType(Store(n, e)) /\ SameParts(n, Store(n, e), Touched(e))
         /\ Touched(e) \subseteq About(e)
<1>1. Stored(n, Store(n, e), e)
  <2>1. e.section \in {"routes", "add"} => Fits(n, e)
    BY DEF Fits
  <2> QED
    BY <2>1, RoutesStored, InterfacesStored, Ipv6Stored, WireguardStored, FieldsStored DEF EditType
<1>2. Touched(e) \subseteq About(e)
  BY DEF Touched
<1> QED BY <1>1, <1>2 DEF Stored
=============================================================================
