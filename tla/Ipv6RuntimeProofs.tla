--------------------------- MODULE Ipv6RuntimeProofs ---------------------------
(***************************************************************************)
(* Proofs about Ipv6Runtime: for every set of WANs, LANs, prefixes and     *)
(* configurations every variable has its type; above all, the resolvers    *)
(* netd publishes keep the limit and name none twice, however many the     *)
(* WANs have learned.                                                      *)
(***************************************************************************)
EXTENDS Ipv6Runtime, FiniteSetTheorems, WellFoundedInduction, TLAPS

--------------------------------------------------------------------------
(* Sequences made of the elements of others. *)

(* A set of naturals has a least element. *)
LEMMA LeastOf ==
  ASSUME NEW T \in SUBSET Nat, T # {}
  PROVE  \E n \in T : \A m \in T : n <= m
<1> DEFINE R == OpToRel(<, Nat)
<1>1. IsWellFoundedOn(R, Nat)
  BY NatLessThanWellFounded
<1>2. \A x, y \in Nat : x < y => <<x, y>> \in R
  BY DEF OpToRel
<1> HIDE DEF R
<1>3. PICK x \in T : \A y \in T : <<y, x>> \notin R
  BY <1>1, WFMin
<1>4. ASSUME NEW y \in T PROVE x <= y
  <2>1. ~ (y < x)
    BY <1>2, <1>3
  <2> QED BY <2>1
<1> QED BY <1>4

(* Induction up to a bound: otherwise there is a least counterexample. *)
LEMMA CountUp ==
  ASSUME NEW N \in Nat, NEW Good, 0 \in Good,
         \A n \in 0..N : n # 0 /\ n - 1 \in Good => n \in Good
  PROVE  0..N \subseteq Good
<1> SUFFICES ASSUME (0..N) \ Good # {} PROVE FALSE
  OBVIOUS
<1>1. PICK n \in (0..N) \ Good : \A m \in (0..N) \ Good : n <= m
  <2> (0..N) \ Good \in SUBSET Nat
    OBVIOUS
  <2> QED BY LeastOf
<1>2. n \in Nat /\ n # 0 /\ n - 1 \in 0..N
  BY <1>1
<1>3. n - 1 \in Good
  BY <1>1, <1>2
<1> QED BY <1>1, <1>2, <1>3

(* An enumeration of P in increasing order, which in_order chooses. *)
Ordered(P, f) ==
  /\ f \in [1..Cardinality(P) -> P]
  /\ \A m, n \in DOMAIN f : m < n => f[m] < f[n]

(* A set of numbers up to a bound has one: without its bound it has one,   *)
(* and the bound comes last.                                               *)
LEMMA OrderExists ==
  ASSUME NEW N \in Nat, NEW P \in SUBSET (1..N)
  PROVE  Cardinality(P) \in Nat /\ \E f : Ordered(P, f)
<1> DEFINE Good == {n \in 0..N : \A Q \in SUBSET (1..n) :
                      IsFiniteSet(Q) /\ Cardinality(Q) \in Nat /\ \E f : Ordered(Q, f)}
<1>1. 0 \in Good
  <2> SUFFICES ASSUME NEW Q \in SUBSET (1..0)
               PROVE  IsFiniteSet(Q) /\ Cardinality(Q) \in Nat /\ \E f : Ordered(Q, f)
    OBVIOUS
  <2>1. Q = {}
    OBVIOUS
  <2>2. IsFiniteSet(Q) /\ Cardinality(Q) = 0
    BY <2>1, FS_EmptySet
  <2>3. Ordered(Q, [i \in {} |-> 0])
    BY <2>1, <2>2 DEF Ordered
  <2> QED BY <2>2, <2>3
<1>2. ASSUME NEW n \in 0..N, n # 0, n - 1 \in Good
      PROVE  n \in Good
  <2> SUFFICES ASSUME NEW Q \in SUBSET (1..n)
               PROVE  IsFiniteSet(Q) /\ Cardinality(Q) \in Nat /\ \E f : Ordered(Q, f)
    OBVIOUS
  <2>1. n \in Nat \ {0}
    BY <1>2
  <2>2. CASE n \notin Q
    <3>1. Q \in SUBSET (1..(n - 1))
      BY <2>1, <2>2
    <3> QED BY <1>2, <3>1
  <2>3. CASE n \in Q
    <3> DEFINE R == Q \ {n}
               k == Cardinality(R)
    <3>1. R \in SUBSET (1..(n - 1))
      BY <2>1
    <3>2. IsFiniteSet(R) /\ k \in Nat /\ \E f : Ordered(R, f)
      BY <1>2, <3>1
    <3>3. PICK f : Ordered(R, f)
      BY <3>2
    <3>4. IsFiniteSet(Q) /\ Cardinality(Q) = k + 1
      <4>1. IsFiniteSet(R \cup {n}) /\ Cardinality(R \cup {n}) = k + 1
        BY <3>2, FS_AddElement
      <4> QED BY <4>1, <2>3
    <3> DEFINE g == [i \in 1..(k + 1) |-> IF i = k + 1 THEN n ELSE f[i]]
    <3>5. \A i \in 1..k : f[i] \in R /\ f[i] < n
      <4>1. \A i \in 1..k : f[i] \in R
        BY <3>3 DEF Ordered
      <4>2. \A x \in R : x < n
        BY <3>1, <2>1
      <4> HIDE DEF R, k
      <4> QED BY <4>1, <4>2
    <3>6. g \in [1..(k + 1) -> Q]
      <4>1. \A i \in 1..(k + 1) : i = k + 1 \/ i \in 1..k
        BY <3>2
      <4> QED BY <4>1, <3>5, <2>3
    <3>7. ASSUME NEW i \in 1..(k + 1), NEW j \in 1..(k + 1), i < j
          PROVE  g[i] < g[j]
      <4>1. i \in 1..k /\ i # k + 1
        BY <3>2, <3>7
      <4>2. CASE j = k + 1
        BY <4>1, <4>2, <3>5
      <4>3. CASE j # k + 1
        <5>1. j \in 1..k
          BY <3>2, <4>3
        <5>2. f[i] < f[j]
          BY <3>3, <3>7, <4>1, <5>1 DEF Ordered
        <5> QED BY <4>1, <4>3, <5>2
      <4> QED BY <4>2, <4>3
    <3> HIDE DEF g
    <3>8. Ordered(Q, g)
      BY <3>4, <3>6, <3>7 DEF Ordered
    <3> QED BY <3>2, <3>4, <3>8
  <2> QED BY <2>2, <2>3
<1>3. N \in Good
  <2> HIDE DEF Good
  <2> QED BY <1>1, <1>2, CountUp
<1> QED BY <1>3

LEMMA InOrder ==
  ASSUME NEW N \in Nat, NEW P \in SUBSET (1..N)
  PROVE  Cardinality(P) \in Nat /\ Ordered(P, in_order(P))
<1>1. Cardinality(P) \in Nat /\ \E f : Ordered(P, f)
  BY OrderExists
<1>2. PICK f \in [1..Cardinality(P) -> P] : \A m, n \in DOMAIN f : m < n => f[m] < f[n]
  BY <1>1 DEF Ordered
<1>3. Ordered(P, in_order(P))
  BY <1>2 DEF in_order, Ordered
<1> QED BY <1>1, <1>3

LEMMA Elements ==
  ASSUME NEW S, NEW s \in Seq(S)
  PROVE  DOMAIN s = 1..Len(s) /\ Len(s) \in Nat /\ \A i \in DOMAIN s : s[i] \in S
OBVIOUS

(* What is retained of a sequence is a sequence over the same set. *)
LEMMA Retained ==
  ASSUME NEW S, NEW s \in Seq(S), NEW P \in SUBSET (DOMAIN s)
  PROVE  retain(s, P) \in Seq(S)
<1>1. Len(s) \in Nat /\ P \in SUBSET (1..Len(s)) /\ \A i \in 1..Len(s) : s[i] \in S
  OBVIOUS
<1> DEFINE f == in_order(P)
           k == Cardinality(P)
<1>2. k \in Nat /\ f \in [1..k -> P]
  BY <1>1, InOrder DEF Ordered
<1>3. retain(s, P) = [i \in 1..k |-> s[f[i]]]
  BY <1>2 DEF retain
<1> HIDE DEF f, k
<1>4. \A i \in 1..k : s[f[i]] \in S
  BY <1>1, <1>2
<1> QED BY <1>2, <1>3, <1>4

(* The function FlattenSeq is defined by, up to a place. *)
FlattenBody(seqs, f, i) == IF i = 1 THEN seqs[i] ELSE f[i - 1] \o seqs[i]
Flattens(seqs, n, f) == f = [i \in 1..n |-> FlattenBody(seqs, f, i)]

LEMMA FlattenExists ==
  ASSUME NEW seqs, NEW N \in Nat
  PROVE  \E f : Flattens(seqs, N, f)
<1> DEFINE Good == {n \in 0..N : \E f : Flattens(seqs, n, f)}
<1>1. 0 \in Good
  <2> DEFINE g == [i \in 1..0 |-> 0]
  <2>1. g = [i \in 1..0 |-> FlattenBody(seqs, g, i)]
    OBVIOUS
  <2> HIDE DEF g
  <2>2. Flattens(seqs, 0, g)
    BY <2>1 DEF Flattens
  <2> QED BY <2>2
<1>2. ASSUME NEW n \in 0..N, n # 0, n - 1 \in Good
      PROVE  n \in Good
  <2>1. PICK f : f = [i \in 1..(n - 1) |-> FlattenBody(seqs, f, i)]
    BY <1>2 DEF Flattens
  <2> DEFINE g == [i \in 1..n |-> IF i = n THEN FlattenBody(seqs, f, n) ELSE f[i]]
  <2>2. ASSUME NEW i \in 1..n PROVE g[i] = FlattenBody(seqs, g, i)
    <3>1. n \in Nat \ {0} /\ i \in Nat \ {0}
      BY <1>2
    <3>2. FlattenBody(seqs, g, i) = FlattenBody(seqs, f, i)
      BY <3>1 DEF FlattenBody
    <3>3. CASE i # n
      <4>1. i \in 1..(n - 1)
        BY <3>1, <3>3
      <4> QED BY <4>1, <3>3, <3>2, <2>1
    <3> QED BY <3>2, <3>3
  <2>3. g = [i \in 1..n |-> FlattenBody(seqs, g, i)]
    BY <2>2
  <2> HIDE DEF g
  <2> QED BY <2>3 DEF Flattens
<1>3. N \in Good
  <2> HIDE DEF Good
  <2> QED BY <1>1, <1>2, CountUp
<1> QED BY <1>3

(* A sequence of sequences over a set, flattened, is one over that set. *)
LEMMA Flattened ==
  ASSUME NEW S, NEW seqs \in Seq(Seq(S))
  PROVE  FlattenSeq(seqs) \in Seq(S)
<1> DEFINE N == Len(seqs)
           f == CHOOSE g : Flattens(seqs, N, g)
<1>1. N \in Nat /\ \A i \in 1..N : seqs[i] \in Seq(S)
  OBVIOUS
<1>2. CASE N = 0
  <2>1. seqs = <<>>
    BY <1>2
  <2> QED BY <1>2, <2>1 DEF FlattenSeq
<1>3. CASE N # 0
  <2>1. FlattenSeq(seqs) = f[N]
    BY <1>3 DEF FlattenSeq, Flattens, FlattenBody
  <2>2. Flattens(seqs, N, f)
    BY <1>1, FlattenExists
  <2> HIDE DEF f
  <2>3. \A i \in 1..N : f[i] = FlattenBody(seqs, f, i)
    BY <2>2 DEF Flattens
  <2> HIDE DEF N
  <2> DEFINE Good == {i \in 0..N : i = 0 \/ f[i] \in Seq(S)}
  <2>4. 0 \in Good
    BY <1>1
  <2>5. ASSUME NEW i \in 0..N, i # 0, i - 1 \in Good
        PROVE  i \in Good
    <3>1. i \in 1..N
      BY <1>1, <2>5
    <3>2. f[i] = FlattenBody(seqs, f, i) /\ seqs[i] \in Seq(S)
      BY <1>1, <2>3, <3>1
    <3>3. i = 1 \/ f[i - 1] \in Seq(S)
      BY <1>1, <2>5
    <3>4. f[i] \in Seq(S)
      BY <3>2, <3>3 DEF FlattenBody
    <3> QED BY <3>4
  <2>6. N \in Good
    <3> HIDE DEF Good
    <3>1. N \in Nat
      BY <1>1
    <3>2. 0..N \subseteq Good
      BY <3>1, <2>4, <2>5, CountUp
    <3> QED BY <3>1, <3>2
  <2> QED BY <1>3, <2>1, <2>6
<1> QED BY <1>2, <1>3

(* What netd may publish: within the limit, and each resolver once. *)
Publishable(text) == Len(text) \in 0..MaxNameservers /\ IsInjective(text)

(* resolv_conf keeps to that whatever was found: of two places at which a  *)
(* resolver is named, the later one is not the first.                      *)
LEMMA FoundPublishable ==
  ASSUME NEW S, NEW found \in Seq(S)
  PROVE  Publishable(resolv_conf(found))
<1> DEFINE N == Len(found)
           P == {i \in 1..N : \A j \in 1..(i - 1) : found[j] # found[i]}
           f == in_order(P)
           k == Cardinality(P)
           n == IF k <= MaxNameservers THEN k ELSE MaxNameservers
           text == [i \in 1..n |-> found[f[i]]]
<1>1. N \in Nat /\ DOMAIN found = 1..N /\ MaxNameservers \in Nat \ {0}
  BY Ipv6Assumption
<1>2. k \in Nat /\ Ordered(P, f)
  <2> P \in SUBSET (1..N)
    OBVIOUS
  <2> HIDE DEF P
  <2> QED BY <1>1, InOrder
<1>3. firsts(found) = f
  BY <1>1 DEF firsts
<1> HIDE DEF f, k
<1>4. /\ f \in [1..k -> P]
      /\ \A i, j \in 1..k : i < j => f[i] < f[j]
  <2> HIDE DEF P
  <2> QED BY <1>2 DEF Ordered, k
<1>5. n \in 0..MaxNameservers /\ n <= k /\ {i \in DOMAIN f : i <= MaxNameservers} = 1..n
  BY <1>1, <1>2, <1>4
<1>6. resolv_conf(found) = text
  BY <1>3, <1>5 DEF resolv_conf
<1>7. Len(text) = n /\ DOMAIN text = 1..n
  BY <1>5
<1>8. ASSUME NEW i \in 1..n, NEW j \in 1..n, i < j
      PROVE  text[i] # text[j]
  <2>1. i \in 1..k /\ j \in 1..k
    BY <1>2, <1>5
  <2>2. f[i] \in P /\ f[j] \in P /\ f[i] < f[j]
    <3> HIDE DEF P
    <3> QED BY <1>4, <1>8, <2>1
  <2>3. f[i] \in 1..(f[j] - 1)
    BY <1>1, <2>2
  <2>4. found[f[i]] # found[f[j]]
    BY <2>2, <2>3
  <2> QED BY <2>4
<1>9. IsInjective(text)
  <2> SUFFICES ASSUME NEW i \in 1..n, NEW j \in 1..n, text[i] = text[j]
               PROVE  i = j
    BY <1>7 DEF IsInjective
  <2>1. ~ (i < j) /\ ~ (j < i)
    BY <1>8
  <2> QED BY <2>1, <1>5
<1> HIDE DEF text, n
<1> QED BY <1>5, <1>6, <1>7, <1>9 DEF Publishable

--------------------------------------------------------------------------
(* Types. *)

OptPrefixes == Delegations \cup {None}
Modes == (SUBSET {"-N", "-P"}) \cup {None}
Addresses == (Lans \X Delegations) \cup {None}
Found == [wan : ToSet(Wans), server : Servers, live : BOOLEAN]

(* The types of the variables together.  TypeOK leaves out what only the   *)
(* next steps need: whole records, the prefixes of the links and the       *)
(* resolvers learned, from which what is published is made.                *)
LanInv ==
  /\ desired \in Configs
  /\ pc \in {"wan", "lan", "wait", "idle", "seen", "poll"}
  /\ client \in [ToSet(Wans) -> Modes] /\ stopped \in [ToSet(Wans) -> Modes]
  /\ lease \in [ToSet(Wans) -> [pd : OptPrefixes, dns : Seq(Servers)]]
  /\ lan \in [addr : SUBSET (Lans \X Delegations), kea : Addresses, served : Addresses]
  /\ seen \in OptPrefixes /\ (observed = None \/ observed.prefix \in OptPrefixes)
LinkInv ==
  /\ DOMAIN links \subseteq Lans
  /\ \A d \in DOMAIN links : links[d].prefixes \subseteq Delegations
  /\ hosts \in [Lans -> SUBSET Delegations]
DnsInv ==
  /\ listening \subseteq ToSet(Wans)
  /\ learned \in Seq(Found)
  /\ Publishable(conf.text)
TypeInv == LanInv /\ LinkInv /\ DnsInv

LEMMA ConfigOf ==
  ASSUME desired \in Configs
  PROVE  /\ desired.lan \in Lans \cup {None} /\ desired.static \in OptPrefixes
         /\ desired.own \subseteq Lans \X Delegations
BY Ipv6Assumption DEF Config, OptPrefixes

LEMMA RoutedIs ==
  ASSUME LanInv
  PROVE  routed_lan_prefix(desired) \in OptPrefixes
<1>1. acquired_prefix(desired) \in OptPrefixes
  <2>1. CASE \E w \in ToSet(Wans) : desired.wan[w].pd
    <3> DEFINE w == CHOOSE v \in ToSet(Wans) : desired.wan[v].pd
    <3>1. w \in ToSet(Wans)
      BY <2>1
    <3>2. acquired_prefix(desired) = lease[w].pd
      BY <2>1 DEF acquired_prefix
    <3> HIDE DEF w
    <3> QED BY <3>1, <3>2 DEF LanInv
  <2>2. CASE ~ \E w \in ToSet(Wans) : desired.wan[w].pd
    BY <2>2 DEF acquired_prefix, OptPrefixes
  <2> QED BY <2>1, <2>2
<1> QED BY <1>1, ConfigOf DEF LanInv, routed_lan_prefix

LEMMA AddressIs ==
  ASSUME desired \in Configs, NEW p \in OptPrefixes
  PROVE  pd_lan_addr(desired, p) \in Addresses
BY ConfigOf DEF pd_lan_addr, OptPrefixes, Addresses

LEMMA LanProgrammed ==
  ASSUME LanInv, NEW f,
         NEW l \in [addr : SUBSET (Lans \X Delegations), kea : Addresses, served : Addresses]
  PROVE  /\ program_lan_services(l, f)
              \in [addr : SUBSET (Lans \X Delegations), kea : Addresses, served : Addresses]
         /\ set_lan_services_ready(l)
              \in [addr : SUBSET (Lans \X Delegations), kea : Addresses, served : Addresses]
<1> DEFINE a == pd_lan_addr(desired, routed_lan_prefix(desired))
<1>1. a \in Addresses
  BY RoutedIs, AddressIs DEF LanInv
<1>2. program_lan_services(l, f) =
        [l EXCEPT !.addr = IF a = None \/ f = "addr" THEN @ ELSE @ \cup {a},
                  !.kea = IF f \in {"addr", "kea"} THEN @ ELSE a]
  BY DEF program_lan_services
<1> HIDE DEF a
<1>3. a = None \/ a \in Lans \X Delegations
  BY <1>1 DEF Addresses
<1>4. program_lan_services(l, f)
        \in [addr : SUBSET (Lans \X Delegations), kea : Addresses, served : Addresses]
  <2> DEFINE D == Lans \X Delegations
             addr == IF a = None \/ f = "addr" THEN l.addr ELSE l.addr \cup {a}
             kea == IF f \in {"addr", "kea"} THEN l.kea ELSE a
  <2>1. program_lan_services(l, f) = [l EXCEPT !.addr = addr, !.kea = kea]
    BY <1>2
  <2> HIDE DEF D
  <2>2. l \in [addr : SUBSET D, kea : Addresses, served : Addresses]
    BY DEF D
  <2>3. addr \in SUBSET D /\ kea \in Addresses
    BY <1>1, <1>3, <2>2 DEF D
  <2> HIDE DEF addr, kea
  <2>4. program_lan_services(l, f) \in [addr : SUBSET D, kea : Addresses, served : Addresses]
    BY <2>1, <2>2, <2>3
  <2> QED BY <2>4 DEF D
<1> QED BY <1>4 DEF set_lan_services_ready

LEMMA AdvertisementsAre ==
  ASSUME desired \in Configs, NEW p \in OptPrefixes
  PROVE  /\ DOMAIN Advertisements(desired, p) \subseteq Lans
         /\ \A d \in DOMAIN Advertisements(desired, p) :
              Advertisements(desired, p)[d].prefixes \subseteq Delegations
<1> DEFINE X == lan_ipv6(desired, p)
<1>1. X \subseteq Lans \X Delegations
  BY ConfigOf, AddressIs DEF lan_ipv6, Addresses
<1>2. \A x \in X : x[1] \in Lans /\ x[2] \in Delegations
  BY <1>1
<1>3. DOMAIN Advertisements(desired, p) = {x[1] : x \in X}
  BY DEF Advertisements
<1>4. \A d \in DOMAIN Advertisements(desired, p) :
        Advertisements(desired, p)[d].prefixes = {x[2] : x \in {y \in X : y[1] = d}}
  BY DEF Advertisements
<1> HIDE DEF X
<1> QED BY <1>2, <1>3, <1>4

LEMMA Configured ==
  ASSUME LinkInv, LanInv, NEW f, configure(Advertisements(desired, seen), f)
  PROVE  LinkInv'
<1> DEFINE lans == Advertisements(desired, seen)
           kept == {d \in DOMAIN links \cap DOMAIN lans : links[d] = lans[d]}
           opened == IF f = "open" THEN {} ELSE DOMAIN lans \ kept
<1>1. /\ links' = [d \in kept \cup opened |-> lans[d]]
      /\ \E W : hosts' = [d \in Lans |-> IF d \in W THEN hosts[d] \ Advertised(links, d)
                                         ELSE hosts[d]]
  BY DEF configure, Reconfigure
<1>2. DOMAIN lans \subseteq Lans /\ \A d \in DOMAIN lans : lans[d].prefixes \subseteq Delegations
  BY AdvertisementsAre DEF LanInv
<1>3. kept \subseteq DOMAIN lans /\ opened \subseteq DOMAIN lans
  OBVIOUS
<1> HIDE DEF lans, kept, opened
<1> QED BY <1>1, <1>2, <1>3 DEF LinkInv

LEMMA ServersAre ==
  ASSUME NEW known \in Seq(Found), NEW w
  PROVE  servers(known, w) \in Seq(Servers)
<1> DEFINE live == retain(known, {i \in DOMAIN known : known[i].wan = w /\ known[i].live})
<1>1. live \in Seq(Found)
  BY Retained
<1>2. servers(known, w) = [i \in DOMAIN live |-> live[i].server]
  BY DEF servers
<1> HIDE DEF live
<1>3. DOMAIN live = 1..Len(live) /\ Len(live) \in Nat /\ \A i \in DOMAIN live : live[i].server \in Servers
  <2>1. \A i \in DOMAIN live : live[i] \in Found
    BY <1>1, Elements
  <2>2. DOMAIN live = 1..Len(live) /\ Len(live) \in Nat
    BY <1>1, Elements
  <2>3. \A e \in Found : e.server \in Servers
    BY DEF Found
  <2> QED BY <2>1, <2>2, <2>3
<1> QED BY <1>2, <1>3

LEMMA LearnedPublishable ==
  ASSUME LanInv, NEW known \in Seq(Found)
  PROVE  Publishable(learned_resolvers(known))
<1> DEFINE seqs == [i \in DOMAIN Wans |-> lease[Wans[i]].dns \o servers(known, Wans[i])]
<1>1. DOMAIN Wans = 1..Len(Wans) /\ Len(Wans) \in Nat
  BY Ipv6Assumption
<1>2. \A i \in DOMAIN Wans : Wans[i] \in ToSet(Wans)
  BY DEF ToSet
<1>3. \A i \in DOMAIN Wans : lease[Wans[i]].dns \in Seq(Servers)
  BY <1>2 DEF LanInv
<1>4. \A i \in DOMAIN Wans : seqs[i] \in Seq(Servers)
  BY <1>3, ServersAre
<1>5. seqs \in Seq(Seq(Servers))
  BY <1>1, <1>4
<1> HIDE DEF seqs
<1>6. FlattenSeq(seqs) \in Seq(Servers)
  BY <1>5, Flattened
<1>7. Publishable(resolv_conf(FlattenSeq(seqs)))
  BY <1>6, FoundPublishable
<1> QED BY <1>7 DEF learned_resolvers, seqs

LEMMA InitTypes == Init => TypeInv
<1> SUFFICES ASSUME Init PROVE TypeInv
  OBVIOUS
<1>1. LanInv
  BY DEF Init, LanInv, NoLease, OptPrefixes, Addresses, Modes
<1>2. LinkInv
  BY DEF Init, LinkInv
<1>3. Publishable(<<>>)
  BY Ipv6Assumption DEF Publishable, IsInjective
<1>4. DnsInv
  BY <1>3 DEF Init, DnsInv
<1> QED BY <1>1, <1>2, <1>4 DEF TypeInv

(* The netd steps, the clients and a restart that touch no resolver.       *)
LEMMA LanStep ==
  ASSUME LanInv, LinkInv, Next
  PROVE  LanInv'
<1> USE DEF clientVars
<1>1. CASE program_wan_ipv6
  <2>1. \A w : wanted(w) \in Modes
    BY DEF wanted, dhclient6_args, Modes
  <2>2. \A w \in ToSet(Wans) : start_dhclient6(w) \in [pd : OptPrefixes, dns : Seq(Servers)]
    BY DEF start_dhclient6, NoLease, LanInv, OptPrefixes
  <2>3. client' \in [ToSet(Wans) -> Modes] /\ stopped' \in [ToSet(Wans) -> Modes]
    BY <1>1, <2>1 DEF program_wan_ipv6, LanInv
  <2>4. lease' \in [ToSet(Wans) -> [pd : OptPrefixes, dns : Seq(Servers)]]
    BY <1>1, <2>2 DEF program_wan_ipv6, LanInv
  <2> QED BY <1>1, <2>3, <2>4 DEF program_wan_ipv6, LanInv, lanVars
<1>2. CASE ApplyLan
  BY <1>2, LanProgrammed DEF ApplyLan, LanInv
<1>3. CASE ApplyEnds
  BY <1>3, LanProgrammed DEF ApplyEnds, LanInv
<1>4. CASE refresh
  BY <1>4, RoutedIs DEF refresh, LanInv, lanVars
<1>5. CASE refresh_follows
  <2>1. PICK f : follow_prefix(f) /\ advertise(f)
    BY <1>5 DEF refresh_follows
  <2>2. lan' \in [addr : SUBSET (Lans \X Delegations), kea : Addresses, served : Addresses]
    <3> DEFINE old == IF f = "del" THEN {}
                      ELSE {observed.address} \ {pd_lan_addr(desired, seen), None}
               bare == [lan EXCEPT !.addr = @ \ old]
               programmed == program_lan_services(bare, f)
    <3>1. lan' = IF ~Changed THEN lan
                 ELSE IF f \in LanFailures THEN programmed ELSE set_lan_services_ready(programmed)
      BY <2>1 DEF follow_prefix
    <3>2. bare \in [addr : SUBSET (Lans \X Delegations), kea : Addresses, served : Addresses]
      BY DEF LanInv
    <3> HIDE DEF bare
    <3>3. programmed \in [addr : SUBSET (Lans \X Delegations), kea : Addresses, served : Addresses]
      BY <3>2, LanProgrammed
    <3> HIDE DEF programmed
    <3>4. set_lan_services_ready(programmed)
            \in [addr : SUBSET (Lans \X Delegations), kea : Addresses, served : Addresses]
      BY <3>3, LanProgrammed
    <3> QED BY <3>1, <3>3, <3>4 DEF LanInv
  <2>3. observed' = observed \/ observed' = [prefix |-> seen, address |-> pd_lan_addr(desired, seen)]
    BY <2>1 DEF advertise
  <2> QED BY <1>5, <2>2, <2>3 DEF refresh_follows, LanInv
<1>6. CASE poll
  BY <1>6 DEF poll, LanInv
<1>7. CASE apply
  BY <1>7 DEF apply, LanInv, lanVars
<1>8. CASE rdnss_poll \/ LifetimeEnds
  BY <1>8 DEF rdnss_poll, LifetimeEnds, LanInv, lanVars
<1>9. CASE dhclient6_script
  <2>1. PICK w \in ToSet(Wans) : \E args : \E l \in Written(w, args) :
          /\ lease' = [lease EXCEPT ![w] = l]
          /\ stopped' \in {stopped, [stopped EXCEPT ![w] = None]}
    BY <1>9 DEF dhclient6_script
  <2>2. PICK args : \E l \in Written(w, args) :
          /\ lease' = [lease EXCEPT ![w] = l]
          /\ stopped' \in {stopped, [stopped EXCEPT ![w] = None]}
    BY <2>1
  <2>3. PICK l \in Written(w, args) :
          /\ lease' = [lease EXCEPT ![w] = l]
          /\ stopped' \in {stopped, [stopped EXCEPT ![w] = None]}
    BY <2>2
  <2>4. l \in [pd : OptPrefixes, dns : Seq(Servers)]
    <3>1. lease[w].pd \in OptPrefixes
      BY DEF LanInv
    <3>2. NoLease \in [pd : OptPrefixes, dns : Seq(Servers)]
      BY DEF NoLease, OptPrefixes
    <3>3. ASSUME NEW k \in Leases
          PROVE  [pd |-> IF "-P" \in args THEN k.pd ELSE lease[w].pd, dns |-> k.dns]
                   \in [pd : OptPrefixes, dns : Seq(Servers)]
      BY <3>1, Ipv6Assumption DEF OptPrefixes
    <3> QED BY <3>2, <3>3 DEF Written
  <2>5. stopped' \in [ToSet(Wans) -> Modes]
    BY <2>3 DEF LanInv, Modes
  <2>6. lease' \in [ToSet(Wans) -> [pd : OptPrefixes, dns : Seq(Servers)]]
    BY <2>3, <2>4 DEF LanInv
  <2> QED BY <1>9, <2>5, <2>6 DEF dhclient6_script, LanInv, lanVars
<1>10. CASE Restart
  <2>1. client' \in [ToSet(Wans) -> Modes] /\ stopped' \in [ToSet(Wans) -> Modes]
    BY <1>10 DEF Restart, LanInv, Modes
  <2>2. lan' \in [addr : SUBSET (Lans \X Delegations), kea : Addresses, served : Addresses]
    BY <1>10 DEF Restart, LanInv
  <2> QED BY <1>10, <2>1, <2>2 DEF Restart, NewMemory, LanInv, OptPrefixes
<1>11. CASE HostForgets
  BY <1>11 DEF HostForgets, LanInv
<1> QED BY <1>1, <1>2, <1>3, <1>4, <1>5, <1>6, <1>7, <1>8, <1>9, <1>10, <1>11 DEF Next, Netd

LEMMA LinkStep ==
  ASSUME LanInv, LinkInv, Next
  PROVE  LinkInv'
<1>1. CASE program_wan_ipv6 \/ ApplyLan \/ ApplyEnds \/ refresh
  BY <1>1 DEF program_wan_ipv6, ApplyLan, ApplyEnds, refresh, LinkInv, lanVars
<1>2. CASE apply \/ rdnss_poll \/ LifetimeEnds \/ dhclient6_script
  BY <1>2 DEF apply, rdnss_poll, LifetimeEnds, dhclient6_script, LinkInv, lanVars
<1>3. CASE refresh_follows
  <2>1. PICK f : advertise(f)
    BY <1>3 DEF refresh_follows
  <2> QED BY <2>1, Configured DEF advertise, LinkInv
<1>4. CASE poll
  <2>1. \A d : Advertised(links, d) \subseteq Delegations
    BY DEF LinkInv, Advertised
  <2> QED BY <1>4, <2>1 DEF poll, LinkInv
<1>5. CASE Restart
  BY <1>5 DEF Restart, NewMemory, LinkInv
<1>6. CASE HostForgets
  BY <1>6 DEF HostForgets, LinkInv
<1> QED BY <1>1, <1>2, <1>3, <1>4, <1>5, <1>6 DEF Next, Netd

LEMMA DnsStep ==
  ASSUME LanInv, DnsInv, Next
  PROVE  DnsInv'
<1>1. CASE program_wan_ipv6 \/ ApplyLan \/ ApplyEnds \/ poll \/ HostForgets \/ refresh_follows
  BY <1>1 DEF program_wan_ipv6, ApplyLan, ApplyEnds, poll, HostForgets, refresh_follows, DnsInv,
              dnsVars
<1>2. CASE apply \/ dhclient6_script
  BY <1>2 DEF apply, dhclient6_script, DnsInv, dnsVars
<1>3. CASE refresh
  <2>1. PICK f : follow_wan_resolvers(f)
    BY <1>3 DEF refresh
  <2>2. listening' \subseteq ToSet(Wans)
    BY <2>1 DEF follow_wan_resolvers, listen, accepting_ra
  <2>3. learned' \in Seq(Found)
    <3>1. learned' = retain(learned, {i \in DOMAIN learned : learned[i].wan \in accepting_ra})
      BY <2>1 DEF follow_wan_resolvers, listen
    <3> QED BY <3>1, Retained DEF DnsInv
  <2>4. Publishable(learned_resolvers(learned'))
    BY <2>3, LearnedPublishable
  <2>5. conf'.text \in {conf.text, learned_resolvers(learned')}
    BY <2>1 DEF follow_wan_resolvers, publish
  <2> QED BY <2>2, <2>3, <2>4, <2>5 DEF DnsInv, Publishable
<1>4. CASE rdnss_poll
  <2>1. PICK w \in listening, s \in Servers, lifetime \in {0, 1} : learn(w, s, lifetime)
    BY <1>4 DEF rdnss_poll
  <2> DEFINE others == retain(learned, {i \in DOMAIN learned :
                                          learned[i].wan # w \/ learned[i].server # s})
  <2>2. others \in Seq(Found)
    BY Retained DEF DnsInv
  <2>3. learned' \in {others, Append(others, [wan |-> w, server |-> s, live |-> TRUE])}
    BY <2>1 DEF learn
  <2> HIDE DEF others
  <2>4. [wan |-> w, server |-> s, live |-> TRUE] \in Found
    BY DEF Found, DnsInv
  <2>5. learned' \in Seq(Found)
    BY <2>2, <2>3, <2>4
  <2> QED BY <1>4, <2>5 DEF rdnss_poll, DnsInv
<1>5. CASE LifetimeEnds
  <2>1. PICK i \in DOMAIN learned : learned' = [learned EXCEPT ![i].live = FALSE]
    BY <1>5 DEF LifetimeEnds
  <2>2. learned[i] \in Found
    BY Elements DEF DnsInv
  <2>3. [learned[i] EXCEPT !.live = FALSE] \in Found
    BY <2>2 DEF Found
  <2>4. learned' = [learned EXCEPT ![i] = [learned[i] EXCEPT !.live = FALSE]]
    BY <2>1
  <2>5. learned' \in Seq(Found)
    BY <2>3, <2>4 DEF DnsInv
  <2> QED BY <1>5, <2>5 DEF LifetimeEnds, DnsInv
<1>6. CASE Restart
  BY <1>6 DEF Restart, NewMemory, DnsInv
<1> QED BY <1>1, <1>2, <1>3, <1>4, <1>5, <1>6 DEF Next, Netd

LEMMA StepTypes == TypeInv /\ [Next]_vars => TypeInv'
<1> SUFFICES ASSUME TypeInv, [Next]_vars PROVE TypeInv'
  OBVIOUS
<1>1. CASE Next
  BY <1>1, LanStep, LinkStep, DnsStep DEF TypeInv
<1>2. CASE UNCHANGED vars
  BY <1>2 DEF vars, clientVars, lanVars, dnsVars, TypeInv, LanInv, LinkInv, DnsInv
<1> QED BY <1>1, <1>2

LEMMA TypesGiveTypeOK == TypeInv => TypeOK
<1> SUFFICES ASSUME TypeInv PROVE TypeOK
  OBVIOUS
<1>1. \A w \in ToSet(Wans) : /\ {client[w], stopped[w]} \subseteq (SUBSET {"-N", "-P"}) \cup {None}
                             /\ lease[w].pd \in Delegations \cup {None}
                             /\ ToSet(lease[w].dns) \subseteq Servers
  <2> SUFFICES ASSUME NEW w \in ToSet(Wans)
               PROVE  /\ {client[w], stopped[w]} \subseteq (SUBSET {"-N", "-P"}) \cup {None}
                      /\ lease[w].pd \in Delegations \cup {None}
                      /\ ToSet(lease[w].dns) \subseteq Servers
    OBVIOUS
  <2>1. /\ {client[w], stopped[w]} \subseteq Modes
        /\ lease[w].pd \in OptPrefixes /\ lease[w].dns \in Seq(Servers)
    BY DEF TypeInv, LanInv
  <2>2. ToSet(lease[w].dns) \subseteq Servers
    BY <2>1, Elements DEF ToSet
  <2> QED BY <2>1, <2>2 DEF OptPrefixes, Modes
<1>2. /\ lan.addr \subseteq Lans \X Delegations
      /\ {lan.kea, lan.served} \subseteq (Lans \X Delegations) \cup {None}
  BY DEF TypeInv, LanInv, Addresses
<1>3. \A d \in Lans : hosts[d] \subseteq Delegations
  BY DEF TypeInv, LinkInv
<1>4. \A i \in DOMAIN learned : learned[i].wan \in ToSet(Wans)
  <2>1. \A e \in Found : e.wan \in ToSet(Wans)
    BY DEF Found
  <2>2. \A i \in DOMAIN learned : learned[i] \in Found
    BY Elements DEF TypeInv, DnsInv
  <2> QED BY <2>1, <2>2
<1> QED
  BY <1>1, <1>2, <1>3, <1>4 DEF TypeInv, LanInv, LinkInv, DnsInv, Publishable, OptPrefixes, TypeOK

(* TypeOK: in particular fwd-resolv.conf never exceeds the limit of        *)
(* fwd_resolvers and never names a resolver twice, whatever the WANs have  *)
(* leased and learned and whichever call failed.                           *)
THEOREM TypeCorrect == Spec => []TypeOK
<1> QED BY InitTypes, StepTypes, TypesGiveTypeOK, PTL DEF Spec
==============================================================================
