--------------------------- MODULE Topology_proofs ---------------------------
(***************************************************************************)
(* The topology scheduler for any fleet, edges, distances, hop limit,      *)
(* jitter and faults: every saved table is the one of shortest paths       *)
(* (RoutesShortest), monitors show the saved table (ViewCurrent), and a    *)
(* ship that got every word obeys it (RoutesKnown).                        *)
(***************************************************************************)
EXTENDS Topology, FiniteSetTheorems, SequenceTheorems, WellFoundedInduction, TLAPS

-----------------------------------------------------------------------------
(* Least numbers and nearest hosts.                                        *)

(* A set of naturals has a least element.                                  *)
LEMMA Least ==
  ASSUME NEW T, T \subseteq Nat, T # {}
  PROVE  \E x \in T : \A y \in T : x <= y
<1> DEFINE R == {ss \in Nat \X Nat : ss[1] < ss[2]}
<1>1. IsWellFoundedOn(R, Nat)
  BY NatLessThanWellFounded DEF OpToRel
<1>2. \E x \in T : \A y \in T : ~ (<<y, x>> \in R)
  <2> HIDE DEF R
  <2> QED BY <1>1, WFMin
<1>3. PICK x \in T : \A y \in T : ~ (<<y, x>> \in R)
  BY <1>2
<1>4. ASSUME NEW y \in T PROVE x <= y
  <2>1. ~ (<<y, x>> \in R)
    BY <1>3
  <2> QED BY <2>1
<1> QED BY <1>4

(* Of some candidates, one is nearest and, of those, first by rank.        *)
LEMMA NearestFirst ==
  ASSUME NEW S, S # {}, NEW d \in [S -> Nat], NEW r \in [S -> Nat]
  PROVE  \E x \in S : \A y \in S : d[x] < d[y] \/ (d[x] = d[y] /\ r[x] <= r[y])
<1>1. PICK x0 \in S : \A y \in S : d[x0] <= d[y]
  <2> DEFINE Gaps == {d[x] : x \in S}
  <2>1. Gaps \subseteq Nat /\ Gaps # {}
    OBVIOUS
  <2>2. PICK m \in Gaps : \A k \in Gaps : m <= k
    <3> HIDE DEF Gaps
    <3> QED BY <2>1, Least
  <2> QED BY <2>2
<1> DEFINE Near == {x \in S : d[x] = d[x0]}
<1>2. PICK x \in Near : \A y \in Near : r[x] <= r[y]
  <2> DEFINE Ranks == {r[x] : x \in Near}
  <2>1. Ranks \subseteq Nat /\ Ranks # {}
    OBVIOUS
  <2>2. PICK m \in Ranks : \A k \in Ranks : m <= k
    <3> HIDE DEF Ranks
    <3> QED BY <2>1, Least
  <2> QED BY <2>2
<1> QED BY <1>1, <1>2

(* Positions, read as functions.                                           *)
LEMMA PositionsAre ==
  ASSUME NEW p
  PROVE  p \in Positions <=> DOMAIN p \subseteq Ships /\ p \in [DOMAIN p -> Places]
BY DEF Positions

(* Whether S may host the level: edges, or ships that have a position.     *)
MayHost(S) == S \subseteq Edges \/ S \subseteq DOMAIN pos

(* The distance to a host is a number.                                     *)
LEMMA DistanceIsNat ==
  ASSUME pos \in Positions, NEW n \in DOMAIN pos, NEW S, MayHost(S), NEW x \in S
  PROVE  x \in Targets /\ Distance(n, x) \in Nat
BY PositionsAre, TopologyAssumption DEF MayHost, Distance, Spot, Targets

(* A ship that some host is in range of has a nearest one.                 *)
LEMMA NearestIs ==
  ASSUME pos \in Positions, NEW n \in DOMAIN pos, NEW S, MayHost(S),
         \E x \in S : InRange(n, x)
  PROVE  LET x == Nearest(n, S) IN
         /\ x \in S /\ InRange(n, x)
         /\ \A y \in S \ {x} : \/ Distance(n, x) < Distance(n, y)
                               \/ Distance(n, x) = Distance(n, y) /\ Rank[x] < Rank[y]
<1> DEFINE Near == {x \in S : InRange(n, x)}
           d == [x \in Near |-> Distance(n, x)]
           r == [x \in Near |-> Rank[x]]
           Best(x) == /\ InRange(n, x)
                      /\ \A y \in S : InRange(n, y) =>
                           \/ Distance(n, x) < Distance(n, y)
                           \/ Distance(n, x) = Distance(n, y) /\ Rank[x] <= Rank[y]
<1>1. \A x \in S : x \in Targets /\ Distance(n, x) \in Nat /\ Rank[x] \in Nat
  BY DistanceIsNat, TopologyAssumption
<1>2. d \in [Near -> Nat] /\ r \in [Near -> Nat] /\ Near # {}
  BY <1>1
<1>3. \E x \in Near : \A y \in Near : d[x] < d[y] \/ (d[x] = d[y] /\ r[x] <= r[y])
  <2> HIDE DEF Near, d, r
  <2> QED BY <1>2, NearestFirst
<1>4. \E x \in S : Best(x)
  BY <1>3
<1>5. Nearest(n, S) \in S /\ Best(Nearest(n, S))
  <2>1. Nearest(n, S) = CHOOSE x \in S : Best(x)
    BY DEF Nearest
  <2> HIDE DEF Best
  <2> QED BY <1>4, <2>1
<1>6. PICK x \in S : x = Nearest(n, S) /\ Best(x)
  <2> HIDE DEF Best
  <2> QED BY <1>5
<1>7. ASSUME NEW y \in S, y # x
      PROVE  \/ Distance(n, x) < Distance(n, y)
             \/ Distance(n, x) = Distance(n, y) /\ Rank[x] < Rank[y]
  <2>1. Rank[x] # Rank[y]
    BY <1>1, <1>7, TopologyAssumption
  <2>2. CASE InRange(n, y)
    BY <1>1, <1>6, <2>1, <2>2
  <2>3. CASE ~ InRange(n, y)
    BY <1>1, <1>6, <2>3, TopologyAssumption DEF InRange
  <2> QED BY <2>2, <2>3
<1> QED BY <1>6, <1>7
-----------------------------------------------------------------------------
(* Shortest paths, of a fleet p and edges es.                              *)

Near(p, m, n) == Apart[<<p[m], p[n]>>] <= MaxRangeKm
NearEdge(p, es, n) == \E e \in es : Apart[<<p[n], EdgeAt[e]>>] <= MaxRangeKm

(* What makes a path.                                                      *)
LEMMA PathIs ==
  ASSUME NEW p, NEW es, NEW n, NEW k, NEW path \in [1 .. k -> DOMAIN p], path[1] = n,
         \A i \in 1 .. k - 1 : Apart[<<p[path[i]], p[path[i + 1]]>>] <= MaxRangeKm,
         \E e \in es : Apart[<<p[path[k]], EdgeAt[e]>>] <= MaxRangeKm
  PROVE  Path(p, es, n, k)
BY DEF Path

(* A path of one ship ends at an edge.                                     *)
LEMMA PathOfOne ==
  ASSUME NEW p, NEW es, NEW n
  PROVE  Path(p, es, n, 1) <=> n \in DOMAIN p /\ NearEdge(p, es, n)
<1>1. ASSUME Path(p, es, n, 1) PROVE n \in DOMAIN p /\ NearEdge(p, es, n)
  BY <1>1 DEF Path, NearEdge
<1>2. ASSUME n \in DOMAIN p, NearEdge(p, es, n) PROVE Path(p, es, n, 1)
  <2> DEFINE path == [i \in 1 .. 1 |-> n]
  <2>1. path \in [1 .. 1 -> DOMAIN p] /\ path[1] = n
    BY <1>2
  <2>2. \A i \in 1 .. 1 - 1 : Apart[<<p[path[i]], p[path[i + 1]]>>] <= MaxRangeKm
    OBVIOUS
  <2>3. \E e \in es : Apart[<<p[path[1]], EdgeAt[e]>>] <= MaxRangeKm
    BY <1>2, <2>1 DEF NearEdge
  <2> QED BY <2>1, <2>2, <2>3 DEF Path
<1> QED BY <1>1, <1>2

(* A longer one goes on from a ship in range.                              *)
LEMMA PathGoesOn ==
  ASSUME NEW p, NEW es, NEW n, NEW k \in Nat \ {0}
  PROVE  Path(p, es, n, k + 1) <=>
           n \in DOMAIN p /\ \E m \in DOMAIN p : Near(p, n, m) /\ Path(p, es, m, k)
<1>1. ASSUME Path(p, es, n, k + 1)
      PROVE  n \in DOMAIN p /\ \E m \in DOMAIN p : Near(p, n, m) /\ Path(p, es, m, k)
  <2>1. PICK path \in [1 .. k + 1 -> DOMAIN p] :
          /\ path[1] = n
          /\ \A i \in 1 .. k + 1 - 1 : Apart[<<p[path[i]], p[path[i + 1]]>>] <= MaxRangeKm
          /\ \E e \in es : Apart[<<p[path[k + 1]], EdgeAt[e]>>] <= MaxRangeKm
    BY <1>1 DEF Path
  <2> DEFINE rest == [i \in 1 .. k |-> path[i + 1]]
  <2>2. rest \in [1 .. k -> DOMAIN p] /\ rest[1] = path[2] /\ rest[k] = path[k + 1]
    BY <2>1
  <2>3. ASSUME NEW i \in 1 .. k - 1 PROVE Apart[<<p[rest[i]], p[rest[i + 1]]>>] <= MaxRangeKm
    <3>1. i + 1 \in 1 .. k + 1 - 1 /\ rest[i] = path[i + 1] /\ rest[i + 1] = path[i + 1 + 1]
      OBVIOUS
    <3> HIDE DEF rest
    <3> QED BY <2>1, <3>1
  <2>4. Path(p, es, path[2], k)
    <3> HIDE DEF rest
    <3> QED BY <2>1, <2>2, <2>3, PathIs
  <2>5. n \in DOMAIN p /\ path[2] \in DOMAIN p
    BY <2>1
  <2>6. Near(p, n, path[2])
    <3>1. 1 \in 1 .. k + 1 - 1 /\ 1 + 1 = 2
      OBVIOUS
    <3> QED BY <2>1, <3>1 DEF Near
  <2> QED BY <2>4, <2>5, <2>6
<1>2. ASSUME n \in DOMAIN p, NEW m \in DOMAIN p, Near(p, n, m), Path(p, es, m, k)
      PROVE  Path(p, es, n, k + 1)
  <2>1. PICK rest \in [1 .. k -> DOMAIN p] :
          /\ rest[1] = m
          /\ \A i \in 1 .. k - 1 : Apart[<<p[rest[i]], p[rest[i + 1]]>>] <= MaxRangeKm
          /\ \E e \in es : Apart[<<p[rest[k]], EdgeAt[e]>>] <= MaxRangeKm
    BY <1>2 DEF Path
  <2> DEFINE way == [i \in 1 .. k + 1 |-> IF i = 1 THEN n ELSE rest[i - 1]]
  <2>2. /\ way \in [1 .. k + 1 -> DOMAIN p] /\ way[1] = n
        /\ way[2] = rest[1] /\ way[k + 1] = rest[k]
    BY <1>2, <2>1
  <2>3. ASSUME NEW i \in 1 .. k + 1 - 1
        PROVE  Apart[<<p[way[i]], p[way[i + 1]]>>] <= MaxRangeKm
    <3>1. CASE i = 1
      <4>1. way[i] = n /\ way[i + 1] = m
        BY <2>1, <2>2, <3>1
      <4> QED BY <1>2, <4>1 DEF Near
    <3>2. CASE i # 1
      <4>1. /\ i - 1 \in 1 .. k - 1 /\ way[i] = rest[i - 1]
            /\ way[i + 1] = rest[i - 1 + 1]
        BY <3>2
      <4> HIDE DEF way
      <4> QED BY <2>1, <4>1
    <3> QED BY <3>1, <3>2
  <2>4. \E e \in es : Apart[<<p[way[k + 1]], EdgeAt[e]>>] <= MaxRangeKm
    BY <2>1, <2>2
  <2>5. \A i \in 1 .. k + 1 - 1 : Apart[<<p[way[i]], p[way[i + 1]]>>] <= MaxRangeKm
    BY <2>3
  <2> HIDE DEF way
  <2> DEFINE kk == k + 1
  <2>6. way \in [1 .. kk -> DOMAIN p] /\ way[1] = n
    BY <2>2
  <2>7. \A i \in 1 .. kk - 1 : Apart[<<p[way[i]], p[way[i + 1]]>>] <= MaxRangeKm
    BY <2>5
  <2>8. \E e \in es : Apart[<<p[way[kk]], EdgeAt[e]>>] <= MaxRangeKm
    BY <2>4
  <2> HIDE DEF kk
  <2>9. Path(p, es, n, kk)
    BY <2>6, <2>7, <2>8, PathIs
  <2> QED BY <2>9 DEF kk
<1> QED BY <1>1, <1>2

(* What Hops says.                                                         *)
LEMMA HopsAre ==
  ASSUME NEW p, NEW es, NEW n
  PROVE  /\ Hops(p, es, n) \in 0 .. MaxHops
         /\ \A k \in 1 .. MaxHops : Hops(p, es, n) = k <=>
              Path(p, es, n, k) /\ \A j \in 1 .. k - 1 : ~ Path(p, es, n, j)
         /\ \A k \in 1 .. MaxHops : Path(p, es, n, k) => Hops(p, es, n) \in 1 .. k
<1> DEFINE Is(k) == Path(p, es, n, k)
           First(k) == Is(k) /\ \A j \in 1 .. k - 1 : ~ Is(j)
<1>1. CASE \E k \in 1 .. MaxHops : Is(k)
  <2> DEFINE T == {k \in 1 .. MaxHops : Is(k)}
  <2>1. PICK k \in T : \A j \in T : k <= j
    <3>1. T \subseteq Nat /\ T # {}
      BY <1>1
    <3> QED BY <3>1, Least
  <2>2. Is(k) /\ k \in 1 .. MaxHops /\ \A j \in 1 .. k - 1 : ~ Is(j)
    <3> HIDE DEF Is
    <3> QED BY <2>1, TopologyAssumption
  <2>3. Hops(p, es, n) = CHOOSE j \in 1 .. MaxHops : First(j)
    BY <1>1 DEF Hops
  <2>4. Hops(p, es, n) \in 1 .. MaxHops /\ First(Hops(p, es, n))
    <3> HIDE DEF Is
    <3> QED BY <2>2, <2>3
  <2>5. \A j \in 1 .. MaxHops : First(j) => j = Hops(p, es, n)
    <3> HIDE DEF Is
    <3> QED BY <2>4, TopologyAssumption
  <2>6. \A j \in 1 .. MaxHops : Is(j) => Hops(p, es, n) \in 1 .. j
    <3> HIDE DEF Is
    <3> QED BY <2>4, TopologyAssumption
  <2> QED
    <3>1. \A j \in 1 .. MaxHops : Hops(p, es, n) = j <=> First(j)
      <4> HIDE DEF First
      <4> QED BY <2>4, <2>5
    <3> QED BY <2>4, <2>6, <3>1, TopologyAssumption
<1>2. CASE ~ \E k \in 1 .. MaxHops : Is(k)
  <2>1. Hops(p, es, n) = 0
    BY <1>2 DEF Hops
  <2> HIDE DEF Is
  <2>2. \A k \in 1 .. MaxHops : ~ First(k) /\ k # 0 /\ ~ Is(k)
    BY <1>2, TopologyAssumption
  <2> QED BY <2>1, <2>2, TopologyAssumption DEF Is
<1> QED BY <1>1, <1>2

(* One hop: an edge is in range.                                           *)
LEMMA OneHop ==
  ASSUME NEW p, NEW es, NEW n
  PROVE  Hops(p, es, n) = 1 <=> n \in DOMAIN p /\ NearEdge(p, es, n)
<1>1. 1 \in 1 .. MaxHops /\ 1 .. 1 - 1 = {}
  BY TopologyAssumption
<1> QED BY <1>1, HopsAre, PathOfOne

(* One hop more: the first level that a ship of the level before is in     *)
(* range of.                                                               *)
LEMMA NextHop ==
  ASSUME NEW p, NEW es, NEW n, NEW k \in Nat \ {0}, k < MaxHops
  PROVE  Hops(p, es, n) = k + 1 <=>
           /\ n \in DOMAIN p /\ Hops(p, es, n) \notin 1 .. k
           /\ \E m \in DOMAIN p : Hops(p, es, m) = k /\ Near(p, n, m)
<1> DEFINE H(x) == Hops(p, es, x)
           Is(x, j) == Path(p, es, x, j)
<1>1. k \in 1 .. MaxHops /\ k + 1 \in 1 .. MaxHops
  BY TopologyAssumption
<1>2. ASSUME NEW x
      PROVE  /\ H(x) = k <=> Is(x, k) /\ \A i \in 1 .. k - 1 : ~ Is(x, i)
             /\ H(x) = k + 1 <=> Is(x, k + 1) /\ \A i \in 1 .. k : ~ Is(x, i)
             /\ \A j \in 1 .. MaxHops : Is(x, j) => H(x) \in 1 .. j
  <2>1. k + 1 - 1 = k
    OBVIOUS
  <2> QED BY <1>1, <2>1, HopsAre
<1>3. \A j \in 1 .. MaxHops : \A x : Is(x, j + 1) <=>
        x \in DOMAIN p /\ \E m \in DOMAIN p : Near(p, x, m) /\ Is(m, j)
  BY PathGoesOn, TopologyAssumption
<1>4. ASSUME H(n) = k + 1
      PROVE  n \in DOMAIN p /\ \E m \in DOMAIN p : H(m) = k /\ Near(p, n, m)
  <2> HIDE DEF H, Is
  <2>1. Is(n, k + 1) /\ \A i \in 1 .. k : ~ Is(n, i)
    BY <1>2, <1>4
  <2>2. PICK m \in DOMAIN p : Near(p, n, m) /\ Is(m, k)
    BY <1>1, <1>3, <2>1
  <2>3. n \in DOMAIN p
    BY <1>1, <1>3, <2>1
  <2>4. ASSUME NEW i \in 1 .. k - 1, Is(m, i) PROVE FALSE
    <3>1. i \in 1 .. MaxHops /\ i + 1 \in 1 .. k
      BY <1>1, TopologyAssumption
    <3>2. Is(n, i + 1)
      BY <1>3, <2>2, <2>3, <2>4, <3>1
    <3> QED BY <2>1, <3>1, <3>2
  <2>5. H(m) = k
    BY <1>2, <2>2, <2>4
  <2> QED BY <2>2, <2>3, <2>5
<1>5. ASSUME n \in DOMAIN p, H(n) \notin 1 .. k,
             NEW m \in DOMAIN p, H(m) = k, Near(p, n, m)
      PROVE  H(n) = k + 1
  <2> HIDE DEF H, Is
  <2>1. Is(m, k)
    BY <1>2, <1>5
  <2>2. Is(n, k + 1)
    BY <1>1, <1>3, <1>5, <2>1
  <2>3. ASSUME NEW i \in 1 .. k, Is(n, i) PROVE FALSE
    <3>1. i \in 1 .. MaxHops /\ 1 .. i \subseteq 1 .. k
      BY <1>1, TopologyAssumption
    <3> QED BY <1>2, <1>5, <2>3, <3>1
  <2> QED BY <1>2, <2>2, <2>3
<1>6. k + 1 \notin 1 .. k
  OBVIOUS
<1> QED BY <1>4, <1>5, <1>6

(* A level nobody is at is the last.                                       *)
LEMMA NoneBeyond ==
  ASSUME NEW p, NEW es, NEW k \in 1 .. MaxHops, \A m \in DOMAIN p : Hops(p, es, m) # k
  PROVE  \A n \in DOMAIN p : Hops(p, es, n) <= k
<1> DEFINE H(x) == Hops(p, es, x)
           T == {j \in k + 1 .. MaxHops : \E n \in DOMAIN p : H(n) = j}
<1>1. \A n : H(n) \in 0 .. MaxHops
  BY HopsAre
<1>2. ASSUME T # {} PROVE FALSE
  <2>1. PICK j \in T : \A i \in T : j <= i
    <3>1. T \subseteq Nat
      BY TopologyAssumption
    <3> HIDE DEF T
    <3> QED BY <1>2, <3>1, Least
  <2>2. PICK n \in DOMAIN p : H(n) = j
    BY <2>1
  <2>3. /\ j - 1 \in Nat \ {0} /\ j - 1 < MaxHops /\ j - 1 + 1 = j
        /\ j \in k + 1 .. MaxHops
    BY <2>1, TopologyAssumption
  <2>4. PICK m \in DOMAIN p : H(m) = j - 1
    BY <2>2, <2>3, NextHop
  <2>5. CASE j - 1 = k
    BY <2>4, <2>5
  <2>6. CASE j - 1 # k
    <3>1. j - 1 \in k + 1 .. MaxHops
      BY <2>3, <2>6, TopologyAssumption
    <3>2. j - 1 \in T
      BY <2>4, <3>1
    <3> HIDE DEF T, H
    <3> QED BY <2>1, <2>3, <3>2, TopologyAssumption
  <2> QED BY <2>5, <2>6
<1>3. ASSUME NEW n \in DOMAIN p PROVE H(n) <= k
  <2>1. H(n) \notin k + 1 .. MaxHops
    BY <1>2, <1>3
  <2> HIDE DEF H, T
  <2> QED BY <1>1, <2>1, TopologyAssumption
<1> QED BY <1>3

-----------------------------------------------------------------------------
(* Types.                                                                  *)

(* While it pushes, the table laid out is the one saved.                   *)
Pushing == pc = "push" => fresh = table /\ todo \subseteq DOMAIN table

(* While it lays out, the levels are those of the ships read.              *)
Layout ==
  pc = "layer" =>
    level \in 1 .. MaxHops /\ last \subseteq DOMAIN pos /\ DOMAIN fresh \subseteq DOMAIN pos

(* A NodeConnected about to send has a route to send.                      *)
Carries == \A n \in Ships : join[n] = "send" => carried[n] \in Entries

Types == TypeOK /\ Pushing /\ Layout /\ Carries

LEMMA TypesInit == Init => Types
<1> SUFFICES ASSUME Init PROVE Types
  OBVIOUS
<1> USE TopologyAssumption DEF Init
<1>1. IsTable(Empty) /\ Empty \in Positions
  BY PositionsAre DEF IsTable, Empty
<1>2. [n \in Ships |-> <<>>] \in [Ships -> Seq(Entries)]
  OBVIOUS
<1>3. geo \in [Ships -> Places \cup {Nowhere}] /\ online \subseteq Ships
  OBVIOUS
<1>4. basis.pos = Empty /\ basis.edges = {} /\ 1 \in 1 .. MaxHops + 1
  OBVIOUS
<1>5. /\ IsTable(table) /\ IsTable(fresh) /\ IsTable(view) /\ pos \in Positions
      /\ basis.pos \in Positions /\ basis.edges \subseteq Edges
  BY <1>1, <1>4
<1>6. /\ join \in [Ships -> {"no", "read", "send"}]
      /\ carried \in [Ships -> Entries \cup {NoRoute}]
      /\ known \in [Ships -> Entries \cup {NoRoute}]
      /\ box \in [Ships -> Seq(Entries)]
  BY <1>2
<1>7. TypeOK
  <2>1. /\ leaving \subseteq Ships /\ edges \subseteq Edges /\ seas \subseteq Edges
        /\ last \subseteq Ships /\ todo \subseteq Ships /\ missed \subseteq Ships
    OBVIOUS
  <2>2. level \in 1 .. MaxHops + 1 /\ changes \in 0 .. MaxChanges
    OBVIOUS
  <2> QED BY <1>3, <1>5, <1>6, <2>1, <2>2 DEF TypeOK
<1> QED BY <1>7 DEF Types, Pushing, Layout, Carries

(* A table laid out from a fleet.                                          *)
LEMMA NewTableIs ==
  ASSUME TypeOK
  PROVE  IsTable(NewTable) /\ DOMAIN NewTable = DOMAIN pos /\ Changed \subseteq DOMAIN pos
<1>1. Isolated \in Entries
  BY TopologyAssumption DEF Isolated, Entries
<1>2. DOMAIN pos \subseteq Ships /\ IsTable(fresh)
  BY PositionsAre DEF TypeOK
<1> QED BY <1>1, <1>2 DEF NewTable, IsTable, Changed

(* A level attached to its hosts.                                          *)
LEMMA LevelIs ==
  ASSUME Types, pc = "layer"
  PROVE  /\ MayHost(Hosts) /\ Reached \subseteq DOMAIN pos \ DOMAIN fresh
         /\ \A n \in Reached : Attach(n) \in Entries
<1>1. MayHost(Hosts)
  BY DEF Types, TypeOK, Layout, MayHost, Hosts
<1>2. Reached \subseteq DOMAIN pos \ DOMAIN fresh
  BY DEF Reached
<1>3. ASSUME NEW n \in Reached PROVE Attach(n) \in Entries
  <2> DEFINE x == Nearest(n, Hosts)
  <2>1. n \in DOMAIN pos /\ \E y \in Hosts : InRange(n, y)
    BY DEF Reached
  <2>2. x \in Hosts
    BY <1>1, <2>1, NearestIs DEF Types, TypeOK
  <2>3. x \in Targets /\ Distance(n, x) \in Nat
    <3> HIDE DEF x
    <3> QED BY <1>1, <2>1, <2>2, DistanceIsNat DEF Types, TypeOK
  <2>4. level \in 0 .. MaxHops
    BY TopologyAssumption DEF Types, Layout
  <2>5. Attach(n) = [parent |-> x, level |-> level, dist |-> Distance(n, x)]
    BY DEF Attach
  <2> HIDE DEF x
  <2> QED BY <2>3, <2>4, <2>5 DEF Entries
<1> QED BY <1>1, <1>2, <1>3

(* What goes into a send buffer is a route.                                *)
LEMMA SendTypes ==
  ASSUME TypeOK, NEW n \in Ships, NEW entry \in Entries, SendToNode(n, entry)
  PROVE  box' \in [Ships -> Seq(Entries)] /\ missed' \subseteq Ships
<1>1. Append(box[n], entry) \in Seq(Entries)
  BY DEF TypeOK
<1> QED BY <1>1 DEF SendToNode, TypeOK

(* Every step of the scheduler, the gateway and the surroundings.          *)
LEMMA TypesRecompute == Types /\ Recompute => Types'
<1> SUFFICES ASSUME Types, Recompute PROVE Types'
  OBVIOUS
<1> USE DEF Types, fleet, layout, radio
<1>1. CASE ReadPositions
  <2>1. pos' \in Positions
    <3>1. DOMAIN pos' \subseteq Ships /\ pos' \in [DOMAIN pos' -> Places]
      BY <1>1 DEF ReadPositions, TypeOK
    <3> QED BY <3>1, PositionsAre
  <2> QED BY <1>1, <2>1 DEF ReadPositions, TypeOK, Pushing, Layout, Carries
<1>2. CASE ReadSockets
  <2>1. pos' \in Positions
    <3>1. DOMAIN pos' \subseteq Ships /\ pos' \in [DOMAIN pos' -> Places]
      BY <1>2, PositionsAre DEF ReadSockets, TypeOK
    <3> QED BY <3>1, PositionsAre
  <2> QED BY <1>2, <2>1 DEF ReadSockets, TypeOK, Pushing, Layout, Carries
<1>3. CASE ReadEdges
  <2>1. IsTable(Empty) /\ DOMAIN Empty = {}
    BY DEF IsTable, Empty
  <2> QED BY <1>3, <2>1, TopologyAssumption DEF ReadEdges, TypeOK, Pushing, Layout, Carries
<1>4. CASE Layer
  <2>1. /\ Reached \subseteq DOMAIN pos \ DOMAIN fresh
        /\ \A n \in Reached : Attach(n) \in Entries
        /\ DOMAIN pos \subseteq Ships
    BY <1>4, LevelIs, PositionsAre DEF Layer, TypeOK
  <2>2. IsTable(fresh') /\ DOMAIN fresh' = DOMAIN fresh \cup Reached
    BY <1>4, <2>1 DEF Layer, TypeOK, IsTable
  <2>3. TypeOK'
    BY <1>4, <2>1, <2>2, TopologyAssumption DEF Layer, TypeOK, Layout
  <2>4. Layout'
    BY <1>4, <2>1, <2>2, TopologyAssumption DEF Layer, Layout
  <2> QED BY <1>4, <2>3, <2>4 DEF Layer, Pushing, Carries
<1>5. CASE Save
  <2>1. /\ IsTable(NewTable) /\ DOMAIN NewTable = DOMAIN pos
        /\ Changed \subseteq DOMAIN pos /\ DOMAIN pos \subseteq Ships /\ News \in BOOLEAN
    BY NewTableIs, PositionsAre DEF TypeOK, News
  <2>2. basis'.pos = pos /\ basis'.edges = seas
    BY <1>5 DEF Save
  <2>3. TypeOK'
    BY <1>5, <2>1, <2>2 DEF Save, TypeOK
  <2> QED BY <1>5, <2>1, <2>3 DEF Save, Pushing, Layout, Carries
<1>6. CASE SaveFails
  <2>1. IsTable(NewTable) /\ Changed \subseteq Ships /\ News \in BOOLEAN
    BY NewTableIs, PositionsAre DEF TypeOK, News
  <2>2. /\ IsTable(table') /\ basis'.pos \in Positions /\ basis'.edges \subseteq Edges
        /\ missed' \subseteq Ships /\ blind' \in BOOLEAN
    BY <1>6, <2>1 DEF SaveFails, TypeOK
  <2>3. changes' \in 0 .. MaxChanges
    BY <1>6, TopologyAssumption DEF SaveFails, Change, TypeOK
  <2> QED BY <1>6, <2>2, <2>3 DEF SaveFails, TypeOK, Pushing, Layout, Carries
<1>7. CASE ReadFails
  <2>1. changes' \in 0 .. MaxChanges
    BY <1>7, TopologyAssumption DEF ReadFails, Change, TypeOK
  <2> QED BY <1>7, <2>1 DEF ReadFails, TypeOK, Pushing, Layout, Carries
<1>8. ASSUME NEW n \in Ships, Push(n) PROVE Types'
  <2>1. fresh[n] \in Entries
    BY <1>8 DEF Push, Pushing, TypeOK, IsTable
  <2>2. box' \in [Ships -> Seq(Entries)] /\ missed' \subseteq Ships
    BY <1>8, <2>1, SendTypes DEF Push
  <2> QED BY <1>8, <2>2 DEF Push, TypeOK, Pushing, Layout, Carries
<1>9. CASE Announce
  <2>1. IsTable(view') /\ blind' \in BOOLEAN
    BY <1>9 DEF Announce, TypeOK
  <2> QED BY <1>9, <2>1 DEF Announce, TypeOK, Pushing, Layout, Carries
<1> QED BY <1>1, <1>2, <1>3, <1>4, <1>5, <1>6, <1>7, <1>8, <1>9 DEF Recompute

LEMMA TypesGateway == ASSUME Types, NEW n \in Ships, Gateway(n) PROVE Types'
<1> USE DEF Types, fleet, layout, radio
<1>1. CASE CurrentRoute(n)
  BY <1>1 DEF CurrentRoute, TypeOK, Pushing, Layout, Carries, IsTable
<1>2. CASE PushCurrent(n)
  <2>1. box' \in [Ships -> Seq(Entries)] /\ missed' \subseteq Ships
    BY <1>2, SendTypes DEF PushCurrent, Carries
  <2> QED BY <1>2, <2>1 DEF PushCurrent, TypeOK, Pushing, Layout, Carries
<1>3. CASE RemovePosition(n)
  BY <1>3 DEF RemovePosition, TypeOK, Pushing, Layout, Carries
<1>4. CASE Obey(n)
  <2>1. Head(box[n]) \in Entries /\ Tail(box[n]) \in Seq(Entries)
    BY <1>4 DEF Obey, TypeOK
  <2> QED BY <1>4, <2>1 DEF Obey, TypeOK, Pushing, Layout, Carries
<1>5. CASE CurrentRouteFails(n)
  BY <1>5 DEF CurrentRouteFails, TypeOK, Pushing, Layout, Carries
<1> QED BY <1>1, <1>2, <1>3, <1>4, <1>5 DEF Gateway

LEMMA TypesSurroundings == Types /\ Surroundings => Types'
<1> SUFFICES ASSUME Types, Surroundings PROVE Types'
  OBVIOUS
<1> USE DEF Types, fleet, layout, radio
<1>1. Change => changes' \in 0 .. MaxChanges
  BY TopologyAssumption DEF Change, TypeOK
<1>2. ASSUME NEW n \in Ships, Connect(n) PROVE Types'
  <2>1. box' \in [Ships -> Seq(Entries)]
    BY <1>2 DEF Connect, TypeOK
  <2> QED BY <1>1, <1>2, <2>1 DEF Connect, TypeOK, Pushing, Layout, Carries
<1>3. ASSUME NEW n \in Ships, Disconnect(n) PROVE Types'
  <2>1. box' \in [Ships -> Seq(Entries)]
    BY <1>3 DEF Disconnect, TypeOK
  <2> QED BY <1>1, <1>3, <2>1 DEF Disconnect, TypeOK, Pushing, Layout, Carries
<1>4. ASSUME NEW n \in Ships, NEW p \in Places, HandlePing(n, p) PROVE Types'
  BY <1>1, <1>4 DEF HandlePing, TypeOK, Pushing, Layout, Carries
<1>5. ASSUME NEW e \in Edges, EditEdges(e) PROVE Types'
  BY <1>1, <1>5 DEF EditEdges, TypeOK, Pushing, Layout, Carries
<1> QED BY <1>2, <1>3, <1>4, <1>5 DEF Surroundings

LEMMA TypesStep == Types /\ [Next]_vars => Types'
<1>1. ASSUME Types, UNCHANGED vars PROVE Types'
  BY <1>1 DEF Types, TypeOK, Pushing, Layout, Carries, IsTable, vars, fleet, layout, radio
<1> QED BY <1>1, TypesRecompute, TypesGateway, TypesSurroundings DEF Next

(* Every variable has its type, whatever the fleet.                        *)
THEOREM TypeCorrect == Spec => []TypeOK
<1>1. Types => TypeOK
  BY DEF Types
<1> QED BY <1>1, TypesInit, TypesStep, PTL DEF Spec

-----------------------------------------------------------------------------
(* What monitors show and ships are told.                                  *)

Same(t, u) == DOMAIN t = DOMAIN u /\ \A n \in DOMAIN u : SameRoute(t[n], u[n])

(* Monitors that missed nothing show the saved table, but between a save   *)
(* that is news and its announcement.                                      *)
Shown == ~ blind /\ ~ (pc = "push" /\ news) => Same(view, table)

(* The last word to a ship.                                                *)
Word(n) == IF box[n] = <<>> THEN known[n] ELSE box[n][Len(box[n])]
WordIs(n) == Word(n) # NoRoute /\ SameRoute(Word(n), table[n])

(* A ship that should have heard: NodeConnected is done with it, or it got *)
(* a route already.                                                        *)
Heard(n) == join[n] = "no" \/ Word(n) # NoRoute

(* The last word to a ship that missed none is its saved route, but before *)
(* the first one comes and while the push of a changed route is under way. *)
Told ==
  \A n \in (online \cap DOMAIN table) \ missed :
    Heard(n) /\ ~ (pc = "push" /\ n \in todo) => WordIs(n)

Words == Types /\ Shown /\ Told

LEMMA WordsInit == Init => Words
<1> SUFFICES ASSUME Init PROVE Words
  OBVIOUS
<1>1. Shown /\ Told
  BY DEF Init, Empty, Shown, Told, Same
<1> QED BY <1>1, TypesInit DEF Words

(* A save that is no news leaves every route and every ship as it was.     *)
LEMMA NoNews ==
  ASSUME TypeOK
  PROVE  /\ \A n \in DOMAIN pos \ Changed :
              n \in DOMAIN table /\ SameRoute(table[n], NewTable[n])
         /\ ~ News => DOMAIN pos = DOMAIN table /\ Changed = {}
<1>1. \A n \in DOMAIN pos \ Changed :
        n \in DOMAIN table /\ SameRoute(table[n], NewTable[n])
  BY DEF Changed, RouteUnchanged, SameRoute
<1>2. ASSUME ~ News PROVE DOMAIN pos = DOMAIN table /\ Changed = {}
  <2>1. Changed = {} /\ Cardinality(DOMAIN pos) = Cardinality(DOMAIN table)
    BY <1>2 DEF News
  <2>2. DOMAIN pos \subseteq DOMAIN table
    BY <1>1, <2>1
  <2>3. IsFiniteSet(DOMAIN table)
    BY FS_Subset, TopologyAssumption DEF TypeOK, IsTable
  <2> QED BY <2>1, <2>2, <2>3, FS_Subset
<1> QED BY <1>1, <1>2

(* The word of a ship nothing was sent to.                                 *)
LEMMA WordKept ==
  ASSUME NEW n, box'[n] = box[n], known'[n] = known[n], WordIs(n),
         SameRoute(table'[n], table[n])
  PROVE  WordIs(n)'
BY DEF WordIs, Word, SameRoute

(* Whether it should have heard is as it was.                              *)
LEMMA HeardKept ==
  ASSUME NEW n, box'[n] = box[n], known'[n] = known[n], join'[n] = join[n], Heard(n)'
  PROVE  Heard(n)
BY DEF Heard, Word

(* A route sent is the last word, or missed.                               *)
LEMMA WordSent ==
  ASSUME TypeOK, NEW n \in Ships, NEW entry \in Entries, SendToNode(n, entry),
         UNCHANGED <<table, known, online>>
  PROVE  /\ n \in (online \cap DOMAIN table) \ missed' => WordIs(n)'
         /\ \A m \in Ships \ {n} : /\ box'[m] = box[m] /\ known'[m] = known[m]
                                   /\ m \in missed' <=> m \in missed
<1>1. ASSUME n \in (online \cap DOMAIN table) \ missed' PROVE WordIs(n)'
  <2>1. /\ box' = [box EXCEPT ![n] = Append(@, entry)]
        /\ SameRoute(table[n], entry)
    BY <1>1 DEF SendToNode
  <2>2. box'[n] = Append(box[n], entry) /\ box[n] \in Seq(Entries)
    BY <2>1 DEF TypeOK
  <2>3. box'[n] # <<>> /\ box'[n][Len(box'[n])] = entry
    BY <2>2, AppendProperties
  <2>4. entry # NoRoute
    BY NoRouteAssumption
  <2> QED BY <2>1, <2>3, <2>4 DEF WordIs, Word, SameRoute
<1>2. \A m \in Ships \ {n} : /\ box'[m] = box[m] /\ known'[m] = known[m]
                             /\ m \in missed' <=> m \in missed
  BY DEF SendToNode, TypeOK
<1> QED BY <1>1, <1>2

(* The last of the rest is the last, or what was read.                     *)
LEMMA LastOfTail ==
  ASSUME NEW S, NEW q \in Seq(S), q # <<>>
  PROVE  IF Tail(q) = <<>> THEN Head(q) = q[Len(q)] ELSE Tail(q)[Len(Tail(q))] = q[Len(q)]
<1> DEFINE rest == Tail(q)
<1>1. /\ rest \in Seq(S) /\ Head(q) = q[1]
      /\ Len(rest) = Len(q) - 1 /\ Len(q) \in Nat \ {0}
      /\ \A i \in 1 .. Len(q) - 1 : rest[i] = q[i + 1]
  OBVIOUS
<1> HIDE DEF rest
<1>2. rest = <<>> => Len(rest) = 0
  OBVIOUS
<1>3. rest # <<>> => Len(rest) \in Nat \ {0}
  BY <1>1, EmptySeq
<1>4. IF rest = <<>> THEN Head(q) = q[Len(q)] ELSE rest[Len(rest)] = q[Len(q)]
  BY <1>1, <1>2, <1>3
<1> QED BY <1>4 DEF rest

(* Reading a message takes no word back.                                   *)
LEMMA WordRead ==
  ASSUME TypeOK, NEW n \in Ships, Obey(n)
  PROVE  Word(n)' = Word(n) /\ \A m \in Ships \ {n} : Word(m)' = Word(m)
<1>1. /\ box[n] \in Seq(Entries) /\ box[n] # <<>>
      /\ known'[n] = Head(box[n]) /\ box'[n] = Tail(box[n])
      /\ \A m \in Ships \ {n} : known'[m] = known[m] /\ box'[m] = box[m]
  BY DEF Obey, TypeOK
<1>2. Word(n)' = Word(n)
  BY <1>1, LastOfTail DEF Word
<1>3. \A m \in Ships \ {n} : Word(m)' = Word(m)
  BY <1>1 DEF Word
<1> QED BY <1>2, <1>3

LEMMA WordsRecompute == Words /\ Recompute => Shown' /\ Told'
<1> SUFFICES ASSUME Words, Recompute PROVE Shown' /\ Told'
  OBVIOUS
<1> USE DEF fleet, layout, radio
<1>1. Types /\ TypeOK /\ Shown /\ Told
  BY DEF Words, Types
<1>2. CASE ReadPositions \/ ReadSockets \/ ReadEdges \/ Layer \/ ReadFails
  <2>1. /\ UNCHANGED <<table, view, blind, online, missed, join, box, known>>
        /\ pc # "push" /\ pc' # "push"
    BY <1>2 DEF ReadPositions, ReadSockets, ReadEdges, Layer, ReadFails
  <2> QED BY <1>1, <2>1 DEF Shown, Same, Told, Heard, WordIs, Word, SameRoute
<1>3. ASSUME pc = "save", table' = NewTable, UNCHANGED <<view, online, join, box, known>>,
             \/ /\ pc' = "push" /\ todo' = Changed /\ news' = News
                /\ blind' = blind /\ missed' = missed
             \/ /\ pc' = "idle" /\ missed' = missed \cup Changed
                /\ blind' = (blind \/ News)
      PROVE  Shown' /\ Told'
  <2>1. Shown'
    <3> SUFFICES ASSUME ~ blind', ~ (pc' = "push" /\ news') PROVE Same(view, table)'
      BY DEF Shown
    <3>1. ~ News /\ ~ blind
      <4>1. CASE pc' = "push" /\ news' = News /\ blind' = blind
        BY <4>1
      <4>2. CASE blind' = (blind \/ News)
        BY <4>2
      <4> QED BY <1>3, <4>1, <4>2
    <3>2. DOMAIN pos = DOMAIN table /\ Changed = {}
      BY <1>1, <3>1, NoNews
    <3>3. \A n \in DOMAIN pos : SameRoute(table[n], NewTable[n])
      BY <1>1, <3>2, NoNews
    <3>4. Same(view, table)
      BY <1>1, <1>3, <3>1 DEF Shown
    <3> QED BY <1>1, <1>3, <3>2, <3>3, <3>4, NewTableIs DEF Same, SameRoute
  <2>2. Told'
    <3> SUFFICES ASSUME NEW n \in (online' \cap DOMAIN table') \ missed',
                        Heard(n)', ~ (pc' = "push" /\ n \in todo')
                 PROVE  WordIs(n)'
      BY DEF Told
    <3>1. n \in DOMAIN pos \ Changed /\ n \in online \ missed /\ Heard(n)
      BY <1>1, <1>3, NewTableIs, HeardKept
    <3>2. n \in DOMAIN table /\ SameRoute(table[n], NewTable[n])
      BY <1>1, <3>1, NoNews
    <3>3. WordIs(n)
      BY <1>1, <1>3, <3>1, <3>2 DEF Told
    <3> QED BY <1>3, <3>2, <3>3, WordKept DEF SameRoute
  <2> QED BY <2>1, <2>2
<1>4. CASE Save
  BY <1>3, <1>4 DEF Save
<1>5. CASE SaveFails
  <2>1. CASE table' = NewTable /\ missed' = missed \cup Changed /\ blind' = (blind \/ News)
    BY <1>3, <1>5, <2>1 DEF SaveFails
  <2>2. CASE UNCHANGED <<table, missed, blind>>
    BY <1>1, <1>5, <2>2 DEF SaveFails, Shown, Same, Told, Heard, WordIs, Word, SameRoute
  <2> QED BY <1>5, <2>1, <2>2 DEF SaveFails
<1>6. ASSUME NEW n \in Ships, Push(n) PROVE Shown' /\ Told'
  <2>1. /\ pc = "push" /\ pc' = "push" /\ todo' = todo \ {n}
        /\ UNCHANGED <<table, view, blind, news, online, join, known>>
        /\ SendToNode(n, fresh[n]) /\ n \in todo
    BY <1>6 DEF Push
  <2>2. fresh[n] \in Entries
    BY <1>1, <2>1 DEF Types, Pushing, TypeOK, IsTable
  <2>3. Shown'
    BY <1>1, <2>1 DEF Shown, Same, SameRoute
  <2>4. Told'
    <3> SUFFICES ASSUME NEW m \in (online' \cap DOMAIN table') \ missed',
                        Heard(m)', m \notin todo'
                 PROVE  WordIs(m)'
      BY <2>1 DEF Told
    <3>1. m \in Ships
      BY <1>1, <2>1 DEF TypeOK
    <3>2. CASE m = n
      BY <1>1, <2>1, <2>2, <3>2, WordSent
    <3>3. CASE m # n
      <4>1. box'[m] = box[m] /\ known'[m] = known[m] /\ m \notin missed
        <5>1. m \in Ships \ {n} /\ m \notin missed'
          BY <3>1, <3>3
        <5>2. \A i \in Ships \ {n} : /\ box'[i] = box[i] /\ known'[i] = known[i]
                                     /\ i \in missed' <=> i \in missed
          BY <1>1, <2>1, <2>2, WordSent
        <5> QED BY <5>1, <5>2
      <4>2. WordIs(m)
        BY <1>1, <2>1, <3>3, <4>1, HeardKept DEF Told
      <4> QED BY <2>1, <4>1, <4>2, WordKept DEF SameRoute
    <3> QED BY <3>2, <3>3
  <2> QED BY <2>3, <2>4
<1>7. CASE Announce
  <2>1. /\ pc = "push" /\ pc' = "idle" /\ todo = {} /\ fresh = table
        /\ UNCHANGED <<table, online, missed, join, box, known>>
    BY <1>1, <1>7 DEF Announce, Types, Pushing
  <2>2. Told'
    BY <1>1, <2>1 DEF Told, Heard, WordIs, Word, SameRoute
  <2>3. \/ news /\ view' = table /\ blind' = FALSE
        \/ ~ news /\ view' = view /\ blind' = blind
        \/ blind' = TRUE
    BY <1>1, <1>7, <2>1 DEF Announce, TypeOK
  <2>4. Shown'
    BY <1>1, <2>1, <2>3 DEF Shown, Same, SameRoute
  <2> QED BY <2>2, <2>4
<1> QED BY <1>2, <1>4, <1>5, <1>6, <1>7 DEF Recompute

LEMMA WordsGateway == ASSUME Words, NEW n \in Ships, Gateway(n) PROVE Shown' /\ Told'
<1> USE DEF fleet, layout, radio
<1>1. Types /\ TypeOK /\ Shown /\ Told
  BY DEF Words, Types
<1>2. Shown'
  <2>1. UNCHANGED <<table, view, blind, pc, news>>
    BY DEF Gateway, CurrentRoute, CurrentRouteFails, PushCurrent, RemovePosition, Obey
  <2> QED BY <1>1, <2>1 DEF Shown, Same, SameRoute
<1>3. CASE CurrentRoute(n)
  <2>1. /\ UNCHANGED <<table, pc, todo, online, missed, box, known>>
        /\ n \in DOMAIN table => join'[n] = "send"
        /\ \A m \in Ships \ {n} : join'[m] = join[m]
    BY <1>1, <1>3 DEF CurrentRoute, TypeOK
  <2> QED BY <1>1, <1>2, <2>1 DEF Told, Heard, WordIs, Word, SameRoute, TypeOK
<1>4. CASE PushCurrent(n)
  <2>1. /\ UNCHANGED <<table, pc, todo, online, known>>
        /\ SendToNode(n, carried[n]) /\ carried[n] \in Entries
        /\ \A m \in Ships \ {n} : join'[m] = join[m]
    BY <1>1, <1>4 DEF PushCurrent, Types, Carries, TypeOK
  <2>2. Told'
    <3> SUFFICES ASSUME NEW m \in (online' \cap DOMAIN table') \ missed',
                        Heard(m)', ~ (pc' = "push" /\ m \in todo')
                 PROVE  WordIs(m)'
      BY DEF Told
    <3>1. m \in Ships
      BY <1>1, <2>1 DEF TypeOK
    <3>2. CASE m = n
      BY <1>1, <2>1, <3>2, WordSent
    <3>3. CASE m # n
      <4>1. box'[m] = box[m] /\ known'[m] = known[m] /\ m \notin missed
        <5>1. m \in Ships \ {n} /\ m \notin missed'
          BY <3>1, <3>3
        <5>2. \A i \in Ships \ {n} : /\ box'[i] = box[i] /\ known'[i] = known[i]
                                     /\ i \in missed' <=> i \in missed
          BY <1>1, <2>1, WordSent
        <5> QED BY <5>1, <5>2
      <4>2. WordIs(m)
        BY <1>1, <2>1, <3>1, <3>3, <4>1, HeardKept DEF Told
      <4> QED BY <2>1, <4>1, <4>2, WordKept DEF SameRoute
    <3> QED BY <3>2, <3>3
  <2> QED BY <1>2, <2>2
<1>5. CASE RemovePosition(n)
  BY <1>1, <1>2, <1>5 DEF RemovePosition, Told, Heard, WordIs, Word, SameRoute
<1>6. CASE Obey(n)
  <2>1. UNCHANGED <<table, pc, todo, online, missed, join>>
    BY <1>6 DEF Obey
  <2>2. \A m \in Ships : Word(m)' = Word(m)
    BY <1>1, <1>6, WordRead
  <2> QED BY <1>1, <1>2, <2>1, <2>2 DEF Told, Heard, WordIs, SameRoute, TypeOK
<1>7. CASE CurrentRouteFails(n)
  <2>1. /\ UNCHANGED <<table, pc, todo, online, box, known>>
        /\ missed' = IF box[n] = <<>> /\ known[n] = NoRoute THEN missed \cup {n} ELSE missed
        /\ \A m \in Ships \ {n} : join'[m] = join[m]
    BY <1>1, <1>7 DEF CurrentRouteFails, TypeOK
  <2>2. n \notin missed' => Word(n) # NoRoute
    <3>1. CASE box[n] = <<>>
      BY <2>1, <3>1 DEF Word
    <3>2. CASE box[n] # <<>>
      <4>1. box[n] \in Seq(Entries)
        BY <1>1 DEF TypeOK
      <4>2. Len(box[n]) \in 1 .. Len(box[n])
        BY <3>2, <4>1, EmptySeq
      <4> QED BY <3>2, <4>1, <4>2, NoRouteAssumption DEF Word
    <3> QED BY <3>1, <3>2
  <2>3. missed \subseteq missed' /\ online \subseteq Ships
    BY <1>1, <2>1 DEF TypeOK
  <2>4. ASSUME NEW m \in (online' \cap DOMAIN table') \ missed',
               Heard(m)', ~ (pc' = "push" /\ m \in todo')
        PROVE  WordIs(m)'
    <3>1. Heard(m)
      BY <2>1, <2>2, <2>3, <2>4, HeardKept DEF Heard
    <3>2. WordIs(m)
      BY <1>1, <2>1, <2>3, <2>4, <3>1 DEF Told
    <3> QED BY <2>1, <3>2, WordKept DEF SameRoute
  <2> QED BY <1>2, <2>4 DEF Told
<1> QED BY <1>3, <1>4, <1>5, <1>6, <1>7 DEF Gateway

LEMMA WordsSurroundings == Words /\ Surroundings => Shown' /\ Told'
<1> SUFFICES ASSUME Words, Surroundings PROVE Shown' /\ Told'
  OBVIOUS
<1> USE DEF fleet, layout, radio
<1>1. Types /\ TypeOK /\ Shown /\ Told
  BY DEF Words, Types
<1>2. UNCHANGED <<table, view, blind, pc, news, todo>>
  BY DEF Surroundings, Connect, Disconnect, HandlePing, EditEdges
<1>3. Shown'
  BY <1>1, <1>2 DEF Shown, Same, SameRoute
<1>4. ASSUME NEW n \in Ships, Connect(n) \/ Disconnect(n) PROVE Told'
  <2>1. n \in online' => ~ Heard(n)'
    <3>1. n \in online' => join'[n] = "read" /\ box'[n] = <<>> /\ known'[n] = NoRoute
      BY <1>1, <1>4 DEF Connect, Disconnect, TypeOK
    <3> QED BY <3>1 DEF Heard, Word
  <2>2. online' \subseteq Ships
    BY <1>1, <1>4 DEF Connect, Disconnect, TypeOK
  <2>3. ASSUME NEW m \in Ships, m # n
        PROVE  /\ join'[m] = join[m] /\ Word(m)' = Word(m)
               /\ m \in online' <=> m \in online
               /\ m \in missed' <=> m \in missed
    <3>1. CASE Connect(n)
      BY <1>1, <2>3, <3>1 DEF Connect, TypeOK, Word
    <3>2. CASE Disconnect(n)
      BY <1>1, <2>3, <3>2 DEF Disconnect, TypeOK, Word
    <3> QED BY <1>4, <3>1, <3>2
  <2> QED BY <1>1, <1>2, <2>1, <2>2, <2>3 DEF Told, Heard, WordIs, SameRoute
<1>5. ASSUME UNCHANGED <<online, missed, join, box, known>> PROVE Told'
  BY <1>1, <1>2, <1>5 DEF Told, Heard, WordIs, Word, SameRoute
<1> QED BY <1>3, <1>4, <1>5 DEF Surroundings, HandlePing, EditEdges

LEMMA WordsStep == Words /\ [Next]_vars => Words'
<1>1. ASSUME Words, UNCHANGED vars PROVE Shown' /\ Told'
  BY <1>1 DEF Words, Shown, Same, Told, Heard, WordIs, Word, SameRoute, vars, fleet, layout, radio
<1>2. Words => Types
  BY DEF Words
<1> QED BY <1>1, <1>2, TypesStep, WordsRecompute, WordsGateway, WordsSurroundings
        DEF Next, Words

(* "Whenever anything changed": a save that is no news changed no route    *)
(* and no ship vanished, so monitors that missed no table show the saved   *)
(* one whenever recompute rests.                                           *)
THEOREM MonitorsAreCurrent == Spec => []ViewCurrent
<1>1. Words => ViewCurrent
  BY DEF Words, Shown, Same, ViewCurrent
<1> QED BY <1>1, WordsInit, WordsStep, PTL DEF Spec

(* "Only to nodes whose route changed": an online ship whose messages are  *)
(* read and which missed none obeys its saved route.                       *)
THEOREM RoutesAreKnown == Spec => []RoutesKnown
<1>1. Words => RoutesKnown
  BY DEF Words, Told, Heard, WordIs, Word, RoutesKnown, Settled, Obeys
<1> QED BY <1>1, WordsInit, WordsStep, PTL DEF Spec

-----------------------------------------------------------------------------
(* Shortest paths, level by level.                                         *)

(* The hosts of a ship k hops from an edge, and what its entry says.       *)
HostsAt(p, es, k) == IF k = 1 THEN es ELSE {m \in DOMAIN p : Hops(p, es, m) = k - 1}
Gap(p, n, x) == Apart[<<p[n], IF x \in Edges THEN EdgeAt[x] ELSE p[x]>>]
Right(entry, p, es, n) ==
  LET k == Hops(p, es, n)
      x == entry.parent IN
  /\ k # 0 /\ entry.level = k
  /\ x \in HostsAt(p, es, k) /\ entry.dist = Gap(p, n, x)
  /\ \A y \in HostsAt(p, es, k) \ {x} : \/ Gap(p, n, x) < Gap(p, n, y)
                                        \/ Gap(p, n, x) = Gap(p, n, y) /\ Rank[x] < Rank[y]

(* The levels laid out so far are those of shortest paths, and the layout  *)
(* ends with the last level there is.                                      *)
Layered ==
  /\ pc = "layer" =>
       /\ DOMAIN fresh = {n \in DOMAIN pos : Hops(pos, seas, n) \in 1 .. level - 1}
       /\ level > 1 => last = {n \in DOMAIN pos : Hops(pos, seas, n) = level - 1}
  /\ pc = "save" => DOMAIN fresh = {n \in DOMAIN pos : Hops(pos, seas, n) # 0}
  /\ pc \in {"layer", "save"} => \A n \in DOMAIN fresh : Right(fresh[n], pos, seas, n)

Shortest == Types /\ Layered /\ RoutesShortest

LEMMA ShortestInit == Init => Shortest
<1> SUFFICES ASSUME Init PROVE Shortest
  OBVIOUS
<1>1. Layered
  BY DEF Init, Layered
<1>2. RoutesShortest
  BY DEF Init, RoutesShortest, Correct, Empty
<1> QED BY <1>1, <1>2, TypesInit DEF Shortest

(* The ships a level reaches are those of its number of hops, and its      *)
(* hosts those of one hop less.                                            *)
LEMMA LevelReached ==
  ASSUME Types, Layered, pc = "layer"
  PROVE  /\ Hosts = HostsAt(pos, seas, level)
         /\ Reached = {n \in DOMAIN pos : Hops(pos, seas, n) = level}
<1> DEFINE H(n) == Hops(pos, seas, n)
<1>1. /\ level \in 1 .. MaxHops
      /\ DOMAIN fresh = {n \in DOMAIN pos : H(n) \in 1 .. level - 1}
      /\ level > 1 => last = {n \in DOMAIN pos : H(n) = level - 1}
  BY DEF Types, Layout, Layered
<1>2. Hosts = HostsAt(pos, seas, level)
  <2>1. CASE level = 1
    BY <2>1 DEF Hosts, HostsAt
  <2>2. CASE level # 1
    <3>1. level > 1
      BY <1>1, <2>2, TopologyAssumption
    <3> QED BY <1>1, <2>2, <3>1 DEF Hosts, HostsAt
  <2> QED BY <2>1, <2>2
<1>3. CASE level = 1
  <2>1. DOMAIN fresh = {}
    BY <1>1, <1>3
  <2>2. ASSUME NEW n \in DOMAIN pos PROVE (\E x \in Hosts : InRange(n, x)) <=> H(n) = 1
    <3>1. \A x \in seas : InRange(n, x) <=> Apart[<<pos[n], EdgeAt[x]>>] <= MaxRangeKm
      BY DEF InRange, Distance, Spot, Types, TypeOK
    <3>2. (\E x \in seas : InRange(n, x)) <=> NearEdge(pos, seas, n)
      BY <3>1 DEF NearEdge
    <3> QED BY <1>3, <3>2, OneHop DEF Hosts
  <2> QED BY <1>2, <1>3, <2>1, <2>2 DEF Reached
<1>4. CASE level > 1
  <2> DEFINE k == level - 1
  <2>1. k \in Nat \ {0} /\ k < MaxHops /\ k + 1 = level
    BY <1>1, <1>4, TopologyAssumption
  <2>2. last = {m \in DOMAIN pos : H(m) = k} /\ Hosts = last
    BY <1>1, <1>4, <2>1 DEF Hosts
  <2>3. ASSUME NEW n \in DOMAIN pos
        PROVE  (\E x \in Hosts : InRange(n, x)) <=>
                 \E m \in DOMAIN pos : H(m) = k /\ Near(pos, n, m)
    <3>1. DOMAIN pos \cap Edges = {}
      BY PositionsAre, TopologyAssumption DEF Types, TypeOK
    <3>2. \A m \in DOMAIN pos : InRange(n, m) <=> Near(pos, n, m)
      BY <3>1 DEF InRange, Distance, Spot, Near
    <3> QED BY <2>2, <3>2
  <2>4. ASSUME NEW n \in DOMAIN pos
        PROVE  n \in Reached <=> H(n) = level
    <3>1. n \in Reached <=> H(n) \notin 1 .. k /\ \E x \in Hosts : InRange(n, x)
      BY <1>1, <2>4 DEF Reached
    <3>2. H(n) = k + 1 <=>
            /\ n \in DOMAIN pos /\ H(n) \notin 1 .. k
            /\ \E m \in DOMAIN pos : H(m) = k /\ Near(pos, n, m)
      <4> HIDE DEF k
      <4> QED BY <2>1, NextHop
    <3> QED BY <2>1, <2>3, <2>4, <3>1, <3>2
  <2>5. Reached \subseteq DOMAIN pos
    BY DEF Reached
  <2> QED BY <1>2, <2>4, <2>5
<1> QED BY <1>1, <1>3, <1>4, TopologyAssumption

(* What a ship attaches to is its nearest host.                            *)
LEMMA AttachedRight ==
  ASSUME Types, Layered, pc = "layer", NEW n \in Reached
  PROVE  Right(Attach(n), pos, seas, n)
<1> DEFINE x == Nearest(n, Hosts)
<1>1. /\ n \in DOMAIN pos /\ Hops(pos, seas, n) = level
      /\ Hosts = HostsAt(pos, seas, level) /\ \E y \in Hosts : InRange(n, y)
  BY LevelReached DEF Reached
<1>2. /\ x \in Hosts
      /\ \A y \in Hosts \ {x} : \/ Distance(n, x) < Distance(n, y)
                                \/ Distance(n, x) = Distance(n, y) /\ Rank[x] < Rank[y]
  BY <1>1, LevelIs, NearestIs DEF Types, TypeOK
<1>3. \A y : Distance(n, y) = Gap(pos, n, y)
  BY DEF Distance, Spot, Gap
<1>4. level # 0
  BY TopologyAssumption DEF Types, Layout
<1>5. Attach(n) = [parent |-> x, level |-> level, dist |-> Distance(n, x)]
  BY DEF Attach
<1> HIDE DEF x
<1> QED BY <1>1, <1>2, <1>3, <1>4, <1>5 DEF Right

(* A level more.                                                           *)
LEMMA LayeredLayer == ASSUME Types, Layered, Layer PROVE Layered'
<1> DEFINE H(n) == Hops(pos, seas, n)
<1>1. /\ pc = "layer" /\ UNCHANGED <<pos, seas>> /\ level' = level + 1 /\ last' = Reached
      /\ DOMAIN fresh' = DOMAIN fresh \cup Reached
      /\ \A n \in DOMAIN fresh' : fresh'[n] = IF n \in Reached THEN Attach(n) ELSE fresh[n]
      /\ pc' \in {"layer", "save"}
      /\ pc' = "save" => level = MaxHops \/ DOMAIN pos = DOMAIN fresh' \/ Reached = {}
  BY TopologyAssumption DEF Layer, Types, Layout
<1>2. /\ level \in 1 .. MaxHops
      /\ DOMAIN fresh = {n \in DOMAIN pos : H(n) \in 1 .. level - 1}
      /\ \A n \in DOMAIN fresh : Right(fresh[n], pos, seas, n)
  BY <1>1 DEF Types, Layout, Layered
<1>3. Reached = {n \in DOMAIN pos : H(n) = level}
  BY <1>1, LevelReached
<1>4. \A n : H(n) \in 0 .. MaxHops
  BY HopsAre
<1>5. DOMAIN fresh' = {n \in DOMAIN pos : H(n) \in 1 .. level}
  <2> HIDE DEF H
  <2> QED BY <1>1, <1>2, <1>3, TopologyAssumption
<1>6. pc' = "save" => DOMAIN fresh' = {n \in DOMAIN pos : H(n) # 0}
  <2>1. ASSUME NEW n \in DOMAIN pos, pc' = "save", H(n) # 0 PROVE H(n) <= level
    <3>1. CASE level = MaxHops
      <4> HIDE DEF H
      <4> QED BY <1>4, <3>1, TopologyAssumption
    <3>2. CASE DOMAIN pos = DOMAIN fresh'
      <4> HIDE DEF H
      <4> QED BY <1>5, <2>1, <3>2
    <3>3. CASE Reached = {}
      <4>1. \A m \in DOMAIN pos : H(m) # level
        BY <1>3, <3>3
      <4> QED BY <1>2, <2>1, <4>1, NoneBeyond
    <3> QED BY <1>1, <2>1, <3>1, <3>2, <3>3
  <2> HIDE DEF H
  <2> QED BY <1>2, <1>4, <1>5, <2>1, TopologyAssumption
<1>7. \A n \in DOMAIN fresh' : Right(fresh'[n], pos, seas, n)
  BY <1>1, <1>2, AttachedRight
<1>8. level' - 1 = level /\ level' > 1
  BY <1>1, <1>2
<1> QED BY <1>1, <1>3, <1>5, <1>6, <1>7, <1>8 DEF Layered

(* The table saved.                                                        *)
LEMMA SavedCorrect ==
  ASSUME TypeOK, Layered, pc = "save"
  PROVE  Correct(NewTable, pos, seas)
<1>1. /\ DOMAIN NewTable = DOMAIN pos
      /\ \A n \in DOMAIN pos : NewTable[n] = IF n \in DOMAIN fresh THEN fresh[n] ELSE Isolated
  BY DEF NewTable
<1>2. /\ DOMAIN fresh = {n \in DOMAIN pos : Hops(pos, seas, n) # 0}
      /\ \A n \in DOMAIN fresh : Right(fresh[n], pos, seas, n)
  BY DEF Layered
<1>3. ASSUME NEW n \in DOMAIN pos, Hops(pos, seas, n) = 0
      PROVE  NewTable[n].level = 0 /\ NewTable[n].parent = NoParent
  BY <1>1, <1>2, <1>3 DEF Isolated
<1>4. ASSUME NEW n \in DOMAIN pos, Hops(pos, seas, n) # 0
      PROVE  Right(NewTable[n], pos, seas, n)
  BY <1>1, <1>2, <1>4
<1> QED BY <1>1, <1>3, <1>4 DEF Correct, Right, HostsAt, Gap

LEMMA ShortestStep == Shortest /\ [Next]_vars => Shortest'
<1> SUFFICES ASSUME Shortest, [Next]_vars PROVE Layered' /\ RoutesShortest'
  BY TypesStep DEF Shortest
<1> USE DEF fleet, layout, radio
<1>1. Types /\ TypeOK /\ Layered /\ RoutesShortest
  BY DEF Shortest, Types
<1>2. CASE Layer
  BY <1>1, <1>2, LayeredLayer DEF Layer, RoutesShortest
<1>3. CASE ReadEdges
  <2>1. /\ pc' = "layer" /\ level' = 1 /\ DOMAIN fresh' = {} /\ UNCHANGED <<table, basis>>
    BY <1>3 DEF ReadEdges, Empty
  <2>2. 1 .. 1 - 1 = {}
    OBVIOUS
  <2> QED BY <1>1, <2>1, <2>2 DEF Layered, RoutesShortest
<1>4. CASE Save \/ SaveFails
  <2>1. /\ pc = "save" /\ pc' \in {"push", "idle"}
        /\ \/ table' = NewTable /\ basis' = [pos |-> pos, edges |-> seas]
           \/ UNCHANGED <<table, basis>>
    BY <1>4 DEF Save, SaveFails
  <2>2. Correct(NewTable, pos, seas)
    BY <1>1, <2>1, SavedCorrect
  <2>3. RoutesShortest'
    <3>1. CASE table' = NewTable /\ basis' = [pos |-> pos, edges |-> seas]
      <4>1. basis'.pos = pos /\ basis'.edges = seas
        BY <3>1
      <4> QED BY <2>2, <3>1, <4>1 DEF RoutesShortest
    <3>2. CASE UNCHANGED <<table, basis>>
      BY <1>1, <3>2 DEF RoutesShortest
    <3> QED BY <2>1, <3>1, <3>2
  <2> QED BY <2>1, <2>3 DEF Layered
<1>5. CASE ReadPositions \/ ReadSockets \/ ReadFails \/ Announce \/ \E n \in Ships : Push(n)
  <2>1. pc' \notin {"layer", "save"} /\ UNCHANGED <<table, basis>>
    BY <1>5 DEF ReadPositions, ReadSockets, ReadFails, Announce, Push
  <2> QED BY <1>1, <2>1 DEF Layered, RoutesShortest
<1>6. CASE (\E n \in Ships : Gateway(n)) \/ Surroundings \/ UNCHANGED vars
  <2>1. UNCHANGED <<table, basis, pc, layout>>
    BY <1>6 DEF Gateway, CurrentRoute, CurrentRouteFails, PushCurrent, RemovePosition,
                Obey, Surroundings, Connect, Disconnect, HandlePing, EditEdges, vars
  <2> QED BY <1>1, <2>1 DEF Layered, RoutesShortest
<1> QED BY <1>2, <1>3, <1>4, <1>5, <1>6 DEF Next, Recompute

(* BuildTopology lays out shortest paths, of at most MaxHops hops, each    *)
(* through the nearest host of the level before.                           *)
THEOREM TablesAreShortest == Spec => []RoutesShortest
<1>1. Shortest => RoutesShortest
  BY DEF Shortest
<1> QED BY <1>1, ShortestInit, ShortestStep, PTL DEF Spec

=============================================================================
