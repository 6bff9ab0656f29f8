----------------------------- MODULE CachesProofs -----------------------------
(***************************************************************************)
(* The caches of the pipeline simulator and of dineroIV, for every tree of *)
(* caches and every program: the stacks keep the shape that d4_find relies *)
(* on, what a cache holds the infinite cache has seen, and the bytes that  *)
(* were written are dirty in one cache, or on their way, until they are in *)
(* the memory; d4ref returns and keeps every stack in the order of its     *)
(* policy; what is flushed reaches the memory, and no cache has something  *)
(* to write that is older than what is downstream.                         *)
(***************************************************************************)
EXTENDS CacheDrivers, FiniteSetTheorems, SequenceTheorems, WellFoundedInduction, TLAPS

-----------------------------------------------------------------------------
(* Addresses.                                                                *)

\* Rounding down to a multiple of n.
LEMMA Multiples ==
  ASSUME NEW n \in Nat \ {0}, NEW a \in Nat
  PROVE  /\ a % n \in 0 .. n - 1
         /\ a = n * (a \div n) + (a % n)
         /\ a \div n \in Nat
         /\ a - (a % n) \in 0 .. a
         /\ a - (a % n) = n * (a \div n)
         /\ a < n * (a \div n) + n
<1>1. a % n \in 0 .. n - 1 /\ a \div n \in Nat
  BY SMTT(30)
<1>2. a = n * (a \div n) + (a % n)
  BY SMTT(30)
<1>3. n * (a \div n) \in Nat
  BY <1>1
<1> QED
  BY <1>1, <1>2, <1>3

\* A multiple of n is the multiple below every number from it to the next.
LEMMA MultipleOf ==
  ASSUME NEW n \in Nat \ {0}, NEW k \in Nat, NEW a \in Nat, n * k <= a, a < n * k + n
  PROVE  a \div n = k /\ a - (a % n) = n * k
<1> DEFINE d == a \div n
<1>1. d \in Nat /\ n * d <= a /\ a < n * d + n /\ a - (a % n) = n * d
  <2>1. d \in Nat /\ a - (a % n) = n * d /\ a - (a % n) \in 0 .. a /\ a < n * d + n
    BY Multiples
  <2> HIDE DEF d
  <2> QED
    BY <2>1
<1> HIDE DEF d
<1>2. ~(d < k)
  <2> SUFFICES ASSUME d < k PROVE FALSE
    OBVIOUS
  <2>1. PICK e \in Nat : k = d + 1 + e
    <3>1. k - d - 1 \in Nat /\ k = d + 1 + (k - d - 1)
      BY <1>1
    <3> QED
      BY <3>1
  <2>2. n * k = n * d + n + n * e /\ n * e \in Nat /\ n * d \in Nat /\ n * k \in Nat
    BY <1>1, <2>1, SMTT(30)
  <2> QED
    BY <1>1, <2>2
<1>3. ~(k < d)
  <2> SUFFICES ASSUME k < d PROVE FALSE
    OBVIOUS
  <2>1. PICK e \in Nat : d = k + 1 + e
    <3>1. d - k - 1 \in Nat /\ d = k + 1 + (d - k - 1)
      BY <1>1
    <3> QED
      BY <3>1
  <2>2. n * d = n * k + n + n * e /\ n * e \in Nat /\ n * d \in Nat /\ n * k \in Nat
    BY <1>1, <2>1, SMTT(30)
  <2> QED
    BY <1>1, <2>2
<1>4. d = k
  BY <1>1, <1>2, <1>3
<1> QED
  BY <1>1, <1>4 DEF d

\* What the configuration of a cache is.
LEMMA CacheFacts ==
  ASSUME conf \in Configs, NEW c \in Caches
  PROVE  /\ P(c).sub \in Nat \ {0} /\ P(c).block \in Nat \ {0} /\ P(c).sets \in Nat \ {0}
         /\ P(c).assoc \in Nat \ {0} /\ P(c).dist \in Nat /\ P(c).ccc \in BOOLEAN
         /\ P(c).block = P(c).sub * (P(c).block \div P(c).sub)
         /\ P(c).block \div P(c).sub \in Nat
         /\ P(c).sub <= P(c).block
         /\ P(c).down \in Caches \cup {Mem}
<1> DEFINE par == conf.cache[c]
<1>1. /\ par.sub \in Nat \ {0} /\ par.block \in Nat \ {0} /\ par.block % par.sub = 0
      /\ par.sets \in Nat \ {0} /\ par.assoc \in Nat \ {0} /\ par.dist \in Nat
      /\ par.ccc \in BOOLEAN /\ par.down \in DOMAIN conf.cache \cup {Mem}
  BY CachesAssumption DEF Caches
<1>2. par = P(c)
  BY DEF P
<1> HIDE DEF par
<1> DEFINE u == par.sub
           v == par.block
           w == v \div u
<1>3. u \in Nat \ {0} /\ v \in Nat \ {0} /\ v % u = 0
  BY <1>1
<1> HIDE DEF u, v
<1>4. w \in Nat /\ v = u * w + (v % u)
  BY <1>3, Multiples
<1>5. v = u * w
  <2> HIDE DEF w
  <2>1. u * w \in Nat
    BY <1>3, <1>4, SMTT(30)
  <2> QED
    BY <1>3, <1>4, <2>1
<1>6. u <= v
  <2> SUFFICES ASSUME v < u PROVE FALSE
    BY <1>3
  <2>1. v % u = v
    BY <1>3, SMTT(30)
  <2> QED
    BY <2>1, <1>3
<1> QED
  BY <1>1, <1>2, <1>4, <1>5, <1>6 DEF Caches, u, v, w

\* A block starts at a multiple of its size, and a sub-block of the block at a
\* multiple of the size of sub-blocks within it.
LEMMA AddressFacts ==
  ASSUME conf \in Configs, NEW c \in Caches, NEW a \in Nat
  PROVE  /\ Block(c, a) \in Nat /\ Block(c, a) <= a /\ a < Block(c, a) + P(c).block
         /\ SubBlock(c, a) \in Nat /\ SubBlock(c, a) <= a /\ a < SubBlock(c, a) + P(c).sub
         /\ SetOf(c, a) \in 0 .. P(c).sets - 1
         /\ \A x \in Nat : Block(c, a) <= x /\ x < Block(c, a) + P(c).block
                             => Block(c, x) = Block(c, a) /\ SetOf(c, x) = SetOf(c, a)
         /\ \A x \in Nat : SubBlock(c, a) <= x /\ x < SubBlock(c, a) + P(c).sub
                             => SubBlock(c, x) = SubBlock(c, a)
         /\ Block(c, a) <= SubBlock(c, a)
         /\ SubBlock(c, a) + P(c).sub <= Block(c, a) + P(c).block
         /\ Block(c, SubBlock(c, a)) = Block(c, a)
<1> DEFINE u == P(c).sub
           v == P(c).block
           z == P(c).sets
           w == v \div u
<1>1. u \in Nat \ {0} /\ v \in Nat \ {0} /\ z \in Nat \ {0} /\ w \in Nat /\ v = u * w
  BY CacheFacts
<1> HIDE DEF u, v, z, w
<1>d. /\ \A x : Block(c, x) = x - (x % v) /\ SubBlock(c, x) = x - (x % u)
      /\ \A x : SetOf(c, x) = (x \div v) % z
  BY DEF u, v, z, Block, SubBlock, SetOf
<1> DEFINE i == a \div v
           j == a \div u
<1>2. /\ Block(c, a) = v * i /\ i \in Nat /\ v * i \in 0 .. a /\ a < v * i + v
  <2>1. a - (a % v) = v * i /\ i \in Nat /\ a - (a % v) \in 0 .. a /\ a < v * i + v
    BY <1>1, Multiples
  <2> QED
    BY <2>1, <1>d
<1>3. /\ SubBlock(c, a) = u * j /\ j \in Nat /\ u * j \in 0 .. a /\ a < u * j + u
  <2>1. a - (a % u) = u * j /\ j \in Nat /\ a - (a % u) \in 0 .. a /\ a < u * j + u
    BY <1>1, Multiples
  <2> QED
    BY <2>1, <1>d
<1>4. SetOf(c, a) \in 0 .. z - 1
  <2>1. i % z \in 0 .. z - 1
    BY <1>1, <1>2, Multiples
  <2> QED
    BY <2>1, <1>d
<1> HIDE DEF i, j
<1>5. ASSUME NEW x \in Nat, v * i <= x, x < v * i + v
      PROVE  Block(c, x) = Block(c, a) /\ SetOf(c, x) = SetOf(c, a)
  <2>1. x \div v = i /\ x - (x % v) = v * i
    BY <1>5, <1>1, <1>2, MultipleOf
  <2>2. a \div v = i
    BY DEF i
  <2> QED
    BY <2>1, <2>2, <1>2, <1>d
<1>6. ASSUME NEW x \in Nat, u * j <= x, x < u * j + u
      PROVE  SubBlock(c, x) = SubBlock(c, a)
  BY <1>6, <1>1, <1>3, <1>d, MultipleOf
<1>7. u * (w * i) = v * i /\ w * i \in Nat
  BY <1>1, <1>2, SMTT(30)
<1>8. u * (w * i + w) = v * i + v
  BY <1>1, <1>2, SMTT(30)
<1>9. ASSUME NEW p \in Nat, NEW q \in Nat, u * p < u * q + u
      PROVE  p <= q
  <2> SUFFICES ASSUME q < p PROVE FALSE
    OBVIOUS
  <2>1. PICK e \in Nat : p = q + 1 + e
    <3>1. p - q - 1 \in Nat /\ p = q + 1 + (p - q - 1)
      OBVIOUS
    <3> QED
      BY <3>1
  <2>2. u * p = u * q + u + u * e /\ u * e \in Nat /\ u * q \in Nat
    BY <1>1, <2>1, SMTT(30)
  <2> QED
    BY <1>1, <1>9, <2>2
<1>m. ASSUME NEW p \in Nat, NEW q \in Nat, p <= q
      PROVE  u * p <= u * q
  <2>1. PICK e \in Nat : q = p + e
    <3>1. q - p \in Nat /\ q = p + (q - p)
      BY <1>m
    <3> QED
      BY <3>1
  <2>2. u * q = u * p + u * e /\ u * e \in Nat /\ u * p \in Nat
    BY <1>1, <2>1, SMTT(30)
  <2> QED
    BY <2>2
<1>10. v * i <= u * j
  <2>1. u * (w * i) < u * j + u
    BY <1>1, <1>2, <1>3, <1>7
  <2>2. w * i <= j
    BY <2>1, <1>3, <1>7, <1>9
  <2> QED
    BY <2>2, <1>3, <1>7, <1>m
<1>11. u * j + u <= v * i + v
  <2>1. u * j < u * (w * i + w)
    BY <1>1, <1>2, <1>3, <1>8
  <2>2. j < w * i + w
    <3> SUFFICES ASSUME w * i + w <= j PROVE FALSE
      BY <1>1, <1>3, <1>7
    <3>1. u * (w * i + w) <= u * j
      BY <1>1, <1>3, <1>7, <1>m
    <3>2. v * i \in Nat
      BY <1>2
    <3> QED
      BY <2>1, <3>1, <1>1, <1>2, <1>3, <1>8
  <2>3. j + 1 \in Nat /\ w * i + w \in Nat /\ j + 1 <= w * i + w
    BY <2>2, <1>1, <1>3, <1>7
  <2>4. u * (j + 1) <= u * (w * i + w)
    BY <2>3, <1>m
  <2>5. u * (j + 1) = u * j + u
    BY <1>1, <1>3, SMTT(30)
  <2> QED
    BY <2>4, <2>5, <1>8
<1>12. Block(c, SubBlock(c, a)) = Block(c, a)
  <2>1. v * i <= u * j /\ u * j < v * i + v /\ u * j \in Nat
    BY <1>1, <1>2, <1>3, <1>10, <1>11
  <2> QED
    BY <2>1, <1>3, <1>5
<1>13. \A x \in Nat : Block(c, a) <= x /\ x < Block(c, a) + v
         => Block(c, x) = Block(c, a) /\ SetOf(c, x) = SetOf(c, a)
  BY <1>2, <1>5
<1>14. \A x \in Nat : SubBlock(c, a) <= x /\ x < SubBlock(c, a) + u
         => SubBlock(c, x) = SubBlock(c, a)
  BY <1>3, <1>6
<1>15. /\ Block(c, a) \in Nat /\ Block(c, a) <= a /\ a < Block(c, a) + v
       /\ SubBlock(c, a) \in Nat /\ SubBlock(c, a) <= a /\ a < SubBlock(c, a) + u
       /\ Block(c, a) <= SubBlock(c, a) /\ SubBlock(c, a) + u <= Block(c, a) + v
  BY <1>1, <1>2, <1>3, <1>10, <1>11
<1> QED
  BY <1>4, <1>12, <1>13, <1>14, <1>15 DEF u, v, z

\* The next block and the next sub-block begin where one ends, and a sub-block
\* begins a block before one that does.
LEMMA NextAddress ==
  ASSUME conf \in Configs, NEW c \in Caches, NEW a \in Nat
  PROVE  /\ Block(c, Block(c, a) + P(c).block) = Block(c, a) + P(c).block
         /\ SubBlock(c, SubBlock(c, a) + P(c).sub) = SubBlock(c, a) + P(c).sub
         /\ SubBlock(c, SubBlock(c, a)) = SubBlock(c, a)
         /\ P(c).block <= SubBlock(c, a) =>
              SubBlock(c, SubBlock(c, a) - P(c).block) = SubBlock(c, a) - P(c).block
<1> DEFINE u == P(c).sub
           v == P(c).block
           w == v \div u
<1>1. u \in Nat \ {0} /\ v \in Nat \ {0} /\ w \in Nat /\ v = u * w
  BY CacheFacts
<1> HIDE DEF u, v, w
<1>2. ASSUME NEW n \in Nat \ {0}, NEW k \in Nat
      PROVE  n * k \in Nat /\ n * k - ((n * k) % n) = n * k
  <2> DEFINE z == n * k
  <2>1. z \in Nat
    BY <1>2, SMTT(30)
  <2>2. n * k <= z /\ z < n * k + n
    BY <1>2, <2>1
  <2> HIDE DEF z
  <2>3. z - (z % n) = n * k
    BY <1>2, <2>1, <2>2, MultipleOf
  <2> QED
    BY <2>1, <2>3 DEF z
<1>3. ASSUME NEW n \in Nat \ {0}
      PROVE  \E k \in Nat : a - (a % n) = n * k /\ n * (k + 1) = n * k + n
  <2>1. a \div n \in Nat /\ a - (a % n) = n * (a \div n)
    BY <1>3, Multiples
  <2> DEFINE k == a \div n
  <2>2. k \in Nat /\ a - (a % n) = n * k
    BY <2>1
  <2> HIDE DEF k
  <2>3. n * (k + 1) = n * k + n
    BY <2>2, <1>3, SMTT(30)
  <2> QED
    BY <2>2, <2>3
<1>4. PICK i \in Nat : a - (a % v) = v * i /\ v * (i + 1) = v * i + v
  BY <1>1, <1>3
<1>5. PICK j \in Nat : a - (a % u) = u * j /\ u * (j + 1) = u * j + u
  BY <1>1, <1>3
<1>6. (v * i + v) - ((v * i + v) % v) = v * i + v
  BY <1>1, <1>2, <1>4
<1>7. (u * j + u) - ((u * j + u) % u) = u * j + u /\ u * j - ((u * j) % u) = u * j
  BY <1>1, <1>2, <1>5
<1>8. ASSUME v <= u * j PROVE (u * j - v) - ((u * j - v) % u) = u * j - v
  <2>1. u * w <= u * j
    BY <1>1, <1>8
  <2>2. ~(j < w)
    <3> SUFFICES ASSUME j < w PROVE FALSE
      OBVIOUS
    <3>1. PICK e \in Nat : w = j + 1 + e
      <4>1. w - j - 1 \in Nat /\ w = j + 1 + (w - j - 1)
        BY <1>1
      <4> QED
        BY <4>1
    <3>2. u * w = u * j + u + u * e /\ u * e \in Nat /\ u * j \in Nat
      BY <1>1, <3>1, SMTT(30)
    <3> QED
      BY <1>1, <2>1, <3>2
  <2>3. j - w \in Nat /\ u * (j - w) = u * j - u * w
    BY <1>1, <2>2, SMTT(30)
  <2>4. u * (j - w) = u * j - v
    BY <2>3, <1>1
  <2> QED
    BY <2>3, <2>4, <1>1, <1>2
<1> QED
  BY <1>4, <1>5, <1>6, <1>7, <1>8 DEF Block, SubBlock, u, v

-----------------------------------------------------------------------------
(* References.                                                               *)

Types == {"READ", "INSTRN", "WRITE", "COPYB", "INVAL"}
Accesses == {"READ", "INSTRN", "WRITE"}

\* What is asked of a cache: only a whole cache has no bytes, and what is
\* fetched in advance is not written.
OkRefs ==
  {m \in [type : Types, addr : Nat, size : Nat, prefetch : BOOLEAN, split : BOOLEAN] :
     /\ m.size = 0 => m.type \in {"COPYB", "INVAL"}
     /\ m.prefetch => m.type # "WRITE"}

\* References are made well formed.
LEMMA ReferenceFacts ==
  ASSUME NEW t \in Types, NEW a \in Nat, NEW n \in Nat, n = 0 => t \in {"COPYB", "INVAL"}
  PROVE  /\ Reference(t, a, n) \in OkRefs
         /\ Reference(t, a, n).type = t /\ Reference(t, a, n).addr = a /\ Reference(t, a, n).size = n
         /\ Reference(t, a, n).split = FALSE /\ Reference(t, a, n).prefetch = FALSE
  BY DEF Reference, OkRefs, Types

\* The same of all that have bytes.
LEMMA ReferencesAll ==
  \A t \in Types, a \in Nat, n \in Nat \ {0} :
    Reference(t, a, n) \in OkRefs /\ Reference(t, a, n).type = t
<1> SUFFICES ASSUME NEW t \in Types, NEW a \in Nat, NEW n \in Nat \ {0}
             PROVE  Reference(t, a, n) \in OkRefs /\ Reference(t, a, n).type = t
  OBVIOUS
<1>1. n \in Nat /\ (n = 0 => t \in {"COPYB", "INVAL"})
  OBVIOUS
<1> QED
  BY <1>1, ReferenceFacts

\* The fields of a reference.
LEMMA RefFacts ==
  ASSUME NEW m \in OkRefs
  PROVE  /\ m.type \in Types /\ m.addr \in Nat /\ m.size \in Nat
         /\ m.prefetch \in BOOLEAN /\ m.split \in BOOLEAN
         /\ m.type \in Accesses => m.size \in Nat \ {0}
         /\ \A x \in Bytes(m) : x \in Nat
         /\ m.size # 0 => m.addr \in Bytes(m)
         /\ [m EXCEPT !.split = FALSE] \in OkRefs
<1>1. /\ m.type \in Types /\ m.addr \in Nat /\ m.size \in Nat
      /\ m.prefetch \in BOOLEAN /\ m.split \in BOOLEAN
      /\ m.size = 0 => m.type \in {"COPYB", "INVAL"}
  BY DEF OkRefs
<1>2. [m EXCEPT !.split = FALSE] \in OkRefs
  BY DEF OkRefs
<1>3. \A x \in Bytes(m) : x \in Nat
  BY <1>1 DEF Bytes
<1>4. m.size # 0 => m.addr \in Bytes(m)
  BY <1>1 DEF Bytes
<1> QED
  BY <1>1, <1>2, <1>3, <1>4 DEF Accesses

\* d4_splitm: the first part is a reference to one block.
LEMMA FirstFacts ==
  ASSUME conf \in Configs, NEW c \in Caches, NEW m \in OkRefs, m.type \in Accesses
  PROVE  /\ FirstPart(c, m) \in OkRefs
         /\ FirstPart(c, m).type = m.type /\ FirstPart(c, m).addr = m.addr
         /\ FirstPart(c, m).prefetch = m.prefetch /\ FirstPart(c, m).split = m.split
         /\ FirstPart(c, m).size \in Nat \ {0}
         /\ \A x \in Bytes(FirstPart(c, m)) : x \in Nat /\ Block(c, x) = Block(c, m.addr)
         /\ ~Crosses(c, m) => FirstPart(c, m) = m
<1> DEFINE a == m.addr
           n == m.size
           v == P(c).block
           f == FirstPart(c, m)
<1>1. a \in Nat /\ n \in Nat \ {0} /\ v \in Nat \ {0}
  BY RefFacts, CacheFacts
<1>2. /\ Block(c, a) = a - (a % v) /\ a % v \in 0 .. v - 1
      /\ Block(c, a) \in Nat /\ Block(c, a) <= a
  BY <1>1, Multiples, AddressFacts DEF Block
<1>3. \A x \in Nat : Block(c, a) <= x /\ x < Block(c, a) + v => Block(c, x) = Block(c, a)
  BY <1>1, AddressFacts
<1>4. CASE Crosses(c, m)
  <2>1. f = [m EXCEPT !.size = v - (a % v)]
    BY <1>4 DEF FirstPart
  <2>2. v - (a % v) \in Nat \ {0}
    BY <1>1, <1>2
  <2>3. /\ f \in OkRefs /\ f.type = m.type /\ f.addr = a /\ f.size = v - (a % v)
        /\ f.prefetch = m.prefetch /\ f.split = m.split
    BY <2>1, <2>2 DEF OkRefs
  <2>4. \A x \in Bytes(f) : x \in Nat /\ Block(c, a) <= x /\ x < Block(c, a) + v
    BY <2>3, <1>1, <1>2 DEF Bytes
  <2> QED
    BY <2>2, <2>3, <2>4, <1>3, <1>4
<1>5. CASE ~Crosses(c, m)
  <2>1. f = m
    BY <1>5 DEF FirstPart
  <2>2. Block(c, a + n - 1) = Block(c, a)
    BY <1>5 DEF Crosses
  <2>3. a + n - 1 \in Nat /\ a + n - 1 < Block(c, a + n - 1) + v
    <3> DEFINE e == a + n - 1
    <3>1. e \in Nat
      BY <1>1
    <3> HIDE DEF e, v
    <3>2. e < Block(c, e) + P(c).block
      BY <3>1, AddressFacts
    <3> QED
      BY <3>1, <3>2 DEF e, v
  <2>4. \A x \in Bytes(f) : x \in Nat /\ Block(c, a) <= x /\ x < Block(c, a) + v
    BY <2>1, <2>2, <2>3, <1>1, <1>2 DEF Bytes
  <2> QED
    BY <2>1, <2>4, <1>1, <1>3
<1> QED
  BY <1>4, <1>5

\* What is fetched in advance is read, within one block.
Calm(c, m) == m.prefetch => m.type \in {"READ", "INSTRN"} /\ ~m.split /\ ~Crosses(c, m)

\* c asks for an invalidation only when it was asked for one, and leaves the rest
\* of a write only when it was asked for a write that crosses blocks.
Kind(c, m, e) ==
  /\ e.type = "INVAL" => m.type = "INVAL"
  /\ e.type = "WRITE" /\ e.split => m.type = "WRITE" /\ Crosses(c, m)

\* What m makes c ask of itself ranks lower than m.
Lower(c, m, r) ==
  /\ Calm(c, m) => \A k \in 1 .. Len(r) :
                     Calm(c, r[k]) /\ (r[k].prefetch \/ r[k].split => Rank(r[k]) < Rank(m))
  /\ \A k \in 1 .. Len(r) : Kind(c, m, r[k])

\* Nothing is asked of c itself.
LEMMA LowerAway ==
  ASSUME NEW c, NEW r, \A k \in 1 .. Len(r) : ~r[k].prefetch /\ ~r[k].split /\ r[k].type # "INVAL"
  PROVE  \A m : Lower(c, m, r)
  BY DEF Lower, Calm, Kind

\* One reference that is not for c itself, or none.
LEMMA LowerOne ==
  ASSUME NEW c, NEW e \in OkRefs, ~e.prefetch, ~e.split, e.type # "INVAL"
  PROVE  \A m : Lower(c, m, <<e>>) /\ Lower(c, m, <<>>)
<1> DEFINE r == <<e>>
           z == << >>
<1>1. Len(r) = 1 /\ r[1] = e /\ Len(z) = 0
  OBVIOUS
<1> HIDE DEF r, z
<1>2. (\A k \in 1 .. Len(r) : ~r[k].prefetch /\ ~r[k].split /\ r[k].type # "INVAL")
      /\ (\A k \in 1 .. Len(z) : ~z[k].prefetch /\ ~z[k].split /\ z[k].type # "INVAL")
  BY <1>1
<1>3. \A m : Lower(c, m, r) /\ Lower(c, m, z)
  BY <1>2, LowerAway
<1> QED
  BY <1>3 DEF r, z

\* A whole cache or a block is copied back or invalidated downstream too.
LEMMA LowerSame ==
  ASSUME NEW c, NEW m \in OkRefs, m.type \in {"COPYB", "INVAL"}, m.split = FALSE
  PROVE  Lower(c, m, <<m>>)
<1> DEFINE r == <<m>>
<1>1. Len(r) = 1 /\ r[1] = m
  OBVIOUS
<1> HIDE DEF r
<1>2. Calm(c, m) => ~m.prefetch
  BY DEF Calm
<1>3. Lower(c, m, r)
  BY <1>1, <1>2 DEF Lower, Calm, Kind
<1> QED
  BY <1>3 DEF r

\* Ranks that are lower, together.
LEMMA LowerTogether ==
  ASSUME NEW c, NEW m, NEW p \in Seq(OkRefs), NEW q \in Seq(OkRefs), Lower(c, m, p), Lower(c, m, q)
  PROVE  Lower(c, m, p \o q)
<1> SUFFICES ASSUME NEW k \in 1 .. Len(p \o q)
             PROVE  LET e == (p \o q)[k] IN
                    /\ Calm(c, m) => Calm(c, e) /\ (e.prefetch \/ e.split => Rank(e) < Rank(m))
                    /\ Kind(c, m, e)
  BY Zenon DEF Lower
<1>1. /\ Len(p \o q) = Len(p) + Len(q) /\ Len(p) \in Nat /\ Len(q) \in Nat
      /\ \A j \in 1 .. Len(p) : (p \o q)[j] = p[j]
      /\ \A j \in 1 .. Len(q) : (p \o q)[Len(p) + j] = q[j]
  OBVIOUS
<1>2. /\ Calm(c, m) => \A j \in 1 .. Len(p) :
           Calm(c, p[j]) /\ (p[j].prefetch \/ p[j].split => Rank(p[j]) < Rank(m))
      /\ Calm(c, m) => \A j \in 1 .. Len(q) :
           Calm(c, q[j]) /\ (q[j].prefetch \/ q[j].split => Rank(q[j]) < Rank(m))
      /\ \A j \in 1 .. Len(p) : Kind(c, m, p[j])
      /\ \A j \in 1 .. Len(q) : Kind(c, m, q[j])
  BY Zenon DEF Lower
<1>3. CASE k \in 1 .. Len(p)
  BY <1>1, <1>2, <1>3
<1>4. CASE ~(k \in 1 .. Len(p))
  <2> DEFINE j == k - Len(p)
  <2>1. j \in 1 .. Len(q) /\ Len(p) + j = k
    BY <1>1, <1>4
  <2> HIDE DEF j
  <2> QED
    BY <1>1, <1>2, <2>1
<1> QED
  BY <1>3, <1>4

\* The rest of it is a reference too, is marked and ranks lower.
LEMMA OtherFacts ==
  ASSUME conf \in Configs, NEW c \in Caches, NEW m \in OkRefs, m.type \in Accesses
  PROVE  /\ OtherPart(c, m) \in Seq(OkRefs)
         /\ \A k \in 1 .. Len(OtherPart(c, m)) :
              OtherPart(c, m)[k].split = TRUE /\ WholeOrPassed(c, OtherPart(c, m)[k])
         /\ Lower(c, m, OtherPart(c, m))
<1> DEFINE a == m.addr
           n == m.size
           v == P(c).block
<1>1. a \in Nat /\ n \in Nat \ {0} /\ v \in Nat \ {0}
  BY RefFacts, CacheFacts
<1>2. CASE Crosses(c, m)
  <2> DEFINE o == [m EXCEPT !.addr = Block(c, a) + v, !.split = TRUE, !.size = n - (v - (a % v))]
  <2>1. /\ Block(c, a) = a - (a % v) /\ a % v \in 0 .. v - 1 /\ Block(c, a) \in Nat
        /\ Block(c, a) <= a
        /\ \A x \in Nat : Block(c, a) <= x /\ x < Block(c, a) + v => Block(c, x) = Block(c, a)
    BY <1>1, Multiples, AddressFacts DEF Block
  <2>2. ~(a + n - 1 < Block(c, a) + v)
    BY <1>1, <1>2, <2>1 DEF Crosses
  <2>3. Block(c, a) + v \in Nat /\ n - (v - (a % v)) \in Nat \ {0}
    BY <1>1, <2>1, <2>2
  <2>4. /\ o \in OkRefs /\ o.split = TRUE /\ o.prefetch = m.prefetch /\ o.type = m.type
        /\ o.size = n - (v - (a % v)) /\ o.addr = Block(c, a) + v
    BY <2>3, <1>1 DEF OkRefs
  <2>5. OtherPart(c, m) = <<o>>
    BY <1>2 DEF OtherPart
  <2>6. o.size < m.size
    BY <2>1, <2>4, <1>1
  <2> HIDE DEF o
  <2>8. WholeOrPassed(c, o)
    BY <2>4, <1>1, NextAddress DEF WholeOrPassed
  <2>7. Lower(c, m, <<o>>)
    <3> DEFINE r == <<o>>
    <3>1. Len(r) = 1 /\ r[1] = o
      OBVIOUS
    <3> HIDE DEF r
    <3>2. Calm(c, m) => ~m.prefetch
      BY <1>2 DEF Calm
    <3>3. ~m.prefetch => Calm(c, o) /\ Rank(o) < Rank(m)
      BY <2>4, <2>6 DEF Calm, Rank
    <3>4. Kind(c, m, o)
      BY <2>4, <1>2 DEF Kind, Accesses
    <3>5. Lower(c, m, r)
      BY <3>1, <3>2, <3>3, <3>4 DEF Lower
    <3> QED
      BY <3>5 DEF r
  <2> QED
    BY <2>4, <2>5, <2>7, <2>8
<1>3. CASE ~Crosses(c, m)
  <2>1. OtherPart(c, m) = <<>>
    BY <1>3 DEF OtherPart
  <2> QED
    BY <2>1 DEF Lower
<1> QED
  BY <1>2, <1>3

\* The sub-blocks of a reference to one block are of that block.
LEMMA SubFacts ==
  ASSUME conf \in Configs, NEW c \in Caches, NEW m \in OkRefs, m.type \in Accesses,
         \A x \in Bytes(m) : Block(c, x) = Block(c, m.addr)
  PROVE  /\ SubBlocks(c, m) # {} /\ SubBlocks(c, m) \in SUBSET Nat
         /\ \A x \in SubBlocks(c, m) : SubBlock(c, x) = x /\ Block(c, x) = Block(c, m.addr)
         /\ Covering(c, m) \in Nat \ {0}
<1>1. /\ \A x \in Bytes(m) : x \in Nat
      /\ m.addr \in Bytes(m) /\ m.addr \in Nat /\ m.size \in Nat \ {0}
  BY RefFacts
<1>2. \A x \in Nat : /\ SubBlock(c, x) \in Nat /\ SubBlock(c, SubBlock(c, x)) = SubBlock(c, x)
                     /\ Block(c, SubBlock(c, x)) = Block(c, x)
                     /\ SubBlock(c, x) <= x /\ x < SubBlock(c, x) + P(c).sub
  <2> SUFFICES ASSUME NEW x \in Nat
               PROVE  /\ SubBlock(c, x) \in Nat /\ SubBlock(c, SubBlock(c, x)) = SubBlock(c, x)
                      /\ Block(c, SubBlock(c, x)) = Block(c, x)
                      /\ SubBlock(c, x) <= x /\ x < SubBlock(c, x) + P(c).sub
    OBVIOUS
  <2>1. P(c).sub \in Nat \ {0}
    BY CacheFacts
  <2>2. /\ SubBlock(c, x) \in Nat /\ SubBlock(c, x) <= x /\ x < SubBlock(c, x) + P(c).sub
        /\ Block(c, SubBlock(c, x)) = Block(c, x)
        /\ \A y \in Nat : SubBlock(c, x) <= y /\ y < SubBlock(c, x) + P(c).sub
                           => SubBlock(c, y) = SubBlock(c, x)
    BY AddressFacts
  <2> QED
    BY <2>1, <2>2
<1>3. \A x \in SubBlocks(c, m) : \E y \in Bytes(m) : x = SubBlock(c, y)
  BY DEF SubBlocks
<1>4. SubBlocks(c, m) # {}
  BY <1>1 DEF SubBlocks
<1>5. Covering(c, m) \in Nat \ {0}
  <2>1. m.addr + m.size - 1 \in Nat /\ P(c).sub \in Nat \ {0}
    BY <1>1, CacheFacts
  <2> QED
    BY <2>1, <1>1, <1>2 DEF Covering
<1> QED
  BY <1>1, <1>2, <1>3, <1>4, <1>5

\* A block later or earlier is a block too: a sub-block that much before another
\* is in one block.
LEMMA EarlierFacts ==
  ASSUME conf \in Configs, NEW c \in Caches, NEW a \in Nat, P(c).block <= a, SubBlock(c, a) = a
  PROVE  Block(c, a - P(c).block) = Block(c, a - P(c).block + P(c).sub - 1)
<1> DEFINE u == P(c).sub
           v == P(c).block
           i == a \div v
<1>1. u \in Nat \ {0} /\ v \in Nat \ {0}
  BY CacheFacts
<1>2. a + u <= (a - (a % v)) + v /\ v <= a
  <2>1. SubBlock(c, a) + u <= Block(c, a) + v
    BY AddressFacts
  <2> QED
    BY <2>1 DEF Block
<1> HIDE DEF u, v
<1>3. i \in Nat /\ a - (a % v) = v * i /\ v * i \in 0 .. a /\ a < v * i + v
  <2>1. i \in Nat /\ a - (a % v) = v * i /\ a - (a % v) \in 0 .. a /\ a < v * i + v
    BY <1>1, Multiples
  <2> QED
    BY <2>1
<1> HIDE DEF i
<1>4. i # 0
  <2> SUFFICES ASSUME i = 0 PROVE FALSE
    OBVIOUS
  <2>1. v * i = 0
    BY <2>1, <1>1, SMTT(30)
  <2> QED
    BY <2>1, <1>1, <1>3 DEF v
<1>5. i - 1 \in Nat /\ v * (i - 1) = v * i - v
  BY <1>1, <1>3, <1>4, SMTT(30)
<1>6. /\ a - v \in Nat /\ a - v + u - 1 \in Nat
      /\ v * (i - 1) <= a - v /\ a - v + u - 1 < v * (i - 1) + v
      /\ a - v < v * (i - 1) + v /\ v * (i - 1) <= a - v + u - 1
  <2> DEFINE w == v * i
             h == a - (a % v)
             z == v * (i - 1)
  <2>1. w \in 0 .. a /\ h = w /\ a < w + v /\ a + u <= h + v /\ z = w - v
    BY <1>2, <1>3, <1>5
  <2> HIDE DEF w, h, z
  <2>2. /\ a - v \in Nat /\ a - v + u - 1 \in Nat
        /\ z <= a - v /\ a - v + u - 1 < z + v
        /\ a - v < z + v /\ z <= a - v + u - 1
    BY <1>1, <1>2, <2>1
  <2> QED
    BY <2>2 DEF z
<1> DEFINE x == a - v
           y == a - v + u - 1
           k == i - 1
<1>7. x \in Nat /\ y \in Nat /\ k \in Nat /\ v * k <= x /\ y < v * k + v /\ x < v * k + v /\ v * k <= y
  BY <1>5, <1>6
<1> HIDE DEF x, y, k
<1>8. x - (x % v) = v * k /\ y - (y % v) = v * k
  BY <1>1, <1>7, MultipleOf
<1> QED
  BY <1>8 DEF Block, u, v, x, y

\* A prefetch is a read, of an address in the simulated memory and within a block.
LEMMA PrefetchFacts ==
  ASSUME conf \in Configs, NEW c \in Caches, NEW m \in OkRefs, NEW miss, NEW referenced,
         NEW p \in Prefetch(c, m, miss, referenced)
  PROVE  /\ p \in Seq(OkRefs)
         /\ \A k \in 1 .. Len(p) : /\ Calm(c, p[k]) /\ p[k].prefetch = TRUE /\ m.prefetch = FALSE
                                  /\ WholeOrPassed(c, p[k])
<1> DEFINE v == P(c).block
           u == P(c).sub
           a == m.addr
           to == SubBlock(c, a + P(c).dist)
           home == Block(c, a)
           at == IF P(c).fetch = "subblock" /\ Block(c, to) # home THEN to - v ELSE to
           request == [Reference(m.type, at, u) EXCEPT !.prefetch = TRUE]
<1>1. a \in Nat /\ P(c).dist \in Nat /\ a + P(c).dist \in Nat /\ u \in Nat \ {0} /\ v \in Nat \ {0}
  <2>1. a \in Nat
    BY RefFacts
  <2>2. P(c).dist \in Nat /\ u \in Nat \ {0} /\ v \in Nat \ {0}
    BY CacheFacts
  <2> QED
    BY <2>1, <2>2
<1>2. p = <<>> \/ (p = <<request>> /\ m.type \in {"READ", "INSTRN"} /\ ~m.prefetch)
  BY Zenon DEF Prefetch
<1>3. to \in Nat /\ (Block(c, to) # home => to >= v)
  <2>1. /\ to \in Nat /\ Block(c, to) = Block(c, a + P(c).dist) /\ home \in Nat /\ home <= a
        /\ Block(c, a + P(c).dist) <= to
        /\ a + P(c).dist < Block(c, a + P(c).dist) + v
    BY <1>1, AddressFacts
  <2>2. \A x \in Nat : home <= x /\ x < home + v => Block(c, x) = home
    BY <1>1, AddressFacts
  <2>3. Block(c, a + P(c).dist) \in Nat
    BY <1>1, AddressFacts
  <2> HIDE DEF to, home
  <2>4. SUFFICES ASSUME Block(c, to) # home PROVE to >= v
    BY <2>1
  <2>5. a + P(c).dist >= home + v
    BY <2>1, <2>2, <2>4, <1>1
  <2>6. to >= home
    BY <2>1, <2>3, <2>5, <1>1
  <2> QED
    BY <2>1, <2>2, <2>4, <2>6, <1>1
<1>4. at \in Nat
  BY <1>1, <1>3
<1>c. Block(c, at) = Block(c, at + u - 1)
  <2>1. /\ SubBlock(c, to) = to /\ to + u - 1 \in Nat
        /\ Block(c, to) <= to /\ to + u <= Block(c, to) + v
        /\ \A x \in Nat : Block(c, to) <= x /\ x < Block(c, to) + v => Block(c, x) = Block(c, to)
        /\ Block(c, to) \in Nat
    <3> DEFINE y == a + P(c).dist
    <3>0. y \in Nat
      BY <1>1
    <3> HIDE DEF y
    <3>1. /\ \A x \in Nat : SubBlock(c, y) <= x /\ x < SubBlock(c, y) + u => SubBlock(c, x) = SubBlock(c, y)
          /\ SubBlock(c, y) \in Nat
      BY <3>0, AddressFacts
    <3>2. SubBlock(c, SubBlock(c, y)) = SubBlock(c, y)
      BY <3>1, <1>1
    <3> DEFINE z == SubBlock(c, y)
    <3>3. z \in Nat /\ SubBlock(c, z) = z
      BY <3>1, <3>2
    <3> HIDE DEF z
    <3>4. /\ Block(c, z) <= z /\ SubBlock(c, z) + u <= Block(c, z) + v /\ Block(c, z) \in Nat
          /\ \A x \in Nat : Block(c, z) <= x /\ x < Block(c, z) + v => Block(c, x) = Block(c, z)
      BY <3>3, AddressFacts
    <3>5. to = z
      BY DEF y, z
    <3> QED
      BY <3>3, <3>4, <3>5, <1>1
  <2> HIDE DEF to, home
  <2>2. CASE at = to
    <3>1. Block(c, to) <= to + u - 1 /\ to + u - 1 < Block(c, to) + v
      BY <2>1, <1>1, <1>3
    <3>2. Block(c, to + u - 1) = Block(c, to)
      BY <3>1, <2>1
    <3> HIDE DEF at
    <3> QED
      BY <2>2, <3>2
  <2>3. CASE at # to
    <3>1. at = to - v /\ v <= to
      BY <2>3, <1>3
    <3> HIDE DEF at
    <3>2. Block(c, to - v) = Block(c, to - v + u - 1)
      BY <3>1, <2>1, <1>3, EarlierFacts
    <3> QED
      BY <3>1, <3>2
  <2> QED
    BY <2>2, <2>3
<1>d. SubBlock(c, at) = at /\ SubBlock(c, at + u) = at + u
  <2>1. /\ SubBlock(c, to) = to
        /\ v <= to => SubBlock(c, to - v) = to - v
    BY <1>1, NextAddress
  <2>2. SubBlock(c, at) = at
    <3> HIDE DEF to, home
    <3> QED
      BY <2>1, <1>3
  <2> HIDE DEF at
  <2>3. SubBlock(c, SubBlock(c, at) + u) = SubBlock(c, at) + u
    BY <1>4, NextAddress
  <2> QED
    BY <2>2, <2>3
<1> HIDE DEF at
<1>5. m.type \in {"READ", "INSTRN"} =>
         /\ request \in OkRefs /\ request.type = m.type /\ request.prefetch = TRUE
         /\ request.split = FALSE /\ request.addr = at /\ request.size = u
  BY <1>1, <1>4 DEF OkRefs, Reference, Types
<1> HIDE DEF request
<1>8. m.type \in {"READ", "INSTRN"} => Calm(c, request)
  BY <1>5, <1>c DEF Calm, Crosses
<1>9. m.type \in {"READ", "INSTRN"} => WholeOrPassed(c, request)
  BY <1>5, <1>d DEF WholeOrPassed, WholeSubBlocks
<1>6. CASE p = <<>>
  BY <1>6
<1>7. CASE p = <<request>> /\ m.type \in {"READ", "INSTRN"} /\ ~m.prefetch
  <2>1. /\ request \in OkRefs /\ request.type # "WRITE" /\ Calm(c, request)
        /\ request.prefetch = TRUE /\ WholeOrPassed(c, request)
    BY <1>5, <1>7, <1>8, <1>9
  <2>2. p \in Seq(OkRefs) /\ Len(p) = 1 /\ p[1] = request
    BY <2>1, <1>7
  <2>3. m.prefetch = FALSE
    BY <1>7, RefFacts
  <2> QED
    BY <2>1, <2>2, <2>3
<1> QED
  BY <1>2, <1>6, <1>7

-----------------------------------------------------------------------------
(* Stacks.                                                                   *)

NodeRec == [block : Nat, valid : SUBSET Nat, referenced : SUBSET Nat, dirty : SUBSET Nat]

\* The shape of a stack of n nodes: the valid ones first, the spare last, and no
\* block twice.
Shape(q, n) ==
  /\ q \in [1 .. n -> NodeRec]
  /\ q[n].valid = {}
  /\ \A j, k \in 1 .. n : j < k /\ q[j].valid = {} => q[k].valid = {}
  /\ \A j, k \in 1 .. n : j # k /\ q[j].valid # {} /\ q[k].valid # {} => q[j].block # q[k].block

\* A function on 1 .. n is a sequence of length n.
LEMMA LenFacts ==
  ASSUME NEW n \in Nat, NEW S, NEW q \in [1 .. n -> S]
  PROVE  DOMAIN q = 1 .. n /\ Len(q) = n /\ q \in Seq(S)
  OBVIOUS

\* d4_find finds the node of a block if there is one, though it stops at the
\* first node that is not valid.
LEMMA FindFacts ==
  ASSUME NEW n \in Nat \ {0}, NEW q, Shape(q, n), NEW b
  PROVE  /\ Find(q, b) \in 0 .. n - 1
         /\ Find(q, b) # 0 => q[Find(q, b)].valid # {} /\ q[Find(q, b)].block = b
         /\ Find(q, b) = 0 => \A j \in 1 .. n : q[j].valid # {} => q[j].block # b
<1> DEFINE found == {k \in DOMAIN q : /\ q[k].block = b /\ q[k].valid # {}
                                      /\ \A j \in 1 .. k - 1 : q[j].block # b /\ q[j].valid # {}}
<1>1. DOMAIN q = 1 .. n
  BY DEF Shape
<1>2. Find(q, b) = IF found = {} THEN 0 ELSE CHOOSE k \in found : TRUE
  BY DEF Find
<1>3. CASE found = {}
  <2>1. ASSUME NEW j \in 1 .. n, q[j].valid # {}, q[j].block = b PROVE FALSE
    <3>1. ASSUME NEW i \in 1 .. j - 1 PROVE q[i].block # b /\ q[i].valid # {}
      <4>1. i \in 1 .. n /\ i < j
        OBVIOUS
      <4>2. q[i].valid # {}
        BY <2>1, <4>1 DEF Shape
      <4> QED
        BY <2>1, <4>1, <4>2 DEF Shape
    <3>2. j \in found
      BY <1>1, <2>1, <3>1
    <3> QED
      BY <3>2, <1>3
  <2> QED
    BY <1>2, <1>3, <2>1
<1>4. CASE found # {}
  <2>1. Find(q, b) \in found
    BY <1>2, <1>4
  <2>2. /\ Find(q, b) \in 1 .. n /\ q[Find(q, b)].valid # {} /\ q[Find(q, b)].block = b
    BY <1>1, <2>1
  <2>3. Find(q, b) # n
    BY <2>2 DEF Shape
  <2> QED
    BY <2>2, <2>3
<1> QED
  BY <1>3, <1>4

\* A stack with some nodes replaced: the nodes come from another stack, at other
\* places, with the same block and either the same validity or made invalid.
Places(g, t, q, n) ==
  /\ t \in [1 .. n -> NodeRec] /\ g \in [1 .. n -> 1 .. n]
  /\ \A j, k \in 1 .. n : j # k => g[j] # g[k]
  /\ \A j \in 1 .. n : t[j].valid # {} => q[g[j]].valid # {} /\ t[j].block = q[g[j]].block
  /\ t[n].valid = {}
  /\ \A j, k \in 1 .. n : j < k /\ t[j].valid = {} => t[k].valid = {}

\* Such a stack has the shape again.
LEMMA Arranged ==
  ASSUME NEW n \in Nat \ {0}, NEW q, Shape(q, n), NEW t, NEW g, Places(g, t, q, n)
  PROVE  Shape(t, n)
<1>1. ASSUME NEW j \in 1 .. n, NEW k \in 1 .. n, j # k, t[j].valid # {}, t[k].valid # {}
      PROVE  t[j].block # t[k].block
  <2>1. g[j] \in 1 .. n /\ g[k] \in 1 .. n /\ g[j] # g[k]
    BY <1>1 DEF Places
  <2>2. q[g[j]].valid # {} /\ q[g[k]].valid # {}
    BY <1>1 DEF Places
  <2>3. q[g[j]].block # q[g[k]].block
    BY <2>1, <2>2 DEF Shape
  <2> QED
    BY <1>1, <2>3 DEF Places
<1> QED
  BY <1>1 DEF Shape, Places

\* d4movetotop and d4movetobot put one node first or last.
LEMMA TopFacts ==
  ASSUME NEW n \in Nat \ {0}, NEW q \in [1 .. n -> NodeRec], NEW k \in 1 .. n
  PROVE  /\ d4movetotop(q, k) \in [1 .. n -> NodeRec]
         /\ d4movetotop(q, k)[1] = q[k]
         /\ \A j \in 2 .. k : d4movetotop(q, k)[j] = q[j - 1]
         /\ \A j \in k + 1 .. n : d4movetotop(q, k)[j] = q[j]
<1>1. DOMAIN q = 1 .. n
  OBVIOUS
<1>2. \A j \in 1 .. n : (IF j = 1 THEN q[k] ELSE IF j <= k THEN q[j - 1] ELSE q[j]) \in NodeRec
  OBVIOUS
<1> QED
  BY <1>1, <1>2 DEF d4movetotop

\* d4movetobot moves one node and keeps the order of the others.
LEMMA BotFacts ==
  ASSUME NEW n \in Nat \ {0}, NEW q \in [1 .. n -> NodeRec], NEW k \in 1 .. n
  PROVE  /\ d4movetobot(q, k) \in [1 .. n -> NodeRec]
         /\ d4movetobot(q, k)[n] = q[k]
         /\ \A j \in k .. n - 1 : d4movetobot(q, k)[j] = q[j + 1]
         /\ \A j \in 1 .. k - 1 : d4movetobot(q, k)[j] = q[j]
<1>1. DOMAIN q = 1 .. n /\ Len(q) = n
  BY LenFacts
<1>2. \A j \in 1 .. n : (IF j = n THEN q[k] ELSE IF j >= k THEN q[j + 1] ELSE q[j]) \in NodeRec
  OBVIOUS
<1> QED
  BY <1>1, <1>2 DEF d4movetobot

\* A node that is found: whatever the policy does leaves a stack of that shape,
\* with the node at the top or where it was.
Hit(n, q, c, b, k, r, at) ==
  /\ n \in Nat \ {0} /\ Shape(q, n)
  /\ k \in 1 .. n - 1 /\ q[k].valid # {} /\ r \in Replacement(c, q, b, k)
  /\ at = IF P(c).rep = "lru" THEN 1 ELSE k

\* The nodes a hit leaves.
LEMMA HitFacts ==
  ASSUME NEW n, NEW q, NEW c, NEW b, NEW k, NEW r, NEW at, Hit(n, q, c, b, k, r, at)
  PROVE  /\ Shape(r, n) /\ r \in [1 .. n -> NodeRec] /\ at \in 1 .. n - 1 /\ r[at] = q[k]
         /\ \A j \in 1 .. n : \E i \in 1 .. n : r[j] = q[i]
         /\ \A i \in 1 .. n : \E j \in 1 .. n : r[j] = q[i]
<1>h. /\ n \in Nat \ {0} /\ Shape(q, n)
      /\ k \in 1 .. n - 1 /\ q[k].valid # {} /\ r \in Replacement(c, q, b, k)
      /\ at = IF P(c).rep = "lru" THEN 1 ELSE k
  BY DEF Hit
<1>1. q \in [1 .. n -> NodeRec]
  BY <1>h DEF Shape
<1>2. r = IF P(c).rep = "lru" THEN d4movetotop(q, k) ELSE q
  <2>1. k # 0 /\ r \in Replacement(c, q, b, k)
    BY <1>h
  <2> QED
    BY <2>1, Zenon DEF Replacement
<1>3. CASE P(c).rep # "lru"
  <2>1. r = q /\ at = k
    BY <1>h, <1>2, <1>3
  <2> QED
    BY <1>h, <2>1, <1>1
<1>4. CASE P(c).rep = "lru"
  <2>1. r = d4movetotop(q, k) /\ at = 1
    BY <1>h, <1>2, <1>4
  <2>2. /\ r \in [1 .. n -> NodeRec] /\ r[1] = q[k]
        /\ \A j \in 2 .. k : r[j] = q[j - 1]
        /\ \A j \in k + 1 .. n : r[j] = q[j]
    BY <1>h, <1>1, <2>1, TopFacts
  <2> DEFINE g == [j \in 1 .. n |-> IF j = 1 THEN k ELSE IF j <= k THEN j - 1 ELSE j]
  <2>3. g \in [1 .. n -> 1 .. n] /\ (\A i, j \in 1 .. n : i # j => g[i] # g[j])
    BY <1>h
  <2>4. \A j \in 1 .. n : r[j] = q[g[j]]
    BY <1>h, <2>2
  <2> HIDE DEF g
  <2>4a. ASSUME NEW i \in 1 .. n PROVE \E j \in 1 .. n : r[j] = q[i]
    <3>1. CASE i = k
      BY <1>h, <3>1, <2>2
    <3>2. CASE i < k
      <4>1. i + 1 \in 2 .. k /\ i + 1 \in 1 .. n /\ (i + 1) - 1 = i
        BY <1>h, <3>2
      <4> QED
        BY <1>h, <4>1, <2>2
    <3>3. CASE i > k
      BY <1>h, <3>3, <2>2
    <3> QED
      BY <1>h, <3>1, <3>2, <3>3
  <2>5. \A j \in 1 .. k : r[j].valid # {}
    <3> SUFFICES ASSUME NEW j \in 1 .. k PROVE r[j].valid # {}
      BY <1>h
    <3>1. CASE j = 1
      BY <1>h, <3>1, <2>2
    <3>2. CASE j # 1
      <4>1. r[j] = q[j - 1] /\ j - 1 \in 1 .. n /\ j - 1 < k
        BY <1>h, <3>2, <2>2
      <4> QED
        BY <1>h, <4>1 DEF Shape
    <3> QED
      BY <1>h, <3>1, <3>2
  <2>6. ASSUME NEW i \in 1 .. n, NEW j \in 1 .. n, i < j, r[i].valid = {} PROVE r[j].valid = {}
    <3>1. i \in k + 1 .. n /\ j \in k + 1 .. n
      BY <1>h, <2>5, <2>6
    <3>2. r[i] = q[i] /\ r[j] = q[j]
      BY <1>h, <3>1, <2>2
    <3> QED
      BY <1>h, <3>2, <2>6 DEF Shape
  <2>7. r[n].valid = {}
    <3>1. r[n] = q[n]
      BY <1>h, <2>2
    <3> QED
      BY <1>h, <3>1 DEF Shape
  <2>8. Shape(r, n)
    <3>1. \A j \in 1 .. n : r[j].valid # {} => q[g[j]].valid # {} /\ r[j].block = q[g[j]].block
      BY <1>h, <2>4
    <3>2. \A i, j \in 1 .. n : i < j /\ r[i].valid = {} => r[j].valid = {}
      BY <1>h, <2>6
    <3>3. Places(g, r, q, n)
      BY <1>h, <3>1, <3>2, <2>2, <2>3, <2>7 DEF Places
    <3> QED
      BY <1>h, <3>3, Arranged
  <2> QED
    <3>1. \A j \in 1 .. n : \E i \in 1 .. n : r[j] = q[i]
      BY <1>h, <2>3, <2>4
    <3>2. at \in 1 .. n - 1 /\ r[at] = q[k]
      BY <1>h, <2>1, <2>2
    <3> QED
      BY <1>h, <2>2, <2>4a, <2>8, <3>1, <3>2
<1> QED
  BY <1>h, <1>3, <1>4

\* A node that keeps its block and stays valid may change otherwise.
LEMMA PutFacts ==
  ASSUME NEW n \in Nat \ {0}, NEW r, Shape(r, n), NEW at \in 1 .. n, r[at].valid # {},
         NEW x \in NodeRec, x.valid # {}, x.block = r[at].block
  PROVE  Shape([r EXCEPT ![at] = x], n)
<1> DEFINE t == [r EXCEPT ![at] = x]
           g == [j \in 1 .. n |-> j]
<1>1. /\ r \in [1 .. n -> NodeRec] /\ r[n].valid = {} /\ at # n
      /\ \A j, k \in 1 .. n : j < k /\ r[j].valid = {} => r[k].valid = {}
  BY DEF Shape
<1>2. t \in [1 .. n -> NodeRec] /\ t[at] = x /\ \A j \in 1 .. n : j # at => t[j] = r[j]
  BY <1>1
<1>3. g \in [1 .. n -> 1 .. n] /\ \A j \in 1 .. n : g[j] = j
  OBVIOUS
<1> HIDE DEF t, g
<1>4. \A j, k \in 1 .. n : j # k => g[j] # g[k]
  BY <1>3
<1>5. \A j \in 1 .. n : t[j].valid # {} => r[g[j]].valid # {} /\ t[j].block = r[g[j]].block
  BY <1>2, <1>3
<1>6. t[n].valid = {}
  BY <1>1, <1>2
<1>7. ASSUME NEW j \in 1 .. n, NEW k \in 1 .. n, j < k, t[j].valid = {} PROVE t[k].valid = {}
  <2>1. j # at /\ r[j].valid = {}
    BY <1>2, <1>7
  <2>2. r[k].valid = {}
    BY <2>1, <1>1, <1>7
  <2>3. k # at
    BY <2>2
  <2> QED
    BY <2>2, <2>3, <1>2
<1>8. Shape(t, n)
  <2>1. \A j, k \in 1 .. n : j < k /\ t[j].valid = {} => t[k].valid = {}
    BY <1>7
  <2>2. Places(g, t, r, n)
    BY <2>1, <1>2, <1>3, <1>4, <1>5, <1>6 DEF Places
  <2> QED
    BY <2>2, Arranged
<1> QED
  BY <1>8 DEF t

\* A block that is not found: the spare node comes to the top with the address
\* of the block, and as soon as it is filled and a new spare is emptied the stack
\* has its shape again.
Miss(n, q, c, b, r) ==
  /\ n \in Nat \ {0, 1} /\ Shape(q, n) /\ b \in Nat
  /\ \A j \in 1 .. n : q[j].valid # {} => q[j].block # b
  /\ r \in Replacement(c, q, b, 0)

\* Any stack that has these blocks in the places between has the shape.
Refills(n, b, r) ==
  \A t \in [1 .. n -> NodeRec] :
    (/\ t[1].block = b /\ t[1].valid # {} /\ t[n].valid = {}
     /\ \A j \in 2 .. n - 1 : t[j].block = r[j].block /\ t[j].valid = r[j].valid)
    => Shape(t, n)

\* The nodes a miss leaves.
LEMMA MissFacts ==
  ASSUME NEW n, NEW q, NEW c, NEW b, NEW r, Miss(n, q, c, b, r)
  PROVE  /\ r \in [1 .. n -> NodeRec]
         /\ r[1].block = b /\ r[1].dirty = q[n].dirty /\ r[1].referenced = q[n].referenced
         /\ \A j \in 2 .. n : \E i \in 1 .. n : r[j] = q[i]
         /\ \A i \in 1 .. n - 1 : \E j \in 2 .. n : r[j] = q[i]
         /\ Refills(n, b, r)
<1> DEFINE new == [d4movetotop(q, Len(q)) EXCEPT ![1].block = b]
<1>h. n \in Nat \ {0, 1} /\ Shape(q, n) /\ b \in Nat
  BY DEF Miss
<1>m. /\ \A j \in 1 .. n : q[j].valid # {} => q[j].block # b
      /\ r \in Replacement(c, q, b, 0)
  BY DEF Miss
<1>1. /\ q \in [1 .. n -> NodeRec] /\ Len(q) = n
      /\ q[n].valid = {}
      /\ \A j, k \in 1 .. n : j < k /\ q[j].valid = {} => q[k].valid = {}
      /\ \A j, k \in 1 .. n : j # k /\ q[j].valid # {} /\ q[k].valid # {} => q[j].block # q[k].block
  BY <1>h, LenFacts DEF Shape
<1>2. /\ new \in [1 .. n -> NodeRec] /\ new[1] = [q[n] EXCEPT !.block = b]
      /\ \A j \in 2 .. n : new[j] = q[j - 1]
  <2> DEFINE z == d4movetotop(q, n)
  <2>1. z \in [1 .. n -> NodeRec] /\ z[1] = q[n] /\ \A j \in 2 .. n : z[j] = q[j - 1]
    BY <1>h, <1>1, TopFacts
  <2>2. new = [z EXCEPT ![1].block = b]
    BY <1>h, <1>1
  <2> HIDE DEF z, new
  <2>3. [z[1] EXCEPT !.block = b] \in NodeRec
    <3>1. z[1] \in NodeRec
      BY <1>h, <2>1
    <3> QED
      BY <1>h, <3>1 DEF NodeRec
  <2> QED
    BY <1>h, <2>1, <2>2, <2>3
<1>3. \/ r = new
      \/ new[Len(q)].valid # {} /\ r \in {d4movetobot(new, j) : j \in 2 .. Len(q)}
  BY <1>m, Zenon DEF Replacement
<1> HIDE DEF new
<1>4. /\ r \in [1 .. n -> NodeRec] /\ r[1] = [q[n] EXCEPT !.block = b]
      /\ \E g \in [2 .. n -> 1 .. n - 1] :
           /\ \A j, k \in 2 .. n : j # k => g[j] # g[k]
           /\ \A j \in 2 .. n : r[j] = q[g[j]]
           /\ (\A j \in 2 .. n : g[j] = j - 1) \/ q[n - 1].valid # {}
           /\ \A i \in 1 .. n - 1 : \E j \in 2 .. n : g[j] = i
  <2>1. CASE r = new
    <3> DEFINE g == [j \in 2 .. n |-> j - 1]
    <3>1. g \in [2 .. n -> 1 .. n - 1] /\ \A j \in 2 .. n : g[j] = j - 1
      BY <1>h
    <3> HIDE DEF g
    <3>2. \A i \in 1 .. n - 1 : \E j \in 2 .. n : g[j] = i
      <4> SUFFICES ASSUME NEW i \in 1 .. n - 1 PROVE \E j \in 2 .. n : g[j] = i
        BY <1>h
      <4>1. i + 1 \in 2 .. n /\ (i + 1) - 1 = i
        BY <1>h
      <4> QED
        BY <1>h, <4>1, <3>1
    <3>3. \A j \in 2 .. n : r[j] = q[g[j]]
      BY <1>h, <3>1, <2>1, <1>2
    <3>4. \A i, j \in 2 .. n : i # j => g[i] # g[j]
      BY <1>h, <3>1
    <3> QED
      BY <1>h, <3>1, <3>2, <3>3, <3>4, <2>1, <1>2
  <2>2. CASE new[Len(q)].valid # {} /\ r \in {d4movetobot(new, j) : j \in 2 .. Len(q)}
    <3>1. PICK i \in 2 .. n : r = d4movetobot(new, i)
      BY <1>h, <2>2, <1>1
    <3>2. /\ r \in [1 .. n -> NodeRec] /\ r[n] = new[i]
          /\ \A j \in i .. n - 1 : r[j] = new[j + 1]
          /\ \A j \in 1 .. i - 1 : r[j] = new[j]
      BY <1>h, <3>1, <1>2, BotFacts
    <3> DEFINE g == [j \in 2 .. n |-> IF j = n THEN i - 1 ELSE IF j >= i THEN j ELSE j - 1]
    <3>3. g \in [2 .. n -> 1 .. n - 1] /\ \A j, k \in 2 .. n : j # k => g[j] # g[k]
      BY <1>h
    <3>3a. ASSUME NEW l \in 1 .. n - 1 PROVE \E j \in 2 .. n : g[j] = l
      <4>1. CASE l = i - 1
        <5>1. g[n] = l /\ n \in 2 .. n
          BY <1>h, <4>1
        <5> QED
          BY <1>h, <5>1
      <4>2. CASE l >= i
        <5>1. g[l] = l /\ l \in 2 .. n
          BY <1>h, <4>2
        <5> QED
          BY <1>h, <5>1
      <4>3. CASE l < i - 1
        <5>1. g[l + 1] = l /\ l + 1 \in 2 .. n
          BY <1>h, <4>3
        <5> QED
          BY <1>h, <5>1
      <4> QED
        BY <1>h, <4>1, <4>2, <4>3
    <3>4. ASSUME NEW j \in 2 .. n PROVE r[j] = q[g[j]]
      <4>1. CASE j = n
        <5>1. r[j] = new[i] /\ g[j] = i - 1
          BY <1>h, <4>1, <3>2
        <5> QED
          BY <1>h, <5>1, <1>2
      <4>2. CASE j # n /\ j >= i
        <5>1. r[j] = new[j + 1] /\ g[j] = j /\ j + 1 \in 2 .. n
          BY <1>h, <4>2, <3>2
        <5>2. new[j + 1] = q[(j + 1) - 1] /\ (j + 1) - 1 = j
          BY <1>h, <5>1, <1>2
        <5> QED
          BY <1>h, <5>1, <5>2
      <4>3. CASE j < i /\ j # n
        <5>1. r[j] = new[j] /\ g[j] = j - 1
          BY <1>h, <4>3, <3>2
        <5> QED
          BY <1>h, <5>1, <1>2
      <4> QED
        BY <1>h, <4>1, <4>2, <4>3
    <3>5. r[1] = new[1]
      BY <1>h, <3>2
    <3>6. q[n - 1].valid # {}
      BY <1>h, <2>2, <1>1, <1>2
    <3> HIDE DEF g
    <3> QED
      BY <1>h, <3>2, <3>3, <3>3a, <3>4, <3>5, <3>6, <1>2
  <2> QED
    BY <1>h, <2>1, <2>2, <1>3
<1>5. PICK g \in [2 .. n -> 1 .. n - 1] :
           /\ \A j, k \in 2 .. n : j # k => g[j] # g[k]
           /\ \A j \in 2 .. n : r[j] = q[g[j]]
           /\ (\A j \in 2 .. n : g[j] = j - 1) \/ q[n - 1].valid # {}
           /\ \A i \in 1 .. n - 1 : \E j \in 2 .. n : g[j] = i
  BY <1>h, <1>4
<1>6. \A j \in 2 .. n : g[j] \in 1 .. n - 1 /\ g[j] \in 1 .. n
  BY <1>h
<1>7. ASSUME NEW t \in [1 .. n -> NodeRec],
             t[1].block = b, t[1].valid # {}, t[n].valid = {},
             \A j \in 2 .. n - 1 : t[j].block = r[j].block /\ t[j].valid = r[j].valid
      PROVE  Shape(t, n)
  <2>1. \A j \in 2 .. n - 1 : t[j].block = q[g[j]].block /\ t[j].valid = q[g[j]].valid
    <3> SUFFICES ASSUME NEW j \in 2 .. n - 1
                 PROVE  t[j].block = q[g[j]].block /\ t[j].valid = q[g[j]].valid
      BY <1>h
    <3>1. j \in 2 .. n
      BY <1>h
    <3>2. r[j] = q[g[j]]
      BY <1>h, <3>1, <1>5
    <3> QED
      BY <1>h, <3>2, <1>7
  <2>2. ASSUME NEW j \in 1 .. n, NEW k \in 1 .. n, j < k, t[j].valid = {} PROVE t[k].valid = {}
    <3>1. j \in 2 .. n - 1 /\ (k = n \/ k \in 2 .. n - 1)
      BY <1>h, <1>7, <2>2
    <3>2. q[g[j]].valid = {}
      BY <1>h, <3>1, <2>1, <2>2
    <3>3. CASE k = n
      BY <1>h, <3>3, <1>7
    <3>4. CASE k \in 2 .. n - 1 /\ q[n - 1].valid # {}
      <4>1. g[j] \in 1 .. n - 1
        BY <1>h, <3>1, <1>6
      <4>2. g[j] = n - 1 \/ (g[j] < n - 1 /\ g[j] \in 1 .. n /\ n - 1 \in 1 .. n)
        BY <1>h, <4>1
      <4>3. q[n - 1].valid = {}
        BY <1>h, <4>2, <3>2, <1>1
      <4> QED
        BY <1>h, <4>3, <3>4
    <3>5. CASE k \in 2 .. n - 1 /\ \A i \in 2 .. n : g[i] = i - 1
      <4>1. g[j] = j - 1 /\ g[k] = k - 1 /\ j - 1 \in 1 .. n /\ k - 1 \in 1 .. n
        BY <1>h, <3>1, <3>5
      <4>2. q[j - 1].valid = {} /\ j - 1 < k - 1
        BY <1>h, <4>1, <3>2, <2>2
      <4>3. q[k - 1].valid = {}
        BY <1>h, <4>1, <4>2, <1>1
      <4> QED
        BY <1>h, <4>1, <4>3, <3>5, <2>1
    <3> QED
      BY <1>h, <3>1, <3>3, <3>4, <3>5, <1>5
  <2>3. ASSUME NEW j \in 1 .. n, NEW k \in 1 .. n, j < k, t[j].valid # {}, t[k].valid # {}
        PROVE  t[j].block # t[k].block
    <3>1. k \in 2 .. n - 1
      BY <1>h, <2>3, <1>7
    <3>2. t[k].block = q[g[k]].block /\ q[g[k]].valid # {} /\ g[k] \in 1 .. n
      BY <1>h, <3>1, <2>1, <2>3, <1>6
    <3>3. CASE j = 1
      BY <1>h, <1>m, <3>3, <3>2, <1>7
    <3>4. CASE j # 1
      <4>1. j \in 2 .. n - 1 /\ j # k
        BY <1>h, <3>4, <3>1, <2>3
      <4>2. t[j].block = q[g[j]].block /\ q[g[j]].valid # {} /\ g[j] \in 1 .. n
        BY <1>h, <4>1, <2>1, <2>3, <1>6
      <4>3. g[j] # g[k]
        BY <1>h, <4>1, <3>1, <1>5
      <4> QED
        BY <1>h, <4>2, <4>3, <3>2, <1>1
    <3> QED
      BY <1>h, <3>3, <3>4
  <2>4. ASSUME NEW j \in 1 .. n, NEW k \in 1 .. n, j # k, t[j].valid # {}, t[k].valid # {}
        PROVE  t[j].block # t[k].block
    <3>1. j < k \/ k < j
      BY <1>h, <2>4
    <3> QED
      BY <1>h, <3>1, <2>3, <2>4
  <2> QED
    BY <1>h, <1>7, <2>2, <2>4 DEF Shape
<1>7a. Refills(n, b, r)
  BY <1>7 DEF Refills
<1>8. \A j \in 2 .. n : \E i \in 1 .. n : r[j] = q[i]
  BY <1>h, <1>5, <1>6
<1>9. \A i \in 1 .. n - 1 : \E j \in 2 .. n : r[j] = q[i]
  BY <1>h, <1>5
<1>10. r[1].block = b /\ r[1].dirty = q[n].dirty /\ r[1].referenced = q[n].referenced
  <2>1. q[n] \in NodeRec /\ r[1] = [q[n] EXCEPT !.block = b]
    BY <1>h, <1>1, <1>4
  <2> QED
    BY <2>1 DEF NodeRec
<1> QED
  BY <1>4, <1>7a, <1>8, <1>9, <1>10

\* A node as it was, but for its valid sub-blocks.
Dropped(x, y) ==
  /\ x \in NodeRec /\ x.valid = {} /\ x.block = y.block
  /\ x.referenced = y.referenced /\ x.dirty = y.dirty

\* d4invalidate of one block: the stack keeps its shape and loses the block.
LEMMA WithoutFacts ==
  ASSUME NEW n \in Nat \ {0}, NEW q, Shape(q, n), NEW b
  PROVE  /\ Shape(Without(q, b), n) /\ Without(q, b) \in [1 .. n -> NodeRec]
         /\ \A j \in 1 .. n : \E i \in 1 .. n :
              Without(q, b)[j] = q[i] \/ Dropped(Without(q, b)[j], q[i])
         /\ \A j \in 1 .. n : Without(q, b)[j].valid # {} => Without(q, b)[j].block # b
         /\ \A i \in 1 .. n : q[i].block # b /\ q[i].valid # {} =>
              \E j \in 1 .. n : Without(q, b)[j] = q[i]
<1> DEFINE r == Without(q, b)
           k == Find(q, b)
           e == [q EXCEPT ![k].valid = {}]
<1>1. /\ q \in [1 .. n -> NodeRec] /\ q[n].valid = {}
      /\ \A i, j \in 1 .. n : i < j /\ q[i].valid = {} => q[j].valid = {}
      /\ \A i, j \in 1 .. n : i # j /\ q[i].valid # {} /\ q[j].valid # {} => q[i].block # q[j].block
  BY DEF Shape
<1>2. /\ k \in 0 .. n - 1 /\ (k # 0 => q[k].valid # {} /\ q[k].block = b)
      /\ (k = 0 => \A j \in 1 .. n : q[j].valid # {} => q[j].block # b)
  BY FindFacts
<1>3. r = IF k = 0 THEN q ELSE d4movetobot(e, k)
  BY DEF Without
<1>4. CASE k = 0
  BY <1>1, <1>2, <1>3, <1>4
<1>5. CASE k # 0
  <2>1. k \in 1 .. n - 1 /\ k \in 1 .. n
    BY <1>2, <1>5
  <2>2. /\ e \in [1 .. n -> NodeRec] /\ e[k] = [q[k] EXCEPT !.valid = {}]
        /\ \A j \in 1 .. n : j # k => e[j] = q[j]
    <3>1. [q[k] EXCEPT !.valid = {}] \in NodeRec
      <4>1. q[k] \in NodeRec
        BY <1>1, <2>1
      <4> QED
        BY <4>1 DEF NodeRec
    <3> QED
      BY <3>1, <1>1, <2>1
  <2> HIDE DEF e
  <2>3. r = d4movetobot(e, k)
    BY <1>3, <1>5
  <2> HIDE DEF r, k
  <2>4. /\ r \in [1 .. n -> NodeRec] /\ r[n] = e[k]
        /\ \A j \in k .. n - 1 : r[j] = e[j + 1]
        /\ \A j \in 1 .. k - 1 : r[j] = e[j]
    <3>1. e \in [1 .. n -> NodeRec] /\ k \in 1 .. n
      BY <2>1, <2>2
    <3>2. /\ d4movetobot(e, k) \in [1 .. n -> NodeRec]
          /\ d4movetobot(e, k)[n] = e[k]
          /\ \A j \in k .. n - 1 : d4movetobot(e, k)[j] = e[j + 1]
          /\ \A j \in 1 .. k - 1 : d4movetobot(e, k)[j] = e[j]
      BY <3>1, BotFacts
    <3> QED
      BY <3>2, <2>3
  <2> DEFINE g == [j \in 1 .. n |-> IF j = n THEN k ELSE IF j >= k THEN j + 1 ELSE j]
  <2>5. g \in [1 .. n -> 1 .. n] /\ \A i, j \in 1 .. n : i # j => g[i] # g[j]
    BY <2>1
  <2>6. ASSUME NEW j \in 1 .. n
        PROVE  r[j] = IF j = n THEN [q[g[j]] EXCEPT !.valid = {}] ELSE q[g[j]]
    <3>1. CASE j = n
      BY <3>1, <2>2, <2>4
    <3>2. CASE j # n /\ j >= k
      <4>1. r[j] = e[j + 1] /\ g[j] = j + 1 /\ j + 1 # k /\ j + 1 \in 1 .. n
        BY <3>2, <2>1, <2>4
      <4> QED
        BY <4>1, <3>2, <2>2
    <3>3. CASE j # n /\ j < k
      <4>1. r[j] = e[j] /\ g[j] = j
        BY <3>3, <2>1, <2>4
      <4> QED
        BY <4>1, <3>3, <2>2
    <3> QED
      BY <3>1, <3>2, <3>3, <2>1
  <2>7. g[n] = k /\ \A j \in 1 .. n : g[j] \in 1 .. n
    BY <2>1, <2>5
  <2>8. \A i, j \in 1 .. n : i < j /\ j # n => g[i] < g[j]
    BY <2>1
  <2> HIDE DEF g
  <2>9. r[n].valid = {}
    <3>1. q[g[n]] \in NodeRec /\ n \in 1 .. n
      BY <1>1, <2>7
    <3>2. r[n] = [q[g[n]] EXCEPT !.valid = {}]
      BY <3>1, <2>6
    <3> QED
      BY <3>1, <3>2 DEF NodeRec
  <2>10. ASSUME NEW i \in 1 .. n, NEW j \in 1 .. n, i < j, r[i].valid = {} PROVE r[j].valid = {}
    <3>1. CASE j = n
      BY <3>1, <2>9
    <3>2. CASE j # n
      <4>1. i # n /\ g[i] < g[j]
        BY <3>2, <2>8, <2>10
      <4>2. r[i] = q[g[i]] /\ r[j] = q[g[j]]
        BY <3>2, <4>1, <2>6
      <4> QED
        BY <4>1, <4>2, <2>7, <2>10, <1>1
    <3> QED
      BY <3>1, <3>2
  <2>11. \A j \in 1 .. n : r[j].valid # {} => j # n /\ r[j] = q[g[j]]
    BY <2>6, <2>9
  <2>12. Shape(r, n)
    <3>1. \A i, j \in 1 .. n : i < j /\ r[i].valid = {} => r[j].valid = {}
      BY <2>10
    <3>2. Places(g, r, q, n)
      BY <3>1, <2>4, <2>5, <2>9, <2>11 DEF Places
    <3> QED
      BY <3>2, Arranged
  <2>13. ASSUME NEW j \in 1 .. n, r[j].valid # {} PROVE r[j].block # b
    <3>1. r[j] = q[g[j]] /\ g[j] # k /\ g[j] \in 1 .. n
      BY <2>5, <2>7, <2>11, <2>13
    <3> QED
      BY <3>1, <2>1, <2>13, <1>1, <1>2, <1>5
  <2>14. ASSUME NEW j \in 1 .. n
         PROVE  \E i \in 1 .. n : r[j] = q[i] \/ Dropped(r[j], q[i])
    <3>1. g[j] \in 1 .. n /\ q[g[j]] \in NodeRec
      BY <1>1, <2>7
    <3>2. CASE j = n
      <4>1. r[j] = [q[g[j]] EXCEPT !.valid = {}]
        BY <3>2, <2>6
      <4>2. Dropped(r[j], q[g[j]])
        BY <3>1, <4>1 DEF Dropped, NodeRec
      <4> QED
        BY <3>1, <4>2
    <3>3. CASE j # n
      BY <3>1, <3>3, <2>6
    <3> QED
      BY <3>2, <3>3
  <2>15. ASSUME NEW i \in 1 .. n, q[i].block # b, q[i].valid # {}
         PROVE  \E j \in 1 .. n : r[j] = q[i]
    <3> DEFINE j == IF i > k THEN i - 1 ELSE i
    <3>1. i # k /\ i # n
      BY <1>1, <1>2, <1>5, <2>15
    <3>2. j \in 1 .. n - 1 /\ j \in 1 .. n
      BY <3>1, <2>1
    <3>3. r[j] = e[i]
      <4>1. CASE i > k
        <5>1. j \in k .. n - 1 /\ j + 1 = i
          BY <4>1, <2>1
        <5> HIDE DEF j
        <5> QED
          BY <5>1, <2>4
      <4>2. CASE ~(i > k)
        <5>1. j \in 1 .. k - 1 /\ j = i
          BY <4>2, <3>1, <2>1
        <5> HIDE DEF j
        <5> QED
          BY <5>1, <2>4
      <4> QED
        BY <4>1, <4>2
    <3> HIDE DEF j
    <3> QED
      BY <3>1, <3>2, <3>3, <2>2
  <2> QED
    BY <2>4, <2>12, <2>13, <2>14, <2>15 DEF r
<1> QED
  BY <1>4, <1>5

\* d4invalidate of a whole cache: every node is the one that was further down,
\* without its sub-blocks.
LEMMA EmptiedFacts ==
  ASSUME NEW n \in Nat \ {0}, NEW q, Shape(q, n)
  PROVE  /\ Shape(Emptied(q), n) /\ Emptied(q) \in [1 .. n -> NodeRec]
         /\ \A j \in 1 .. n : \E i \in 1 .. n : Dropped(Emptied(q)[j], q[i])
<1> DEFINE some == {k \in 1 .. n : q[k].valid # {}}
           valid == Cardinality(some)
           r == Emptied(q)
<1>1. q \in [1 .. n -> NodeRec] /\ Len(q) = n /\ DOMAIN q = 1 .. n
  BY LenFacts DEF Shape
<1>2. valid \in 0 .. n
  <2>1. IsFiniteSet(1 .. n) /\ Cardinality(1 .. n) = n
    BY FS_Interval
  <2>2. some \in SUBSET (1 .. n)
    OBVIOUS
  <2>3. IsFiniteSet(some) /\ Cardinality(some) <= n
    BY <2>1, <2>2, FS_Subset
  <2> QED
    BY <2>3, FS_CardinalityType
<1>3. r = [k \in 1 .. n |-> [q[IF k + valid <= n THEN k + valid ELSE k + valid - n] EXCEPT !.valid = {}]]
  BY <1>1 DEF Emptied
<1> HIDE DEF valid, r
<1>4. ASSUME NEW j \in 1 .. n
      PROVE  /\ r[j] \in NodeRec /\ r[j].valid = {}
             /\ \E i \in 1 .. n : Dropped(r[j], q[i])
  <2>1. PICK i \in 1 .. n : r[j] = [q[i] EXCEPT !.valid = {}]
    <3>1. (IF j + valid <= n THEN j + valid ELSE j + valid - n) \in 1 .. n
      BY <1>2
    <3> QED
      BY <3>1, <1>3
  <2>2. q[i] \in NodeRec
    BY <1>1
  <2>3. Dropped(r[j], q[i])
    BY <2>1, <2>2 DEF Dropped, NodeRec
  <2> QED
    BY <2>3 DEF Dropped
<1>5. r \in [1 .. n -> NodeRec]
  BY <1>3, <1>4
<1>6. Shape(r, n)
  <2>1. n \in 1 .. n
    OBVIOUS
  <2> QED
    BY <2>1, <1>4, <1>5 DEF Shape
<1> QED
  BY <1>4, <1>5, <1>6 DEF r

-----------------------------------------------------------------------------
(* What is written back.                                                     *)

\* A set of natural numbers that is not empty has a least element.
LEMMA Least ==
  ASSUME NEW T \in SUBSET Nat, T # {}
  PROVE  \E x \in T : \A y \in T : x <= y
<1> DEFINE R == OpToRel(<, Nat)
<1>1. IsWellFoundedOn(R, Nat)
  BY NatLessThanWellFounded
<1>2. R = {ss \in Nat \X Nat : ss[1] < ss[2]}
  BY Zenon DEF OpToRel
<1> HIDE DEF R
<1>3. PICK x \in T : \A y \in T : ~(<<y, x>> \in R)
  BY <1>1, WFMin
<1>4. ASSUME NEW y \in T PROVE x <= y
  <2>1. x \in Nat /\ y \in Nat
    OBVIOUS
  <2>2. y < x => <<y, x>> \in R
    BY <2>1, <1>2
  <2> QED
    BY <2>1, <2>2, <1>3
<1> QED
  BY <1>4

\* A node of a set s: its sub-blocks are of its block, the block is of the set,
\* and only valid sub-blocks are dirty.
Fits(c, s, x) ==
  /\ x \in NodeRec /\ Block(c, x.block) = x.block
  /\ \A a \in x.valid \cup x.referenced \cup x.dirty : SubBlock(c, a) = a /\ Block(c, a) = x.block
  /\ x.valid # {} => x.dirty \subseteq x.valid /\ (s # FullStack(c) => SetOf(c, x.block) = s)
  /\ s = FullStack(c) => x.dirty = {} /\ x.referenced = {}

\* The dirty part of a node, and bytes of whole sub-blocks.
Part(x) == x.valid \cap x.dirty
Bunch(c, node, place, b) ==
  /\ b.place = place /\ b.addr \in Nat /\ b.size \in Nat \ {0}
  /\ WholeSubBlocks(c, b)
  /\ \A x \in Bytes(b) : SubBlock(c, x) \in Part(node)

\* The image of a finite set.
LEMMA Image ==
  ASSUME NEW S, IsFiniteSet(S), NEW f, DOMAIN f = S
  PROVE  IsFiniteSet({f[x] : x \in S})
<1> DEFINE T == {f[x] : x \in S}
           g == [x \in S |-> f[x]]
<1>1. g \in Surjection(S, T)
  BY DEF Surjection
<1> QED
  BY <1>1, FS_Surjection

\* A bunch starts and ends with a dirty sub-block, and there is none before or
\* after it.
Run(c, x, place, a, d) == [place |-> place, addr |-> a, size |-> (d + P(c).sub) - a]


\* A node's bunches are runs from a dirty sub-block to another.
LEMMA BunchIn ==
  ASSUME NEW c, NEW x, NEW place, NEW b
  PROVE  b \in Bunches(c, x, place) <=>
           /\ \E a, d \in Part(x) : b = Run(c, x, place, a, d)
           /\ b.size > 0 /\ b.addr - P(c).sub \notin Part(x) /\ b.addr + b.size \notin Part(x)
           /\ \A y \in Bytes(b) : SubBlock(c, y) \in Part(x)
  BY DEF Bunches, Part, Run

\* There are finitely many bunches, and they are of dirty sub-blocks.
LEMMA BunchesFinite ==
  ASSUME conf \in Configs, NEW c \in Caches, NEW s, NEW x, Fits(c, s, x), NEW place
  PROVE  /\ IsFiniteSet(Bunches(c, x, place))
         /\ \A b \in Bunches(c, x, place) : Bunch(c, x, place, b)
<1> DEFINE dirty == Part(x)
           u == P(c).sub
           v == P(c).block
           top == x.block + v
<1>1. u \in Nat \ {0} /\ v \in Nat \ {0}
  BY CacheFacts
<1>2. /\ dirty \in SUBSET Nat /\ x.block \in Nat
      /\ \A a \in dirty : SubBlock(c, a) = a /\ Block(c, a) = x.block
  BY DEF Fits, Part, NodeRec
<1>3. \A a \in dirty : a \in 0 .. top
  <2> SUFFICES ASSUME NEW a \in dirty PROVE a \in 0 .. top
    OBVIOUS
  <2>1. a \in Nat /\ a < Block(c, a) + v
    BY <1>2, AddressFacts
  <2> QED
    BY <2>1, <1>1, <1>2
<1>4. IsFiniteSet(dirty)
  <2>1. IsFiniteSet(0 .. top)
    BY <1>1, <1>2, FS_Interval
  <2>2. dirty \in SUBSET (0 .. top)
    BY <1>3
  <2> QED
    BY <2>1, <2>2, FS_Subset
<1> DEFINE pairs == dirty \X dirty
           f == [z \in pairs |-> Run(c, x, place, z[1], z[2])]
           all == {f[z] : z \in pairs}
<1>6. IsFiniteSet(all)
  <2>1. IsFiniteSet(pairs)
    BY <1>4, FS_Product
  <2>2. DOMAIN f = pairs
    OBVIOUS
  <2> HIDE DEF f, pairs
  <2> QED
    BY <2>1, <2>2, Image
<1>7. ASSUME NEW b \in Bunches(c, x, place) PROVE b \in all
  <2>1. PICK a \in dirty, d \in dirty : b = Run(c, x, place, a, d)
    BY BunchIn
  <2> HIDE DEF dirty
  <2>2. <<a, d>> \in pairs
    OBVIOUS
  <2>3. f[<<a, d>>] = Run(c, x, place, a, d)
    BY <2>2
  <2> HIDE DEF f, pairs
  <2> QED
    BY <2>1, <2>2, <2>3
<1>9. ASSUME NEW b \in Bunches(c, x, place) PROVE Bunch(c, x, place, b)
  <2>1. /\ b.size > 0 /\ \A y \in Bytes(b) : SubBlock(c, y) \in dirty
        /\ \E a, d \in dirty : b = Run(c, x, place, a, d)
    BY BunchIn
  <2>2. PICK a \in dirty, d \in dirty : b = Run(c, x, place, a, d)
    BY <2>1
  <2>3. a \in Nat /\ d \in Nat
    BY <1>2
  <2>4. b.place = place /\ b.addr = a /\ b.size = (d + u) - a
    BY <2>2 DEF Run
  <2>6. SubBlock(c, a) = a /\ SubBlock(c, d + u) = d + u
    <3>1. SubBlock(c, a) = a /\ SubBlock(c, d) = d
      BY <1>2
    <3>2. SubBlock(c, SubBlock(c, d) + u) = SubBlock(c, d) + u
      BY <2>3, NextAddress
    <3> QED
      BY <3>1, <3>2
  <2> HIDE DEF dirty, u
  <2>7. WholeSubBlocks(c, b)
    <3>1. b.addr + b.size = d + u
      BY <2>3, <2>4, <1>1
    <3> QED
      BY <3>1, <2>4, <2>6 DEF WholeSubBlocks
  <2>5. b.addr \in Nat /\ b.size \in Nat \ {0}
    BY <2>1, <2>3, <2>4, <1>1
  <2> QED
    BY <2>1, <2>4, <2>5, <2>7 DEF Bunch, dirty
<1>10. IsFiniteSet(Bunches(c, x, place))
  <2>1. Bunches(c, x, place) \in SUBSET all
    BY <1>7
  <2> HIDE DEF all
  <2> QED
    BY <2>1, <1>6, FS_Subset
<1> QED
  BY <1>9, <1>10

\* Every byte of a dirty sub-block is in one of the bunches: the run of dirty
\* sub-blocks around it starts and ends somewhere.
LEMMA BunchesCover ==
  ASSUME conf \in Configs, NEW c \in Caches, NEW s, NEW x, Fits(c, s, x), NEW place,
         NEW a \in Nat, SubBlock(c, a) \in Part(x)
  PROVE  \E b \in Bunches(c, x, place) : a \in Bytes(b)
<1> DEFINE dirty == Part(x)
           u == P(c).sub
           v == P(c).block
           ends == {d + u : d \in dirty}
           top == x.block + v
           home == SubBlock(c, a)
<1>1. u \in Nat \ {0} /\ v \in Nat \ {0}
  BY CacheFacts
<1>2. /\ dirty \in SUBSET Nat /\ x.block \in Nat
      /\ \A d \in dirty : SubBlock(c, d) = d /\ Block(c, d) = x.block
  BY DEF Fits, Part, NodeRec
<1>3. home \in dirty /\ home \in Nat /\ home <= a /\ a < home + u
  BY AddressFacts
<1>4. ASSUME NEW d \in dirty
      PROVE  /\ \A y \in Nat : d <= y /\ y < d + u => SubBlock(c, y) = d
             /\ d + u <= top
  <2>1. d \in Nat /\ SubBlock(c, d) = d /\ Block(c, d) = x.block
    BY <1>2
  <2>2. /\ \A y \in Nat : SubBlock(c, d) <= y /\ y < SubBlock(c, d) + u => SubBlock(c, y) = SubBlock(c, d)
        /\ SubBlock(c, d) + u <= Block(c, d) + v
    BY <2>1, AddressFacts
  <2> QED
    BY <2>1, <2>2
<1> HIDE DEF dirty, u, v, home
<1> DEFINE starts == {y \in dirty : y <= home /\ \A z \in y .. home : SubBlock(c, z) \in dirty}
<1>5. PICK first \in starts : \A y \in starts : first <= y
  <2>1. home \in starts
    <3>1. SubBlock(c, home) = home
      BY <1>2, <1>3
    <3>2. \A z \in home .. home : z = home
      BY <1>3
    <3> QED
      BY <3>1, <3>2, <1>3
  <2>2. starts \in SUBSET Nat
    BY <1>2
  <2> HIDE DEF starts
  <2> QED
    BY <2>1, <2>2, Least
<1>6. first \in dirty /\ first \in Nat /\ first <= home /\ \A z \in first .. home : SubBlock(c, z) \in dirty
  BY <1>2, <1>5
<1>7. first - u \notin dirty
  <2> SUFFICES ASSUME first - u \in dirty PROVE FALSE
    OBVIOUS
  <2>1. first - u \in Nat /\ first - u < first
    BY <1>1, <1>2, <1>6
  <2>2. ASSUME NEW z \in first - u .. home PROVE SubBlock(c, z) \in dirty
    <3>1. z \in Nat
      BY <2>1, <1>3
    <3>2. CASE z < first
      <4>1. SubBlock(c, z) = first - u
        BY <3>1, <3>2, <1>1, <1>4, <1>6
      <4> QED
        BY <4>1
    <3>3. CASE ~(z < first)
      BY <3>1, <3>3, <1>3, <1>6
    <3> QED
      BY <3>2, <3>3
  <2>3. first - u \in starts
    BY <2>1, <2>2, <1>3, <1>6
  <2> HIDE DEF starts
  <2>4. first <= first - u
    BY <2>3, <1>5
  <2> QED
    BY <2>1, <2>4, <1>6
<1> DEFINE left == {w \in 0 .. top : /\ top - w \in ends /\ home + u <= top - w
                                     /\ \A z \in home .. (top - w) - 1 : SubBlock(c, z) \in dirty}
<1>8. top \in Nat
  BY <1>1, <1>2
<1>9. PICK w \in left : \A y \in left : w <= y
  <2> DEFINE w0 == top - (home + u)
  <2>1. w0 \in 0 .. top /\ top - w0 = home + u
    BY <1>1, <1>3, <1>4, <1>8
  <2>2. \A z \in home .. (home + u) - 1 : SubBlock(c, z) \in dirty
    BY <1>1, <1>3, <1>4
  <2>3. home + u \in ends
    BY <1>3
  <2> HIDE DEF w0
  <2>4. w0 \in left
    BY <2>1, <2>2, <2>3, <1>1, <1>3
  <2>5. left \in SUBSET Nat
    BY <1>8
  <2> HIDE DEF left
  <2> QED
    BY <2>4, <2>5, Least
<1> DEFINE last == top - w
<1>10. /\ last \in ends /\ home + u <= last /\ last \in Nat
       /\ \A z \in home .. last - 1 : SubBlock(c, z) \in dirty
  BY <1>8, <1>9
<1>11. last \notin dirty
  <2> SUFFICES ASSUME last \in dirty PROVE FALSE
    OBVIOUS
  <2> DEFINE w1 == w - u
  <2>1. last + u <= top
    BY <1>4
  <2>2. w \in 0 .. top /\ last = top - w
    BY <1>9
  <2>3. w1 \in 0 .. top /\ top - w1 = last + u /\ w1 < w
    BY <2>1, <2>2, <1>1, <1>8
  <2>4. last + u \in ends
    OBVIOUS
  <2>5. home + u <= last + u
    BY <1>1, <1>3, <1>10
  <2> HIDE DEF w1, last
  <2>6. ASSUME NEW z \in home .. (last + u) - 1 PROVE SubBlock(c, z) \in dirty
    <3>1. z \in Nat
      BY <1>1, <1>3, <1>10
    <3>2. CASE z < last
      BY <3>1, <3>2, <1>3, <1>10
    <3>3. CASE ~(z < last)
      <4>1. SubBlock(c, z) = last
        BY <3>1, <3>3, <1>1, <1>4, <1>10
      <4> QED
        BY <4>1
    <3> QED
      BY <3>2, <3>3
  <2>7. w1 \in left
    BY <2>3, <2>4, <2>5, <2>6
  <2> HIDE DEF left
  <2> QED
    BY <2>2, <2>3, <2>7, <1>8, <1>9
<1> HIDE DEF last, starts, left, top
<1>11a. PICK d \in dirty : last = d + u
  BY <1>10
<1> HIDE DEF ends
<1> DEFINE b == Run(c, x, place, first, d)
<1>12. b.addr = first /\ b.size = last - first /\ b.size > 0 /\ first + (last - first) = last
  BY <1>1, <1>3, <1>6, <1>10, <1>11a DEF Run, u
<1> HIDE DEF b
<1>13. Bytes(b) = first .. last - 1
  <2>1. first + (last - first) - 1 = last - 1
    BY <1>6, <1>10
  <2> QED
    BY <2>1, <1>12 DEF Bytes
<1>14. \A y \in Bytes(b) : SubBlock(c, y) \in dirty
  <2> SUFFICES ASSUME NEW y \in first .. last - 1 PROVE SubBlock(c, y) \in dirty
    BY <1>13
  <2>1. y \in first .. home \/ y \in home .. last - 1
    BY <1>3, <1>6, <1>10
  <2> QED
    BY <2>1, <1>6, <1>10
<1>16. b \in Bunches(c, x, place)
  <2>1. b.addr - u \notin dirty /\ b.addr + b.size \notin dirty
    BY <1>7, <1>11, <1>12
  <2>2. first \in Part(x) /\ d \in Part(x) /\ b = Run(c, x, place, first, d)
    BY <1>6 DEF b, dirty
  <2> QED
    BY <2>1, <2>2, <1>12, <1>14, BunchIn DEF dirty, u
<1>17. a \in Bytes(b)
  BY <1>1, <1>3, <1>6, <1>10, <1>13
<1> QED
  BY <1>16, <1>17

\* Every bunch is written exactly as the bunch is, once, and no other.
LEMMA WritesFacts ==
  ASSUME NEW bunches, IsFiniteSet(bunches),
         \A b \in bunches : /\ b.addr \in Nat /\ b.size \in Nat \ {0}
                            /\ b.place[1] \in Int /\ b.place[2] \in Int,
         NEW w \in Writes(bunches)
  PROVE  /\ w \in Seq(OkRefs)
         /\ \A k \in 1 .. Len(w) : \E b \in bunches : w[k] = Reference("WRITE", b.addr, b.size)
         /\ \A b \in bunches : \E k \in 1 .. Len(w) : w[k] = Reference("WRITE", b.addr, b.size)
         /\ \A i, j \in 1 .. Len(w) : i # j =>
              \E b, d \in bunches : /\ b # d /\ w[i] = Reference("WRITE", b.addr, b.size)
                                    /\ w[j] = Reference("WRITE", d.addr, d.size)
<1> DEFINE n == Cardinality(bunches)
           Ordered(o) == \A i, j \in DOMAIN o : i < j => Later(o[i], o[j])
           Writing(q) == [k \in DOMAIN q |-> Reference("WRITE", q[k].addr, q[k].size)]
<1>1. n \in Nat
  BY FS_CardinalityType
<1>2. PICK q \in [1 .. n -> bunches] : Ordered(q) /\ w = Writing(q)
  BY DEF Writes
<1> HIDE DEF n
<1>3. /\ DOMAIN q = 1 .. n /\ \A k \in 1 .. n : q[k] \in bunches
      /\ DOMAIN w = 1 .. n /\ \A k \in 1 .. n : w[k] = Reference("WRITE", q[k].addr, q[k].size)
  BY <1>2
<1>4. \A k \in 1 .. n : w[k] \in OkRefs
  <2> SUFFICES ASSUME NEW k \in 1 .. n PROVE w[k] \in OkRefs
    OBVIOUS
  <2>1. q[k].addr \in Nat /\ q[k].size \in Nat /\ q[k].size # 0 /\ "WRITE" \in Types
    BY <1>3 DEF Types
  <2>2. Reference("WRITE", q[k].addr, q[k].size) \in OkRefs
    <3> DEFINE a == q[k].addr
               z == q[k].size
    <3> HIDE DEF a, z
    <3>1. a \in Nat /\ z \in Nat /\ z # 0
      BY <2>1 DEF a, z
    <3>2. Reference("WRITE", a, z) \in OkRefs
      BY <3>1, <2>1, ReferenceFacts
    <3> QED
      BY <3>2 DEF a, z
  <2> QED
    BY <2>2, <1>3
<1>5. w \in [1 .. n -> OkRefs]
  <2>1. w = [k \in 1 .. n |-> w[k]]
    BY <1>2, <1>3
  <2> QED
    BY <2>1, <1>4
<1>6. w \in Seq(OkRefs) /\ Len(w) = n
  BY <1>1, <1>5, LenFacts
<1>7. \A i, j \in 1 .. n : i < j => q[i] # q[j]
  <2> SUFFICES ASSUME NEW i \in 1 .. n, NEW j \in 1 .. n, i < j, q[i] = q[j] PROVE FALSE
    OBVIOUS
  <2>1. Later(q[i], q[i])
    BY <1>2, <1>3
  <2>2. q[i].addr \in Int /\ q[i].place[1] \in Int /\ q[i].place[2] \in Int
    BY <1>3
  <2> QED
    BY <2>1, <2>2 DEF Later
<1>8. q \in Surjection(1 .. n, bunches)
  <2>1. \A i, j \in 1 .. n : q[i] = q[j] => i = j
    BY <1>1, <1>7
  <2>2. q \in Injection(1 .. n, bunches)
    BY <2>1, <1>3 DEF Injection, IsInjective
  <2>3. Cardinality(1 .. n) = n
    BY <1>1, FS_Interval
  <2>4. Cardinality(1 .. n) = Cardinality(bunches)
    BY <2>3 DEF n
  <2> QED
    BY <2>2, <2>4, FS_Injection
<1>9. \A b \in bunches : \E k \in 1 .. n : q[k] = b
  BY <1>8 DEF Surjection
<1>10. \A i, j \in 1 .. n : i # j => q[i] # q[j]
  BY <1>1, <1>7
<1> QED
  BY <1>3, <1>6, <1>9, <1>10

\* A reference within one block of c, and what c may be left to ask for: whole
\* sub-blocks, unless it passes them on, and writes that do not cross blocks,
\* unless they are the rest of one that did.
OneBlock(c, m) == \A x \in Bytes(m) : Block(c, x) = Block(c, m.addr)
Asked(c, r) ==
  /\ r \in Seq(OkRefs)
  /\ \A k \in 1 .. Len(r) : r[k].type = "WRITE" /\ ~r[k].split => OneBlock(c, r[k])
  /\ \A k \in 1 .. Len(r) : WholeOrPassed(c, r[k])

\* A byte is written by one of the references.
Written(r, a) ==
  \E k \in 1 .. Len(r) : r[k].type = "WRITE" /\ ~r[k].split /\ a \in Bytes(r[k])

\* The bunches of a node are within its block, and so are the writes.
LEMMA WrittenBunches ==
  ASSUME conf \in Configs, NEW c \in Caches, NEW bunches, IsFiniteSet(bunches),
         \A b \in bunches :
           \E s, x, place : /\ Fits(c, s, x) /\ Bunch(c, x, place, b)
                           /\ place[1] \in Int /\ place[2] \in Int,
         NEW w \in Writes(bunches)
  PROVE  /\ Asked(c, w) /\ \A m : Lower(c, m, w)
         /\ \A k \in 1 .. Len(w) : w[k].type = "WRITE" /\ ~w[k].split /\ ~w[k].prefetch
         /\ \A b \in bunches : \A a \in Bytes(b) : Written(w, a)
<1>1. ASSUME NEW b \in bunches
      PROVE  /\ b.addr \in Nat /\ b.size \in Nat \ {0} /\ WholeSubBlocks(c, b)
             /\ b.place[1] \in Int /\ b.place[2] \in Int
             /\ \A a \in Bytes(b) : a \in Nat /\ Block(c, a) = Block(c, b.addr)
  <2>1. PICK s, x, place : Fits(c, s, x) /\ Bunch(c, x, place, b)
                           /\ place[1] \in Int /\ place[2] \in Int
    BY <1>1
  <2>2. /\ b.place = place /\ b.addr \in Nat /\ b.size \in Nat \ {0} /\ WholeSubBlocks(c, b)
        /\ \A a \in Bytes(b) : SubBlock(c, a) \in Part(x)
    BY <2>1 DEF Bunch
  <2>3. \A a \in Part(x) : Block(c, a) = x.block
    BY <2>1 DEF Fits, Part
  <2>4. b.addr \in Bytes(b) /\ \A a \in Bytes(b) : a \in Nat
    BY <2>2 DEF Bytes
  <2>5. \A a \in Bytes(b) : Block(c, a) = x.block
    <3> SUFFICES ASSUME NEW a \in Bytes(b) PROVE Block(c, a) = x.block
      OBVIOUS
    <3>1. Block(c, SubBlock(c, a)) = Block(c, a)
      BY <2>4, AddressFacts
    <3> QED
      BY <3>1, <2>2, <2>3
  <2> QED
    BY <2>1, <2>2, <2>4, <2>5
<1>2. /\ w \in Seq(OkRefs)
      /\ \A k \in 1 .. Len(w) : \E b \in bunches : w[k] = Reference("WRITE", b.addr, b.size)
      /\ \A b \in bunches : \E k \in 1 .. Len(w) : w[k] = Reference("WRITE", b.addr, b.size)
  BY <1>1, WritesFacts
<1>3. ASSUME NEW b \in bunches
      PROVE  LET m == Reference("WRITE", b.addr, b.size) IN
             /\ m.type = "WRITE" /\ m.split = FALSE /\ m.prefetch = FALSE
             /\ m.addr = b.addr /\ m.size = b.size /\ Bytes(m) = Bytes(b)
  BY DEF Reference, Bytes
<1>8. ASSUME NEW k \in 1 .. Len(w) PROVE WholeOrPassed(c, w[k])
  <2>1. PICK b \in bunches : w[k] = Reference("WRITE", b.addr, b.size)
    BY <1>2
  <2> QED
    BY <2>1, <1>1, <1>3 DEF WholeOrPassed, WholeSubBlocks
<1>4. ASSUME NEW k \in 1 .. Len(w) PROVE OneBlock(c, w[k])
  <2>1. PICK b \in bunches : w[k] = Reference("WRITE", b.addr, b.size)
    BY <1>2
  <2> QED
    BY <2>1, <1>1, <1>3 DEF OneBlock
<1>5. ASSUME NEW b \in bunches, NEW a \in Bytes(b) PROVE Written(w, a)
  <2>1. PICK k \in 1 .. Len(w) : w[k] = Reference("WRITE", b.addr, b.size)
    BY <1>2
  <2> QED
    BY <2>1, <1>3 DEF Written
<1>6. \A m : Lower(c, m, w)
  <2>1. ASSUME NEW k \in 1 .. Len(w) PROVE ~w[k].prefetch /\ ~w[k].split /\ w[k].type # "INVAL"
    <3>1. PICK b \in bunches : w[k] = Reference("WRITE", b.addr, b.size)
      BY <1>2
    <3> QED
      BY <3>1, <1>3
  <2> QED
    BY <2>1, LowerAway
<1>7. ASSUME NEW k \in 1 .. Len(w) PROVE w[k].type = "WRITE" /\ ~w[k].split /\ ~w[k].prefetch
  <2>1. PICK b \in bunches : w[k] = Reference("WRITE", b.addr, b.size)
    BY <1>2
  <2> QED
    BY <2>1, <1>3
<1> QED
  BY <1>2, <1>4, <1>5, <1>6, <1>7, <1>8 DEF Asked

\* d4_wbblock: every dirty byte of the node is written, within the block.
LEMMA WritebackFacts ==
  ASSUME conf \in Configs, NEW c \in Caches, NEW s, NEW x, Fits(c, s, x),
         NEW w \in d4_wbblock(c, x)
  PROVE  /\ Asked(c, w) /\ \A m : Lower(c, m, w)
         /\ \A k \in 1 .. Len(w) : ~w[k].prefetch /\ ~w[k].split
         /\ \A a \in Nat : SubBlock(c, a) \in Part(x) => Written(w, a)
<1> DEFINE place == <<0, 0>>
           bunches == Bunches(c, x, place)
<1>1. IsFiniteSet(bunches) /\ \A b \in bunches : Bunch(c, x, place, b)
  BY BunchesFinite
<1>2. w \in Writes(bunches)
  BY DEF d4_wbblock
<1>3. place[1] \in Int /\ place[2] \in Int
  OBVIOUS
<1>4. \A a \in Nat : SubBlock(c, a) \in Part(x) => \E b \in bunches : a \in Bytes(b)
  BY BunchesCover
<1> HIDE DEF bunches, place
<1>5. /\ Asked(c, w) /\ (\A m : Lower(c, m, w)) /\ \A b \in bunches : \A a \in Bytes(b) : Written(w, a)
      /\ \A k \in 1 .. Len(w) : ~w[k].prefetch /\ ~w[k].split
  BY <1>1, <1>2, <1>3, WrittenBunches
<1> QED
  BY <1>4, <1>5

\* One reference, or none.
LEMMA AskedOne ==
  ASSUME NEW c, NEW r \in OkRefs, r.type = "WRITE" /\ ~r.split => OneBlock(c, r),
         WholeOrPassed(c, r)
  PROVE  /\ Asked(c, <<r>>) /\ Asked(c, <<>>)
         /\ r.type = "WRITE" /\ ~r.split => \A a \in Bytes(r) : Written(<<r>>, a)
<1> DEFINE p == <<r>>
<1>1. p \in Seq(OkRefs) /\ Len(p) = 1 /\ p[1] = r
  OBVIOUS
<1> HIDE DEF p
<1>2. Asked(c, p)
  BY <1>1 DEF Asked
<1>3. r.type = "WRITE" /\ ~r.split => \A a \in Bytes(r) : Written(p, a)
  BY <1>1 DEF Written
<1>4. Asked(c, <<>>)
  BY DEF Asked
<1> QED
  BY <1>2, <1>3, <1>4 DEF p

\* What is asked for adds up.
LEMMA AskedTogether ==
  ASSUME NEW c, NEW p, NEW q, Asked(c, p), Asked(c, q)
  PROVE  /\ Asked(c, p \o q)
         /\ \A a : Written(p, a) \/ Written(q, a) => Written(p \o q, a)
<1>1. /\ p \o q \in Seq(OkRefs) /\ Len(p \o q) = Len(p) + Len(q)
      /\ Len(p) \in Nat /\ Len(q) \in Nat
      /\ \A k \in 1 .. Len(p) : (p \o q)[k] = p[k]
      /\ \A k \in 1 .. Len(q) : (p \o q)[Len(p) + k] = q[k]
  BY DEF Asked
<1>2. ASSUME NEW k \in 1 .. Len(p \o q), (p \o q)[k].type = "WRITE", ~(p \o q)[k].split
      PROVE  OneBlock(c, (p \o q)[k])
  <2>1. CASE k \in 1 .. Len(p)
    BY <2>1, <1>1, <1>2 DEF Asked
  <2>2. CASE ~(k \in 1 .. Len(p))
    <3> DEFINE j == k - Len(p)
    <3>1. j \in 1 .. Len(q) /\ Len(p) + j = k
      BY <2>2, <1>1
    <3> HIDE DEF j
    <3> QED
      BY <3>1, <1>1, <1>2 DEF Asked
  <2> QED
    BY <2>1, <2>2
<1>5. ASSUME NEW k \in 1 .. Len(p \o q) PROVE WholeOrPassed(c, (p \o q)[k])
  <2>1. CASE k \in 1 .. Len(p)
    BY <2>1, <1>1 DEF Asked
  <2>2. CASE ~(k \in 1 .. Len(p))
    <3> DEFINE j == k - Len(p)
    <3>1. j \in 1 .. Len(q) /\ Len(p) + j = k
      BY <2>2, <1>1
    <3> HIDE DEF j
    <3> QED
      BY <3>1, <1>1 DEF Asked
  <2> QED
    BY <2>1, <2>2
<1>3. ASSUME NEW a, Written(p, a) PROVE Written(p \o q, a)
  <2>1. PICK k \in 1 .. Len(p) : p[k].type = "WRITE" /\ ~p[k].split /\ a \in Bytes(p[k])
    BY <1>3 DEF Written
  <2>2. k \in 1 .. Len(p \o q) /\ (p \o q)[k] = p[k]
    BY <1>1
  <2> QED
    BY <2>1, <2>2 DEF Written
<1>4. ASSUME NEW a, Written(q, a) PROVE Written(p \o q, a)
  <2>1. PICK k \in 1 .. Len(q) : q[k].type = "WRITE" /\ ~q[k].split /\ a \in Bytes(q[k])
    BY <1>4 DEF Written
  <2>2. Len(p) + k \in 1 .. Len(p \o q) /\ (p \o q)[Len(p) + k] = q[k]
    BY <1>1
  <2> QED
    BY <2>1, <2>2 DEF Written
<1> QED
  BY <1>1, <1>2, <1>3, <1>4, <1>5 DEF Asked

\* And stays below the reference that it was asked for.
LEMMA LowerAsked ==
  ASSUME NEW c, NEW m, NEW p, NEW q, Asked(c, p), Asked(c, q), Lower(c, m, p), Lower(c, m, q)
  PROVE  /\ Asked(c, p \o q) /\ Lower(c, m, p \o q)
         /\ \A a : Written(p, a) \/ Written(q, a) => Written(p \o q, a)
<1>1. p \in Seq(OkRefs) /\ q \in Seq(OkRefs)
  BY DEF Asked
<1>2. Lower(c, m, p \o q)
  BY <1>1, LowerTogether
<1>3. /\ Asked(c, p \o q)
      /\ \A a : Written(p, a) \/ Written(q, a) => Written(p \o q, a)
  BY AskedTogether
<1> QED
  BY <1>2, <1>3

\* A reference that takes bytes that were written downstream, and a list of
\* references that writes no byte twice.
Storing(e) == e.type = "WRITE" /\ ~e.split
Once(r) ==
  \A i, j \in 1 .. Len(r) : i # j /\ Storing(r[i]) /\ Storing(r[j]) =>
    \A a \in Bytes(r[i]) : a \notin Bytes(r[j])

\* What a cache asks of itself comes after what it asks to be written.
NoneForSelf(r) == \A k \in 1 .. Len(r) : ~r[k].prefetch /\ ~r[k].split
NoneStored(r) == \A k \in 1 .. Len(r) : ~Storing(r[k])
Ordered(r) ==
  \A i, j \in 1 .. Len(r) : i <= j /\ (r[i].prefetch \/ r[i].split) => ~Storing(r[j])

\* References none of which takes written bytes write nothing.
LEMMA NoneFacts ==
  ASSUME NEW r, NoneStored(r)
  PROVE  Once(r) /\ \A a : ~Written(r, a)
  BY DEF NoneStored, Once, Written, Storing

\* Two lists of references, one after the other.
LEMMA Joined ==
  ASSUME NEW p \in Seq(OkRefs), NEW q \in Seq(OkRefs)
  PROVE  /\ p \o q \in Seq(OkRefs)
         /\ \A k \in 1 .. Len(p) : k \in 1 .. Len(p \o q) /\ (p \o q)[k] = p[k]
         /\ \A k \in 1 .. Len(q) : k + Len(p) \in 1 .. Len(p \o q) /\ (p \o q)[k + Len(p)] = q[k]
         /\ \A k \in 1 .. Len(p \o q) : \/ k \in 1 .. Len(p) /\ (p \o q)[k] = p[k]
                                        \/ k - Len(p) \in 1 .. Len(q) /\ (p \o q)[k] = q[k - Len(p)]
  OBVIOUS

\* Together they write what each does, once if they write nothing in common.
LEMMA OnceTogether ==
  ASSUME NEW p \in Seq(OkRefs), NEW q \in Seq(OkRefs)
  PROVE  /\ \A a : Written(p \o q, a) <=> Written(p, a) \/ Written(q, a)
         /\ Once(p) /\ Once(q) /\ (\A a : ~(Written(p, a) /\ Written(q, a))) => Once(p \o q)
<1> DEFINE t == p \o q
<1>1. /\ Len(p) \in Nat /\ Len(q) \in Nat /\ Len(t) = Len(p) + Len(q)
      /\ \A k \in 1 .. Len(p) : k \in 1 .. Len(t) /\ t[k] = p[k]
      /\ \A k \in 1 .. Len(q) : k + Len(p) \in 1 .. Len(t) /\ t[k + Len(p)] = q[k]
      /\ \A k \in 1 .. Len(t) : \/ k \in 1 .. Len(p) /\ t[k] = p[k]
                                \/ k - Len(p) \in 1 .. Len(q) /\ t[k] = q[k - Len(p)]
  <2>1. Len(p) \in Nat /\ Len(q) \in Nat /\ Len(t) = Len(p) + Len(q)
    OBVIOUS
  <2> QED
    BY <2>1, Joined
<1> HIDE DEF t
<1>2. \A a : Written(t, a) <=> Written(p, a) \/ Written(q, a)
  <2> SUFFICES ASSUME NEW a PROVE Written(t, a) <=> Written(p, a) \/ Written(q, a)
    OBVIOUS
  <2>1. Written(p, a) => Written(t, a)
    BY <1>1 DEF Written
  <2>2. Written(q, a) => Written(t, a)
    BY <1>1 DEF Written
  <2>3. Written(t, a) => Written(p, a) \/ Written(q, a)
    BY <1>1 DEF Written
  <2> QED
    BY <2>1, <2>2, <2>3
<1>3. ASSUME Once(p), Once(q), \A a : ~(Written(p, a) /\ Written(q, a))
      PROVE  Once(t)
  <2> SUFFICES ASSUME NEW i \in 1 .. Len(t), NEW j \in 1 .. Len(t), i # j, Storing(t[i]), Storing(t[j]),
                      NEW a \in Bytes(t[i]), a \in Bytes(t[j])
               PROVE  FALSE
    BY DEF Once
  <2>1. CASE i \in 1 .. Len(p) /\ t[i] = p[i]
    <3>1. Written(p, a)
      BY <2>1 DEF Written, Storing
    <3>2. CASE j \in 1 .. Len(p) /\ t[j] = p[j]
      BY <2>1, <3>2, <1>3 DEF Once
    <3>3. CASE j - Len(p) \in 1 .. Len(q) /\ t[j] = q[j - Len(p)]
      <4>1. Written(q, a)
        BY <3>3 DEF Written, Storing
      <4> QED
        BY <4>1, <3>1, <1>3
    <3> QED
      BY <3>2, <3>3, <1>1
  <2>2. CASE i - Len(p) \in 1 .. Len(q) /\ t[i] = q[i - Len(p)]
    <3>1. Written(q, a)
      BY <2>2 DEF Written, Storing
    <3>2. CASE j \in 1 .. Len(p) /\ t[j] = p[j]
      <4>1. Written(p, a)
        BY <3>2 DEF Written, Storing
      <4> QED
        BY <4>1, <3>1, <1>3
    <3>3. CASE j - Len(p) \in 1 .. Len(q) /\ t[j] = q[j - Len(p)]
      <4>1. i - Len(p) # j - Len(p)
        BY <1>1
      <4> QED
        BY <4>1, <2>2, <3>3, <1>3 DEF Once
    <3> QED
      BY <3>2, <3>3, <1>1
  <2> QED
    BY <2>1, <2>2, <1>1
<1> QED
  BY <1>2, <1>3 DEF t

\* And in that order, if what is for the cache itself comes last.
LEMMA OrderedTogether ==
  ASSUME NEW p \in Seq(OkRefs), NEW q \in Seq(OkRefs)
  PROVE  /\ NoneForSelf(p) /\ NoneForSelf(q) => NoneForSelf(p \o q)
         /\ NoneStored(p) /\ NoneStored(q) => NoneStored(p \o q)
         /\ NoneForSelf(p) => Ordered(p)
         /\ Ordered(p) /\ NoneStored(q) => Ordered(p \o q)
<1> DEFINE t == p \o q
<1>1. /\ Len(p) \in Nat /\ Len(q) \in Nat
      /\ \A k \in 1 .. Len(t) : \/ k \in 1 .. Len(p) /\ t[k] = p[k]
                                \/ k - Len(p) \in 1 .. Len(q) /\ t[k] = q[k - Len(p)]
  <2>1. Len(p) \in Nat /\ Len(q) \in Nat
    OBVIOUS
  <2> QED
    BY <2>1, Joined
<1> HIDE DEF t
<1>2. NoneForSelf(p) /\ NoneForSelf(q) => NoneForSelf(t)
  BY <1>1 DEF NoneForSelf
<1>3. NoneStored(p) /\ NoneStored(q) => NoneStored(t)
  BY <1>1 DEF NoneStored
<1>4. NoneForSelf(p) => Ordered(p)
  BY DEF NoneForSelf, Ordered
<1>5. ASSUME Ordered(p), NoneStored(q), NEW i \in 1 .. Len(t), NEW j \in 1 .. Len(t), i <= j,
             t[i].prefetch \/ t[i].split
      PROVE  ~Storing(t[j])
  <2>1. CASE j \in 1 .. Len(p) /\ t[j] = p[j]
    <3>1. i \in 1 .. Len(p) /\ t[i] = p[i]
      BY <2>1, <1>1, <1>5
    <3> QED
      BY <2>1, <3>1, <1>5 DEF Ordered
  <2>2. CASE j - Len(p) \in 1 .. Len(q) /\ t[j] = q[j - Len(p)]
    BY <2>2, <1>5 DEF NoneStored
  <2> QED
    BY <2>1, <2>2, <1>1
<1>6. Ordered(p) /\ NoneStored(q) => Ordered(t)
  BY <1>5 DEF Ordered
<1> QED
  BY <1>2, <1>3, <1>4, <1>6 DEF t

\* In a cache with sub-blocks of one byte the bunches of a node are maximal runs of
\* its dirty bytes: no two have a byte in common.
LEMMA BunchesApart ==
  ASSUME conf \in Configs, NEW c \in Caches, P(c).sub = 1, NEW s, NEW x, Fits(c, s, x), NEW place,
         NEW b \in Bunches(c, x, place), NEW d \in Bunches(c, x, place),
         NEW a \in Bytes(b), a \in Bytes(d)
  PROVE  b = d
<1>1. ASSUME NEW e \in Bunches(c, x, place)
      PROVE  /\ e.addr \in Nat /\ e.size \in Nat \ {0}
             /\ e.addr - 1 \notin Part(x) /\ e.addr + e.size \notin Part(x)
             /\ \A y \in e.addr .. e.addr + e.size - 1 : y \in Part(x)
             /\ e = [place |-> place, addr |-> e.addr, size |-> e.size]
  <2>1. Bunch(c, x, place, e)
    BY BunchesFinite
  <2>2. /\ \E y, z \in Part(x) : e = Run(c, x, place, y, z)
        /\ e.addr - P(c).sub \notin Part(x) /\ e.addr + e.size \notin Part(x)
    BY BunchIn
  <2>3. \A y \in Nat : SubBlock(c, y) = y
    <3> SUFFICES ASSUME NEW y \in Nat PROVE SubBlock(c, y) = y
      OBVIOUS
    <3>1. SubBlock(c, y) \in Nat /\ SubBlock(c, y) <= y /\ y < SubBlock(c, y) + 1
      BY AddressFacts
    <3> QED
      BY <3>1
  <2>4. e.addr \in Nat /\ e.size \in Nat \ {0} /\ \A y \in Bytes(e) : SubBlock(c, y) \in Part(x)
    BY <2>1 DEF Bunch
  <2>5. \A y \in e.addr .. e.addr + e.size - 1 : y \in Part(x)
    BY <2>3, <2>4 DEF Bytes
  <2>6. e = [place |-> place, addr |-> e.addr, size |-> e.size]
    BY <2>2 DEF Run
  <2> QED
    BY <2>2, <2>4, <2>5, <2>6
<1>2. /\ b.addr \in Nat /\ b.size \in Nat \ {0} /\ d.addr \in Nat /\ d.size \in Nat \ {0}
      /\ b.addr - 1 \notin Part(x) /\ b.addr + b.size \notin Part(x)
      /\ d.addr - 1 \notin Part(x) /\ d.addr + d.size \notin Part(x)
      /\ \A y \in b.addr .. b.addr + b.size - 1 : y \in Part(x)
      /\ \A y \in d.addr .. d.addr + d.size - 1 : y \in Part(x)
  BY <1>1
<1>3. a \in b.addr .. b.addr + b.size - 1 /\ a \in d.addr .. d.addr + d.size - 1
  BY DEF Bytes
<1>4. ~(b.addr < d.addr) /\ ~(d.addr < b.addr)
  <2>1. b.addr < d.addr => d.addr - 1 \in b.addr .. b.addr + b.size - 1
    BY <1>2, <1>3
  <2>2. d.addr < b.addr => b.addr - 1 \in d.addr .. d.addr + d.size - 1
    BY <1>2, <1>3
  <2> QED
    BY <2>1, <2>2, <1>2
<1>5. b.addr = d.addr
  BY <1>2, <1>4
<1>6. ~(b.addr + b.size < d.addr + d.size) /\ ~(d.addr + d.size < b.addr + b.size)
  <2>1. b.addr + b.size < d.addr + d.size => b.addr + b.size \in d.addr .. d.addr + d.size - 1
    BY <1>2, <1>5
  <2>2. d.addr + d.size < b.addr + b.size => d.addr + d.size \in b.addr .. b.addr + b.size - 1
    BY <1>2, <1>5
  <2> QED
    BY <2>1, <2>2, <1>2
<1>7. b.size = d.size
  BY <1>2, <1>5, <1>6
<1>8. b = [place |-> place, addr |-> b.addr, size |-> b.size] /\ d = [place |-> place, addr |-> d.addr, size |-> d.size]
  BY <1>1
<1> QED
  BY <1>5, <1>7, <1>8

\* Bunches without common bytes are written without common bytes, and nothing
\* else is.
LEMMA BunchesOnce ==
  ASSUME NEW bunches, IsFiniteSet(bunches),
         \A b \in bunches : /\ b.addr \in Nat /\ b.size \in Nat \ {0}
                            /\ b.place[1] \in Int /\ b.place[2] \in Int,
         \A b, d \in bunches : b # d => \A a \in Bytes(b) : a \notin Bytes(d),
         NEW w \in Writes(bunches)
  PROVE  Once(w) /\ \A a : Written(w, a) => \E b \in bunches : a \in Bytes(b)
<1>1. /\ \A k \in 1 .. Len(w) : \E b \in bunches : w[k] = Reference("WRITE", b.addr, b.size)
      /\ \A i, j \in 1 .. Len(w) : i # j =>
           \E b, d \in bunches : /\ b # d /\ w[i] = Reference("WRITE", b.addr, b.size)
                                 /\ w[j] = Reference("WRITE", d.addr, d.size)
  BY WritesFacts
<1>2. \A b \in bunches : Bytes(Reference("WRITE", b.addr, b.size)) = Bytes(b)
  BY DEF Bytes, Reference
<1>3. Once(w)
  <2> SUFFICES ASSUME NEW i \in 1 .. Len(w), NEW j \in 1 .. Len(w), i # j, NEW a \in Bytes(w[i])
               PROVE  a \notin Bytes(w[j])
    BY DEF Once
  <2>1. PICK b \in bunches, d \in bunches : /\ b # d /\ w[i] = Reference("WRITE", b.addr, b.size)
                                            /\ w[j] = Reference("WRITE", d.addr, d.size)
    BY <1>1
  <2> QED
    BY <2>1, <1>2
<1>4. ASSUME NEW a, Written(w, a) PROVE \E b \in bunches : a \in Bytes(b)
  <2>1. PICK k \in 1 .. Len(w) : a \in Bytes(w[k])
    BY <1>4 DEF Written
  <2>2. PICK b \in bunches : w[k] = Reference("WRITE", b.addr, b.size)
    BY <1>1
  <2> QED
    BY <2>1, <2>2, <1>2
<1> QED
  BY <1>3, <1>4

\* d4_wbblock writes dirty bytes of the node only, and each of them once.
LEMMA WritebackOnce ==
  ASSUME conf \in Configs, NEW c \in Caches, P(c).sub = 1, NEW s, NEW x, Fits(c, s, x),
         NEW w \in d4_wbblock(c, x)
  PROVE  Once(w) /\ \A a : Written(w, a) => a \in Nat /\ SubBlock(c, a) \in Part(x)
<1> DEFINE place == <<0, 0>>
           bunches == Bunches(c, x, place)
<1>1. IsFiniteSet(bunches) /\ \A b \in bunches : Bunch(c, x, place, b)
  BY BunchesFinite
<1>2. w \in Writes(bunches)
  BY DEF d4_wbblock
<1>3. place[1] \in Int /\ place[2] \in Int
  OBVIOUS
<1>4. \A b, d \in bunches : b # d => \A a \in Bytes(b) : a \notin Bytes(d)
  BY BunchesApart
<1> HIDE DEF bunches, place
<1>5. \A b \in bunches : /\ b.addr \in Nat /\ b.size \in Nat \ {0}
                         /\ b.place[1] \in Int /\ b.place[2] \in Int
                         /\ \A a \in Bytes(b) : a \in Nat /\ SubBlock(c, a) \in Part(x)
  BY <1>1, <1>3 DEF Bunch, Bytes
<1>6. Once(w) /\ \A a : Written(w, a) => \E b \in bunches : a \in Bytes(b)
  BY <1>1, <1>2, <1>4, <1>5, BunchesOnce
<1> QED
  BY <1>5, <1>6

-----------------------------------------------------------------------------
(* The stacks of a cache.                                                    *)

\* A stack of the set s.
StackInv(c, s, q) ==
  /\ Shape(q, StackSize(c, s))
  /\ \A k \in 1 .. StackSize(c, s) : Fits(c, s, q[k])

\* How many stacks there are, and of which sizes.
LEMMA SizeFacts ==
  ASSUME conf \in Configs, NEW c \in Caches
  PROVE  /\ \A s : StackSize(c, s) \in Nat \ {0, 1}
         /\ \A a \in Nat : SetOf(c, a) \in Stacks(c) /\ SetOf(c, a) # FullStack(c)
         /\ P(c).ccc => FullStack(c) \in Stacks(c)
         /\ \A s \in Stacks(c) : s \in Nat /\ (s = FullStack(c) => P(c).ccc)
<1>1. P(c).sets \in Nat \ {0} /\ P(c).assoc \in Nat \ {0} /\ P(c).ccc \in BOOLEAN
  BY CacheFacts
<1>2. ASSUME NEW s PROVE StackSize(c, s) \in Nat \ {0, 1}
  <2> DEFINE x == P(c).assoc
             z == P(c).sets
  <2> HIDE DEF x, z
  <2>1. x \in Nat \ {0} /\ z \in Nat \ {0}
    BY <1>1 DEF x, z
  <2>2. x * z \in Nat \ {0}
    BY <2>1, SMTT(30)
  <2>3. StackSize(c, s) = 1 + x * z \/ StackSize(c, s) = 1 + x
    BY DEF StackSize, x, z
  <2> QED
    BY <2>1, <2>2, <2>3
<1>3. \A a \in Nat : SetOf(c, a) \in 0 .. P(c).sets - 1
  BY AddressFacts
<1>4. \A s : s \in Stacks(c) <=> s \in 0 .. P(c).sets - 1 \/ (P(c).ccc /\ s = P(c).sets)
  BY <1>1 DEF Stacks, FullStack
<1>5. \A s \in 0 .. P(c).sets - 1 : s # P(c).sets
  BY <1>1
<1> QED
  BY <1>1, <1>2, <1>3, <1>4, <1>5 DEF FullStack

\* Addresses in one block are in one set.
LEMMA SameSet ==
  ASSUME conf \in Configs, NEW c \in Caches, NEW a \in Nat, NEW x \in Nat, Block(c, a) = Block(c, x)
  PROVE  SetOf(c, a) = SetOf(c, x)
<1>1. /\ Block(c, x) <= x /\ x < Block(c, x) + P(c).block
      /\ \A y \in Nat : Block(c, a) <= y /\ y < Block(c, a) + P(c).block => SetOf(c, y) = SetOf(c, a)
  BY AddressFacts
<1> QED
  BY <1>1

\* A dirty sub-block is in the set of its address, never in the fully associative
\* stack.
LEMMA DirtyPlace ==
  ASSUME conf \in Configs, NEW c \in Caches, NEW s, NEW q, StackInv(c, s, q),
         NEW k \in 1 .. StackSize(c, s), NEW a \in Part(q[k])
  PROVE  /\ s # FullStack(c) /\ a \in Nat /\ SubBlock(c, a) = a /\ SetOf(c, a) = s
         /\ Block(c, a) = q[k].block /\ q[k].valid # {}
<1>1. Fits(c, s, q[k])
  BY DEF StackInv
<1>2. s # FullStack(c) /\ q[k].valid # {} /\ a \in q[k].valid /\ a \in q[k].dirty
  BY <1>1 DEF Fits, Part
<1>3. /\ a \in Nat /\ SubBlock(c, a) = a /\ Block(c, a) = q[k].block
      /\ q[k].block \in Nat /\ Block(c, q[k].block) = q[k].block /\ SetOf(c, q[k].block) = s
  BY <1>1, <1>2 DEF Fits, NodeRec
<1>4. SetOf(c, a) = SetOf(c, q[k].block)
  BY <1>3, SameSet
<1> QED
  BY <1>2, <1>3, <1>4

\* A dirty sub-block is in one node of a cache.
LEMMA OneNode ==
  ASSUME conf \in Configs, NEW c \in Caches, NEW row, \A s \in Stacks(c) : StackInv(c, s, row[s]),
         NEW s \in Stacks(c), NEW k \in 1 .. StackSize(c, s),
         NEW t \in Stacks(c), NEW j \in 1 .. StackSize(c, t), NEW a \in Part(row[s][k]), a \in Part(row[t][j])
  PROVE  s = t /\ k = j
<1>1. /\ SetOf(c, a) = s /\ Block(c, a) = row[s][k].block /\ row[s][k].valid # {}
      /\ SetOf(c, a) = t /\ Block(c, a) = row[t][j].block /\ row[t][j].valid # {}
  BY DirtyPlace
<1>2. Shape(row[s], StackSize(c, s))
  BY DEF StackInv
<1> QED
  BY <1>1, <1>2 DEF Shape

InNode(c, row, s, k, a) == s \in Stacks(c) /\ k \in 1 .. StackSize(c, s) /\ a \in Part(row[s][k])
AllStacks(c, row) == \A s \in Stacks(c) : StackInv(c, s, row[s])

LEMMA OneNodeOnly ==
  ASSUME conf \in Configs, NEW c \in Caches, NEW row, AllStacks(c, row),
         NEW s, NEW k, NEW t, NEW j, NEW a, InNode(c, row, s, k, a), InNode(c, row, t, j, a)
  PROVE  s = t /\ k = j
  BY OneNode DEF InNode, AllStacks

\* What a reference to the block b leaves of a stack: the node it finds or takes
\* is replaced by one that fits, and what falls into the last place is emptied.
Replaced(c, s, q, n, b, next, at, node, t) ==
  LET k == Find(q, b) IN
  /\ StackInv(c, s, q) /\ n = StackSize(c, s) /\ b \in Nat
  /\ next \in Replacement(c, q, b, k)
  /\ at = IF k = 0 \/ P(c).rep = "lru" THEN 1 ELSE k
  /\ Fits(c, s, node) /\ node.block = b /\ node.valid # {}
  /\ k # 0 => Part(q[k]) \subseteq Part(node)
  /\ t \in [1 .. n -> NodeRec] /\ t[at] = node
  /\ \A j \in 1 .. n : j # at /\ ~(k = 0 /\ j = n) => t[j] = next[j]
  /\ k = 0 => /\ t[n].valid = {} /\ t[n].block = next[n].block
              /\ t[n].referenced = next[n].referenced
              /\ t[n].dirty \subseteq next[n].dirty

\* The stack keeps its shape; of the other nodes only the one that is replaced
\* loses something, and it is the one written back.
LEMMA ReplacedFacts ==
  ASSUME conf \in Configs, NEW c \in Caches, NEW s, NEW q, NEW n, NEW b, NEW next, NEW at,
         NEW node, NEW t, Replaced(c, s, q, n, b, next, at, node, t)
  PROVE  /\ StackInv(c, s, t)
         /\ at \in 1 .. n
         /\ Fits(c, s, next[n])
         /\ \A j \in 1 .. n : t[j] = node \/ \E i \in 1 .. n : t[j].valid \subseteq q[i].valid
         /\ \A i \in 1 .. n : \A a \in Part(q[i]) :
              \/ \E j \in 1 .. n : a \in Part(t[j])
              \/ Find(q, b) = 0 /\ a \in Part(next[n])
<1> DEFINE k == Find(q, b)
<1>0. /\ StackInv(c, s, q) /\ n = StackSize(c, s) /\ b \in Nat
      /\ next \in Replacement(c, q, b, k)
      /\ at = IF k = 0 \/ P(c).rep = "lru" THEN 1 ELSE k
  BY DEF Replaced
<1>n. Fits(c, s, node) /\ node.block = b /\ node.valid # {} /\ (k # 0 => Part(q[k]) \subseteq Part(node))
  BY DEF Replaced
<1>t. /\ t \in [1 .. n -> NodeRec] /\ t[at] = node
      /\ \A j \in 1 .. n : j # at /\ ~(k = 0 /\ j = n) => t[j] = next[j]
  BY DEF Replaced
<1>l. k = 0 => /\ t[n].valid = {} /\ t[n].block = next[n].block
               /\ t[n].referenced = next[n].referenced
               /\ t[n].dirty \subseteq next[n].dirty
  BY DEF Replaced
<1>1. n \in Nat \ {0, 1} /\ n \in Nat \ {0}
  BY <1>0, SizeFacts
<1>2. Shape(q, n) /\ (\A j \in 1 .. n : Fits(c, s, q[j])) /\ q \in [1 .. n -> NodeRec] /\ q[n].valid = {}
  BY <1>0 DEF StackInv, Shape
<1>3. /\ k \in 0 .. n - 1 /\ (k # 0 => q[k].valid # {} /\ q[k].block = b)
      /\ (k = 0 => \A j \in 1 .. n : q[j].valid # {} => q[j].block # b)
  BY <1>1, <1>2, FindFacts
<1>4. node \in NodeRec
  BY <1>n DEF Fits
<1> HIDE DEF k
<1>5. CASE k # 0
  <2>1. k \in 1 .. n - 1 /\ q[k].valid # {} /\ q[k].block = b /\ at = IF P(c).rep = "lru" THEN 1 ELSE k
    BY <1>0, <1>1, <1>3, <1>5
  <2>2. /\ Shape(next, n) /\ next \in [1 .. n -> NodeRec] /\ at \in 1 .. n - 1 /\ next[at] = q[k]
        /\ \A j \in 1 .. n : \E i \in 1 .. n : next[j] = q[i]
        /\ \A i \in 1 .. n : \E j \in 1 .. n : next[j] = q[i]
    <3>1. n \in Nat \ {0} /\ Shape(q, n) /\ next \in Replacement(c, q, b, k)
      BY <1>0, <1>1, <1>2
    <3>2. Hit(n, q, c, b, k, next, at)
      BY <3>1, <2>1 DEF Hit
    <3> QED
      BY <3>2, HitFacts
  <2>3. at \in 1 .. n /\ n \in 1 .. n
    BY <2>2, <1>1
  <2>4. t = [next EXCEPT ![at] = node]
    <3>1. \A j \in 1 .. n : t[j] = [next EXCEPT ![at] = node][j]
      BY <2>2, <2>3, <1>5, <1>t
    <3> QED
      BY <3>1, <2>2, <1>t
  <2>5. Shape(t, n)
    <3>1. next[at].valid # {} /\ node.block = next[at].block
      BY <2>1, <2>2, <1>n
    <3>2. Shape([next EXCEPT ![at] = node], n)
      BY <3>1, <2>2, <2>3, <1>1, <1>4, <1>n, PutFacts
    <3> QED
      BY <3>2, <2>4
  <2>6. ASSUME NEW j \in 1 .. n PROVE t[j] = node \/ \E i \in 1 .. n : t[j] = q[i]
    <3>1. CASE j = at
      BY <3>1, <2>3, <1>t
    <3>2. CASE j # at
      <4>1. t[j] = next[j]
        BY <3>2, <1>5, <1>t
      <4>2. \E i \in 1 .. n : next[j] = q[i]
        BY <2>2
      <4> QED
        BY <4>1, <4>2
    <3> QED
      BY <3>1, <3>2
  <2>7. StackInv(c, s, t)
    <3>1. \A j \in 1 .. n : Fits(c, s, t[j])
      BY <2>6, <1>2, <1>n
    <3> QED
      BY <2>5, <3>1, <1>0 DEF StackInv
  <2>8. Fits(c, s, next[n])
    BY <2>2, <2>3, <1>2
  <2>9. ASSUME NEW i \in 1 .. n, NEW a \in Part(q[i])
        PROVE  \E j \in 1 .. n : a \in Part(t[j])
    <3>1. PICK j \in 1 .. n : next[j] = q[i]
      BY <2>2
    <3>2. CASE j = at
      BY <3>1, <3>2, <2>2, <2>3, <2>9, <1>5, <1>n, <1>t
    <3>3. CASE j # at
      BY <3>1, <3>3, <2>9, <1>5, <1>t
    <3> QED
      BY <3>2, <3>3
  <2>10. \A j \in 1 .. n : t[j] = node \/ \E i \in 1 .. n : t[j].valid \subseteq q[i].valid
    BY <2>6
  <2> QED
    BY <2>3, <2>7, <2>8, <2>9, <2>10
<1>6. CASE k = 0
  <2>1. at = 1 /\ at \in 1 .. n /\ n \in 2 .. n /\ n # 1 /\ n \in 1 .. n
    BY <1>0, <1>1, <1>6
  <2>2. next \in Replacement(c, q, b, 0) /\ \A j \in 1 .. n : q[j].valid # {} => q[j].block # b
    BY <1>0, <1>3, <1>6
  <2>3. /\ next \in [1 .. n -> NodeRec]
        /\ \A j \in 2 .. n : \E i \in 1 .. n : next[j] = q[i]
        /\ \A i \in 1 .. n - 1 : \E j \in 2 .. n : next[j] = q[i]
        /\ Refills(n, b, next)
    <3>1. n \in Nat \ {0, 1} /\ Shape(q, n) /\ b \in Nat
      BY <1>0, <1>1, <1>2
    <3>2. Miss(n, q, c, b, next)
      BY <3>1, <2>2 DEF Miss
    <3> QED
      BY <3>2, MissFacts
  <2>4. \A j \in 2 .. n - 1 : j \in 1 .. n /\ t[j] = next[j]
    BY <2>1, <1>1, <1>6, <1>t
  <2>5. Shape(t, n)
    <3>1. t[1].block = b /\ t[1].valid # {} /\ t[n].valid = {}
      BY <2>1, <1>6, <1>n, <1>t, <1>l
    <3> QED
      BY <3>1, <2>3, <2>4, <1>t DEF Refills
  <2>6. Fits(c, s, next[n])
    BY <2>1, <2>3, <1>2
  <2>7. Fits(c, s, t[n])
    <3>1. t[n] \in NodeRec
      BY <2>1, <1>t
    <3> QED
      BY <3>1, <2>6, <1>6, <1>l DEF Fits
  <2>8. \A j \in 1 .. n : j = 1 \/ j = n \/ j \in 2 .. n - 1
    BY <1>1
  <2>9. \A j \in 1 .. n : Fits(c, s, t[j])
    <3>1. \A j \in 2 .. n - 1 : Fits(c, s, t[j])
      <4> SUFFICES ASSUME NEW j \in 2 .. n - 1 PROVE Fits(c, s, t[j])
        OBVIOUS
      <4>1. j \in 2 .. n /\ t[j] = next[j]
        BY <2>4, <1>1
      <4> QED
        BY <4>1, <2>3, <1>2
    <3> QED
      BY <3>1, <2>1, <2>7, <2>8, <1>n, <1>t
  <2>10. StackInv(c, s, t)
    BY <2>5, <2>9, <1>0 DEF StackInv
  <2>11. ASSUME NEW j \in 1 .. n
         PROVE  t[j] = node \/ \E i \in 1 .. n : t[j].valid \subseteq q[i].valid
    <3>1. CASE j = 1
      BY <3>1, <2>1, <1>t
    <3>2. CASE j = n
      BY <3>2, <2>1, <1>6, <1>l
    <3>3. CASE j \in 2 .. n - 1
      <4>1. j \in 2 .. n /\ t[j] = next[j]
        BY <2>4, <3>3, <1>1
      <4> QED
        BY <4>1, <2>3
    <3> QED
      BY <3>1, <3>2, <3>3, <2>8
  <2>12. ASSUME NEW i \in 1 .. n, NEW a \in Part(q[i])
         PROVE  (\E j \in 1 .. n : a \in Part(t[j])) \/ (k = 0 /\ a \in Part(next[n]))
    <3>1. i # n
      BY <2>12, <1>2 DEF Part
    <3>2. PICK j \in 2 .. n : next[j] = q[i]
      <4>1. i \in 1 .. n - 1
        BY <3>1, <1>1
      <4> QED
        BY <4>1, <2>3
    <3>3. CASE j = n
      BY <3>2, <3>3, <2>12, <1>6
    <3>4. CASE j # n
      <4>1. j \in 2 .. n - 1 /\ j \in 1 .. n
        BY <3>4, <1>1
      <4>2. t[j] = q[i]
        BY <4>1, <3>2, <2>4
      <4> QED
        BY <4>1, <4>2, <2>12
    <3> QED
      BY <3>3, <3>4
  <2> QED
    BY <2>1, <2>6, <2>10, <2>11, <2>12 DEF k
<1> QED
  BY <1>5, <1>6

\* The nodes a miss leaves, in order: the spare one on top and the others one place
\* down, except that with random replacement one of those goes to the end.
Renewed(n, q, c, b, r) ==
  /\ r[1] = [q[n] EXCEPT !.block = b]
  /\ \E i \in 2 .. n :
       /\ \A j \in 2 .. n : r[j] = q[IF j = n THEN i - 1 ELSE IF j < i THEN j - 1 ELSE j]
       /\ P(c).rep # "random" \/ q[n - 1].valid = {} => i = n

LEMMA MissOrder ==
  ASSUME NEW n, NEW q, NEW c, NEW b, NEW r, Miss(n, q, c, b, r)
  PROVE  Renewed(n, q, c, b, r)
<1> DEFINE new == [d4movetotop(q, Len(q)) EXCEPT ![1].block = b]
<1>1. n \in Nat \ {0, 1} /\ Shape(q, n) /\ b \in Nat /\ r \in Replacement(c, q, b, 0)
  BY DEF Miss
<1>2. q \in [1 .. n -> NodeRec] /\ Len(q) = n
  BY <1>1, LenFacts DEF Shape
<1>3. /\ new \in [1 .. n -> NodeRec] /\ new[1] = [q[n] EXCEPT !.block = b]
      /\ \A j \in 2 .. n : new[j] = q[j - 1]
  <2> DEFINE z == d4movetotop(q, n)
  <2>1. z \in [1 .. n -> NodeRec] /\ z[1] = q[n] /\ \A j \in 2 .. n : z[j] = q[j - 1]
    BY <1>1, <1>2, TopFacts
  <2>2. new = [z EXCEPT ![1].block = b]
    BY <1>2
  <2> HIDE DEF z, new
  <2>3. [z[1] EXCEPT !.block = b] \in NodeRec
    <3>1. z[1] \in NodeRec
      BY <1>1, <2>1
    <3> QED
      BY <1>1, <3>1 DEF NodeRec
  <2> QED
    BY <1>1, <2>1, <2>2, <2>3
<1>4. \/ r = new
      \/ P(c).rep = "random" /\ new[Len(q)].valid # {} /\ r \in {d4movetobot(new, j) : j \in 2 .. Len(q)}
  BY <1>1, Zenon DEF Replacement
<1> HIDE DEF new
<1>5. CASE r = new
  <2>1. n \in 2 .. n /\ \A j \in 2 .. n : r[j] = q[IF j = n THEN n - 1 ELSE IF j < n THEN j - 1 ELSE j]
    BY <1>1, <1>3, <1>5
  <2> QED
    BY <2>1, <1>3, <1>5 DEF Renewed
<1>6. CASE P(c).rep = "random" /\ new[Len(q)].valid # {} /\ r \in {d4movetobot(new, j) : j \in 2 .. Len(q)}
  <2>1. PICK i \in 2 .. n : r = d4movetobot(new, i)
    BY <1>2, <1>6
  <2>2. /\ r[n] = new[i]
        /\ \A j \in i .. n - 1 : r[j] = new[j + 1]
        /\ \A j \in 1 .. i - 1 : r[j] = new[j]
    BY <1>1, <1>3, <2>1, BotFacts
  <2>3. ASSUME NEW j \in 2 .. n PROVE r[j] = q[IF j = n THEN i - 1 ELSE IF j < i THEN j - 1 ELSE j]
    <3>1. CASE j = n
      BY <3>1, <2>2, <1>3
    <3>2. CASE j # n /\ j < i
      <4>1. j \in 1 .. i - 1
        BY <3>2
      <4> QED
        BY <4>1, <3>2, <2>2, <1>3
    <3>3. CASE j # n /\ ~(j < i)
      <4>1. j \in i .. n - 1 /\ j + 1 \in 2 .. n /\ (j + 1) - 1 = j
        BY <3>3, <1>1
      <4> QED
        BY <4>1, <3>3, <2>2, <1>3
    <3> QED
      BY <3>1, <3>2, <3>3
  <2>4. r[1] = new[1]
    BY <2>2
  <2>5. q[n - 1].valid # {}
    BY <1>1, <1>2, <1>3, <1>6
  <2> QED
    BY <2>3, <2>4, <2>5, <1>3, <1>6 DEF Renewed
<1> QED
  BY <1>4, <1>5, <1>6

\* The nodes a reference leaves are the one it used, empty or as they were; a node
\* that it replaced has left nothing behind.
LEMMA ReplacedParts ==
  ASSUME conf \in Configs, NEW c \in Caches, NEW s, NEW q, NEW n, NEW b, NEW next, NEW at,
         NEW node, NEW t, Replaced(c, s, q, n, b, next, at, node, t)
  PROVE  /\ \A j \in 1 .. n : t[j] = node \/ Part(t[j]) = {} \/ \E i \in 1 .. n : t[j] = q[i]
         /\ Find(q, b) = 0 =>
              /\ \E i \in 1 .. n : next[n] = q[i]
              /\ next[n].valid # {} => \A j \in 1 .. n : t[j].valid # {} => t[j].block # next[n].block
<1> DEFINE k == Find(q, b)
<1>0. /\ StackInv(c, s, q) /\ n = StackSize(c, s) /\ b \in Nat
      /\ next \in Replacement(c, q, b, k)
      /\ at = IF k = 0 \/ P(c).rep = "lru" THEN 1 ELSE k
  BY DEF Replaced
<1>t. /\ t[at] = node /\ node.block = b
      /\ \A j \in 1 .. n : j # at /\ ~(k = 0 /\ j = n) => t[j] = next[j]
      /\ k = 0 => t[n].valid = {}
  BY DEF Replaced
<1>1. n \in Nat \ {0, 1} /\ n \in Nat \ {0}
  BY <1>0, SizeFacts
<1>2. /\ Shape(q, n)
      /\ \A j, i \in 1 .. n : j # i /\ q[j].valid # {} /\ q[i].valid # {} => q[j].block # q[i].block
  BY <1>0 DEF StackInv, Shape
<1>3. /\ k \in 0 .. n - 1 /\ (k # 0 => q[k].valid # {})
      /\ (k = 0 => \A j \in 1 .. n : q[j].valid # {} => q[j].block # b)
  BY <1>1, <1>2, FindFacts
<1> HIDE DEF k
<1>4. CASE k # 0
  <2>1. k \in 1 .. n - 1 /\ q[k].valid # {} /\ at = IF P(c).rep = "lru" THEN 1 ELSE k
    BY <1>0, <1>1, <1>3, <1>4
  <2>2. Hit(n, q, c, b, k, next, at)
    BY <2>1, <1>0, <1>1, <1>2 DEF Hit
  <2>3. \A j \in 1 .. n : \E i \in 1 .. n : next[j] = q[i]
    BY <2>2, HitFacts
  <2> QED
    BY <2>3, <1>4, <1>t DEF k
<1>5. CASE k = 0
  <2>1. at = 1 /\ n # 1 /\ n \in 1 .. n
    BY <1>0, <1>1, <1>5
  <2>2. Miss(n, q, c, b, next)
    BY <1>0, <1>1, <1>2, <1>3, <1>5 DEF Miss
  <2>3. PICK i \in 2 .. n :
          /\ \A j \in 2 .. n : next[j] = q[IF j = n THEN i - 1 ELSE IF j < i THEN j - 1 ELSE j]
          /\ P(c).rep # "random" \/ q[n - 1].valid = {} => i = n
    <3>1. Renewed(n, q, c, b, next)
      BY <2>2, MissOrder
    <3> QED
      BY <3>1 DEF Renewed
  <2> DEFINE g(j) == IF j = n THEN i - 1 ELSE IF j < i THEN j - 1 ELSE j
  <2>4. \A j \in 2 .. n : g(j) \in 1 .. n /\ next[j] = q[g(j)] /\ (j # n => g(j) # g(n))
    BY <2>3, <1>1
  <2> HIDE DEF g
  <2>5. n \in 2 .. n /\ next[n] = q[g(n)] /\ g(n) \in 1 .. n
    BY <2>4, <1>1
  <2>6. \A j \in 1 .. n : j = 1 \/ j = n \/ (j \in 2 .. n /\ j # n)
    OBVIOUS
  <2>7. \A j \in 2 .. n : j # n => t[j] = q[g(j)]
    BY <2>1, <2>4, <1>t
  <2>8. Part(t[n]) = {}
    BY <1>t, <1>5 DEF Part
  <2>9. ASSUME NEW j \in 1 .. n PROVE t[j] = node \/ Part(t[j]) = {} \/ \E l \in 1 .. n : t[j] = q[l]
    BY <2>1, <2>4, <2>6, <2>7, <2>8, <1>t
  <2>10. ASSUME next[n].valid # {}, NEW j \in 1 .. n, t[j].valid # {}
         PROVE  t[j].block # next[n].block
    <3>1. CASE j = 1
      BY <3>1, <2>1, <2>5, <2>10, <1>3, <1>5, <1>t
    <3>2. CASE j \in 2 .. n /\ j # n
      BY <3>2, <2>4, <2>5, <2>7, <2>10, <1>2
    <3>3. j # n
      BY <2>10, <1>t, <1>5
    <3> QED
      BY <3>1, <3>2, <3>3, <2>6
  <2> QED
    BY <2>5, <2>9, <2>10
<1> QED
  BY <1>4, <1>5

-----------------------------------------------------------------------------
(* The blocks of a stack, in the order of its replacement policy.            *)

\* As many nodes as are valid, and these the first.
Occupied(q, n, u) ==
  /\ u \in 0 .. n - 1
  /\ \A j \in 1 .. n : q[j].valid # {} <=> j <= u

LEMMA OccupiedFacts ==
  ASSUME NEW n \in Nat \ {0}, NEW q, Shape(q, n)
  PROVE  \E u : Occupied(q, n, u)
<1> DEFINE T == {j \in 1 .. n : q[j].valid = {}}
<1>1. T \in SUBSET Nat /\ n \in T
  BY DEF Shape
<1>2. PICK x \in T : \A y \in T : x <= y
  <2> HIDE DEF T
  <2> QED
    BY <1>1, Least
<1>3. x \in 1 .. n /\ x - 1 \in 0 .. n - 1 /\ q[x].valid = {}
  BY <1>2
<1>4. ASSUME NEW j \in 1 .. n PROVE q[j].valid # {} <=> j <= x - 1
  <2>1. CASE j < x
    BY <2>1, <1>2, <1>3
  <2>2. CASE j = x
    BY <2>2, <1>3
  <2>3. CASE j > x
    <3>1. q[j].valid = {}
      BY <2>3, <1>3 DEF Shape
    <3> QED
      BY <3>1, <2>3, <1>3
  <2> QED
    BY <2>1, <2>2, <2>3, <1>3
<1> QED
  BY <1>3, <1>4 DEF Occupied

LEMMA ResidentsFacts ==
  ASSUME NEW n \in Nat \ {0}, NEW q, Shape(q, n), NEW u, Occupied(q, n, u)
  PROVE  /\ Residents(q) \in Seq(Nat) /\ Len(Residents(q)) = u /\ DOMAIN Residents(q) = 1 .. u
         /\ \A k \in 1 .. u : Residents(q)[k] = q[k].block
         /\ Len(q) = n
<1> DEFINE valid == {j \in DOMAIN q : q[j].valid # {}}
           f == [k \in 1 .. u |-> q[k].block]
<1>1. q \in [1 .. n -> NodeRec]
  BY DEF Shape
<1>2. DOMAIN q = 1 .. n /\ Len(q) = n
  BY <1>1, LenFacts
<1>3. u \in Nat /\ u <= n /\ 1 .. u \subseteq 1 .. n
  BY DEF Occupied
<1>4. valid = 1 .. u
  BY <1>2, <1>3 DEF Occupied
<1>5. Cardinality(1 .. u) = u
  BY <1>3, FS_Interval
<1>6. Residents(q) = f
  BY <1>4, <1>5 DEF Residents
<1>7. \A k \in 1 .. u : q[k].block \in Nat
  BY <1>1, <1>3 DEF NodeRec
<1>8. f \in [1 .. u -> Nat]
  BY <1>7
<1>9. f \in Seq(Nat) /\ Len(f) = u /\ DOMAIN f = 1 .. u
  BY <1>3, <1>8
<1> QED
  BY <1>2, <1>6, <1>9

\* A sequence without one of its elements.
LEMMA RemoveAtFacts ==
  ASSUME NEW S, NEW w \in Seq(S), NEW k \in 1 .. Len(w)
  PROVE  /\ RemoveAt(w, k) \in Seq(S) /\ Len(RemoveAt(w, k)) = Len(w) - 1
         /\ \A j \in 1 .. Len(w) - 1 : RemoveAt(w, k)[j] = w[IF j < k THEN j ELSE j + 1]
<1> DEFINE a == SubSeq(w, 1, k - 1)
           z == SubSeq(w, k + 1, Len(w))
<1>1. Len(w) \in Nat /\ \A i \in 1 .. Len(w) : w[i] \in S
  OBVIOUS
<1>2. a \in Seq(S) /\ Len(a) = k - 1 /\ \A i \in 1 .. k - 1 : a[i] = w[i]
  BY <1>1
<1>3. z \in Seq(S) /\ Len(z) = Len(w) - k /\ \A i \in 1 .. Len(w) - k : z[i] = w[k + i]
  BY <1>1
<1> HIDE DEF a, z
<1>4. /\ a \o z \in Seq(S) /\ Len(a \o z) = Len(w) - 1
      /\ \A j \in 1 .. Len(w) - 1 : (a \o z)[j] = IF j <= k - 1 THEN a[j] ELSE z[j - (k - 1)]
  <2>1. /\ a \o z \in Seq(S) /\ Len(a \o z) = Len(a) + Len(z)
        /\ \A j \in 1 .. Len(a) + Len(z) : (a \o z)[j] = IF j <= Len(a) THEN a[j] ELSE z[j - Len(a)]
    BY <1>2, <1>3, ConcatProperties
  <2> DEFINE x == Len(a)
             y == Len(z)
  <2>2. x = k - 1 /\ x + y = Len(w) - 1
    BY <1>1, <1>2, <1>3
  <2> QED
    BY <2>1, <2>2
<1>5. RemoveAt(w, k) = a \o z
  BY DEF RemoveAt, a, z
<1>6. ASSUME NEW j \in 1 .. Len(w) - 1 PROVE (a \o z)[j] = w[IF j < k THEN j ELSE j + 1]
  <2>1. CASE j < k
    BY <2>1, <1>1, <1>2, <1>4
  <2>2. CASE ~(j < k)
    BY <2>2, <1>1, <1>3, <1>4
  <2> QED
    BY <2>1, <2>2
<1> QED
  BY <1>4, <1>5, <1>6

\* One element before a sequence.
LEMMA BeforeFacts ==
  ASSUME NEW S, NEW w \in Seq(S), NEW b \in S
  PROVE  /\ <<b>> \o w \in Seq(S) /\ Len(<<b>> \o w) = Len(w) + 1
         /\ (<<b>> \o w)[1] = b /\ \A j \in 2 .. Len(w) + 1 : (<<b>> \o w)[j] = w[j - 1]
<1>1. <<b>> \in Seq(S) /\ Len(<<b>>) = 1 /\ <<b>>[1] = b
  OBVIOUS
<1> DEFINE a == <<b>>
<1> HIDE DEF a
<1>2. a \in Seq(S) /\ Len(a) = 1 /\ a[1] = b
  BY <1>1 DEF a
<1>3. /\ a \o w \in Seq(S) /\ Len(a \o w) = 1 + Len(w)
      /\ \A i \in 1 .. 1 + Len(w) : (a \o w)[i] = IF i <= 1 THEN a[i] ELSE w[i - 1]
  <2>1. /\ a \o w \in Seq(S) /\ Len(a \o w) = Len(a) + Len(w)
        /\ \A i \in 1 .. Len(a) + Len(w) : (a \o w)[i] = IF i <= Len(a) THEN a[i] ELSE w[i - Len(a)]
    BY <1>2, ConcatProperties
  <2> QED
    BY <1>2, <2>1
<1> QED
  BY <1>2, <1>3 DEF a

\* The valid nodes of t are those of q, with one of b first that takes the place of
\* the one at k, or comes in addition if k is behind them.
Slid(q, t, n, b, u, v, k) ==
  /\ Shape(q, n) /\ Shape(t, n) /\ b \in Nat
  /\ Occupied(q, n, u) /\ Occupied(t, n, v) /\ k \in 1 .. u + 1
  /\ v = IF k <= u THEN u ELSE u + 1
  /\ t[1].block = b
  /\ \A j \in 2 .. v : t[j].block = q[IF j <= k THEN j - 1 ELSE j].block

LEMMA SlidFacts ==
  ASSUME NEW n \in Nat \ {0}, NEW q, NEW t, NEW b, NEW u, NEW v, NEW k, Slid(q, t, n, b, u, v, k)
  PROVE  Residents(t) = <<b>> \o (IF k <= u THEN RemoveAt(Residents(q), k) ELSE Residents(q))
<1> DEFINE old == Residents(q)
           new == Residents(t)
           rest == IF k <= u THEN RemoveAt(old, k) ELSE old
           want == <<b>> \o rest
<1>1. /\ u \in Nat /\ v \in Nat /\ b \in Nat /\ k \in 1 .. u + 1 /\ v = IF k <= u THEN u ELSE u + 1
      /\ t[1].block = b
      /\ \A j \in 2 .. v : t[j].block = q[IF j <= k THEN j - 1 ELSE j].block
  BY DEF Slid, Occupied
<1>2. /\ old \in Seq(Nat) /\ Len(old) = u /\ \A j \in 1 .. u : old[j] = q[j].block
  BY ResidentsFacts DEF Slid
<1>3. /\ new \in Seq(Nat) /\ Len(new) = v /\ \A j \in 1 .. v : new[j] = t[j].block
  BY ResidentsFacts DEF Slid
<1> HIDE DEF old, new
<1>4. /\ rest \in Seq(Nat) /\ Len(rest) = v - 1
      /\ \A j \in 1 .. v - 1 : rest[j] = old[IF j < k THEN j ELSE j + 1]
  <2>1. CASE k <= u
    <3>1. k \in 1 .. Len(old)
      BY <2>1, <1>1, <1>2
    <3> QED
      BY <3>1, <2>1, <1>1, <1>2, RemoveAtFacts
  <2>2. CASE ~(k <= u)
    BY <2>2, <1>1, <1>2
  <2> QED
    BY <2>1, <2>2
<1> HIDE DEF rest
<1>5. /\ want \in Seq(Nat) /\ Len(want) = v /\ want[1] = b
      /\ \A j \in 2 .. v : want[j] = rest[j - 1]
  BY <1>1, <1>4, BeforeFacts
<1> HIDE DEF want
<1>6. ASSUME NEW j \in 1 .. v PROVE new[j] = want[j]
  <2>1. CASE j = 1
    BY <2>1, <1>1, <1>3, <1>5
  <2>2. CASE j # 1
    <3>1. j \in 2 .. v /\ j - 1 \in 1 .. v - 1
      BY <2>2, <1>1
    <3>2. want[j] = old[IF j - 1 < k THEN j - 1 ELSE (j - 1) + 1]
      BY <3>1, <1>4, <1>5
    <3>3. (IF j - 1 < k THEN j - 1 ELSE (j - 1) + 1) = (IF j <= k THEN j - 1 ELSE j)
      BY <1>1
    <3>4. (IF j <= k THEN j - 1 ELSE j) \in 1 .. u
      BY <3>1, <1>1
    <3> QED
      BY <3>1, <3>2, <3>3, <3>4, <1>1, <1>2, <1>3
  <2> QED
    BY <2>1, <2>2
<1>7. new = want
  BY <1>3, <1>5, <1>6, SeqEqual
<1> QED
  BY <1>7 DEF new, want, rest, old

\* Stacks whose valid nodes are of the same blocks in the same order.
LEMMA SameResidents ==
  ASSUME NEW n \in Nat \ {0}, NEW q, NEW t, Shape(q, n), Shape(t, n),
         \A j \in 1 .. n : (t[j].valid # {} <=> q[j].valid # {}) /\ t[j].block = q[j].block
  PROVE  Residents(t) = Residents(q)
<1>1. PICK u : Occupied(q, n, u)
  BY OccupiedFacts
<1>2. Occupied(t, n, u)
  BY <1>1 DEF Occupied
<1> DEFINE old == Residents(q)
           new == Residents(t)
<1>3. old \in Seq(Nat) /\ Len(old) = u /\ \A j \in 1 .. u : old[j] = q[j].block
  BY <1>1, ResidentsFacts
<1>4. new \in Seq(Nat) /\ Len(new) = u /\ \A j \in 1 .. u : new[j] = t[j].block
  BY <1>2, ResidentsFacts
<1>5. \A j \in 1 .. u : j \in 1 .. n
  BY <1>1 DEF Occupied
<1> HIDE DEF old, new
<1>6. Len(old) = Len(new) /\ \A j \in 1 .. Len(old) : old[j] = new[j]
  BY <1>3, <1>4, <1>5
<1>7. old = new
  BY <1>3, <1>4, <1>6, SeqEqual
<1> QED
  BY <1>7 DEF old, new

\* The blocks of a set are those d4_find finds.
LEMMA ContainsFacts ==
  ASSUME NEW n \in Nat \ {0}, NEW q, Shape(q, n), NEW b
  PROVE  Contains(Residents(q), b) <=> Find(q, b) # 0
<1> DEFINE k == Find(q, b)
           old == Residents(q)
<1>1. PICK u : Occupied(q, n, u)
  BY OccupiedFacts
<1>2. Len(old) = u /\ \A j \in 1 .. u : old[j] = q[j].block
  BY <1>1, ResidentsFacts
<1>3. k \in 0 .. n - 1 /\ (k # 0 => q[k].valid # {} /\ q[k].block = b)
      /\ (k = 0 => \A j \in 1 .. n : q[j].valid # {} => q[j].block # b)
  BY FindFacts
<1>4. u \in 0 .. n - 1 /\ \A j \in 1 .. n : q[j].valid # {} <=> j <= u
  BY <1>1 DEF Occupied
<1> HIDE DEF k, old
<1>5. k # 0 => Contains(old, b)
  <2>1. k # 0 => k \in 1 .. u /\ old[k] = b
    BY <1>2, <1>3, <1>4
  <2> QED
    BY <2>1, <1>2 DEF Contains
<1>6. Contains(old, b) => k # 0
  <2>1. ASSUME NEW i \in 1 .. u, old[i] = b PROVE k # 0
    <3>1. i \in 1 .. n /\ q[i].valid # {} /\ q[i].block = b
      BY <2>1, <1>2, <1>4
    <3> QED
      BY <3>1, <1>3
  <2> QED
    BY <2>1, <1>2 DEF Contains
<1> QED
  BY <1>5, <1>6 DEF k, old

\* A stack that is left alone is what the policy asks for where nothing is found and
\* nothing allocated.
LEMMA PolicyAlone ==
  ASSUME NEW n \in Nat \ {0}, NEW q, Shape(q, n), NEW b, Find(q, b) = 0, NEW c,
         NEW allocate, ~allocate
  PROVE  PolicyStep(c, q, q, b, allocate)
<1>1. ~Contains(Residents(q), b)
  BY ContainsFacts
<1> QED
  BY <1>1 DEF PolicyStep

\* So is what a reference leaves of a stack it changes.
LEMMA PolicyReplaced ==
  ASSUME conf \in Configs, NEW c \in Caches, NEW s, NEW q, NEW n, NEW b, NEW next, NEW at,
         NEW node, NEW t, Replaced(c, s, q, n, b, next, at, node, t),
         NEW allocate, Find(q, b) = 0 => allocate
  PROVE  PolicyStep(c, q, t, b, allocate)
<1> DEFINE k == Find(q, b)
           old == Residents(q)
           new == Residents(t)
<1>0. /\ StackInv(c, s, q) /\ n = StackSize(c, s) /\ b \in Nat
      /\ next \in Replacement(c, q, b, k)
      /\ at = IF k = 0 \/ P(c).rep = "lru" THEN 1 ELSE k
  BY DEF Replaced
<1>t. /\ t[at] = node /\ node.block = b /\ node.valid # {}
      /\ \A j \in 1 .. n : j # at /\ ~(k = 0 /\ j = n) => t[j] = next[j]
      /\ k = 0 => t[n].valid = {}
  BY DEF Replaced
<1>1. n \in Nat \ {0, 1} /\ n \in Nat \ {0}
  BY <1>0, SizeFacts
<1>2. StackInv(c, s, t)
  BY ReplacedFacts
<1>3. Shape(q, n) /\ Shape(t, n) /\ q \in [1 .. n -> NodeRec] /\ Len(q) = n
  <2>1. Shape(q, n) /\ Shape(t, n) /\ q \in [1 .. n -> NodeRec]
    BY <1>0, <1>2 DEF StackInv, Shape
  <2> QED
    BY <2>1, <1>1, LenFacts
<1>4. /\ k \in 0 .. n - 1 /\ (k # 0 => q[k].valid # {} /\ q[k].block = b)
      /\ (k = 0 => \A j \in 1 .. n : q[j].valid # {} => q[j].block # b)
  BY <1>1, <1>3, FindFacts
<1>5. Contains(old, b) <=> k # 0
  BY <1>1, <1>3, ContainsFacts
<1>6. PICK u : Occupied(q, n, u)
  BY <1>1, <1>3, OccupiedFacts
<1>7. u \in 0 .. n - 1 /\ \A j \in 1 .. n : q[j].valid # {} <=> j <= u
  BY <1>6 DEF Occupied
<1>8. DOMAIN old = 1 .. u /\ Len(old) = u /\ \A j \in 1 .. u : old[j] = q[j].block
  BY <1>1, <1>3, <1>6, ResidentsFacts
<1>9. PolicyStep(c, q, t, b, allocate) <=>
        IF Contains(old, b)
          THEN IF P(c).rep = "lru"
                 THEN \E i \in DOMAIN old : old[i] = b /\ new = <<b>> \o RemoveAt(old, i)
                 ELSE new = old
        ELSE IF ~allocate THEN new = old
        ELSE IF Len(old) < Len(q) - 1 THEN new = <<b>> \o old
        ELSE \E i \in DOMAIN old :
               (P(c).rep # "random" => i = Len(q) - 1) /\ new = <<b>> \o RemoveAt(old, i)
  BY DEF PolicyStep
<1>s. ASSUME NEW v, NEW i, Occupied(t, n, v), i \in 1 .. u + 1, v = IF i <= u THEN u ELSE u + 1,
             t[1].block = b,
             \A j \in 2 .. v : t[j].block = q[IF j <= i THEN j - 1 ELSE j].block
      PROVE  new = <<b>> \o (IF i <= u THEN RemoveAt(old, i) ELSE old)
  <2>1. Slid(q, t, n, b, u, v, i)
    BY <1>s, <1>0, <1>3, <1>6 DEF Slid
  <2> QED
    BY <2>1, <1>1, SlidFacts
<1> HIDE DEF k, old, new
<1>10. CASE k # 0 /\ P(c).rep = "lru"
  <2>1. at = 1 /\ k \in 1 .. n /\ k <= u /\ k \in 1 .. u
    BY <1>0, <1>1, <1>4, <1>7, <1>10
  <2>2. next = d4movetotop(q, k)
    BY <1>0, <1>10, Zenon DEF Replacement
  <2>3. /\ \A j \in 2 .. k : next[j] = q[j - 1]
        /\ \A j \in k + 1 .. n : next[j] = q[j]
    BY <2>1, <2>2, <1>1, <1>3, TopFacts
  <2>4. \A j \in 2 .. n : t[j] = q[IF j <= k THEN j - 1 ELSE j]
    <3>1. ASSUME NEW j \in 2 .. n PROVE t[j] = q[IF j <= k THEN j - 1 ELSE j]
      <4>1. t[j] = next[j]
        BY <2>1, <1>10, <1>t
      <4>2. j \in 2 .. k \/ j \in k + 1 .. n
        BY <2>1
      <4> QED
        BY <4>1, <4>2, <2>1, <2>3
    <3> QED
      BY <3>1
  <2>5. t[1].valid # {} /\ t[1].block = b
    BY <2>1, <1>t
  <2>6. ASSUME NEW j \in 1 .. n PROVE t[j].valid # {} <=> j <= u
    <3>1. CASE j = 1
      BY <3>1, <2>1, <2>5, <1>1, <1>7
    <3>2. CASE j # 1 /\ j <= k
      <4>1. t[j] = q[j - 1] /\ j - 1 \in 1 .. n /\ j - 1 <= u /\ j <= u
        BY <3>2, <2>1, <2>4, <1>1, <1>7
      <4> QED
        BY <4>1, <1>7
    <3>3. CASE j # 1 /\ ~(j <= k)
      BY <3>3, <2>4, <1>7
    <3> QED
      BY <3>1, <3>2, <3>3
  <2>7. Occupied(t, n, u)
    BY <2>6, <1>7 DEF Occupied
  <2>8. \A j \in 2 .. u : j \in 2 .. n
    BY <1>1, <1>7
  <2>9. new = <<b>> \o RemoveAt(old, k)
    <3>1. k \in 1 .. u + 1 /\ u = IF k <= u THEN u ELSE u + 1
      BY <2>1, <1>7
    <3>2. \A j \in 2 .. u : t[j].block = q[IF j <= k THEN j - 1 ELSE j].block
      BY <2>4, <2>8
    <3>3. new = <<b>> \o (IF k <= u THEN RemoveAt(old, k) ELSE old)
      BY <3>1, <3>2, <2>5, <2>7, <1>s
    <3> QED
      BY <3>3, <2>1
  <2>10. k \in DOMAIN old /\ old[k] = b
    BY <2>1, <1>4, <1>8, <1>10
  <2> QED
    BY <2>9, <2>10, <1>5, <1>9, <1>10, Zenon
<1>11. CASE k # 0 /\ P(c).rep # "lru"
  <2>1. at = k /\ next = q /\ k \in 1 .. n
    <3>1. next = q
      BY <1>0, <1>11, Zenon DEF Replacement
    <3> QED
      BY <3>1, <1>0, <1>1, <1>4, <1>11
  <2>2. \A j \in 1 .. n : j # k => t[j] = q[j]
    BY <2>1, <1>11, <1>t
  <2>3. t[k].valid # {} /\ t[k].block = b /\ q[k].valid # {} /\ q[k].block = b
    BY <2>1, <1>4, <1>11, <1>t
  <2>4. \A j \in 1 .. n : (t[j].valid # {} <=> q[j].valid # {}) /\ t[j].block = q[j].block
    BY <2>1, <2>2, <2>3
  <2>5. new = old
    BY <2>4, <1>1, <1>3, SameResidents DEF new, old
  <2> QED
    BY <2>5, <1>5, <1>9, <1>11, Zenon
<1>12. CASE k = 0
  <2>1. at = 1 /\ n \in 1 .. n /\ n # 1 /\ allocate /\ ~Contains(old, b)
    BY <1>0, <1>1, <1>5, <1>12 DEF k
  <2>2. Miss(n, q, c, b, next)
    BY <1>0, <1>1, <1>3, <1>4, <1>12 DEF Miss
  <2>3. PICK i \in 2 .. n :
          /\ \A j \in 2 .. n : next[j] = q[IF j = n THEN i - 1 ELSE IF j < i THEN j - 1 ELSE j]
          /\ P(c).rep # "random" \/ q[n - 1].valid = {} => i = n
    <3>1. Renewed(n, q, c, b, next)
      BY <2>2, MissOrder
    <3> QED
      BY <3>1 DEF Renewed
  <2>4. ASSUME NEW j \in 2 .. n - 1 PROVE t[j] = q[IF j < i THEN j - 1 ELSE j]
    <3>1. j \in 1 .. n /\ j \in 2 .. n /\ j # n /\ j # 1
      BY <1>1
    <3>2. t[j] = next[j]
      BY <3>1, <2>1, <1>t
    <3> QED
      BY <3>1, <3>2, <2>3
  <2>5. t[1].valid # {} /\ t[1].block = b /\ t[n].valid = {}
    BY <2>1, <1>t, <1>12
  <2>6. CASE u < n - 1
    <3>1. q[n - 1].valid = {} /\ i = n
      <4>1. n - 1 \in 1 .. n /\ ~(n - 1 <= u)
        BY <2>6, <1>1, <1>7
      <4>2. q[n - 1].valid = {}
        BY <4>1, <1>7
      <4> QED
        BY <4>2, <2>3
    <3>2. ASSUME NEW j \in 1 .. n PROVE t[j].valid # {} <=> j <= u + 1
      <4>1. CASE j = 1
        BY <4>1, <2>5, <1>7
      <4>2. CASE j = n
        BY <4>2, <2>5, <2>6, <1>1, <1>7
      <4>3. CASE j # 1 /\ j # n
        <5>1. j \in 2 .. n - 1 /\ j - 1 \in 1 .. n /\ j < n
          BY <4>3, <1>1
        <5>2. t[j] = q[j - 1]
          BY <5>1, <3>1, <2>4
        <5> QED
          BY <5>1, <5>2, <1>1, <1>7
      <4> QED
        BY <4>1, <4>2, <4>3
    <3>3. Occupied(t, n, u + 1)
      BY <3>2, <2>6, <1>1, <1>7 DEF Occupied
    <3>4. ASSUME NEW j \in 2 .. u + 1 PROVE t[j].block = q[IF j <= u + 1 THEN j - 1 ELSE j].block
      <4>1. j \in 2 .. n - 1 /\ j <= u + 1 /\ j < n
        BY <2>6, <1>1, <1>7
      <4> QED
        BY <4>1, <3>1, <2>4
    <3>5. new = <<b>> \o old
      <4>1. u + 1 \in 1 .. u + 1 /\ ~(u + 1 <= u) /\ u + 1 = IF u + 1 <= u THEN u ELSE u + 1
        BY <1>7
      <4>2. new = <<b>> \o (IF u + 1 <= u THEN RemoveAt(old, u + 1) ELSE old)
        BY <4>1, <3>3, <3>4, <2>5, <1>s
      <4> QED
        BY <4>1, <4>2
    <3>6. Len(old) < Len(q) - 1
      BY <2>6, <1>3, <1>8
    <3> QED
      BY <3>5, <3>6, <2>1, <1>9, Zenon
  <2>7. CASE ~(u < n - 1)
    <3>1. u = n - 1 /\ i - 1 \in 1 .. u
      BY <2>7, <1>1, <1>7
    <3>2. ASSUME NEW j \in 1 .. n PROVE t[j].valid # {} <=> j <= u
      <4>1. CASE j = 1
        BY <4>1, <2>5, <3>1, <1>1
      <4>2. CASE j = n
        BY <4>2, <2>5, <3>1, <1>1
      <4>3. CASE j # 1 /\ j # n
        <5>1. j \in 2 .. n - 1 /\ (IF j < i THEN j - 1 ELSE j) \in 1 .. u /\ j <= u
          BY <4>3, <3>1, <1>1
        <5>2. t[j] = q[IF j < i THEN j - 1 ELSE j]
          BY <5>1, <2>4
        <5> DEFINE l == IF j < i THEN j - 1 ELSE j
        <5>3. l \in 1 .. u /\ t[j] = q[l]
          BY <5>1, <5>2
        <5> HIDE DEF l
        <5>4. l \in 1 .. n /\ l <= u
          BY <5>3, <3>1, <1>1
        <5> QED
          BY <5>1, <5>3, <5>4, <1>7
      <4> QED
        BY <4>1, <4>2, <4>3
    <3>3. Occupied(t, n, u)
      BY <3>2, <1>7 DEF Occupied
    <3>4. ASSUME NEW j \in 2 .. u PROVE t[j].block = q[IF j <= i - 1 THEN j - 1 ELSE j].block
      <4>1. j \in 2 .. n - 1 /\ (j <= i - 1 <=> j < i)
        BY <3>1, <1>1
      <4> QED
        BY <4>1, <2>4
    <3>5. new = <<b>> \o RemoveAt(old, i - 1)
      <4>1. i - 1 \in 1 .. u + 1 /\ i - 1 <= u /\ u = IF i - 1 <= u THEN u ELSE u + 1
        BY <3>1, <1>7
      <4>2. new = <<b>> \o (IF i - 1 <= u THEN RemoveAt(old, i - 1) ELSE old)
        BY <4>1, <3>3, <3>4, <2>5, <1>s
      <4> QED
        BY <4>1, <4>2
    <3>6. ~(Len(old) < Len(q) - 1) /\ i - 1 \in DOMAIN old
      BY <3>1, <2>7, <1>3, <1>8
    <3>7. P(c).rep # "random" => i - 1 = Len(q) - 1
      BY <2>3, <1>3
    <3> QED
      BY <3>5, <3>6, <3>7, <2>1, <1>9, Zenon
  <2> QED
    BY <2>6, <2>7, <1>7, <1>1
<1> QED
  BY <1>10, <1>11, <1>12

-----------------------------------------------------------------------------
(* One reference.                                                            *)

\* A node that is taken for a block, and one that a reference has used.
Fresh(old, b) == old = [Node EXCEPT !.block = b]
Used(node, old, subs, m, wback) ==
  node = [old EXCEPT !.valid = @ \cup subs,
                     !.referenced = IF m.prefetch THEN @ ELSE @ \cup subs,
                     !.dirty = IF wback THEN @ \cup subs ELSE @]

\* The node that a reference uses fits: the sub-blocks it makes valid and dirty
\* are of its block.
LEMMA NodeFacts ==
  ASSUME conf \in Configs, NEW c \in Caches, NEW m \in OkRefs, m.type \in Accesses, OneBlock(c, m),
         NEW b, b = Block(c, m.addr), NEW s, s = SetOf(c, m.addr), NEW old,
         \/ Fits(c, s, old) /\ old.block = b /\ old.valid # {}
         \/ Fresh(old, b),
         NEW wback \in BOOLEAN, NEW node, Used(node, old, SubBlocks(c, m), m, wback)
  PROVE  /\ Fits(c, s, node) /\ node.block = b /\ node.valid # {}
         /\ node.valid = old.valid \cup SubBlocks(c, m)
         /\ Part(old) \subseteq Part(node)
         /\ wback => SubBlocks(c, m) \subseteq Part(node)
<1> DEFINE subs == SubBlocks(c, m)
<1>1. /\ subs # {} /\ subs \in SUBSET Nat
      /\ \A x \in subs : SubBlock(c, x) = x /\ Block(c, x) = b
  BY SubFacts DEF OneBlock
<1>2. /\ m.addr \in Nat /\ b \in Nat /\ Block(c, b) = b /\ SetOf(c, b) = s /\ s # FullStack(c)
  <2>1. m.addr \in Nat /\ P(c).block \in Nat \ {0}
    BY RefFacts, CacheFacts
  <2>2. /\ b \in Nat
        /\ \A x \in Nat : b <= x /\ x < b + P(c).block => Block(c, x) = b /\ SetOf(c, x) = s
    BY <2>1, AddressFacts
  <2>3. b <= b /\ b < b + P(c).block
    BY <2>1, <2>2
  <2>4. s # FullStack(c)
    BY <2>1, SizeFacts
  <2> QED
    BY <2>1, <2>2, <2>3, <2>4
<1>3. /\ old \in NodeRec /\ old.block = b /\ (old.dirty \subseteq old.valid)
      /\ \A a \in old.valid \cup old.referenced \cup old.dirty : SubBlock(c, a) = a /\ Block(c, a) = b
  <2>1. CASE Fits(c, s, old) /\ old.block = b /\ old.valid # {}
    BY <2>1 DEF Fits
  <2>2. CASE Fresh(old, b)
    BY <2>2, <1>2 DEF Fresh, Node, NodeRec
  <2> QED
    BY <2>1, <2>2
<1> HIDE DEF subs
<1>4. /\ node \in NodeRec /\ node.block = b /\ node.valid = old.valid \cup subs
      /\ node.referenced \subseteq old.referenced \cup subs
      /\ node.dirty = IF wback THEN old.dirty \cup subs ELSE old.dirty
  <2>1. node = [old EXCEPT !.valid = @ \cup subs,
                           !.referenced = IF m.prefetch THEN @ ELSE @ \cup subs,
                           !.dirty = IF wback THEN @ \cup subs ELSE @]
    BY DEF subs, Used
  <2> DEFINE r == IF m.prefetch THEN old.referenced ELSE old.referenced \cup subs
             d == IF wback THEN old.dirty \cup subs ELSE old.dirty
  <2>2. node = [old EXCEPT !.valid = old.valid \cup subs, !.referenced = r, !.dirty = d]
    BY <2>1
  <2>3. /\ r \in SUBSET Nat /\ r \subseteq old.referenced \cup subs
        /\ d \in SUBSET Nat /\ old.valid \cup subs \in SUBSET Nat
    BY <1>1, <1>3 DEF NodeRec
  <2> HIDE DEF r
  <2>4. d = IF wback THEN old.dirty \cup subs ELSE old.dirty
    OBVIOUS
  <2> HIDE DEF d
  <2>5. /\ node \in NodeRec /\ node.block = b /\ node.valid = old.valid \cup subs
        /\ node.referenced = r /\ node.dirty = d
    BY <2>2, <2>3, <1>3 DEF NodeRec
  <2> QED
    BY <2>3, <2>4, <2>5
<1>5. Fits(c, s, node)
  BY <1>1, <1>2, <1>3, <1>4 DEF Fits
<1>6. Part(old) \subseteq Part(node) /\ (wback => subs \subseteq Part(node))
  BY <1>4 DEF Part
<1> QED
  BY <1>1, <1>4, <1>5, <1>6 DEF subs

\* The same in the fully associative stack, where nothing is dirty.
LEMMA FullNodeFacts ==
  ASSUME conf \in Configs, NEW c \in Caches, NEW m \in OkRefs, m.type \in Accesses, OneBlock(c, m),
         NEW b, b = Block(c, m.addr),
         NEW old \in NodeRec, old.block = b, old.dirty = {}, old.referenced = {},
         NEW valid,
         \/ valid = SubBlocks(c, m)
         \/ valid = old.valid \cup SubBlocks(c, m) /\ Fits(c, FullStack(c), old),
         NEW node, node = [old EXCEPT !.valid = valid]
  PROVE  /\ Fits(c, FullStack(c), node) /\ node.block = b /\ node.valid # {}
         /\ node.valid = valid
<1> DEFINE subs == SubBlocks(c, m)
<1>1. /\ subs # {} /\ subs \in SUBSET Nat
      /\ \A x \in subs : SubBlock(c, x) = x /\ Block(c, x) = b
  BY SubFacts DEF OneBlock
<1>2. b \in Nat /\ Block(c, b) = b
  <2>1. m.addr \in Nat /\ P(c).block \in Nat \ {0}
    BY RefFacts, CacheFacts
  <2>2. /\ b \in Nat
        /\ \A x \in Nat : b <= x /\ x < b + P(c).block => Block(c, x) = b
    BY <2>1, AddressFacts
  <2>3. b <= b /\ b < b + P(c).block
    BY <2>1, <2>2
  <2> QED
    BY <2>1, <2>2, <2>3
<1> HIDE DEF subs
<1>3. /\ valid \in SUBSET Nat /\ valid # {}
      /\ \A x \in valid : SubBlock(c, x) = x /\ Block(c, x) = b
  <2>1. CASE valid = subs
    BY <2>1, <1>1
  <2>2. CASE valid = old.valid \cup subs /\ Fits(c, FullStack(c), old)
    BY <2>2, <1>1 DEF Fits, NodeRec
  <2> QED
    BY <2>1, <2>2 DEF subs
<1>4. node \in NodeRec /\ node.block = b /\ node.valid = valid /\ node.referenced = {} /\ node.dirty = {}
  BY <1>3 DEF NodeRec
<1>5. Fits(c, FullStack(c), node)
  BY <1>2, <1>3, <1>4 DEF Fits
<1> QED
  BY <1>3, <1>4, <1>5

\* The node that a reference uses is where it looks for it: the one it found, or
\* the spare one with the address of the block.
LEMMA NextFacts ==
  ASSUME conf \in Configs, NEW c \in Caches, NEW s, NEW q, StackInv(c, s, q), NEW b \in Nat,
         NEW next \in Replacement(c, q, b, Find(q, b)),
         NEW at, at = IF Find(q, b) = 0 \/ P(c).rep = "lru" THEN 1 ELSE Find(q, b)
  PROVE  /\ next \in [1 .. StackSize(c, s) -> NodeRec]
         /\ at \in 1 .. StackSize(c, s)
         /\ Find(q, b) \in 0 .. StackSize(c, s) - 1
         /\ Find(q, b) # 0 => /\ next[at] = q[Find(q, b)] /\ next[at].valid # {} /\ next[at].block = b
                              /\ Fits(c, s, next[at])
         /\ Find(q, b) = 0 => /\ at = 1 /\ next[1].block = b
                              /\ next[1].dirty = q[StackSize(c, s)].dirty
                              /\ next[1].referenced = q[StackSize(c, s)].referenced
<1> DEFINE n == StackSize(c, s)
           k == Find(q, b)
<1>1. n \in Nat \ {0, 1} /\ n \in Nat \ {0} /\ Shape(q, n) /\ \A j \in 1 .. n : Fits(c, s, q[j])
  BY SizeFacts DEF StackInv
<1> HIDE DEF n
<1>2. /\ k \in 0 .. n - 1 /\ (k # 0 => q[k].valid # {} /\ q[k].block = b)
      /\ (k = 0 => \A j \in 1 .. n : q[j].valid # {} => q[j].block # b)
  BY <1>1, FindFacts
<1>3. next \in Replacement(c, q, b, k) /\ at = IF k = 0 \/ P(c).rep = "lru" THEN 1 ELSE k
  OBVIOUS
<1> HIDE DEF k
<1>4. CASE k = 0
  <2>1. Miss(n, q, c, b, next)
    BY <1>1, <1>2, <1>3, <1>4 DEF Miss
  <2>2. at = 1 /\ at \in 1 .. n
    BY <1>1, <1>3, <1>4
  <2>3. /\ next \in [1 .. n -> NodeRec]
        /\ next[1].block = b /\ next[1].dirty = q[n].dirty /\ next[1].referenced = q[n].referenced
    BY <2>1, MissFacts
  <2> QED
    BY <2>2, <2>3, <1>2, <1>4 DEF n, k
<1>5. CASE k # 0
  <2>1. k \in 1 .. n - 1 /\ k \in 1 .. n /\ at = IF P(c).rep = "lru" THEN 1 ELSE k
    BY <1>1, <1>2, <1>3, <1>5
  <2>2. Hit(n, q, c, b, k, next, at)
    BY <2>1, <1>1, <1>2, <1>3, <1>5 DEF Hit
  <2>3. next \in [1 .. n -> NodeRec] /\ at \in 1 .. n - 1 /\ next[at] = q[k]
    BY <2>2, HitFacts
  <2>4. at \in 1 .. n
    BY <2>3, <1>1
  <2>5. Fits(c, s, next[at])
    BY <2>1, <2>3, <1>1
  <2> QED
    BY <2>3, <2>4, <2>5, <1>2, <1>5 DEF n, k
<1> QED
  BY <1>4, <1>5

\* A node put into a stack, where the one it takes the place of is emptied.
Filled(mine, next, n, at, node, full) ==
  mine = IF full THEN [next EXCEPT ![at] = node, ![n].valid = {}, ![n].dirty = {}]
                 ELSE [next EXCEPT ![at] = node]

Stacked(mine, next, n, at, node, full) ==
  /\ mine \in [1 .. n -> NodeRec] /\ mine[at] = node
  /\ \A j \in 1 .. n : j # at /\ ~(full /\ j = n) => mine[j] = next[j]
  /\ full => /\ mine[n].valid = {} /\ mine[n].dirty = {} /\ mine[n].block = next[n].block
             /\ mine[n].referenced = next[n].referenced

\* One node written into a stack, and the last one emptied.
LEMMA MineFacts ==
  ASSUME NEW n \in Nat \ {0, 1}, NEW next \in [1 .. n -> NodeRec], NEW at \in 1 .. n,
         NEW node \in NodeRec, NEW full \in BOOLEAN, full => at # n, NEW mine,
         Filled(mine, next, n, at, node, full)
  PROVE  Stacked(mine, next, n, at, node, full)
<1> USE DEF Stacked
<1>1. n \in 1 .. n /\ next[n] \in NodeRec
  OBVIOUS
<1>m. mine = IF full THEN [next EXCEPT ![at] = node, ![n].valid = {}, ![n].dirty = {}]
                     ELSE [next EXCEPT ![at] = node]
  BY DEF Filled
<1>2. CASE full
  <2> DEFINE last == [[next[n] EXCEPT !.valid = {}] EXCEPT !.dirty = {}]
  <2>1. /\ last \in NodeRec /\ last.valid = {} /\ last.dirty = {} /\ last.block = next[n].block
        /\ last.referenced = next[n].referenced
    BY <1>1 DEF NodeRec
  <2>2. mine = [next EXCEPT ![at] = node, ![n] = last]
    BY <1>1, <1>2, <1>m
  <2> HIDE DEF last
  <2> QED
    BY <2>1, <2>2, <1>1, <1>2
<1>3. CASE ~full
  BY <1>1, <1>3, <1>m
<1> QED
  BY <1>2, <1>3

\* What a reference to the sub-blocks subs may make of a stack: it makes no others
\* valid, and what is no longer dirty is written.
Updated(c, s, q, t, subs, r) ==
  LET n == StackSize(c, s) IN
  /\ StackInv(c, s, t)
  /\ \A j \in 1 .. n : \A a \in t[j].valid : a \in subs \/ \E i \in 1 .. n : a \in q[i].valid
  /\ \A i \in 1 .. n : \A a \in Nat : SubBlock(c, a) \in Part(q[i]) =>
       (\E j \in 1 .. n : SubBlock(c, a) \in Part(t[j])) \/ Written(r, a)

\* A stack that is left as it is.
LEMMA NotUpdated ==
  ASSUME NEW c, NEW s, NEW q, StackInv(c, s, q), NEW subs, NEW r
  PROVE  Updated(c, s, q, q, subs, r)
  BY DEF Updated

\* What a reference leaves of the two stacks it may change is what the policy asks for.
Policed(c, mr, mine, full) ==
  LET s == SetOf(c, mr.addr)
      f == FullStack(c)
      b == Block(c, mr.addr)
      allocate == mr.type # "WRITE" \/ WriteAllocate(c, FirstPart(c, mr))
  IN /\ PolicyStep(c, stack[c][s], mine, b, allocate)
     /\ P(c).ccc => PolicyStep(c, stack[c][f], full, b, allocate)

\* The fully associative stack after a reference.
LEMMA FullFacts ==
  ASSUME conf \in Configs, NEW c \in Caches, NEW m \in OkRefs, m.type \in Accesses, OneBlock(c, m),
         StackInv(c, FullStack(c), stack[c][FullStack(c)]),
         NEW allocate, NEW t \in FullyAssociative(c, m, allocate), NEW r
  PROVE  /\ Updated(c, FullStack(c), stack[c][FullStack(c)], t, SubBlocks(c, m), r)
         /\ PolicyStep(c, stack[c][FullStack(c)], t, Block(c, m.addr), allocate)
<1> DEFINE s == FullStack(c)
           q == stack[c][s]
           n == StackSize(c, s)
           b == Block(c, m.addr)
           k == Find(q, b)
           subs == SubBlocks(c, m)
           at == IF k = 0 \/ P(c).rep = "lru" THEN 1 ELSE k
           Next1 == IF k # 0 \/ allocate THEN Replacement(c, q, b, k) ELSE {q}
           Out(next) == IF k # 0 THEN [next EXCEPT ![at].valid = @ \cup subs]
                        ELSE IF allocate THEN [next EXCEPT ![1].valid = subs, ![Len(q)].valid = {}]
                        ELSE next
<1>1. PICK next \in Next1 : t = Out(next)
  BY Zenon DEF FullyAssociative
<1>2. StackInv(c, s, q)
  OBVIOUS
<1>3. n \in Nat \ {0, 1} /\ n \in Nat \ {0} /\ Shape(q, n) /\ q \in [1 .. n -> NodeRec] /\ Len(q) = n
  <2>1. n \in Nat \ {0, 1} /\ Shape(q, n)
    BY SizeFacts, <1>2 DEF StackInv
  <2> HIDE DEF n, q
  <2>2. q \in [1 .. n -> NodeRec]
    BY <2>1 DEF Shape
  <2> QED
    BY <2>1, <2>2, LenFacts
<1>4. b \in Nat
  BY RefFacts, AddressFacts
<1>5. /\ k \in 0 .. n - 1 /\ (k # 0 => q[k].valid # {} /\ q[k].block = b)
  BY <1>3, FindFacts
<1>6. CASE k = 0 /\ ~allocate
  <2>1. t = q
    BY <1>1, <1>6
  <2>2. Updated(c, s, q, t, subs, r)
    BY <2>1, <1>2, NotUpdated
  <2>3. PolicyStep(c, q, q, b, allocate)
    BY <1>3, <1>6, PolicyAlone
  <2> QED
    BY <2>1, <2>2, <2>3
<1>7. CASE k # 0 \/ allocate
  <2>1. next \in Replacement(c, q, b, k) /\ at = IF k = 0 \/ P(c).rep = "lru" THEN 1 ELSE k
    BY <1>1, <1>7
  <2>2. /\ next \in [1 .. n -> NodeRec] /\ at \in 1 .. n
        /\ k # 0 => next[at] = q[k] /\ next[at].valid # {} /\ next[at].block = b /\ Fits(c, s, next[at])
        /\ k = 0 => /\ at = 1 /\ next[1].block = b /\ next[1].dirty = q[n].dirty
                    /\ next[1].referenced = q[n].referenced
    BY <2>1, <1>2, <1>4, NextFacts
  <2>3. \A j \in 1 .. n : Fits(c, s, q[j])
    BY <1>2 DEF StackInv
  <2>4. n \in 1 .. n /\ q[n].dirty = {} /\ q[n].referenced = {} /\ q[n] \in NodeRec
    BY <2>3, <1>3 DEF Fits
  <2>5. /\ next[at] \in NodeRec /\ next[at].block = b
        /\ next[at].dirty = {} /\ next[at].referenced = {}
    BY <2>2, <2>4 DEF Fits
  <2> DEFINE valid == IF k # 0 THEN next[at].valid \cup subs ELSE subs
             node == [next[at] EXCEPT !.valid = valid]
  <2>6. /\ valid = subs \/ (valid = next[at].valid \cup subs /\ Fits(c, s, next[at]))
        /\ node = [next[at] EXCEPT !.valid = valid]
    BY <2>2
  <2>7. valid \subseteq next[at].valid \cup subs /\ (k = 0 => valid = subs)
    OBVIOUS
  <2>8. t = IF k # 0 THEN [next EXCEPT ![at] = node]
            ELSE [next EXCEPT ![at] = node, ![n].valid = {}]
    <3>1. CASE k # 0
      BY <3>1, <1>1, <2>2
    <3>2. CASE k = 0
      BY <3>2, <1>1, <1>3, <1>7, <2>2
    <3> QED
      BY <3>1, <3>2
  <2> HIDE DEF valid, node
  <2>9. Fits(c, s, node) /\ node.block = b /\ node.valid # {} /\ node.valid = valid
    <3> DEFINE old == next[at]
    <3>1. /\ old \in NodeRec /\ old.block = b /\ old.dirty = {} /\ old.referenced = {}
          /\ valid = subs \/ (valid = old.valid \cup subs /\ Fits(c, s, old))
          /\ node = [old EXCEPT !.valid = valid]
      BY <2>5, <2>6
    <3> HIDE DEF old, k
    <3> QED
      BY <3>1, FullNodeFacts
  <2>10. /\ t \in [1 .. n -> NodeRec] /\ t[at] = node
         /\ \A j \in 1 .. n : j # at /\ ~(k = 0 /\ j = n) => t[j] = next[j]
         /\ k = 0 => /\ t[n].valid = {} /\ t[n].block = next[n].block
                     /\ t[n].referenced = next[n].referenced /\ t[n].dirty = next[n].dirty
    <3>1. node \in NodeRec /\ next[n] \in NodeRec
      BY <2>2, <2>4, <2>9 DEF Fits
    <3>2. CASE k # 0
      BY <3>1, <3>2, <2>2, <2>8
    <3>3. CASE k = 0
      <4> DEFINE last == [next[n] EXCEPT !.valid = {}]
      <4>1. /\ last \in NodeRec /\ last.valid = {} /\ last.block = next[n].block
            /\ last.dirty = next[n].dirty /\ last.referenced = next[n].referenced
        BY <3>1 DEF NodeRec
      <4>2. n # at
        BY <3>3, <2>2, <1>3
      <4>3. t = [next EXCEPT ![at] = node, ![n] = last]
        BY <4>2, <3>3, <2>2, <2>4, <2>8
      <4> HIDE DEF last
      <4> QED
        BY <4>1, <4>2, <4>3, <3>1, <3>3, <2>2, <2>4
    <3> QED
      BY <3>2, <3>3
  <2>11. k # 0 => Part(q[k]) \subseteq Part(node)
    <3>1. k # 0 => Part(q[k]) = {}
      BY <2>2, <2>5 DEF Part
    <3> QED
      BY <3>1
  <2>12. Replaced(c, s, q, n, b, next, at, node, t)
    BY <2>1, <2>9, <2>10, <2>11, <1>2, <1>4 DEF Replaced
  <2>13. /\ StackInv(c, s, t)
         /\ \A j \in 1 .. n : t[j] = node \/ \E i \in 1 .. n : t[j].valid \subseteq q[i].valid
    BY <2>12, ReplacedFacts
  <2>14. ASSUME NEW j \in 1 .. n, NEW a \in t[j].valid
         PROVE  a \in subs \/ \E i \in 1 .. n : a \in q[i].valid
    <3>1. CASE t[j] = node
      <4>1. a \in subs \/ (k # 0 /\ a \in next[at].valid)
        BY <3>1, <2>7, <2>9, <2>14
      <4>2. k # 0 => k \in 1 .. n /\ next[at].valid = q[k].valid
        <5>1. k # 0 => k \in 1 .. n
          BY <1>3, <1>5
        <5>2. k # 0 => next[at] = q[k]
          BY <2>2
        <5> QED
          BY <5>1, <5>2
      <4> QED
        BY <4>1, <4>2
    <3>2. CASE \E i \in 1 .. n : t[j].valid \subseteq q[i].valid
      BY <3>2, <2>14
    <3> QED
      BY <3>1, <3>2, <2>13
  <2>15. \A i \in 1 .. n : Part(q[i]) = {}
    BY <2>3 DEF Fits, Part
  <2>16. PolicyStep(c, q, t, b, allocate)
    <3>1. Find(q, b) = 0 => allocate
      BY <1>7
    <3> HIDE DEF q, b, n, s, k, at
    <3> QED
      BY <2>12, <3>1, PolicyReplaced
  <2>17. Updated(c, s, q, t, subs, r)
    BY <2>13, <2>14, <2>15 DEF Updated
  <2> QED
    BY <2>16, <2>17
<1> QED
  BY <1>6, <1>7

\* What d4ref does for a read, a write or an instruction fetch, in the terms the
\* invariants need: m is the part of the reference done at once.
AccessEffect(c, m, pend, from, mine, full, requests, new) ==
  LET s == SetOf(c, m.addr)
      f == FullStack(c)
      subs == SubBlocks(c, m)
  IN
  /\ stack' = [stack EXCEPT ![c] = [t \in Stacks(c) |->
                 IF t = s THEN mine ELSE IF t = f THEN full ELSE @[t]]]
  /\ pending' = [pend EXCEPT ![c] = requests \o @]
  /\ seen' = [seen EXCEPT ![c] = new]
  /\ Moves(c, m, from) /\ conf' = conf
  /\ Asked(c, requests)
  /\ Updated(c, s, stack[c][s], mine, subs, requests)
  /\ P(c).ccc => Updated(c, f, stack[c][f], full, subs, requests)
  /\ new = seen[c] \/ (new = seen[c] \cup subs /\ P(c).ccc)
  /\ P(c).ccc => \/ subs \subseteq new
                 \/ \E t \in Stacks(c) : \E i \in 1 .. StackSize(c, t) : subs \subseteq stack[c][t][i].valid
  /\ m.type = "WRITE" => \A a \in Bytes(m) :
       \/ Written(requests, a)
       \/ \E j \in 1 .. StackSize(c, s) : SubBlock(c, a) \in Part(mine[j])

\* The references a cache asks for, in five parts: only two of them write.
LEMMA FiveTogether ==
  ASSUME NEW f \in Seq(OkRefs), NEW t \in Seq(OkRefs), NEW b \in Seq(OkRefs), NEW p \in Seq(OkRefs),
         NEW o \in Seq(OkRefs), NoneForSelf(f), NoneStored(f), NoneForSelf(t), NoneForSelf(b),
         NoneStored(p), NoneStored(o)
  PROVE  LET r == f \o t \o b \o p \o o IN
         /\ Ordered(r)
         /\ \A a : Written(r, a) <=> Written(t, a) \/ Written(b, a)
         /\ Once(t) /\ Once(b) /\ (\A a : ~(Written(t, a) /\ Written(b, a))) => Once(r)
<1> DEFINE r1 == f \o t
           r2 == r1 \o b
           r3 == r2 \o p
           r4 == r3 \o o
<1>0. /\ Once(f) /\ Once(p) /\ Once(o)
      /\ \A a : ~Written(f, a) /\ ~Written(p, a) /\ ~Written(o, a)
  BY NoneFacts
<1>1. /\ r1 \in Seq(OkRefs) /\ NoneForSelf(r1) /\ \A a : Written(r1, a) <=> Written(t, a)
      /\ Once(t) => Once(r1)
  <2>1. r1 \in Seq(OkRefs) /\ NoneForSelf(r1)
    BY Joined, OrderedTogether
  <2>2. /\ \A a : Written(r1, a) <=> Written(f, a) \/ Written(t, a)
        /\ Once(f) /\ Once(t) /\ (\A a : ~(Written(f, a) /\ Written(t, a))) => Once(r1)
    BY OnceTogether
  <2> QED
    BY <2>1, <2>2, <1>0
<1> HIDE DEF r1
<1>2. /\ r2 \in Seq(OkRefs) /\ Ordered(r2) /\ \A a : Written(r2, a) <=> Written(t, a) \/ Written(b, a)
      /\ Once(t) /\ Once(b) /\ (\A a : ~(Written(t, a) /\ Written(b, a))) => Once(r2)
  <2>1. r2 \in Seq(OkRefs) /\ NoneForSelf(r2)
    BY <1>1, Joined, OrderedTogether
  <2>2. /\ \A a : Written(r2, a) <=> Written(r1, a) \/ Written(b, a)
        /\ Once(r1) /\ Once(b) /\ (\A a : ~(Written(r1, a) /\ Written(b, a))) => Once(r2)
    BY <1>1, OnceTogether
  <2> HIDE DEF r2
  <2>3. Ordered(r2)
    BY <2>1, OrderedTogether
  <2> QED
    BY <2>1, <2>2, <2>3, <1>1
<1> HIDE DEF r2
<1>3. /\ r3 \in Seq(OkRefs) /\ Ordered(r3) /\ \A a : Written(r3, a) <=> Written(r2, a)
      /\ Once(r2) => Once(r3)
  <2>1. r3 \in Seq(OkRefs) /\ Ordered(r3)
    BY <1>2, Joined, OrderedTogether
  <2>2. /\ \A a : Written(r3, a) <=> Written(r2, a) \/ Written(p, a)
        /\ Once(r2) /\ Once(p) /\ (\A a : ~(Written(r2, a) /\ Written(p, a))) => Once(r3)
    BY <1>2, OnceTogether
  <2> QED
    BY <2>1, <2>2, <1>0
<1> HIDE DEF r3
<1>4. /\ Ordered(r4) /\ \A a : Written(r4, a) <=> Written(r3, a)
      /\ Once(r3) => Once(r4)
  <2>1. Ordered(r4)
    BY <1>3, Joined, OrderedTogether
  <2>2. /\ \A a : Written(r4, a) <=> Written(r3, a) \/ Written(o, a)
        /\ Once(r3) /\ Once(o) /\ (\A a : ~(Written(r3, a) /\ Written(o, a))) => Once(r4)
    BY <1>3, OnceTogether
  <2> QED
    BY <2>1, <2>2, <1>0
<1>5. r4 = f \o t \o b \o p \o o
  BY DEF r1, r2, r3
<1> HIDE DEF r4
<1> QED
  BY <1>2, <1>3, <1>4, <1>5

\* The dirty sub-blocks of a stack, and a policy that keeps none: writes go through.
InPart(q, n, a) == \E j \in 1 .. n : a \in Part(q[j])
WritesThrough(c) == P(c).wback \notin {"always", "nofetch"}

\* What a reference to a cache with sub-blocks of one byte leaves dirty and asks to
\* be written: each byte once, and only what was dirty or is written.
Traced(c, m, q, t, n, r) ==
  P(c).sub = 1 /\ (WritesThrough(c) => \A a : ~InPart(q, n, a)) =>
    /\ Once(r)
    /\ \A a : ~(Written(r, a) /\ InPart(t, n, a))
    /\ \A a : Written(r, a) \/ InPart(t, n, a) => InPart(q, n, a) \/ (m.type = "WRITE" /\ a \in Bytes(m))
    /\ WritesThrough(c) => \A a : ~InPart(t, n, a)

\* The dirty part of the node that a reference uses.
LEMMA UsedPart ==
  ASSUME NEW old, old.dirty \subseteq old.valid, NEW subs, NEW m, NEW wback \in BOOLEAN,
         old = [block |-> old.block, valid |-> old.valid, referenced |-> old.referenced, dirty |-> old.dirty],
         NEW node, Used(node, old, subs, m, wback)
  PROVE  \A a \in Part(node) : a \in Part(old) \/ (wback /\ a \in subs)
<1>1. node.valid = old.valid \cup subs
  BY DEF Used
<1>2. node.dirty = IF wback THEN old.dirty \cup subs ELSE old.dirty
  BY DEF Used
<1> QED
  BY <1>1, <1>2 DEF Part

\* The same, where t goes through to the cache downstream and b is written back:
\* a byte that goes through is not dirty, and one that is written back no longer.
Tracing(c, m, q, u, n, update, wback, t, b) ==
  /\ \A a : Written(t, a) => m.type = "WRITE" /\ ~wback /\ a \in Bytes(m)
  /\ \A a : Written(b, a) => update /\ InPart(q, n, a) /\ ~InPart(u, n, a)
  /\ WritesThrough(c) => ~wback
  /\ ~WritesThrough(c) /\ m.type = "WRITE" /\ ~wback =>
       ~update /\ \A a \in Bytes(m) : ~InPart(q, n, a)
  /\ ~update => u = q
  /\ \A a : InPart(u, n, a) =>
       InPart(q, n, a) \/ (wback /\ m.type = "WRITE" /\ a \in Bytes(m))
  /\ Once(t) /\ Once(b)

LEMMA TracingFacts ==
  ASSUME NEW c, NEW m, NEW q, NEW u, NEW n, NEW update, NEW wback, NEW t, NEW b, NEW r,
         P(c).sub = 1 => Tracing(c, m, q, u, n, update, wback, t, b),
         \A a : Written(r, a) <=> Written(t, a) \/ Written(b, a),
         Once(t) /\ Once(b) /\ (\A a : ~(Written(t, a) /\ Written(b, a))) => Once(r)
  PROVE  Traced(c, m, q, u, n, r)
<1> SUFFICES ASSUME P(c).sub = 1, WritesThrough(c) => \A a : ~InPart(q, n, a)
             PROVE  /\ Once(r)
                    /\ \A a : ~(Written(r, a) /\ InPart(u, n, a))
                    /\ \A a : Written(r, a) \/ InPart(u, n, a) =>
                         InPart(q, n, a) \/ (m.type = "WRITE" /\ a \in Bytes(m))
                    /\ WritesThrough(c) => \A a : ~InPart(u, n, a)
  BY Zenon DEF Traced
<1>1. Tracing(c, m, q, u, n, update, wback, t, b)
  OBVIOUS
<1>2. \A a : Written(t, a) => m.type = "WRITE" /\ ~wback /\ a \in Bytes(m) /\ ~InPart(u, n, a)
  BY <1>1, Zenon DEF Tracing
<1>3. \A a : Written(b, a) => update /\ InPart(q, n, a) /\ ~InPart(u, n, a)
  BY <1>1, Zenon DEF Tracing
<1>4. \A a : ~(Written(t, a) /\ Written(b, a))
  BY <1>1, Zenon DEF Tracing
<1> QED
  BY <1>1, <1>2, <1>3, <1>4, Zenon DEF Tracing

\* Every reference has such an effect.
LEMMA AccessFacts ==
  ASSUME conf \in Configs, NEW c \in Caches, NEW mr \in OkRefs, mr.type \in Accesses,
         mr.split = FALSE, NEW pend, NEW from, Access(c, mr, pend, from),
         \A t \in Stacks(c) : StackInv(c, t, stack[c][t])
  PROVE  \E mine, full, requests, new :
           /\ AccessEffect(c, FirstPart(c, mr), pend, from, mine, full, requests, new)
           /\ Lower(c, mr, requests) /\ Ordered(requests)
           /\ Policed(c, mr, mine, full)
           /\ LET s == SetOf(c, mr.addr)
              IN Traced(c, FirstPart(c, mr), stack[c][s], mine, StackSize(c, s), requests)
<1> DEFINE b == Block(c, mr.addr)
           m == FirstPart(c, mr)
           s == SetOf(c, m.addr)
           q == stack[c][s]
           n == Len(q)
           k == Find(q, b)
           subs == SubBlocks(c, m)
           blockmiss == k = 0
           miss == blockmiss \/ ~(subs \subseteq q[k].valid)
           write == m.type = "WRITE"
           walloc == write /\ WriteAllocate(c, m)
           update == ~write \/ ~blockmiss \/ walloc
           at == IF blockmiss \/ P(c).rep = "lru" THEN 1 ELSE k
           old == IF blockmiss THEN [Node EXCEPT !.block = b] ELSE q[k]
           wback == update /\ write /\ WriteBack(c, m, old.valid \cup subs)
           node == [old EXCEPT !.valid = @ \cup subs,
                               !.referenced = IF m.prefetch THEN @ ELSE @ \cup subs,
                               !.dirty = IF wback THEN @ \cup subs ELSE @]
           fetch == IF miss /\ (~write \/ (walloc /\ m.size # Covering(c, m)))
                      THEN <<Reference(IF write THEN "READ" ELSE m.type,
                                       SubBlock(c, m.addr), Covering(c, m))>>
                      ELSE <<>>
           through == IF write /\ ~wback THEN <<m>> ELSE <<>>
           Replaces(next) == update /\ blockmiss /\ next[n].valid # {}
           Mine(next) == IF ~update THEN q
                         ELSE IF Replaces(next)
                           THEN [next EXCEPT ![at] = node, ![n].valid = {}, ![n].dirty = {}]
                           ELSE [next EXCEPT ![at] = node]
           classes == {"capacity", "compulsory"}
           new == IF P(c).ccc /\ Class(c, m, miss) \in classes THEN seen[c] \cup subs ELSE seen[c]
<1>1. \E next \in IF update THEN Replacement(c, q, b, k) ELSE {q},
        prefetch \in Prefetch(c, m, miss, IF blockmiss THEN {} ELSE q[k].referenced),
        full \in IF P(c).ccc THEN FullyAssociative(c, m, ~write \/ walloc) ELSE {<<>>} :
       /\ stack' = [stack EXCEPT ![c] = [t \in Stacks(c) |->
                         IF t = s THEN Mine(next) ELSE IF t = FullStack(c) THEN full ELSE @[t]]]
       /\ \E back \in IF Replaces(next) THEN d4_wbblock(c, next[n]) ELSE {<<>>} :
               pending' = [pend EXCEPT ![c] =
                             fetch \o through \o back \o prefetch \o OtherPart(c, mr) \o @]
  BY Zenon DEF Access
<1>2. /\ seen' = [seen EXCEPT ![c] =
                IF P(c).ccc /\ Class(c, m, miss) \in classes THEN @ \cup subs ELSE @]
      /\ Moves(c, m, from)
      /\ UNCHANGED conf
  BY Zenon DEF Access
<1> HIDE DEF Mine, Replaces
<1>p. \E next, prefetch, full, back :
        /\ next \in IF update THEN Replacement(c, q, b, k) ELSE {q}
        /\ prefetch \in Prefetch(c, m, miss, IF blockmiss THEN {} ELSE q[k].referenced)
        /\ full \in IF P(c).ccc THEN FullyAssociative(c, m, ~write \/ walloc) ELSE {<<>>}
        /\ back \in IF Replaces(next) THEN d4_wbblock(c, next[n]) ELSE {<<>>}
        /\ stack' = [stack EXCEPT ![c] = [t \in Stacks(c) |->
                         IF t = s THEN Mine(next) ELSE IF t = FullStack(c) THEN full ELSE @[t]]]
        /\ pending' = [pend EXCEPT ![c] =
                             fetch \o through \o back \o prefetch \o OtherPart(c, mr) \o @]
  <2>1. PICK next \in IF update THEN Replacement(c, q, b, k) ELSE {q},
          prefetch \in Prefetch(c, m, miss, IF blockmiss THEN {} ELSE q[k].referenced),
          full \in IF P(c).ccc THEN FullyAssociative(c, m, ~write \/ walloc) ELSE {<<>>} :
         /\ stack' = [stack EXCEPT ![c] = [t \in Stacks(c) |->
                           IF t = s THEN Mine(next) ELSE IF t = FullStack(c) THEN full ELSE @[t]]]
         /\ \E back \in IF Replaces(next) THEN d4_wbblock(c, next[n]) ELSE {<<>>} :
                 pending' = [pend EXCEPT ![c] =
                               fetch \o through \o back \o prefetch \o OtherPart(c, mr) \o @]
    BY <1>1, Zenon
  <2>2. PICK back \in IF Replaces(next) THEN d4_wbblock(c, next[n]) ELSE {<<>>} :
          pending' = [pend EXCEPT ![c] =
                               fetch \o through \o back \o prefetch \o OtherPart(c, mr) \o @]
    BY <2>1, Zenon
  <2> HIDE DEF update, blockmiss, miss, write, walloc, fetch, through, q, s, n, k, m
  <2> QED
    BY <2>1, <2>2, ZenonT(40)
<1>3. PICK next, prefetch, full, back :
        /\ next \in IF update THEN Replacement(c, q, b, k) ELSE {q}
        /\ prefetch \in Prefetch(c, m, miss, IF blockmiss THEN {} ELSE q[k].referenced)
        /\ full \in IF P(c).ccc THEN FullyAssociative(c, m, ~write \/ walloc) ELSE {<<>>}
        /\ back \in IF Replaces(next) THEN d4_wbblock(c, next[n]) ELSE {<<>>}
        /\ stack' = [stack EXCEPT ![c] = [t \in Stacks(c) |->
                         IF t = s THEN Mine(next) ELSE IF t = FullStack(c) THEN full ELSE @[t]]]
        /\ pending' = [pend EXCEPT ![c] =
                             fetch \o through \o back \o prefetch \o OtherPart(c, mr) \o @]
  BY <1>p, Zenon
<1> USE DEF Mine, Replaces
<1> DEFINE mine == Mine(next)
           asked == fetch \o through \o back \o prefetch \o OtherPart(c, mr)
<1>4. /\ m \in OkRefs /\ m.type \in Accesses /\ m.type = mr.type /\ m.addr = mr.addr
      /\ m.size \in Nat \ {0} /\ m.split = FALSE /\ m.prefetch = mr.prefetch
      /\ OneBlock(c, m) /\ b = Block(c, m.addr) /\ m.addr \in Nat /\ b \in Nat
  <2>1. /\ m \in OkRefs /\ m.type = mr.type /\ m.addr = mr.addr /\ m.size \in Nat \ {0}
        /\ m.split = FALSE /\ m.prefetch = mr.prefetch
        /\ \A x \in Bytes(m) : Block(c, x) = Block(c, mr.addr)
    BY FirstFacts
  <2> HIDE DEF m
  <2>2. mr.addr \in Nat /\ Block(c, mr.addr) \in Nat
    BY RefFacts, AddressFacts
  <2> QED
    BY <2>1, <2>2 DEF OneBlock
<1> HIDE DEF m
<1>5. /\ s \in Stacks(c) /\ s # FullStack(c) /\ StackInv(c, s, q) /\ StackSize(c, s) \in Nat \ {0, 1}
      /\ n = StackSize(c, s)
  <2>1. s \in Stacks(c) /\ s # FullStack(c) /\ StackSize(c, s) \in Nat \ {0, 1}
    BY <1>4, SizeFacts
  <2>2. StackInv(c, s, q)
    BY <2>1
  <2> HIDE DEF q
  <2>3. Shape(q, StackSize(c, s))
    BY <2>2 DEF StackInv
  <2>4. q \in [1 .. StackSize(c, s) -> NodeRec]
    BY <2>3 DEF Shape
  <2>5. Len(q) = StackSize(c, s)
    <3> DEFINE z == StackSize(c, s)
    <3>1. z \in Nat /\ q \in [1 .. z -> NodeRec]
      BY <2>1, <2>4
    <3> HIDE DEF z
    <3> QED
      BY <3>1, LenFacts DEF z
  <2> QED
    BY <2>1, <2>2, <2>5
<1> HIDE DEF s, q, n
<1>6. /\ Shape(q, n) /\ n \in Nat \ {0, 1} /\ n \in Nat \ {0} /\ k \in 0 .. n - 1
      /\ k # 0 => q[k].valid # {} /\ q[k].block = b /\ k \in 1 .. n /\ Fits(c, s, q[k])
  <2>1. Shape(q, n) /\ n \in Nat \ {0, 1} /\ n \in Nat \ {0}
    BY <1>5 DEF StackInv
  <2>2. /\ k \in 0 .. n - 1
        /\ k # 0 => q[k].valid # {} /\ q[k].block = b
    BY <2>1, FindFacts
  <2>3. \A j \in 1 .. n : Fits(c, s, q[j])
    BY <1>5 DEF StackInv
  <2> HIDE DEF k
  <2> QED
    BY <2>1, <2>2, <2>3
<1>7. /\ subs # {} /\ subs \in SUBSET Nat /\ Covering(c, m) \in Nat \ {0}
      /\ SubBlock(c, m.addr) \in Nat
      /\ \A a \in Bytes(m) : SubBlock(c, a) \in subs /\ a \in Nat
  <2>1. subs # {} /\ subs \in SUBSET Nat /\ Covering(c, m) \in Nat \ {0}
    BY <1>4, SubFacts DEF OneBlock
  <2>2. SubBlock(c, m.addr) \in Nat
    BY <1>4, AddressFacts
  <2>3. \A a \in Bytes(m) : SubBlock(c, a) \in subs
    BY DEF SubBlocks
  <2> QED
    BY <1>4, <2>1, <2>2, <2>3, RefFacts
<1>a. k = Find(q, b) /\ s = SetOf(c, m.addr) /\ q = stack[c][s] /\ subs = SubBlocks(c, m)
  BY DEF s, q
<1> HIDE DEF k, subs
\* What is asked for.
<1>8. /\ Asked(c, fetch) /\ Lower(c, mr, fetch)
      /\ NoneForSelf(fetch) /\ NoneStored(fetch)
  <2> DEFINE t == IF write THEN "READ" ELSE m.type
             r == Reference(t, SubBlock(c, m.addr), Covering(c, m))
  <2>1. t \in Types /\ t # "WRITE" /\ t # "INVAL"
    BY <1>4 DEF Accesses, Types
  <2> HIDE DEF t
  <2>2. r \in OkRefs /\ r.type # "WRITE" /\ r.type # "INVAL" /\ ~r.prefetch /\ ~r.split
    <3> DEFINE a == SubBlock(c, m.addr)
               z == Covering(c, m)
    <3>1. a \in Nat /\ z \in Nat \ {0}
      BY <1>7
    <3> HIDE DEF a, z
    <3>2. Reference(t, a, z) \in OkRefs /\ Reference(t, a, z).type = t
      BY <3>1, <2>1, ReferencesAll, Zenon
    <3>3. ~Reference(t, a, z).prefetch /\ ~Reference(t, a, z).split
      BY DEF Reference
    <3> QED
      BY <3>2, <3>3, <2>1 DEF a, z
  <2>5. WholeOrPassed(c, r)
    <3> DEFINE a == SubBlock(c, m.addr)
               last == m.addr + m.size - 1
               z == Covering(c, m)
    <3>1. last \in Nat /\ P(c).sub \in Nat \ {0} /\ SubBlock(c, last) \in Nat
      <4>1. last \in Nat
        BY <1>4
      <4> HIDE DEF last
      <4> QED
        BY <4>1, CacheFacts, AddressFacts
    <3>2. z = SubBlock(c, last) - a + P(c).sub
      BY DEF Covering
    <3>3. SubBlock(c, a) = a /\ SubBlock(c, SubBlock(c, last) + P(c).sub) = SubBlock(c, last) + P(c).sub
      <4>1. SubBlock(c, SubBlock(c, m.addr)) = SubBlock(c, m.addr)
        BY <1>4, NextAddress
      <4> HIDE DEF last
      <4> QED
        BY <4>1, <3>1, NextAddress
    <3>4. r.addr = a /\ r.size = z /\ r.split = FALSE
      BY DEF Reference
    <3>5. a \in Nat
      BY <1>7
    <3> HIDE DEF a, z, last, r
    <3>6. a + z = SubBlock(c, last) + P(c).sub
      BY <3>1, <3>2, <3>5
    <3> QED
      BY <3>3, <3>4, <3>6 DEF WholeOrPassed, WholeSubBlocks
  <2>3. fetch = <<r>> \/ fetch = <<>>
    BY DEF t
  <2> HIDE DEF r, fetch
  <2>4. NoneForSelf(fetch) /\ NoneStored(fetch)
    BY <2>2, <2>3 DEF NoneForSelf, NoneStored, Storing
  <2> QED
    BY <2>2, <2>3, <2>4, <2>5, AskedOne, LowerOne
<1>9. /\ Asked(c, through) /\ Lower(c, mr, through) /\ NoneForSelf(through) /\ Once(through)
      /\ \A a : Written(through, a) => write /\ ~wback /\ a \in Bytes(m)
      /\ write /\ ~wback => \A a \in Bytes(m) : Written(through, a)
  <2>1. through = <<m>> \/ through = <<>>
    OBVIOUS
  <2>2. write /\ ~wback => through = <<m>>
    OBVIOUS
  <2>3. (through = <<m>> /\ ~m.prefetch /\ ~m.split) \/ through = <<>>
    <3>1. write => ~m.prefetch /\ ~m.split
      BY <1>4 DEF OkRefs
    <3> QED
      BY <3>1
  <2>5. through = <<m>> => write /\ ~wback
    OBVIOUS
  <2>8. write /\ ~wback => WholeOrPassed(c, m)
    <3>1. P(c).walloc = "always" => WriteAllocate(c, m)
      BY DEF WriteAllocate
    <3>2. \A valid : P(c).wback = "always" => WriteBack(c, m, valid)
      BY DEF WriteBack
    <3>3. write /\ ~wback => P(c).walloc # "always" \/ P(c).wback # "always"
      BY <3>1, <3>2
    <3> QED
      BY <3>3, <1>4 DEF WholeOrPassed, AsItCame
  <2> HIDE DEF through, wback
  <2>6. \A a : Written(through, a) => write /\ ~wback /\ a \in Bytes(m)
    BY <2>1, <2>5 DEF Written
  <2>7. NoneForSelf(through) /\ Once(through)
    BY <2>3 DEF NoneForSelf, Once
  <2>4. Lower(c, mr, through)
    <3>1. Lower(c, mr, <<>>)
      <4> DEFINE z == << >>
      <4>1. Len(z) = 0
        OBVIOUS
      <4> HIDE DEF z
      <4>2. Lower(c, mr, z)
        BY <4>1, LowerAway
      <4> QED
        BY <4>2 DEF z
    <3>2. ~m.prefetch /\ ~m.split => Lower(c, mr, <<m>>)
      <4>1. m.type # "INVAL"
        BY <1>4 DEF Accesses
      <4> QED
        BY <4>1, <1>4, LowerOne
    <3> QED
      BY <2>3, <3>1, <3>2
  <2>9. Asked(c, through) /\ (through = <<m>> => \A a \in Bytes(m) : Written(through, a))
    <3>1. CASE through = <<m>>
      <4>1. m.type = "WRITE" /\ ~m.split /\ WholeOrPassed(c, m)
        BY <3>1, <2>5, <2>8, <1>4
      <4>2. Asked(c, <<m>>) /\ \A a \in Bytes(m) : Written(<<m>>, a)
        BY <4>1, <1>4, AskedOne
      <4> QED
        BY <3>1, <4>2
    <3>2. CASE through = <<>>
      <4>1. Asked(c, <<>>)
        BY DEF Asked
      <4>2. through # <<m>>
        BY <3>2
      <4> QED
        BY <3>2, <4>1, <4>2
    <3> QED
      BY <2>1, <3>1, <3>2
  <2> QED
    BY <2>2, <2>4, <2>6, <2>7, <2>9
<1>10. Asked(c, prefetch) /\ Lower(c, mr, prefetch) /\ NoneStored(prefetch)
  <2>1. /\ prefetch \in Seq(OkRefs) /\ \A j \in 1 .. Len(prefetch) : prefetch[j].type # "WRITE"
        /\ \A j \in 1 .. Len(prefetch) :
              /\ Calm(c, prefetch[j]) /\ prefetch[j].prefetch = TRUE /\ m.prefetch = FALSE
              /\ WholeOrPassed(c, prefetch[j])
    <3> DEFINE marks == IF blockmiss THEN {} ELSE q[k].referenced
    <3>1. prefetch \in Prefetch(c, m, miss, marks)
      BY <1>3
    <3> HIDE DEF marks, miss
    <3>2. m \in OkRefs
      BY <1>4
    <3>3. prefetch \in Seq(OkRefs)
      BY <3>1, <3>2, PrefetchFacts, Zenon
    <3>4. \A j \in 1 .. Len(prefetch) :
              /\ Calm(c, prefetch[j]) /\ prefetch[j].prefetch = TRUE /\ m.prefetch = FALSE
              /\ WholeOrPassed(c, prefetch[j])
      BY <3>1, <3>2, PrefetchFacts, Zenon
    <3>5. \A j \in 1 .. Len(prefetch) : prefetch[j].type # "WRITE"
      <4>1. \A j \in 1 .. Len(prefetch) : prefetch[j] \in OkRefs
        BY <3>3
      <4> QED
        BY <3>4, <4>1 DEF OkRefs
    <3> QED
      BY <3>3, <3>4, <3>5
  <2>2. mr.prefetch = m.prefetch /\ mr.size \in Nat \ {0}
    BY <1>4, RefFacts
  <2>3. \A j \in 1 .. Len(prefetch) : Rank(prefetch[j]) < Rank(mr)
    BY <2>1, <2>2 DEF Rank
  <2>4. \A j \in 1 .. Len(prefetch) : Kind(c, mr, prefetch[j])
    BY <2>1 DEF Kind, Calm
  <2> QED
    BY <2>1, <2>3, <2>4 DEF Asked, Lower, NoneStored, Storing
<1>11. /\ Asked(c, OtherPart(c, mr)) /\ Lower(c, mr, OtherPart(c, mr))
       /\ NoneStored(OtherPart(c, mr))
  BY OtherFacts DEF Asked, NoneStored, Storing
\* The node that is used, and the stack it is put in.
<1>12. ASSUME update
       PROVE  /\ Fits(c, s, node) /\ node.block = b /\ node.valid # {}
              /\ k # 0 => Part(q[k]) \subseteq Part(node)
              /\ wback => subs \subseteq Part(node)
              /\ \A a \in node.valid : a \in subs \/ (k # 0 /\ a \in q[k].valid)
  <2>1. \/ Fits(c, s, old) /\ old.block = b /\ old.valid # {}
        \/ Fresh(old, b)
    BY <1>6 DEF Fresh
  <2>2. k = 0 => old.valid = {}
    BY DEF Node
  <2>3. k # 0 => old = q[k]
    OBVIOUS
  <2> HIDE DEF old
  <2>4. Used(node, old, SubBlocks(c, m), m, wback) /\ wback \in BOOLEAN
    BY DEF subs, Used
  <2>5. /\ m \in OkRefs /\ m.type \in Accesses /\ OneBlock(c, m)
        /\ b = Block(c, m.addr) /\ s = SetOf(c, m.addr)
    BY <1>4, <1>a
  <2> HIDE DEF node, wback, b
  <2>6. /\ Fits(c, s, node) /\ node.block = b /\ node.valid # {}
        /\ node.valid = old.valid \cup SubBlocks(c, m)
        /\ Part(old) \subseteq Part(node)
        /\ wback => SubBlocks(c, m) \subseteq Part(node)
    BY <2>1, <2>4, <2>5, NodeFacts
  <2>7. subs = SubBlocks(c, m)
    BY <1>a
  <2> QED
    BY <2>2, <2>3, <2>6, <2>7
<1>13. ASSUME update
       PROVE  /\ next \in Replacement(c, q, b, k)
              /\ next \in [1 .. n -> NodeRec] /\ at \in 1 .. n /\ (k = 0 => at = 1)
  <2>1. next \in Replacement(c, q, b, k)
    BY <1>3, <1>13
  <2>2. at = IF k = 0 \/ P(c).rep = "lru" THEN 1 ELSE k
    OBVIOUS
  <2> HIDE DEF at, update
  <2>3. next \in [1 .. n -> NodeRec] /\ at \in 1 .. n /\ (k = 0 => at = 1)
    BY <1>4, <1>5, <1>6, <1>a, <2>1, <2>2, NextFacts
  <2> QED
    BY <2>1, <2>3
<1>14. ASSUME update
       PROVE  /\ Replaced(c, s, q, n, b, next, at, node, mine) /\ mine[at] = node
  <2> DEFINE full1 == Replaces(next)
  <2>1. Filled(mine, next, n, at, node, full1)
    BY <1>14 DEF Filled
  <2>2. full1 => k = 0 /\ at # n
    BY <1>6, <1>13, <1>14
  <2>3. k = 0 /\ ~full1 => next[n].valid = {}
    BY <1>14
  <2>4. at = IF k = 0 \/ P(c).rep = "lru" THEN 1 ELSE k
    OBVIOUS
  <2>5. node \in NodeRec /\ full1 \in BOOLEAN
    BY <1>12, <1>14 DEF Fits
  <2>0. /\ n \in Nat \ {0, 1} /\ next \in [1 .. n -> NodeRec] /\ at \in 1 .. n
        /\ full1 => at # n
    BY <1>6, <1>13, <1>14, <2>2
  <2> HIDE DEF full1, mine, node, at
  <2>6. /\ mine \in [1 .. n -> NodeRec] /\ mine[at] = node
        /\ \A j \in 1 .. n : j # at /\ ~(full1 /\ j = n) => mine[j] = next[j]
        /\ full1 => /\ mine[n].valid = {} /\ mine[n].dirty = {} /\ mine[n].block = next[n].block
                    /\ mine[n].referenced = next[n].referenced
    <3>1. Stacked(mine, next, n, at, node, full1)
      BY <2>0, <2>1, <2>5, MineFacts
    <3> QED
      BY <3>1, Zenon DEF Stacked
  <2>7. \A j \in 1 .. n : j # at /\ ~(k = 0 /\ j = n) => mine[j] = next[j]
    BY <2>2, <2>6
  <2>8. k = 0 => /\ mine[n].valid = {} /\ mine[n].block = next[n].block
                 /\ mine[n].referenced = next[n].referenced
                 /\ mine[n].dirty \subseteq next[n].dirty
    <3>1. k = 0 => n # at /\ n \in 1 .. n
      BY <1>6, <1>13, <1>14
    <3> QED
      BY <3>1, <2>3, <2>6
  <2>9. /\ Fits(c, s, node) /\ node.block = b /\ node.valid # {}
        /\ k # 0 => Part(q[k]) \subseteq Part(node)
    BY <1>12, <1>14
  <2>10. next \in Replacement(c, q, b, k)
    BY <1>13, <1>14
  <2> HIDE DEF update
  <2> QED
    BY <1>4, <1>5, <1>a, <2>4, <2>6, <2>7, <2>8, <2>9, <2>10 DEF Replaced
<1>15. /\ Asked(c, back) /\ Lower(c, mr, back) /\ NoneForSelf(back)
       /\ P(c).sub = 1 => Once(back)
       /\ \A a : P(c).sub = 1 /\ Written(back, a) =>
            update /\ k = 0 /\ next[n].valid # {} /\ a \in Nat /\ SubBlock(c, a) \in Part(next[n])
       /\ update => \A a \in Nat : k = 0 /\ SubBlock(c, a) \in Part(next[n]) => Written(back, a)
  <2>1. CASE Replaces(next)
    <3>1. Fits(c, s, next[n])
      <4>1. Replaced(c, s, q, n, b, next, at, node, mine)
        BY <1>14, <2>1
      <4> HIDE DEF mine, node, at
      <4> QED
        BY <4>1, ReplacedFacts
    <3>2. back \in d4_wbblock(c, next[n])
      BY <1>3, <2>1
    <3> HIDE DEF Replaces, update, blockmiss
    <3>3. /\ Asked(c, back) /\ Lower(c, mr, back)
          /\ \A a \in Nat : SubBlock(c, a) \in Part(next[n]) => Written(back, a)
          /\ \A j \in 1 .. Len(back) : ~back[j].prefetch /\ ~back[j].split
      BY <3>1, <3>2, WritebackFacts
    <3>4. P(c).sub = 1 =>
            Once(back) /\ \A a : Written(back, a) => a \in Nat /\ SubBlock(c, a) \in Part(next[n])
      BY <3>1, <3>2, WritebackOnce
    <3>5. update /\ k = 0 /\ next[n].valid # {}
      BY <2>1 DEF Replaces, blockmiss
    <3> QED
      BY <3>3, <3>4, <3>5 DEF NoneForSelf
  <2>2. CASE ~Replaces(next)
    <3>1. back = <<>>
      BY <1>3, <2>2
    <3>2. update /\ k = 0 => next[n].valid = {}
      BY <2>2
    <3> HIDE DEF Replaces, update, blockmiss
    <3>3. Asked(c, back) /\ Lower(c, mr, back)
      <4>1. Len(back) = 0
        BY <3>1
      <4> QED
        BY <3>1, <4>1, LowerAway DEF Asked
    <3>4. NoneForSelf(back) /\ Once(back) /\ \A a : ~Written(back, a)
      <4>1. Len(back) = 0
        BY <3>1
      <4> QED
        BY <4>1 DEF NoneForSelf, Once, Written
    <3> QED
      BY <3>2, <3>3, <3>4 DEF Part
  <2> QED
    BY <2>1, <2>2
\* Everything that is asked for, together.
<1>16. /\ Asked(c, asked) /\ Lower(c, mr, asked)
       /\ \A a : Written(through, a) \/ Written(back, a) => Written(asked, a)
  <2> DEFINE r1 == fetch \o through
             r2 == r1 \o back
             r3 == r2 \o prefetch
             r4 == r3 \o OtherPart(c, mr)
  <2>0. /\ Asked(c, fetch) /\ Asked(c, through) /\ Asked(c, back) /\ Asked(c, prefetch)
        /\ Asked(c, OtherPart(c, mr))
        /\ Lower(c, mr, fetch) /\ Lower(c, mr, through) /\ Lower(c, mr, back)
        /\ Lower(c, mr, prefetch) /\ Lower(c, mr, OtherPart(c, mr))
    BY <1>8, <1>9, <1>10, <1>11, <1>15
  <2>5. asked = r4
    OBVIOUS
  <2> HIDE DEF fetch, through, asked
  <2>1. /\ Asked(c, r1) /\ Lower(c, mr, r1) /\ \A a : Written(through, a) => Written(r1, a)
    BY <2>0, LowerAsked
  <2> HIDE DEF r1
  <2>2. /\ Asked(c, r2) /\ Lower(c, mr, r2)
        /\ \A a : Written(r1, a) \/ Written(back, a) => Written(r2, a)
    BY <2>0, <2>1, LowerAsked
  <2> HIDE DEF r2
  <2>3. Asked(c, r3) /\ Lower(c, mr, r3) /\ \A a : Written(r2, a) => Written(r3, a)
    BY <2>0, <2>2, LowerAsked
  <2> HIDE DEF r3
  <2>4. Asked(c, r4) /\ Lower(c, mr, r4) /\ \A a : Written(r3, a) => Written(r4, a)
    BY <2>0, <2>3, LowerAsked
  <2> HIDE DEF r4
  <2> QED
    BY <2>1, <2>2, <2>3, <2>4, <2>5
<1>17. Updated(c, s, q, mine, subs, asked)
  <2>1. CASE ~update
    <3>1. mine = q
      BY <2>1
    <3> HIDE DEF mine, asked
    <3> QED
      BY <3>1, <1>5, NotUpdated
  <2>2. CASE update
    <3>1. /\ Replaced(c, s, q, n, b, next, at, node, mine)
          /\ \A a \in node.valid : a \in subs \/ (k # 0 /\ a \in q[k].valid)
          /\ \A a \in Nat : k = 0 /\ SubBlock(c, a) \in Part(next[n]) => Written(back, a)
      BY <1>12, <1>14, <1>15, <2>2
    <3> HIDE DEF mine, node, at, asked, update, through
    <3>2. /\ StackInv(c, s, mine)
          /\ \A j \in 1 .. n : mine[j] = node \/ \E i \in 1 .. n : mine[j].valid \subseteq q[i].valid
          /\ \A i \in 1 .. n : \A a \in Part(q[i]) :
               \/ \E j \in 1 .. n : a \in Part(mine[j])
               \/ k = 0 /\ a \in Part(next[n])
      BY <3>1, <1>a, ReplacedFacts
    <3>3. \A j \in 1 .. n : \A a \in mine[j].valid : a \in subs \/ \E i \in 1 .. n : a \in q[i].valid
      BY <3>1, <3>2, <1>6
    <3>4. \A i \in 1 .. n : \A a \in Nat : SubBlock(c, a) \in Part(q[i]) =>
            (\E j \in 1 .. n : SubBlock(c, a) \in Part(mine[j])) \/ Written(asked, a)
      BY <3>1, <3>2, <1>16
    <3> QED
      BY <3>2, <3>3, <3>4, <1>5 DEF Updated
  <2> QED
    BY <2>1, <2>2
<1>18. P(c).ccc =>
         /\ Updated(c, FullStack(c), stack[c][FullStack(c)], full, subs, asked)
         /\ PolicyStep(c, stack[c][FullStack(c)], full, b, ~write \/ walloc)
  <2> SUFFICES ASSUME P(c).ccc
               PROVE  /\ Updated(c, FullStack(c), stack[c][FullStack(c)], full, subs, asked)
                      /\ PolicyStep(c, stack[c][FullStack(c)], full, b, ~write \/ walloc)
    OBVIOUS
  <2> DEFINE allocate == ~write \/ walloc
  <2>1. full \in FullyAssociative(c, m, allocate)
    BY <1>3
  <2>2. StackInv(c, FullStack(c), stack[c][FullStack(c)])
    BY SizeFacts
  <2> HIDE DEF allocate, asked, b
  <2>3. /\ Updated(c, FullStack(c), stack[c][FullStack(c)], full, SubBlocks(c, m), asked)
        /\ PolicyStep(c, stack[c][FullStack(c)], full, Block(c, m.addr), allocate)
    BY <2>1, <2>2, <1>4, FullFacts
  <2> QED
    BY <2>3, <1>4, <1>a DEF allocate
<1>19. P(c).ccc => \/ subs \subseteq new
                   \/ \E t \in Stacks(c) : \E i \in 1 .. StackSize(c, t) :
                         subs \subseteq stack[c][t][i].valid
  <2> SUFFICES ASSUME P(c).ccc
               PROVE  \/ subs \subseteq new
                      \/ \E t \in Stacks(c) : \E i \in 1 .. StackSize(c, t) :
                            subs \subseteq stack[c][t][i].valid
    OBVIOUS
  <2> DEFINE g == FullStack(c)
             y == stack[c][g]
             z == StackSize(c, g)
             f == Find(y, b)
  <2>1. g \in Stacks(c) /\ f \in 0 .. z - 1 /\ z \in Nat
    <3>1. StackInv(c, g, y) /\ z \in Nat \ {0} /\ g \in Stacks(c)
      BY SizeFacts
    <3>2. Shape(y, z)
      BY <3>1 DEF StackInv
    <3> HIDE DEF y, z, g
    <3> QED
      BY <3>1, <3>2, FindFacts
  <2>2. \/ ~miss \/ Class(c, m, miss) \in classes
        \/ f # 0 /\ subs \subseteq y[f].valid
    <3> HIDE DEF classes, miss, b
    <3>1. Class(c, m, miss) = IF ~miss THEN "hit"
            ELSE IF Find(y, Block(c, m.addr)) # 0 /\ SubBlocks(c, m) \subseteq y[Find(y, Block(c, m.addr))].valid
              THEN "conflict"
            ELSE IF SubBlocks(c, m) \subseteq seen[c] THEN "capacity" ELSE "compulsory"
      BY Zenon DEF Class
    <3>2. {"capacity", "compulsory"} = classes
      BY DEF classes
    <3> QED
      BY <3>1, <3>2, <1>4, <1>a
  <2>3. ~miss => k \in 1 .. n /\ subs \subseteq q[k].valid
    BY <1>6
  <2>4. Class(c, m, miss) \in classes => subs \subseteq new
    BY DEF new
  <2> HIDE DEF miss, classes, f, new
  <2>5. f # 0 => f \in 1 .. z
    BY <2>1
  <2> QED
    BY <2>1, <2>2, <2>3, <2>4, <2>5, <1>5, <1>a
<1>20. m.type = "WRITE" => \A a \in Bytes(m) :
         Written(asked, a) \/ \E j \in 1 .. n : SubBlock(c, a) \in Part(mine[j])
  <2>1. CASE wback
    <3>1. update /\ subs \subseteq Part(node) /\ mine[at] = node /\ at \in 1 .. n
      <4>1. update
        BY <2>1
      <4> QED
        BY <4>1, <2>1, <1>12, <1>13, <1>14
    <3> HIDE DEF mine, node, at, update, asked
    <3> QED
      BY <3>1, <1>7
  <2>2. CASE ~wback
    <3>1. m.type = "WRITE" => \A a \in Bytes(m) : Written(through, a)
      BY <2>2, <1>9
    <3> HIDE DEF through, asked, mine
    <3> QED
      BY <3>1, <1>16
  <2> QED
    BY <2>1, <2>2
<1>21. new = seen[c] \/ (new = seen[c] \cup subs /\ P(c).ccc)
  BY DEF new
<1>22. /\ stack' = [stack EXCEPT ![c] = [t \in Stacks(c) |->
                 IF t = s THEN mine ELSE IF t = FullStack(c) THEN full ELSE @[t]]]
       /\ pending' = [pend EXCEPT ![c] = asked \o @]
  BY <1>3, Zenon
<1>23. seen' = [seen EXCEPT ![c] = new] /\ Moves(c, m, from) /\ conf' = conf
  <2>1. seen' = [seen EXCEPT ![c] =
                IF P(c).ccc /\ Class(c, m, miss) \in classes THEN @ \cup subs ELSE @]
    BY <1>2 DEF subs
  <2> HIDE DEF classes, miss
  <2> QED
    BY <1>2, <2>1, Zenon DEF new
\* Where the dirty bytes of the set are.
<1>25. ASSUME P(c).sub = 1
       PROVE  Tracing(c, m, q, mine, n, update, wback, through, back)
  <2>1. /\ \A a : Written(through, a) => m.type = "WRITE" /\ ~wback /\ a \in Bytes(m)
        /\ Once(through) /\ Once(back)
    BY <1>9, <1>15, <1>25
  <2>2. WritesThrough(c) => ~wback
    BY DEF WritesThrough, WriteBack
  <2>3. ~WritesThrough(c) /\ m.type = "WRITE" /\ ~wback => ~update /\ k = 0
    <3>1. ~WritesThrough(c) => WriteBack(c, m, old.valid \cup subs)
      BY <1>a DEF WritesThrough, WriteBack
    <3> HIDE DEF old
    <3> QED
      BY <3>1
  <2>4. \A a \in Nat : SubBlock(c, a) = a
    BY <1>25 DEF SubBlock
  <2>5. subs = Bytes(m)
    BY <2>4, <1>7, <1>a DEF SubBlocks
  <2>6. k = 0 => \A a \in Bytes(m) : ~InPart(q, n, a)
    <3> SUFFICES ASSUME k = 0, NEW a \in Bytes(m), NEW j \in 1 .. n, a \in Part(q[j])
                 PROVE  FALSE
      BY DEF InPart
    <3>1. Fits(c, s, q[j])
      BY <1>5 DEF StackInv
    <3>2. q[j].valid # {} /\ Block(c, a) = q[j].block
      BY <3>1 DEF Fits, Part
    <3>3. Block(c, a) = b
      BY <1>4 DEF OneBlock
    <3>4. \A i \in 1 .. n : q[i].valid # {} => q[i].block # b
      <4>1. Find(q, b) = 0 /\ n \in Nat \ {0} /\ Shape(q, n)
        BY <1>6, <1>a
      <4> HIDE DEF b
      <4> QED
        BY <4>1, FindFacts
    <3> QED
      BY <3>2, <3>3, <3>4
  <2>7. ~update => mine = q
    OBVIOUS
  <2>8. ASSUME update, NEW a
        PROVE  /\ InPart(mine, n, a) => InPart(q, n, a) \/ (wback /\ m.type = "WRITE" /\ a \in Bytes(m))
               /\ Written(back, a) => InPart(q, n, a) /\ ~InPart(mine, n, a)
    <3>1. Replaced(c, s, q, n, b, next, at, node, mine)
      BY <1>14, <2>8
    <3>2. /\ k # 0 => old = q[k] /\ k \in 1 .. n /\ Fits(c, s, q[k]) /\ q[k].valid # {}
          /\ k = 0 => old = [Node EXCEPT !.block = b]
      BY <1>6
    <3>3. k = 0 => Part(old) = {} /\ old.dirty = {} /\ old.valid = {}
      BY <3>2 DEF Part, Node
    <3>4. old = [block |-> old.block, valid |-> old.valid, referenced |-> old.referenced, dirty |-> old.dirty]
      BY <3>2 DEF Fits, NodeRec, Node
    <3>5. old.dirty \subseteq old.valid
      BY <3>2, <3>3 DEF Fits
    <3>6. Used(node, old, subs, m, wback) /\ wback \in BOOLEAN
      BY DEF Used
    <3>7. wback => m.type = "WRITE"
      OBVIOUS
    <3>8. P(c).sub = 1 /\ Written(back, a) =>
            k = 0 /\ next[n].valid # {} /\ a \in Nat /\ SubBlock(c, a) \in Part(next[n])
      BY <1>15
    <3> HIDE DEF mine, node, at, old, wback, update, through
    <3>9. \A x \in Part(node) : x \in Part(old) \/ (wback /\ x \in subs)
      BY <3>4, <3>5, <3>6, UsedPart
    <3>10. /\ \A j \in 1 .. n : mine[j] = node \/ Part(mine[j]) = {} \/ \E i \in 1 .. n : mine[j] = q[i]
           /\ k = 0 =>
               /\ \E i \in 1 .. n : next[n] = q[i]
               /\ next[n].valid # {} => \A j \in 1 .. n : mine[j].valid # {} => mine[j].block # next[n].block
      BY <3>1, <1>a, ReplacedParts
    <3>11. StackInv(c, s, mine) /\ Fits(c, s, next[n])
      BY <3>1, ReplacedFacts
    <3>12. InPart(mine, n, a) => InPart(q, n, a) \/ (wback /\ m.type = "WRITE" /\ a \in Bytes(m))
      BY <2>5, <3>2, <3>3, <3>7, <3>9, <3>10 DEF InPart
    <3>13. ASSUME Written(back, a)
           PROVE  InPart(q, n, a) /\ ~InPart(mine, n, a)
      <4>1. k = 0 /\ next[n].valid # {} /\ a \in Part(next[n])
        BY <3>8, <3>13, <2>4, <1>25
      <4>2. InPart(q, n, a)
        BY <4>1, <3>10 DEF InPart
      <4>3. Block(c, a) = next[n].block
        BY <4>1, <3>11 DEF Fits, Part
      <4>4. ASSUME NEW j \in 1 .. n, a \in Part(mine[j])
            PROVE  FALSE
        <5>1. Fits(c, s, mine[j])
          BY <3>11, <1>5 DEF StackInv
        <5>2. mine[j].valid # {} /\ Block(c, a) = mine[j].block
          BY <4>4, <5>1 DEF Fits, Part
        <5> QED
          BY <5>2, <4>1, <4>3, <3>10
      <4> QED
        BY <4>2, <4>4 DEF InPart
    <3> QED
      BY <3>12, <3>13
  <2>9. \A a : Written(back, a) => update
    BY <1>15, <1>25
  <2> HIDE DEF mine, update, wback, through
  <2>10. \A a : /\ InPart(mine, n, a) => InPart(q, n, a) \/ (wback /\ m.type = "WRITE" /\ a \in Bytes(m))
                /\ Written(back, a) => update /\ InPart(q, n, a) /\ ~InPart(mine, n, a)
    BY <2>7, <2>8, <2>9
  <2> QED
    BY <2>1, <2>2, <2>3, <2>6, <2>7, <2>10, Zenon DEF Tracing
\* The policy is kept.
<1>30. PolicyStep(c, q, mine, b, ~write \/ walloc)
  <2>1. CASE ~update
    <3>1. mine = q /\ Find(q, b) = 0
      BY <2>1, <1>a
    <3>2. ~(~write \/ walloc)
      BY <2>1
    <3> DEFINE allocate == ~write \/ walloc
    <3> HIDE DEF allocate, mine, b
    <3>3. PolicyStep(c, q, q, b, allocate)
      BY <3>1, <3>2, <1>6, PolicyAlone DEF allocate
    <3> QED
      BY <3>1, <3>3 DEF allocate
  <2>2. CASE update
    <3>1. Replaced(c, s, q, n, b, next, at, node, mine)
      BY <1>14, <2>2
    <3>2. Find(q, b) = 0 => ~write \/ walloc
      BY <2>2, <1>a
    <3> DEFINE allocate == ~write \/ walloc
    <3> HIDE DEF allocate, mine, node, at, b, update
    <3>3. PolicyStep(c, q, mine, b, allocate)
      BY <3>1, <3>2, PolicyReplaced DEF allocate
    <3> QED
      BY <3>3 DEF allocate
  <2> QED
    BY <2>1, <2>2
<1>26. /\ Ordered(asked)
       /\ \A a : Written(asked, a) <=> Written(through, a) \/ Written(back, a)
       /\ Once(through) /\ Once(back) /\ (\A a : ~(Written(through, a) /\ Written(back, a))) => Once(asked)
  <2> DEFINE other == OtherPart(c, mr)
  <2>1. /\ fetch \in Seq(OkRefs) /\ through \in Seq(OkRefs) /\ back \in Seq(OkRefs)
        /\ prefetch \in Seq(OkRefs) /\ other \in Seq(OkRefs)
    <3> HIDE DEF fetch, through, other
    <3> QED
      BY <1>8, <1>9, <1>10, <1>11, <1>15 DEF Asked, other
  <2>2. /\ NoneForSelf(fetch) /\ NoneStored(fetch) /\ NoneForSelf(through) /\ NoneForSelf(back)
        /\ NoneStored(prefetch) /\ NoneStored(other)
    BY <1>8, <1>9, <1>10, <1>11, <1>15
  <2>3. asked = fetch \o through \o back \o prefetch \o other
    OBVIOUS
  <2> HIDE DEF fetch, through, other, asked
  <2> QED
    BY <2>1, <2>2, <2>3, FiveTogether
<1> HIDE DEF mine, asked, new
<1>27. Traced(c, m, q, mine, n, asked)
  <2> HIDE DEF update, wback, through
  <2> QED
    BY <1>25, <1>26, TracingFacts
<1>24. AccessEffect(c, m, pend, from, mine, full, asked, new)
  BY <1>5, <1>16, <1>17, <1>18, <1>19, <1>20, <1>21, <1>22, <1>23, <1>a, Zenon DEF AccessEffect
<1>28. s = SetOf(c, mr.addr) /\ n = StackSize(c, s)
  BY <1>4, <1>5, <1>a
<1>29. LET z == SetOf(c, mr.addr) IN Traced(c, m, stack[c][z], mine, StackSize(c, z), asked)
  BY <1>27, <1>28, <1>a, Zenon
<1>31. Policed(c, mr, mine, full)
  <2>1. ASSUME NEW x, NEW t, PolicyStep(c, x, t, b, ~write \/ walloc)
        PROVE  PolicyStep(c, x, t, b, mr.type # "WRITE" \/ WriteAllocate(c, m))
    <3>1. (~write \/ walloc) <=> (mr.type # "WRITE" \/ WriteAllocate(c, m))
      BY <1>4
    <3> HIDE DEF write, walloc, b
    <3> QED
      BY <2>1, <3>1, Zenon DEF PolicyStep
  <2>2. PolicyStep(c, stack[c][SetOf(c, mr.addr)], mine, b, mr.type # "WRITE" \/ WriteAllocate(c, m))
    BY <2>1, <1>28, <1>30, <1>a
  <2>3. P(c).ccc =>
          PolicyStep(c, stack[c][FullStack(c)], full, b, mr.type # "WRITE" \/ WriteAllocate(c, m))
    BY <2>1, <1>18
  <2> QED
    BY <2>2, <2>3, Zenon DEF Policed, m
<1> QED
  BY <1>16, <1>24, <1>26, <1>29, <1>31, Zenon DEF m

-----------------------------------------------------------------------------
(* The invariant.                                                            *)

\* A byte is in a dirty sub-block of the stacks of c.
DirtyIn(c, row, a) ==
  \E s \in Stacks(c) : \E k \in 1 .. StackSize(c, s) : SubBlock(c, a) \in Part(row[s][k])

\* A cache: its stacks, what it has still to ask for, and what the infinite cache
\* has seen.
Valids(c, row) == UNION {UNION {row[s][k].valid : k \in 1 .. StackSize(c, s)} : s \in Stacks(c)}
CacheInv(c) ==
  /\ \A s \in Stacks(c) : StackInv(c, s, stack[c][s])
  /\ DOMAIN stack[c] = Stacks(c)
  /\ Asked(c, pending[c])
  /\ \A a \in seen[c] : a \in Nat /\ P(c).ccc /\ SubBlock(c, a) = a
  /\ P(c).ccc => Valids(c, stack[c]) \subseteq seen[c]

\* Where the newest bytes of c are.
HeldInv(c) ==
  \A a \in Addresses : newest[a] = c => DirtyIn(c, stack[c], a) \/ Written(pending[c], a)

\* What a program asks for.
CallRecs == {r \in [cache : Caches, ref : OkRefs] : ~r.ref.split /\ ~r.ref.prefetch}

TreeInv ==
  /\ conf \in Configs
  /\ stack = [c \in Caches |-> stack[c]]
  /\ pending = [c \in Caches |-> pending[c]]
  /\ seen = [c \in Caches |-> seen[c]]
  /\ newest \in [Addresses -> Caches \cup {Mem, Nobody}]
  /\ \A c \in Caches : CacheInv(c)

CachesInv ==
  /\ TreeInv
  /\ calls \in Seq(CallRecs)
  /\ flcount \in 0 .. conf.flushcount /\ done \in BOOLEAN

\* Every byte held is in whole blocks of the caches downstream.
Nested ==
  \A f \in Configs : \A c \in DOMAIN f.cache :
    f.cache[c].down # Mem => f.cache[f.cache[c].down].block % f.cache[c].block = 0

\* What a step does to the cache c, in the terms of its invariant: row becomes
\* its stacks, requests is what it asks for, new what the infinite cache has seen.
Effect(c, m, pend, from, row, requests, new) ==
  /\ stack' = [stack EXCEPT ![c] = row]
  /\ pending' = [pend EXCEPT ![c] = requests \o @]
  /\ seen' = [seen EXCEPT ![c] = new]
  /\ conf' = conf
  /\ DOMAIN row = Stacks(c) /\ \A s \in Stacks(c) : StackInv(c, s, row[s])
  /\ Asked(c, requests)
  /\ \A a \in new : a \in Nat /\ P(c).ccc /\ SubBlock(c, a) = a
  /\ P(c).ccc => Valids(c, row) \subseteq new
  /\ newest' \in [Addresses -> Caches \cup {Mem, Nobody}]
  /\ \A a \in Addresses : newest'[a] = c =>
       \/ Written(requests, a) \/ DirtyIn(c, row, a)
       \/ newest[a] = c /\ ~DirtyIn(c, stack[c], a)
  /\ \A a \in Addresses : newest'[a] \in {newest[a], c, Nobody}
  /\ m.type = "WRITE" /\ OneBlock(c, m) =>
       \A a \in Addresses : a \in Bytes(m) /\ newest[a] = from => newest'[a] = c

\* Who has the newest bytes after a write.
LEMMA MovesFacts ==
  ASSUME NEW c, NEW m, NEW from, Moves(c, m, from),
         newest \in [Addresses -> Caches \cup {Mem, Nobody}], c \in Caches \cup {Mem}
  PROVE  /\ newest' \in [Addresses -> Caches \cup {Mem, Nobody}]
         /\ \A a \in Addresses : newest'[a] \in {newest[a], c}
         /\ \A a \in Addresses : newest'[a] # newest[a] =>
              m.type = "WRITE" /\ a \in Bytes(m) /\ newest'[a] = c
         /\ m.type = "WRITE" =>
              \A a \in Addresses : a \in Bytes(m) /\ newest[a] = from => newest'[a] = c
  BY DEF Moves

\* Stacks whose valid and dirty sub-blocks are known by their nodes.
LEMMA ValidsFacts ==
  ASSUME NEW c, NEW row, NEW T
  PROVE  Valids(c, row) \subseteq T <=>
           \A s \in Stacks(c) : \A k \in 1 .. StackSize(c, s) : row[s][k].valid \subseteq T
  BY DEF Valids

\* A reference to a cache: the stacks.
LEMMA AccessRow ==
  ASSUME conf \in Configs, NEW c \in Caches, NEW m \in OkRefs, m.type \in Accesses, OneBlock(c, m),
         CacheInv(c), newest \in [Addresses -> Caches \cup {Mem, Nobody}], Addresses \subseteq Nat,
         stack = [d \in Caches |-> stack[d]],
         NEW pend, NEW from, NEW mine, NEW full, NEW requests, NEW new,
         AccessEffect(c, m, pend, from, mine, full, requests, new)
  PROVE  \E row : Effect(c, m, pend, from, row, requests, new)
<1> DEFINE s == SetOf(c, m.addr)
           f == FullStack(c)
           subs == SubBlocks(c, m)
           row == [t \in Stacks(c) |-> IF t = s THEN mine ELSE IF t = f THEN full ELSE stack[c][t]]
<1>1. /\ stack' = [stack EXCEPT ![c] = [t \in Stacks(c) |->
                 IF t = s THEN mine ELSE IF t = f THEN full ELSE @[t]]]
      /\ pending' = [pend EXCEPT ![c] = requests \o @]
      /\ seen' = [seen EXCEPT ![c] = new]
      /\ Moves(c, m, from) /\ conf' = conf
      /\ Asked(c, requests)
  BY Zenon DEF AccessEffect
<1>2. /\ Updated(c, s, stack[c][s], mine, subs, requests)
      /\ P(c).ccc => Updated(c, f, stack[c][f], full, subs, requests)
      /\ new = seen[c] \/ (new = seen[c] \cup subs /\ P(c).ccc)
      /\ P(c).ccc => \/ subs \subseteq new
                     \/ \E t \in Stacks(c) : \E i \in 1 .. StackSize(c, t) :
                          subs \subseteq stack[c][t][i].valid
      /\ m.type = "WRITE" => \A a \in Bytes(m) :
           \/ Written(requests, a)
           \/ \E j \in 1 .. StackSize(c, s) : SubBlock(c, a) \in Part(mine[j])
  BY Zenon DEF AccessEffect
<1>3. /\ s \in Stacks(c) /\ s # f
      /\ \A t \in Stacks(c) : t = f => P(c).ccc
  BY RefFacts, SizeFacts
<1>4. \A t \in Stacks(c) : StackInv(c, t, stack[c][t])
  BY DEF CacheInv
<1>5. stack' = [stack EXCEPT ![c] = row]
  BY <1>1
<1>6. /\ DOMAIN row = Stacks(c) /\ row[s] = mine
      /\ P(c).ccc => f \in Stacks(c) /\ row[f] = full
      /\ \A t \in Stacks(c) : t # s /\ t # f => row[t] = stack[c][t]
  BY <1>3, SizeFacts
<1> HIDE DEF row, s, f
<1>7. \A t \in Stacks(c) : Updated(c, t, stack[c][t], row[t], subs, requests)
  <2> SUFFICES ASSUME NEW t \in Stacks(c)
               PROVE  Updated(c, t, stack[c][t], row[t], subs, requests)
    OBVIOUS
  <2>1. CASE t = s
    BY <2>1, <1>2, <1>6
  <2>2. CASE t # s /\ t = f
    BY <2>2, <1>2, <1>3, <1>6
  <2>3. CASE t # s /\ t # f
    <3>1. row[t] = stack[c][t] /\ StackInv(c, t, stack[c][t])
      BY <2>3, <1>4, <1>6
    <3> QED
      BY <3>1, NotUpdated
  <2> QED
    BY <2>1, <2>2, <2>3
<1>8. \A t \in Stacks(c) : StackInv(c, t, row[t])
  BY <1>7 DEF Updated
<1>9. \A a \in new : a \in Nat /\ P(c).ccc /\ SubBlock(c, a) = a
  <2>1. subs \in SUBSET Nat /\ \A x \in subs : SubBlock(c, x) = x
    BY SubFacts DEF OneBlock
  <2>2. \A a \in seen[c] : a \in Nat /\ P(c).ccc /\ SubBlock(c, a) = a
    BY DEF CacheInv
  <2> HIDE DEF subs
  <2> QED
    BY <2>1, <2>2, <1>2
<1>10. P(c).ccc => Valids(c, row) \subseteq new
  <2> SUFFICES ASSUME P(c).ccc
               PROVE  \A t \in Stacks(c) : \A k \in 1 .. StackSize(c, t) : row[t][k].valid \subseteq new
    BY ValidsFacts
  <2> SUFFICES ASSUME NEW t \in Stacks(c), NEW k \in 1 .. StackSize(c, t), NEW a \in row[t][k].valid
               PROVE  a \in new
    OBVIOUS
  <2>1. \A u \in Stacks(c) : \A j \in 1 .. StackSize(c, u) : stack[c][u][j].valid \subseteq seen[c]
    <3>1. Valids(c, stack[c]) \subseteq seen[c]
      BY DEF CacheInv
    <3> QED
      BY <3>1, ValidsFacts
  <2>2. seen[c] \subseteq new
    BY <1>2
  <2>3. subs \subseteq new
    BY <1>2, <2>1, <2>2
  <2>4. a \in subs \/ \E i \in 1 .. StackSize(c, t) : a \in stack[c][t][i].valid
    BY <1>7 DEF Updated
  <2> QED
    BY <2>1, <2>2, <2>3, <2>4
<1>11. /\ newest' \in [Addresses -> Caches \cup {Mem, Nobody}]
       /\ \A a \in Addresses : newest'[a] \in {newest[a], c}
       /\ \A a \in Addresses : newest'[a] # newest[a] =>
            m.type = "WRITE" /\ a \in Bytes(m) /\ newest'[a] = c
       /\ m.type = "WRITE" =>
            \A a \in Addresses : a \in Bytes(m) /\ newest[a] = from => newest'[a] = c
  BY <1>1, MovesFacts
<1>12. ASSUME NEW a \in Addresses, newest'[a] = c
       PROVE  \/ Written(requests, a) \/ DirtyIn(c, row, a)
              \/ newest[a] = c /\ ~DirtyIn(c, stack[c], a)
  <2>1. CASE newest[a] # c
    <3>1. m.type = "WRITE" /\ a \in Bytes(m)
      BY <2>1, <1>11, <1>12
    <3>2. \/ Written(requests, a)
          \/ \E j \in 1 .. StackSize(c, s) : SubBlock(c, a) \in Part(mine[j])
      BY <3>1, <1>2
    <3> QED
      BY <3>2, <1>3, <1>6 DEF DirtyIn
  <2>2. CASE newest[a] = c /\ DirtyIn(c, stack[c], a)
    <3>1. PICK t \in Stacks(c) : \E k \in 1 .. StackSize(c, t) : SubBlock(c, a) \in Part(stack[c][t][k])
      BY <2>2 DEF DirtyIn
    <3>2. PICK i \in 1 .. StackSize(c, t) : SubBlock(c, a) \in Part(stack[c][t][i])
      BY <3>1
    <3>3. (\E j \in 1 .. StackSize(c, t) : SubBlock(c, a) \in Part(row[t][j])) \/ Written(requests, a)
      BY <3>2, <1>7 DEF Updated
    <3> QED
      BY <3>3 DEF DirtyIn
  <2> QED
    BY <2>1, <2>2
<1>13. Effect(c, m, pend, from, row, requests, new)
  <2>1. \A a \in Addresses : newest'[a] \in {newest[a], c, Nobody}
    BY <1>11
  <2>2. \A a \in Addresses : newest'[a] = c =>
           \/ Written(requests, a) \/ DirtyIn(c, row, a)
           \/ newest[a] = c /\ ~DirtyIn(c, stack[c], a)
    BY <1>12
  <2> QED
    BY <2>1, <2>2, <1>1, <1>5, <1>6, <1>8, <1>9, <1>10, <1>11, Zenon DEF Effect
<1> QED
  BY <1>13

\* A reference that crosses blocks is not within one.
LEMMA AccessStep ==
  ASSUME conf \in Configs, NEW c \in Caches, NEW mr \in OkRefs, mr.type \in Accesses,
         mr.split = FALSE, CacheInv(c), newest \in [Addresses -> Caches \cup {Mem, Nobody}],
         Addresses \subseteq Nat, stack = [d \in Caches |-> stack[d]],
         NEW pend, NEW from, Access(c, mr, pend, from)
  PROVE  \E row, requests, new :
           Effect(c, mr, pend, from, row, requests, new) /\ Lower(c, mr, requests)
<1> DEFINE m == FirstPart(c, mr)
<1>1. \A t \in Stacks(c) : StackInv(c, t, stack[c][t])
  BY DEF CacheInv
<1>2. PICK mine, full, requests, new :
        AccessEffect(c, m, pend, from, mine, full, requests, new) /\ Lower(c, mr, requests)
  BY <1>1, AccessFacts
<1>3. /\ m \in OkRefs /\ m.type \in Accesses /\ OneBlock(c, m)
      /\ ~Crosses(c, mr) => m = mr
  <2>1. /\ m \in OkRefs /\ m.type = mr.type /\ m.addr = mr.addr
        /\ \A x \in Bytes(m) : Block(c, x) = Block(c, mr.addr)
        /\ ~Crosses(c, mr) => m = mr
    BY FirstFacts
  <2> HIDE DEF m
  <2> QED
    BY <2>1 DEF OneBlock
<1>4. OneBlock(c, mr) => ~Crosses(c, mr)
  <2>1. mr.addr \in Nat /\ mr.size \in Nat \ {0}
    BY RefFacts
  <2>2. mr.addr + mr.size - 1 \in Bytes(mr)
    BY <2>1 DEF Bytes
  <2> QED
    BY <2>2 DEF OneBlock, Crosses
<1> HIDE DEF m
<1>5. PICK row : Effect(c, m, pend, from, row, requests, new)
  BY <1>2, <1>3, AccessRow
<1>6. Effect(c, mr, pend, from, row, requests, new)
  <2>1. CASE OneBlock(c, mr)
    BY <2>1, <1>3, <1>4, <1>5
  <2>2. CASE ~OneBlock(c, mr)
    BY <2>2, <1>5, Zenon DEF Effect
  <2> QED
    BY <2>1, <2>2
<1> QED
  BY <1>2, <1>6

\* Nodes that are only cleaned fit where they were.
LEMMA CleanFacts ==
  ASSUME NEW c, NEW s, NEW q, StackInv(c, s, q), StackSize(c, s) \in Nat \ {0},
         NEW t \in [1 .. StackSize(c, s) -> NodeRec],
         \A k \in 1 .. StackSize(c, s) :
           /\ t[k].block = q[k].block /\ t[k].valid = q[k].valid
           /\ t[k].referenced = q[k].referenced /\ t[k].dirty \subseteq q[k].dirty
  PROVE  StackInv(c, s, t)
<1> DEFINE n == StackSize(c, s)
<1>1. /\ Shape(q, n) /\ \A k \in 1 .. n : Fits(c, s, q[k])
  BY DEF StackInv
<1>2. q \in [1 .. n -> NodeRec] /\ q[n].valid = {}
  BY <1>1 DEF Shape
<1>3. Shape(t, n)
  <2>1. t[n].valid = {}
    <3>1. n \in 1 .. n
      OBVIOUS
    <3> QED
      BY <3>1, <1>2
  <2> QED
    BY <2>1, <1>1 DEF Shape
<1>4. ASSUME NEW k \in 1 .. n PROVE Fits(c, s, t[k])
  <2>1. Fits(c, s, q[k]) /\ t[k] \in NodeRec
    BY <1>1
  <2> QED
    BY <2>1 DEF Fits
<1> QED
  BY <1>3, <1>4 DEF StackInv

\* The places of nodes are finitely many.
LEMMA PlacesFinite ==
  ASSUME conf \in Configs, NEW c \in Caches, CacheInv(c), NEW places,
         \A p \in places : \E s \in Stacks(c) : \E k \in 1 .. StackSize(c, s) : p = <<s, k>>
  PROVE  IsFiniteSet(places)
<1> DEFINE part == [s \in Stacks(c) |-> {s} \X (1 .. StackSize(c, s))]
           all == {part[s] : s \in Stacks(c)}
<1>1. IsFiniteSet(Stacks(c))
  <2>1. P(c).sets \in Int /\ 0 \in Int
    BY CacheFacts
  <2>2. IsFiniteSet(0 .. P(c).sets) /\ IsFiniteSet(0 .. P(c).sets - 1)
    BY <2>1, FS_Interval
  <2> QED
    BY <2>2 DEF Stacks, FullStack
<1>2. \A s \in Stacks(c) : IsFiniteSet(part[s])
  <2> SUFFICES ASSUME NEW s \in Stacks(c) PROVE IsFiniteSet({s} \X (1 .. StackSize(c, s)))
    OBVIOUS
  <2>1. IsFiniteSet({s})
    BY FS_Singleton
  <2>2. StackSize(c, s) \in Int /\ 1 \in Int
    BY SizeFacts
  <2>3. IsFiniteSet(1 .. StackSize(c, s))
    BY <2>2, FS_Interval
  <2> QED
    BY <2>1, <2>3, FS_Product
<1>3. IsFiniteSet(all) /\ \A T \in all : IsFiniteSet(T)
  <2>1. DOMAIN part = Stacks(c)
    OBVIOUS
  <2> HIDE DEF part
  <2>2. IsFiniteSet(all)
    BY <1>1, <2>1, Image
  <2> QED
    BY <2>2, <1>2
<1>4. IsFiniteSet(UNION all)
  BY <1>3, FS_UNION
<1>5. places \in SUBSET (UNION all)
  <2> SUFFICES ASSUME NEW p \in places PROVE p \in UNION all
    OBVIOUS
  <2>1. PICK s \in Stacks(c) : \E k \in 1 .. StackSize(c, s) : p = <<s, k>>
    OBVIOUS
  <2>2. p \in part[s]
    BY <2>1
  <2> QED
    BY <2>2
<1> QED
  BY <1>4, <1>5, FS_Subset

\* A copy-back is asked for downstream after what it makes c write; with size 0
\* that is everything that is dirty.
Copied(c, m, r) ==
  /\ r # <<>> /\ r[Len(r)] = m
  /\ \A k \in 1 .. Len(r) - 1 : r[k].type = "WRITE" /\ ~r[k].split /\ ~r[k].prefetch
  /\ m.size = 0 => \A a \in Addresses : DirtyIn(c, stack[c], a) => Written(r, a)

\* With sub-blocks of one byte a copy-back writes no byte twice, and what it writes
\* was dirty and is so no longer.
CopiedOnce(c, row, r) ==
  /\ Ordered(r)
  /\ \A a \in Nat : DirtyIn(c, row, a) => DirtyIn(c, stack[c], a)
  /\ P(c).sub = 1 =>
       /\ Once(r)
       /\ \A a \in Nat : Written(r, a) => DirtyIn(c, stack[c], a) /\ ~DirtyIn(c, row, a)

\* d4copyback: what is no longer dirty is written.
LEMMA CopyStep ==
  ASSUME conf \in Configs, NEW c \in Caches, NEW m \in OkRefs, m.type = "COPYB", CacheInv(c),
         newest \in [Addresses -> Caches \cup {Mem, Nobody}],
         Addresses \subseteq Nat, stack = [d \in Caches |-> stack[d]], seen = [d \in Caches |-> seen[d]],
         NEW pend, NEW from, m.split = FALSE, d4copyback(c, m, pend)
  PROVE  \E row, requests, new :
           /\ Effect(c, m, pend, from, row, requests, new) /\ Lower(c, m, requests)
           /\ Copied(c, m, requests) /\ CopiedOnce(c, row, requests)
<1> DEFINE places == {at \in UNION {{s} \X DOMAIN stack[c][s] : s \in Stacks(c)} :
                        Touched(c, m, at[1], stack[c][at[1]][at[2]])}
           bunches == UNION {Bunches(c, stack[c][at[1]][at[2]], at) : at \in places}
           row == [s \in Stacks(c) |-> [k \in DOMAIN stack[c][s] |->
                    IF <<s, k>> \in places THEN [stack[c][s][k] EXCEPT !.dirty = {}] ELSE stack[c][s][k]]]
<1>1. /\ stack' = [stack EXCEPT ![c] = [s \in Stacks(c) |-> [k \in DOMAIN @[s] |->
                 IF <<s, k>> \in places THEN [@[s][k] EXCEPT !.dirty = {}] ELSE @[s][k]]]]
      /\ \E writes \in Writes(bunches) : pending' = [pend EXCEPT ![c] = writes \o <<m>> \o @]
      /\ UNCHANGED <<conf, seen, newest>>
  BY Zenon DEF d4copyback
<1>2. PICK writes \in Writes(bunches) : pending' = [pend EXCEPT ![c] = writes \o <<m>> \o @]
  BY <1>1
<1>3. stack' = [stack EXCEPT ![c] = row]
  BY <1>1
<1>4. \A s \in Stacks(c) : /\ StackInv(c, s, stack[c][s]) /\ StackSize(c, s) \in Nat \ {0}
                           /\ DOMAIN stack[c][s] = 1 .. StackSize(c, s)
                           /\ s \in Int
                           /\ \A k \in 1 .. StackSize(c, s) : Fits(c, s, stack[c][s][k])
  <2> SUFFICES ASSUME NEW s \in Stacks(c)
               PROVE  /\ StackInv(c, s, stack[c][s]) /\ StackSize(c, s) \in Nat \ {0}
                      /\ DOMAIN stack[c][s] = 1 .. StackSize(c, s) /\ s \in Int
                      /\ \A k \in 1 .. StackSize(c, s) : Fits(c, s, stack[c][s][k])
    OBVIOUS
  <2>1. StackInv(c, s, stack[c][s]) /\ StackSize(c, s) \in Nat \ {0} /\ s \in Int
    BY SizeFacts DEF CacheInv
  <2> QED
    BY <2>1 DEF StackInv, Shape
<1>5. \A p \in places : \E s \in Stacks(c) : \E k \in 1 .. StackSize(c, s) : p = <<s, k>>
  BY <1>4
<1>6. IsFiniteSet(places)
  <2> HIDE DEF places
  <2> QED
    BY <1>5, PlacesFinite
<1>7. \A s \in Stacks(c) : \A k \in 1 .. StackSize(c, s) :
        <<s, k>> \in places <=> Touched(c, m, s, stack[c][s][k])
  BY <1>4
<1> HIDE DEF places
<1>8. IsFiniteSet(bunches)
  <2> DEFINE f == [at \in places |-> Bunches(c, stack[c][at[1]][at[2]], at)]
             all == {f[at] : at \in places}
  <2>1. \A at \in places : IsFiniteSet(f[at])
    <3> SUFFICES ASSUME NEW at \in places PROVE IsFiniteSet(Bunches(c, stack[c][at[1]][at[2]], at))
      OBVIOUS
    <3>1. PICK s \in Stacks(c) : \E k \in 1 .. StackSize(c, s) : at = <<s, k>>
      BY <1>5
    <3>2. PICK k \in 1 .. StackSize(c, s) : at = <<s, k>>
      BY <3>1
    <3>3. Fits(c, s, stack[c][s][k]) /\ at[1] = s /\ at[2] = k
      BY <3>2, <1>4
    <3>4. Fits(c, s, stack[c][at[1]][at[2]])
      BY <3>3
    <3> QED
      BY <3>4, BunchesFinite
  <2>2. DOMAIN f = places /\ bunches = UNION all
    OBVIOUS
  <2> HIDE DEF f, bunches
  <2>3. IsFiniteSet(all)
    BY <2>2, <1>6, Image
  <2>4. \A T \in all : IsFiniteSet(T)
    BY <2>1
  <2>5. IsFiniteSet(UNION all)
    BY <2>3, <2>4, FS_UNION
  <2> QED
    BY <2>2, <2>5
<1>9. \A b \in bunches :
        \E s, x, place : /\ Fits(c, s, x) /\ Bunch(c, x, place, b)
                        /\ place[1] \in Int /\ place[2] \in Int
  <2> SUFFICES ASSUME NEW b \in bunches
               PROVE  \E s, x, place : /\ Fits(c, s, x) /\ Bunch(c, x, place, b)
                                       /\ place[1] \in Int /\ place[2] \in Int
    OBVIOUS
  <2>1. PICK at \in places : b \in Bunches(c, stack[c][at[1]][at[2]], at)
    OBVIOUS
  <2>2. PICK s \in Stacks(c) : \E k \in 1 .. StackSize(c, s) : at = <<s, k>>
    BY <1>5
  <2>3. PICK k \in 1 .. StackSize(c, s) : at = <<s, k>>
    BY <2>2
  <2>4. /\ Fits(c, s, stack[c][s][k]) /\ at[1] = s /\ at[2] = k /\ s \in Int /\ k \in Int
        /\ StackSize(c, s) \in Nat
    BY <2>3, <1>4
  <2> DEFINE x == stack[c][s][k]
  <2>5. Fits(c, s, x) /\ b \in Bunches(c, x, at) /\ at[1] \in Int /\ at[2] \in Int
    BY <2>1, <2>4
  <2> HIDE DEF x, bunches
  <2>6. Bunch(c, x, at, b)
    BY <2>5, BunchesFinite
  <2> QED
    BY <2>5, <2>6
<1>10. /\ Asked(c, writes) /\ Lower(c, m, writes)
       /\ \A k \in 1 .. Len(writes) :
            writes[k].type = "WRITE" /\ ~writes[k].split /\ ~writes[k].prefetch
       /\ \A b \in bunches : \A a \in Bytes(b) : Written(writes, a)
  <2> HIDE DEF bunches
  <2> QED
    BY <1>2, <1>8, <1>9, WrittenBunches
<1> DEFINE requests == writes \o <<m>>
<1>11. /\ Asked(c, requests) /\ Lower(c, m, requests)
       /\ \A b \in bunches : \A a \in Bytes(b) : Written(requests, a)
  <2>1. Asked(c, <<m>>) /\ Lower(c, m, <<m>>)
    BY AskedOne, LowerSame DEF WholeOrPassed, AsItCame
  <2> HIDE DEF bunches
  <2>2. /\ Asked(c, writes \o <<m>>) /\ Lower(c, m, writes \o <<m>>)
        /\ \A a : Written(writes, a) => Written(writes \o <<m>>, a)
    BY <2>1, <1>10, LowerAsked
  <2> QED
    BY <2>2, <1>10
<1>r. /\ requests # <<>> /\ requests[Len(requests)] = m
      /\ \A k \in 1 .. Len(requests) - 1 :
           requests[k].type = "WRITE" /\ ~requests[k].split /\ ~requests[k].prefetch
  <2>1. writes \in Seq(OkRefs)
    BY <1>10 DEF Asked
  <2>2. /\ Len(requests) = Len(writes) + 1 /\ requests[Len(writes) + 1] = m
        /\ \A k \in 1 .. Len(writes) : requests[k] = writes[k]
    BY <2>1
  <2>3. Len(writes) \in Nat
    BY <2>1
  <2> HIDE DEF requests
  <2> QED
    BY <2>2, <2>3, <1>10
<1> HIDE DEF requests
<1>12. \A s \in Stacks(c) : \A k \in 1 .. StackSize(c, s) :
         /\ row[s][k] \in NodeRec
         /\ row[s][k].block = stack[c][s][k].block /\ row[s][k].valid = stack[c][s][k].valid
         /\ row[s][k].referenced = stack[c][s][k].referenced
         /\ row[s][k].dirty \subseteq stack[c][s][k].dirty
         /\ ~(<<s, k>> \in places) => row[s][k] = stack[c][s][k]
         /\ <<s, k>> \in places => row[s][k].dirty = {}
  <2> SUFFICES ASSUME NEW s \in Stacks(c), NEW k \in 1 .. StackSize(c, s)
               PROVE  /\ row[s][k] \in NodeRec
                      /\ row[s][k].block = stack[c][s][k].block /\ row[s][k].valid = stack[c][s][k].valid
                      /\ row[s][k].referenced = stack[c][s][k].referenced
                      /\ row[s][k].dirty \subseteq stack[c][s][k].dirty
                      /\ ~(<<s, k>> \in places) => row[s][k] = stack[c][s][k]
                      /\ <<s, k>> \in places => row[s][k].dirty = {}
    BY Zenon
  <2> DEFINE x == stack[c][s][k]
  <2>1. x \in NodeRec
    BY <1>4 DEF Fits
  <2>2. row[s][k] = IF <<s, k>> \in places THEN [x EXCEPT !.dirty = {}] ELSE x
    BY <1>4
  <2> HIDE DEF x, row
  <2>3. /\ row[s][k] \in NodeRec
        /\ row[s][k].block = x.block /\ row[s][k].valid = x.valid
        /\ row[s][k].referenced = x.referenced
        /\ row[s][k].dirty \subseteq x.dirty
        /\ ~(<<s, k>> \in places) => row[s][k] = x
        /\ <<s, k>> \in places => row[s][k].dirty = {}
    BY <2>1, <2>2 DEF NodeRec
  <2> QED
    BY <2>3 DEF x
<1>13. DOMAIN row = Stacks(c) /\ \A s \in Stacks(c) : DOMAIN row[s] = 1 .. StackSize(c, s)
  BY <1>4
<1>14. \A s \in Stacks(c) : row[s] = [k \in 1 .. StackSize(c, s) |-> row[s][k]]
  BY <1>4
<1> HIDE DEF row
<1>15. \A s \in Stacks(c) : StackInv(c, s, row[s])
  <2> SUFFICES ASSUME NEW s \in Stacks(c) PROVE StackInv(c, s, row[s])
    OBVIOUS
  <2>1. row[s] \in [1 .. StackSize(c, s) -> NodeRec]
    BY <1>12, <1>14
  <2>2. StackInv(c, s, stack[c][s]) /\ StackSize(c, s) \in Nat \ {0}
    BY <1>4
  <2>3. \A k \in 1 .. StackSize(c, s) :
           /\ row[s][k].block = stack[c][s][k].block /\ row[s][k].valid = stack[c][s][k].valid
           /\ row[s][k].referenced = stack[c][s][k].referenced
           /\ row[s][k].dirty \subseteq stack[c][s][k].dirty
    BY <1>12
  <2> DEFINE q == stack[c][s]
             t == row[s]
  <2> HIDE DEF q, t
  <2> QED
    BY <2>1, <2>2, <2>3, CleanFacts
<1>16. P(c).ccc => Valids(c, row) \subseteq seen[c]
  <2> SUFFICES ASSUME P(c).ccc
               PROVE  \A s \in Stacks(c) : \A k \in 1 .. StackSize(c, s) : row[s][k].valid \subseteq seen[c]
    BY ValidsFacts
  <2>1. Valids(c, stack[c]) \subseteq seen[c]
    BY DEF CacheInv
  <2>2. \A s \in Stacks(c) : \A k \in 1 .. StackSize(c, s) : stack[c][s][k].valid \subseteq seen[c]
    BY <2>1, ValidsFacts
  <2>3. ASSUME NEW s \in Stacks(c), NEW k \in 1 .. StackSize(c, s)
        PROVE  row[s][k].valid \subseteq seen[c]
    <3>1. row[s][k].valid = stack[c][s][k].valid
      BY <1>12
    <3> QED
      BY <3>1, <2>2
  <2> QED
    BY <2>3
<1>d. ASSUME NEW a \in Addresses, DirtyIn(c, stack[c], a)
      PROVE  Written(requests, a) \/ (m.size # 0 /\ DirtyIn(c, row, a))
  <2>1. PICK s \in Stacks(c) : \E k \in 1 .. StackSize(c, s) : SubBlock(c, a) \in Part(stack[c][s][k])
    BY <1>d DEF DirtyIn
  <2>2. PICK k \in 1 .. StackSize(c, s) : SubBlock(c, a) \in Part(stack[c][s][k])
    BY <2>1
  <2>3. CASE <<s, k>> \in places
    <3> DEFINE x == stack[c][s][k]
               at == <<s, k>>
    <3>1. Fits(c, s, x) /\ SubBlock(c, a) \in Part(x) /\ a \in Nat
      BY <2>2, <1>4
    <3>2. x = stack[c][at[1]][at[2]] /\ at \in places
      BY <2>3
    <3> HIDE DEF x, at
    <3>3. PICK b \in Bunches(c, x, at) : a \in Bytes(b)
      BY <3>1, BunchesCover
    <3>4. b \in bunches
      BY <3>2, <3>3
    <3> QED
      BY <3>3, <3>4, <1>11
  <2>4. CASE ~(<<s, k>> \in places)
    <3> DEFINE x == stack[c][s][k]
    <3>1. ~Touched(c, m, s, x) /\ Fits(c, s, x) /\ SubBlock(c, a) \in Part(x)
      BY <2>2, <2>4, <1>4, <1>7
    <3> HIDE DEF x
    <3>2. m.size # 0
      BY <3>1 DEF Touched, Part, Fits
    <3> QED
      BY <2>2, <2>4, <3>2, <1>12 DEF DirtyIn
  <2> QED
    BY <2>3, <2>4
<1>17. ASSUME NEW a \in Addresses, newest'[a] = c
       PROVE  \/ Written(requests, a) \/ DirtyIn(c, row, a)
              \/ newest[a] = c /\ ~DirtyIn(c, stack[c], a)
  <2>1. newest[a] = c
    BY <1>1, <1>17
  <2> QED
    BY <2>1, <1>d
<1>18. /\ pending' = [pend EXCEPT ![c] = requests \o @]
       /\ seen' = [seen EXCEPT ![c] = seen[c]] /\ conf' = conf /\ newest' = newest
  <2>1. seen' = seen /\ conf' = conf /\ newest' = newest
    BY <1>1
  <2> QED
    BY <2>1, <1>2 DEF requests
<1>19. \A a \in seen[c] : a \in Nat /\ P(c).ccc /\ SubBlock(c, a) = a
  BY DEF CacheInv
<1>20. /\ newest' \in [Addresses -> Caches \cup {Mem, Nobody}]
       /\ \A a \in Addresses : newest'[a] \in {newest[a], c, Nobody}
       /\ ~(m.type = "WRITE")
  BY <1>18
<1>21. Effect(c, m, pend, from, row, requests, seen[c])
  <2> HIDE DEF bunches
  <2>1. \A a \in Addresses : newest'[a] = c =>
           \/ Written(requests, a) \/ DirtyIn(c, row, a)
           \/ newest[a] = c /\ ~DirtyIn(c, stack[c], a)
    BY <1>17
  <2> QED
    BY <2>1, <1>3, <1>11, <1>13, <1>15, <1>16, <1>18, <1>19, <1>20, Zenon DEF Effect
<1>22. Copied(c, m, requests)
  <2> HIDE DEF bunches
  <2> QED
    BY <1>r, <1>d DEF Copied
<1>23. \A a \in Nat : DirtyIn(c, row, a) => DirtyIn(c, stack[c], a)
  <2>1. \A s \in Stacks(c) : \A k \in 1 .. StackSize(c, s) : Part(row[s][k]) \subseteq Part(stack[c][s][k])
    BY <1>12 DEF Part
  <2> QED
    BY <2>1 DEF DirtyIn
<1>24. Ordered(requests)
  <2>1. NoneForSelf(writes) /\ NoneStored(<<m>>) /\ writes \in Seq(OkRefs) /\ <<m>> \in Seq(OkRefs)
    BY <1>10 DEF NoneForSelf, NoneStored, Storing, Asked
  <2> QED
    BY <2>1, OrderedTogether DEF requests
\* Where the bytes that are written were.
<1>25. ASSUME P(c).sub = 1
       PROVE  /\ Once(requests)
              /\ \A a \in Nat : Written(requests, a) => DirtyIn(c, stack[c], a) /\ ~DirtyIn(c, row, a)
  <2>0. \A a \in Nat : SubBlock(c, a) = a
    BY <1>25 DEF SubBlock
  <2>1. ASSUME NEW b \in bunches
        PROVE  /\ b.addr \in Nat /\ b.size \in Nat \ {0} /\ b.place[1] \in Int /\ b.place[2] \in Int
               /\ \A a \in Bytes(b) : a \in Nat
               /\ \E s \in Stacks(c) : \E k \in 1 .. StackSize(c, s) :
                    /\ <<s, k>> \in places /\ b \in Bunches(c, stack[c][s][k], <<s, k>>)
                    /\ \A a \in Bytes(b) : a \in Part(stack[c][s][k])
    <3>1. PICK at \in places : b \in Bunches(c, stack[c][at[1]][at[2]], at)
      BY <2>1
    <3>2. PICK s \in Stacks(c) : \E k \in 1 .. StackSize(c, s) : at = <<s, k>>
      BY <1>5
    <3>3. PICK k \in 1 .. StackSize(c, s) : at = <<s, k>>
      BY <3>2
    <3>4. /\ Fits(c, s, stack[c][s][k]) /\ at[1] = s /\ at[2] = k /\ s \in Int /\ k \in Int
          /\ StackSize(c, s) \in Nat
      BY <3>3, <1>4
    <3> DEFINE x == stack[c][s][k]
    <3>5. Fits(c, s, x) /\ b \in Bunches(c, x, at) /\ at[1] \in Int /\ at[2] \in Int
      BY <3>1, <3>4
    <3> HIDE DEF x, bunches
    <3>6. Bunch(c, x, at, b)
      BY <3>5, BunchesFinite
    <3>7. /\ b.addr \in Nat /\ b.size \in Nat \ {0} /\ b.place = at
          /\ \A a \in Bytes(b) : SubBlock(c, a) \in Part(x)
      BY <3>6 DEF Bunch
    <3>8. \A a \in Bytes(b) : a \in Nat
      BY <3>7 DEF Bytes
    <3>9. \A a \in Bytes(b) : a \in Part(x)
      BY <3>7, <3>8, <2>0
    <3>10. <<s, k>> \in places /\ b \in Bunches(c, stack[c][s][k], <<s, k>>)
      BY <3>3, <3>5 DEF x
    <3> QED
      BY <3>5, <3>7, <3>8, <3>9, <3>10 DEF x
  <2>2. ASSUME NEW b \in bunches, NEW d \in bunches, NEW a \in Bytes(b), a \in Bytes(d)
        PROVE  b = d
    <3> HIDE DEF bunches
    <3>a. PICK s \in Stacks(c) : \E k \in 1 .. StackSize(c, s) :
            b \in Bunches(c, stack[c][s][k], <<s, k>>) /\ a \in Part(stack[c][s][k])
      BY <2>1, <2>2
    <3>1. PICK k \in 1 .. StackSize(c, s) :
            b \in Bunches(c, stack[c][s][k], <<s, k>>) /\ a \in Part(stack[c][s][k])
      BY <3>a
    <3>b. PICK t \in Stacks(c) : \E j \in 1 .. StackSize(c, t) :
            d \in Bunches(c, stack[c][t][j], <<t, j>>) /\ a \in Part(stack[c][t][j])
      BY <2>1, <2>2
    <3>2. PICK j \in 1 .. StackSize(c, t) :
            d \in Bunches(c, stack[c][t][j], <<t, j>>) /\ a \in Part(stack[c][t][j])
      BY <3>b
    <3>3. \A u \in Stacks(c) : StackInv(c, u, stack[c][u])
      BY <1>4
    <3>4. s = t /\ k = j
      BY <3>1, <3>2, <3>3, OneNode
    <3> DEFINE x == stack[c][s][k]
               place == <<s, k>>
    <3>5. Fits(c, s, x) /\ b \in Bunches(c, x, place) /\ d \in Bunches(c, x, place)
      BY <1>4, <3>1, <3>2, <3>4
    <3> HIDE DEF x, place
    <3> QED
      BY <3>5, <2>2, <1>25, BunchesApart
  <2>3. Once(writes) /\ \A a : Written(writes, a) => \E b \in bunches : a \in Bytes(b)
    <3> HIDE DEF bunches
    <3>1. \A b, d \in bunches : b # d => \A a \in Bytes(b) : a \notin Bytes(d)
      BY <2>2
    <3> QED
      BY <3>1, <2>1, <1>2, <1>8, BunchesOnce
  <2>4. /\ \A a : Written(requests, a) <=> Written(writes, a) \/ Written(<<m>>, a)
        /\ Once(writes) /\ Once(<<m>>) /\ (\A a : ~(Written(writes, a) /\ Written(<<m>>, a))) => Once(requests)
    <3>1. writes \in Seq(OkRefs) /\ <<m>> \in Seq(OkRefs)
      BY <1>10 DEF Asked
    <3> QED
      BY <3>1, OnceTogether DEF requests
  <2>5. Once(<<m>>) /\ \A a : ~Written(<<m>>, a)
    <3>1. NoneStored(<<m>>)
      BY DEF NoneStored, Storing
    <3> QED
      BY <3>1, NoneFacts
  <2>6. ASSUME NEW a \in Nat, Written(requests, a)
        PROVE  DirtyIn(c, stack[c], a) /\ ~DirtyIn(c, row, a)
    <3> HIDE DEF bunches
    <3>1. PICK b \in bunches : a \in Bytes(b)
      BY <2>3, <2>4, <2>5, <2>6
    <3>a. PICK s \in Stacks(c) : \E k \in 1 .. StackSize(c, s) :
            <<s, k>> \in places /\ a \in Part(stack[c][s][k])
      BY <2>1, <3>1
    <3>2. PICK k \in 1 .. StackSize(c, s) : <<s, k>> \in places /\ a \in Part(stack[c][s][k])
      BY <3>a
    <3>3. DirtyIn(c, stack[c], a)
      BY <3>2, <2>0 DEF DirtyIn
    <3>4. ASSUME NEW t \in Stacks(c), NEW j \in 1 .. StackSize(c, t), a \in Part(row[t][j])
          PROVE  FALSE
      <4>1. a \in Part(stack[c][t][j]) /\ row[t][j].dirty # {}
        BY <3>4, <1>12 DEF Part
      <4>2. \A u \in Stacks(c) : StackInv(c, u, stack[c][u])
        BY <1>4
      <4>3. s = t /\ k = j
        <5>1. InNode(c, stack[c], s, k, a) /\ InNode(c, stack[c], t, j, a)
          BY <3>a, <3>2, <3>4, <4>1 DEF InNode
        <5>2. AllStacks(c, stack[c])
          BY <4>2 DEF AllStacks
        <5> QED
          BY <5>1, <5>2, OneNodeOnly
      <4> QED
        BY <4>1, <4>3, <3>2, <1>12
    <3> QED
      BY <3>3, <3>4, <2>0 DEF DirtyIn
  <2> HIDE DEF bunches
  <2> QED
    BY <2>3, <2>4, <2>5, <2>6
<1>26. CopiedOnce(c, row, requests)
  <2> HIDE DEF bunches
  <2> QED
    BY <1>23, <1>24, <1>25, Zenon DEF CopiedOnce
<1> QED
  BY <1>11, <1>21, <1>22, <1>26

\* d4_invinfcache: what it forgets for one block is of that block.
LEMMA ForgottenFacts ==
  ASSUME conf \in Configs, NEW c \in Caches, NEW m \in OkRefs, m.size # 0, NEW x \in Forgotten(c, m)
  PROVE  Block(c, x) = Block(c, m.addr)
<1> DEFINE u == P(c).sub
           v == P(c).block
           n == v \div u
           b == Block(c, m.addr)
           g == Log2(n)
<1>1. u \in Nat \ {0} /\ v \in Nat \ {0} /\ n \in Nat /\ v = u * n
  BY CacheFacts
<1>2. g \in 0 .. n
  <2>1. \E e \in 0 .. n : 2 ^ e = n
    <3> DEFINE par == conf.cache[c]
    <3>1. \E e \in 0 .. par.block \div par.sub : 2 ^ e = par.block \div par.sub
      BY CachesAssumption DEF Caches
    <3>2. par = P(c)
      BY DEF P
    <3> QED
      BY <3>1, <3>2
  <2> HIDE DEF n
  <2> QED
    BY <2>1 DEF Log2
<1>3. x \in {b + k * u : k \in 0 .. g - 1}
  BY DEF Forgotten
<1> HIDE DEF g, n
<1>4. PICK k \in 0 .. g - 1 : x = b + k * u
  BY <1>3
<1>5. k \in Nat /\ k < n
  BY <1>1, <1>2
<1>6. k * u \in Nat /\ k * u < v
  <2> HIDE DEF u, v
  <2>1. PICK e \in Nat : n = k + 1 + e
    <3>1. n - k - 1 \in Nat /\ n = k + 1 + (n - k - 1)
      BY <1>1, <1>5
    <3> QED
      BY <3>1
  <2>2. u * n = k * u + u + u * e /\ u * e \in Nat /\ k * u \in Nat
    BY <1>1, <1>5, <2>1, SMTT(30)
  <2> QED
    BY <1>1, <2>2
<1>7. m.addr \in Nat
  BY RefFacts
<1>8. b \in Nat /\ \A y \in Nat : b <= y /\ y < b + v => Block(c, y) = b
  BY <1>7, AddressFacts
<1> HIDE DEF b, u, v
<1>9. x \in Nat /\ b <= x /\ x < b + v
  BY <1>1, <1>4, <1>6, <1>8
<1> QED
  BY <1>8, <1>9 DEF b

\* Nodes that are left or dropped.
LEMMA DroppedFits ==
  ASSUME NEW c, NEW s, NEW x, NEW y, Fits(c, s, y), x = y \/ Dropped(x, y)
  PROVE  Fits(c, s, x)
  BY DEF Fits, Dropped

\* d4invalidate of one stack.
InvalidatedRow(c, m, s, q) ==
  IF m.size = 0 THEN Emptied(q)
  ELSE IF s \in {SetOf(c, m.addr), FullStack(c)} THEN Without(q, Block(c, m.addr)) ELSE q

\* A stack after an invalidation of one block or of everything.
LEMMA InvalidatedFacts ==
  ASSUME conf \in Configs, NEW c \in Caches, NEW m \in OkRefs, NEW s \in Stacks(c), NEW q,
         StackInv(c, s, q), NEW t, t = InvalidatedRow(c, m, s, q)
  PROVE  /\ StackInv(c, s, t)
         /\ \A j \in 1 .. StackSize(c, s) : \A a \in t[j].valid :
              /\ m.size # 0 /\ Block(c, a) # Block(c, m.addr)
              /\ \E i \in 1 .. StackSize(c, s) : a \in q[i].valid
         /\ m.size # 0 => \A i \in 1 .. StackSize(c, s) : \A a \in Part(q[i]) :
              Block(c, a) # Block(c, m.addr) => \E j \in 1 .. StackSize(c, s) : a \in Part(t[j])
         /\ \A j \in 1 .. StackSize(c, s) : \A a \in Part(t[j]) :
              \E i \in 1 .. StackSize(c, s) : a \in Part(q[i])
<1> DEFINE n == StackSize(c, s)
           b == Block(c, m.addr)
<1>1. /\ n \in Nat \ {0} /\ Shape(q, n) /\ \A i \in 1 .. n : Fits(c, s, q[i])
  BY SizeFacts DEF StackInv
<1>2. /\ m.addr \in Nat /\ b \in Nat
      /\ SetOf(c, b) = SetOf(c, m.addr)
  <2>1. m.addr \in Nat
    BY RefFacts
  <2>2. P(c).block \in Nat \ {0}
    BY CacheFacts
  <2>3. /\ b \in Nat
        /\ \A x \in Nat : b <= x /\ x < b + P(c).block => SetOf(c, x) = SetOf(c, m.addr)
    BY <2>1, AddressFacts
  <2>4. b <= b /\ b < b + P(c).block
    BY <2>2, <2>3
  <2> QED
    BY <2>1, <2>3, <2>4
<1>3. \A i \in 1 .. n : \A a \in q[i].valid :
        Block(c, a) = q[i].block /\ (s # FullStack(c) => SetOf(c, q[i].block) = s)
  BY <1>1 DEF Fits
<1>4. \A i \in 1 .. n : \A a \in Part(q[i]) : a \in q[i].valid
  BY DEF Part
<1> HIDE DEF n
<1>5. CASE m.size = 0
  <2>1. t = Emptied(q)
    BY <1>5 DEF InvalidatedRow
  <2>2. Shape(t, n) /\ \A j \in 1 .. n : \E i \in 1 .. n : Dropped(t[j], q[i])
    BY <1>1, <2>1, EmptiedFacts
  <2>3. \A j \in 1 .. n : Fits(c, s, t[j]) /\ t[j].valid = {}
    <3> SUFFICES ASSUME NEW j \in 1 .. n PROVE Fits(c, s, t[j]) /\ t[j].valid = {}
      OBVIOUS
    <3>1. PICK i \in 1 .. n : Dropped(t[j], q[i])
      BY <2>2
    <3>2. Fits(c, s, t[j])
      BY <3>1, <1>1, DroppedFits
    <3> QED
      BY <3>1, <3>2 DEF Dropped
  <2> QED
    BY <2>2, <2>3, <1>5 DEF StackInv, Part, n
<1>6. CASE m.size # 0 /\ s \in {SetOf(c, m.addr), FullStack(c)}
  <2>1. t = Without(q, b)
    BY <1>6 DEF InvalidatedRow
  <2>2. /\ Shape(t, n)
        /\ \A j \in 1 .. n : \E i \in 1 .. n : t[j] = q[i] \/ Dropped(t[j], q[i])
        /\ \A j \in 1 .. n : t[j].valid # {} => t[j].block # b
        /\ \A i \in 1 .. n : q[i].block # b /\ q[i].valid # {} => \E j \in 1 .. n : t[j] = q[i]
    <3> HIDE DEF b
    <3>1. n \in Nat \ {0} /\ Shape(q, n)
      BY <1>1
    <3> DEFINE r == Without(q, b)
    <3>2. /\ Shape(r, n)
          /\ \A j \in 1 .. n : \E i \in 1 .. n : r[j] = q[i] \/ Dropped(r[j], q[i])
          /\ \A j \in 1 .. n : r[j].valid # {} => r[j].block # b
          /\ \A i \in 1 .. n : q[i].block # b /\ q[i].valid # {} => \E j \in 1 .. n : r[j] = q[i]
      BY <3>1, WithoutFacts
    <3> HIDE DEF r
    <3>3. t = r
      BY <2>1 DEF r
    <3> QED
      BY <3>2, <3>3
  <2> HIDE DEF b
  <2>3. ASSUME NEW j \in 1 .. n
        PROVE  /\ Fits(c, s, t[j])
               /\ \A a \in t[j].valid : Block(c, a) # b /\ \E i \in 1 .. n : a \in q[i].valid
               /\ \A a \in Part(t[j]) : \E i \in 1 .. n : a \in Part(q[i])
    <3>1. PICK i \in 1 .. n : t[j] = q[i] \/ Dropped(t[j], q[i])
      BY <2>2
    <3>2. Fits(c, s, t[j])
      BY <3>1, <1>1, DroppedFits
    <3>3. \A a \in t[j].valid : t[j] = q[i]
      BY <3>1 DEF Dropped
    <3> QED
      BY <3>2, <3>3, <2>2, <1>3 DEF Part
  <2>4. ASSUME NEW i \in 1 .. n, NEW a \in Part(q[i]), Block(c, a) # b
        PROVE  \E j \in 1 .. n : a \in Part(t[j])
    <3>1. q[i].block # b /\ q[i].valid # {}
      BY <2>4, <1>3, <1>4
    <3> QED
      BY <3>1, <2>2
  <2> QED
    BY <2>2, <2>3, <2>4, <1>6 DEF StackInv, n, b
<1>7. CASE m.size # 0 /\ ~(s \in {SetOf(c, m.addr), FullStack(c)})
  <2>1. t = q
    BY <1>7 DEF InvalidatedRow
  <2> HIDE DEF b
  <2>2. ASSUME NEW j \in 1 .. n, NEW a \in q[j].valid PROVE Block(c, a) # b
    <3>1. Block(c, a) = q[j].block /\ SetOf(c, q[j].block) = s
      BY <1>3, <1>7
    <3> QED
      BY <3>1, <1>2, <1>7
  <2> QED
    BY <2>1, <2>2, <1>7 DEF n, b
<1> QED
  BY <1>5, <1>6, <1>7

\* d4invalidate: what is forgotten and dropped is of the blocks that go.
LEMMA InvalidateStep ==
  ASSUME conf \in Configs, NEW c \in Caches, NEW m \in OkRefs, m.type = "INVAL", CacheInv(c),
         newest \in [Addresses -> Caches \cup {Mem, Nobody}], Nobody \notin Caches,
         Addresses \subseteq Nat, stack = [d \in Caches |-> stack[d]], seen = [d \in Caches |-> seen[d]],
         NEW pend, NEW from, m.split = FALSE, d4invalidate(c, m, pend)
  PROVE  \E row, requests, new :
           Effect(c, m, pend, from, row, requests, new) /\ Lower(c, m, requests)
<1> DEFINE b == Block(c, m.addr)
           row == [s \in Stacks(c) |-> InvalidatedRow(c, m, s, stack[c][s])]
           requests == <<m>>
           new == IF P(c).ccc THEN seen[c] \ Forgotten(c, m) ELSE seen[c]
<1>1. /\ stack' = [stack EXCEPT ![c] = [s \in Stacks(c) |->
                 IF m.size = 0 THEN Emptied(@[s])
                 ELSE IF s \in {SetOf(c, m.addr), FullStack(c)} THEN Without(@[s], b) ELSE @[s]]]
      /\ pending' = [pend EXCEPT ![c] = <<m>> \o @]
      /\ seen' = [seen EXCEPT ![c] = IF P(c).ccc THEN @ \ Forgotten(c, m) ELSE @]
      /\ newest' = [a \in Addresses |->
           IF a \in {x \in Addresses : /\ newest[x] = c
                                       /\ m.size = 0 \/ Block(c, x) = b} THEN Nobody ELSE newest[a]]
      /\ conf' = conf
  BY Zenon DEF d4invalidate
<1>2. stack' = [stack EXCEPT ![c] = row]
  BY <1>1 DEF InvalidatedRow
<1>3. pending' = [pend EXCEPT ![c] = requests \o @] /\ seen' = [seen EXCEPT ![c] = new]
  BY <1>1
<1>4. DOMAIN row = Stacks(c) /\ \A s \in Stacks(c) : row[s] = InvalidatedRow(c, m, s, stack[c][s])
  OBVIOUS
<1> HIDE DEF row
<1>5. \A s \in Stacks(c) :
         /\ StackInv(c, s, row[s])
         /\ \A j \in 1 .. StackSize(c, s) : \A a \in row[s][j].valid :
              /\ m.size # 0 /\ Block(c, a) # b
              /\ \E i \in 1 .. StackSize(c, s) : a \in stack[c][s][i].valid
         /\ m.size # 0 => \A i \in 1 .. StackSize(c, s) : \A a \in Part(stack[c][s][i]) :
              Block(c, a) # b => \E j \in 1 .. StackSize(c, s) : a \in Part(row[s][j])
  <2> SUFFICES ASSUME NEW s \in Stacks(c)
               PROVE /\ StackInv(c, s, row[s])
                     /\ \A j \in 1 .. StackSize(c, s) : \A a \in row[s][j].valid :
                          /\ m.size # 0 /\ Block(c, a) # b
                          /\ \E i \in 1 .. StackSize(c, s) : a \in stack[c][s][i].valid
                     /\ m.size # 0 => \A i \in 1 .. StackSize(c, s) : \A a \in Part(stack[c][s][i]) :
                          Block(c, a) # b => \E j \in 1 .. StackSize(c, s) : a \in Part(row[s][j])
    OBVIOUS
  <2> DEFINE q == stack[c][s]
             t == row[s]
  <2>1. StackInv(c, s, q) /\ t = InvalidatedRow(c, m, s, q)
    BY <1>4 DEF CacheInv
  <2> HIDE DEF q, t
  <2>2. /\ StackInv(c, s, t)
        /\ \A j \in 1 .. StackSize(c, s) : \A a \in t[j].valid :
              /\ m.size # 0 /\ Block(c, a) # Block(c, m.addr)
              /\ \E i \in 1 .. StackSize(c, s) : a \in q[i].valid
        /\ m.size # 0 => \A i \in 1 .. StackSize(c, s) : \A a \in Part(q[i]) :
              Block(c, a) # Block(c, m.addr) => \E j \in 1 .. StackSize(c, s) : a \in Part(t[j])
    BY <2>1, InvalidatedFacts
  <2> QED
    BY <2>2 DEF q, t
<1>6. Asked(c, requests) /\ Lower(c, m, requests)
  BY AskedOne, LowerSame DEF WholeOrPassed, AsItCame
<1>7. \A a \in new : a \in Nat /\ P(c).ccc /\ SubBlock(c, a) = a
  BY DEF CacheInv
<1>8. P(c).ccc => Valids(c, row) \subseteq new
  <2> SUFFICES ASSUME P(c).ccc
               PROVE  \A s \in Stacks(c) : \A k \in 1 .. StackSize(c, s) : row[s][k].valid \subseteq new
    BY ValidsFacts
  <2> SUFFICES ASSUME NEW s \in Stacks(c), NEW k \in 1 .. StackSize(c, s), NEW a \in row[s][k].valid
               PROVE  a \in new
    OBVIOUS
  <2>1. m.size # 0 /\ Block(c, a) # b /\ \E i \in 1 .. StackSize(c, s) : a \in stack[c][s][i].valid
    BY <1>5
  <2>2. \A u \in Stacks(c) : \A j \in 1 .. StackSize(c, u) : stack[c][u][j].valid \subseteq seen[c]
    <3>1. Valids(c, stack[c]) \subseteq seen[c]
      BY DEF CacheInv
    <3> QED
      BY <3>1, ValidsFacts
  <2>3. a \in seen[c]
    BY <2>1, <2>2
  <2>4. ~(a \in Forgotten(c, m))
    BY <2>1, ForgottenFacts
  <2> QED
    BY <2>3, <2>4
<1>9. /\ newest' \in [Addresses -> Caches \cup {Mem, Nobody}]
      /\ \A a \in Addresses : newest'[a] \in {newest[a], c, Nobody}
      /\ \A a \in Addresses : newest'[a] = c => newest[a] = c /\ m.size # 0 /\ Block(c, a) # b
  <2> DEFINE dropped == {x \in Addresses : newest[x] = c /\ (m.size = 0 \/ Block(c, x) = b)}
  <2>1. newest' = [a \in Addresses |-> IF a \in dropped THEN Nobody ELSE newest[a]]
    BY <1>1, Zenon
  <2>2. \A a \in Addresses : newest'[a] = IF a \in dropped THEN Nobody ELSE newest[a]
    BY <2>1
  <2>3. \A a \in Addresses : a \in dropped <=> newest[a] = c /\ (m.size = 0 \/ Block(c, a) = b)
    BY Zenon
  <2> HIDE DEF dropped, b
  <2>4. newest' \in [Addresses -> Caches \cup {Mem, Nobody}]
    BY <2>1
  <2> QED
    BY <2>2, <2>3, <2>4
<1>10. ASSUME NEW a \in Addresses, newest'[a] = c
       PROVE  \/ Written(requests, a) \/ DirtyIn(c, row, a)
              \/ newest[a] = c /\ ~DirtyIn(c, stack[c], a)
  <2>1. newest[a] = c /\ m.size # 0 /\ Block(c, a) # b
    BY <1>9, <1>10
  <2>2. CASE DirtyIn(c, stack[c], a)
    <3>1. PICK s \in Stacks(c) : \E k \in 1 .. StackSize(c, s) : SubBlock(c, a) \in Part(stack[c][s][k])
      BY <2>2 DEF DirtyIn
    <3>2. PICK k \in 1 .. StackSize(c, s) : SubBlock(c, a) \in Part(stack[c][s][k])
      BY <3>1
    <3>3. Block(c, SubBlock(c, a)) = Block(c, a)
      <4>1. a \in Nat
        OBVIOUS
      <4> QED
        BY <4>1, AddressFacts
    <3>4. \E j \in 1 .. StackSize(c, s) : SubBlock(c, a) \in Part(row[s][j])
      BY <3>2, <3>3, <2>1, <1>5
    <3> QED
      BY <3>4 DEF DirtyIn
  <2> QED
    BY <2>1, <2>2
<1>11. ~(m.type = "WRITE")
  OBVIOUS
<1> HIDE DEF new, requests
<1>12. Effect(c, m, pend, from, row, requests, new)
  <2>1. \A a \in Addresses : newest'[a] = c =>
           \/ Written(requests, a) \/ DirtyIn(c, row, a)
           \/ newest[a] = c /\ ~DirtyIn(c, stack[c], a)
    BY <1>10
  <2>2. conf' = conf
    BY <1>1
  <2>3. DOMAIN row = Stacks(c) /\ \A s \in Stacks(c) : StackInv(c, s, row[s])
    BY <1>4, <1>5
  <2> QED
    BY <2>1, <2>2, <2>3, <1>2, <1>3, <1>6, <1>7, <1>8, <1>9, <1>11, Zenon DEF Effect
<1> QED
  BY <1>6, <1>12

\* d4ref, for a cache, does one of the three.
LEMMA RefStep ==
  ASSUME TreeInv, NEW c \in Caches, NEW m \in OkRefs, m.split = FALSE,
         NEW pend, NEW from, d4ref(c, m, pend, from)
  PROVE  \E row, requests, new :
           /\ Effect(c, m, pend, from, row, requests, new) /\ Lower(c, m, requests)
           /\ m.type = "COPYB" => Copied(c, m, requests)
<1>1. /\ conf \in Configs /\ CacheInv(c) /\ newest \in [Addresses -> Caches \cup {Mem, Nobody}]
      /\ stack = [d \in Caches |-> stack[d]] /\ seen = [d \in Caches |-> seen[d]]
  BY DEF TreeInv
<1>2. c # Mem /\ Nobody \notin Caches /\ Addresses \subseteq Nat
  BY <1>1, TreeAssumption DEF Caches
<1>3. \/ m.type = "COPYB" /\ d4copyback(c, m, pend)
      \/ m.type = "INVAL" /\ d4invalidate(c, m, pend)
      \/ m.type \in Accesses /\ Access(c, m, pend, from)
  BY <1>2, Zenon DEF d4ref, Accesses
<1>4. CASE m.type = "COPYB" /\ d4copyback(c, m, pend)
  BY <1>1, <1>2, <1>4, CopyStep
<1>5. CASE m.type = "INVAL" /\ d4invalidate(c, m, pend)
  BY <1>1, <1>2, <1>5, InvalidateStep
<1>6. CASE m.type \in Accesses /\ Access(c, m, pend, from)
  <2>1. m.type # "COPYB"
    BY <1>6 DEF Accesses
  <2> QED
    BY <1>1, <1>2, <1>6, <2>1, AccessStep
<1> QED
  BY <1>3, <1>4, <1>5, <1>6

\* The caches are configured once: what depends on nothing else stays as it is.
LEMMA SameConf ==
  ASSUME conf' = conf, NEW c
  PROVE  /\ Caches' = Caches /\ P(c)' = P(c) /\ Stacks(c)' = Stacks(c)
         /\ FullStack(c)' = FullStack(c)
  BY DEF Caches, P, Stacks, FullStack

\* The geometry of a cache, for an address or a stack.
LEMMA SameAddresses ==
  ASSUME conf' = conf, NEW c, NEW a
  PROVE  /\ Block(c, a)' = Block(c, a) /\ SubBlock(c, a)' = SubBlock(c, a)
         /\ SetOf(c, a)' = SetOf(c, a) /\ StackSize(c, a)' = StackSize(c, a)
<1>1. P(c)' = P(c) /\ FullStack(c)' = FullStack(c)
  BY SameConf
<1> QED
  BY <1>1 DEF Block, SubBlock, SetOf, StackSize

\* Whether a node belongs in a stack.
LEMMA SameFits ==
  ASSUME conf' = conf, NEW c, NEW s, NEW x
  PROVE  Fits(c, s, x)' <=> Fits(c, s, x)
<1>1. \A a : /\ Block(c, a)' = Block(c, a) /\ SubBlock(c, a)' = SubBlock(c, a)
             /\ SetOf(c, a)' = SetOf(c, a)
  BY SameAddresses
<1>2. FullStack(c)' = FullStack(c)
  BY SameConf
<1> QED
  BY <1>1, <1>2 DEF Fits

\* The invariant of a stack.
LEMMA SameStack ==
  ASSUME conf' = conf, NEW c, NEW s, NEW q
  PROVE  StackInv(c, s, q)' <=> StackInv(c, s, q)
<1>1. \A x : Fits(c, s, x)' <=> Fits(c, s, x)
  BY SameFits
<1>2. StackSize(c, s)' = StackSize(c, s)
  BY SameAddresses
<1> QED
  BY <1>1, <1>2 DEF StackInv

\* What a cache may ask for.
LEMMA SameAsked ==
  ASSUME conf' = conf, NEW c, NEW r
  PROVE  (OneBlock(c, r)' <=> OneBlock(c, r)) /\ (Asked(c, r)' <=> Asked(c, r))
<1>1. \A a : Block(c, a)' = Block(c, a)
  BY SameAddresses
<1>2. \A m : OneBlock(c, m)' <=> OneBlock(c, m)
  BY <1>1 DEF OneBlock
<1>3. P(c)' = P(c) /\ \A a : SubBlock(c, a)' = SubBlock(c, a)
  BY SameConf, SameAddresses
<1>4. \A m : WholeOrPassed(c, m)' <=> WholeOrPassed(c, m)
  BY <1>1, <1>3 DEF WholeOrPassed, WholeSubBlocks, AsItCame
<1> QED
  BY <1>2, <1>4 DEF Asked

\* What the stacks of a cache hold.
LEMMA SameRow ==
  ASSUME conf' = conf, NEW c, NEW row
  PROVE  /\ Valids(c, row)' = Valids(c, row)
         /\ \A a : DirtyIn(c, row, a)' <=> DirtyIn(c, row, a)
<1>1. Stacks(c)' = Stacks(c)
  BY SameConf
<1>2. \A s : StackSize(c, s)' = StackSize(c, s) /\ SubBlock(c, s)' = SubBlock(c, s)
  BY SameAddresses
<1>3. Valids(c, row)' = Valids(c, row)
  BY <1>1, <1>2 DEF Valids
<1>4. \A a : DirtyIn(c, row, a)' <=> DirtyIn(c, row, a)
  BY <1>1, <1>2 DEF DirtyIn
<1> QED
  BY <1>3, <1>4

\* What is below a step: the stacks of pending references it starts from.
PendOk(pend) ==
  /\ pend = [d \in Caches |-> pend[d]]
  /\ \A d \in Caches : Asked(d, pend[d])

\* A step at a cache keeps the invariant of every cache.
LEMMA EffectInv ==
  ASSUME TreeInv, NEW c \in Caches, NEW m, NEW pend, PendOk(pend), NEW from,
         NEW row, NEW requests, NEW new, Effect(c, m, pend, from, row, requests, new)
  PROVE  TreeInv'
<1>1. /\ conf \in Configs
      /\ stack = [d \in Caches |-> stack[d]] /\ pending = [d \in Caches |-> pending[d]]
      /\ seen = [d \in Caches |-> seen[d]]
      /\ \A d \in Caches : CacheInv(d)
      /\ pend = [d \in Caches |-> pend[d]] /\ \A d \in Caches : Asked(d, pend[d])
  BY DEF TreeInv, PendOk
<1>2. /\ stack' = [stack EXCEPT ![c] = row]
      /\ pending' = [pend EXCEPT ![c] = requests \o @]
      /\ seen' = [seen EXCEPT ![c] = new]
      /\ conf' = conf
      /\ DOMAIN row = Stacks(c) /\ \A s \in Stacks(c) : StackInv(c, s, row[s])
      /\ Asked(c, requests)
      /\ \A a \in new : a \in Nat /\ P(c).ccc /\ SubBlock(c, a) = a
      /\ P(c).ccc => Valids(c, row) \subseteq new
      /\ newest' \in [Addresses -> Caches \cup {Mem, Nobody}]
  BY Zenon DEF Effect
<1>3. /\ \A d : Caches' = Caches /\ P(d)' = P(d) /\ Stacks(d)' = Stacks(d)
      /\ \A d, a : SubBlock(d, a)' = SubBlock(d, a)
      /\ \A d, s, q : StackInv(d, s, q)' <=> StackInv(d, s, q)
      /\ \A d, r : Asked(d, r)' <=> Asked(d, r)
      /\ \A d, r : Valids(d, r)' = Valids(d, r)
  BY <1>2, SameConf, SameAddresses, SameStack, SameAsked, SameRow
<1>4. /\ stack'[c] = row /\ pending'[c] = requests \o pend[c] /\ seen'[c] = new
      /\ \A d \in Caches : d # c => stack'[d] = stack[d] /\ pending'[d] = pend[d] /\ seen'[d] = seen[d]
  BY <1>1, <1>2
<1>5. /\ stack' = [d \in Caches |-> stack'[d]] /\ pending' = [d \in Caches |-> pending'[d]]
      /\ seen' = [d \in Caches |-> seen'[d]]
  BY <1>1, <1>2
<1>6. CacheInv(c)'
  <2>1. Asked(c, pending'[c])
    BY <1>1, <1>2, <1>4, AskedTogether
  <2> QED
    BY <2>1, <1>2, <1>3, <1>4 DEF CacheInv
<1>7. ASSUME NEW d \in Caches, d # c PROVE CacheInv(d)'
  <2>1. stack'[d] = stack[d] /\ pending'[d] = pend[d] /\ seen'[d] = seen[d]
    BY <1>4, <1>7
  <2>2. CacheInv(d) /\ Asked(d, pend[d])
    BY <1>1
  <2> QED
    BY <2>1, <2>2, <1>3 DEF CacheInv
<1> QED
  BY <1>1, <1>2, <1>3, <1>5, <1>6, <1>7 DEF TreeInv

\* So does one at the memory, which has no state.
LEMMA MemoryInv ==
  ASSUME TreeInv, NEW pend, PendOk(pend), conf' = conf, stack' = stack, seen' = seen, pending' = pend,
         newest' \in [Addresses -> Caches \cup {Mem, Nobody}]
  PROVE  TreeInv'
<1>1. /\ conf \in Configs
      /\ stack = [d \in Caches |-> stack[d]] /\ pending = [d \in Caches |-> pending[d]]
      /\ seen = [d \in Caches |-> seen[d]]
      /\ \A d \in Caches : CacheInv(d)
      /\ pend = [d \in Caches |-> pend[d]] /\ \A d \in Caches : Asked(d, pend[d])
  BY DEF TreeInv, PendOk
<1>2. /\ \A d : Caches' = Caches /\ P(d)' = P(d) /\ Stacks(d)' = Stacks(d)
      /\ \A d, a : SubBlock(d, a)' = SubBlock(d, a)
      /\ \A d, s, q : StackInv(d, s, q)' <=> StackInv(d, s, q)
      /\ \A d, r : Asked(d, r)' <=> Asked(d, r)
      /\ \A d, r : Valids(d, r)' = Valids(d, r)
  BY SameConf, SameAddresses, SameStack, SameAsked, SameRow
<1>3. ASSUME NEW d \in Caches PROVE CacheInv(d)'
  <2>1. CacheInv(d) /\ Asked(d, pend[d])
    BY <1>1
  <2> QED
    BY <2>1, <1>2 DEF CacheInv
<1> QED
  BY <1>1, <1>2, <1>3 DEF TreeInv

\* The reference on top of a stack of pending ones, and those below it.
LEMMA PoppedFacts ==
  ASSUME TreeInv, NEW c \in Caches, pending[c] # <<>>, NEW m, m = Head(pending[c]),
         NEW pend, pend = [pending EXCEPT ![c] = Tail(@)]
  PROVE  /\ m \in OkRefs /\ PendOk(pend)
         /\ m.type = "WRITE" /\ ~m.split => OneBlock(c, m)
         /\ pend[c] = Tail(pending[c]) /\ \A d \in Caches : d # c => pend[d] = pending[d]
         /\ \A a : Written(pending[c], a) =>
              Written(pend[c], a) \/ (m.type = "WRITE" /\ ~m.split /\ a \in Bytes(m))
<1> DEFINE p == pending[c]
           t == Tail(p)
<1>1. /\ pending = [d \in Caches |-> pending[d]] /\ \A d \in Caches : Asked(d, pending[d])
  BY DEF TreeInv, CacheInv
<1>2. /\ p \in Seq(OkRefs) /\ p # <<>>
      /\ \A k \in 1 .. Len(p) : /\ p[k].type = "WRITE" /\ ~p[k].split => OneBlock(c, p[k])
                               /\ WholeOrPassed(c, p[k])
  BY <1>1 DEF Asked
<1>3. pend[c] = t /\ (\A d \in Caches : d # c => pend[d] = pending[d]) /\ pend = [d \in Caches |-> pend[d]]
  BY <1>1
<1> HIDE DEF p
<1>4. m = Head(p)
  BY DEF p
<1>5. /\ Len(p) \in Nat \ {0} /\ m = p[1] /\ m \in OkRefs
      /\ t \in Seq(OkRefs) /\ Len(t) = Len(p) - 1
      /\ \A k \in 1 .. Len(t) : t[k] = p[k + 1]
  BY <1>2, <1>4
<1> HIDE DEF t
<1>6. 1 \in 1 .. Len(p) /\ \A k \in 1 .. Len(t) : k + 1 \in 1 .. Len(p)
  BY <1>5
<1>7. m.type = "WRITE" /\ ~m.split => OneBlock(c, m)
  BY <1>2, <1>5, <1>6
<1>8. Asked(c, t)
  BY <1>2, <1>5, <1>6 DEF Asked
<1>9. PendOk(pend)
  BY <1>1, <1>3, <1>8 DEF PendOk
<1>10. ASSUME NEW a, Written(p, a), ~Written(t, a)
       PROVE  m.type = "WRITE" /\ ~m.split /\ a \in Bytes(m)
  <2>1. PICK k \in 1 .. Len(p) : p[k].type = "WRITE" /\ ~p[k].split /\ a \in Bytes(p[k])
    BY <1>10 DEF Written
  <2>2. CASE k = 1
    BY <2>1, <2>2, <1>5
  <2>3. CASE k # 1
    <3>1. k - 1 \in 1 .. Len(t) /\ t[k - 1] = p[k]
      BY <2>3, <1>5
    <3> QED
      BY <3>1, <2>1, <1>10 DEF Written
  <2> QED
    BY <2>2, <2>3
<1> QED
  BY <1>3, <1>5, <1>7, <1>9, <1>10 DEF p

\* d4ref for what is pending or called, without regard to where it came from.
LEMMA TreeStep ==
  ASSUME TreeInv, NEW c \in Caches \cup {Mem}, NEW m \in OkRefs, m.split = FALSE,
         NEW pend, PendOk(pend), NEW from, d4ref(c, m, pend, from)
  PROVE  TreeInv' /\ conf' = conf
<1>1. CASE c \in Caches
  <2>1. PICK row, requests, new : Effect(c, m, pend, from, row, requests, new)
    BY <1>1, RefStep
  <2>2. conf' = conf
    BY <2>1, Zenon DEF Effect
  <2> QED
    BY <1>1, <2>1, <2>2, EffectInv
<1>2. CASE c \notin Caches
  <2>1. c = Mem
    BY <1>2
  <2>2. /\ conf' = conf /\ stack' = stack /\ seen' = seen /\ pending' = pend
        /\ Moves(c, m, from)
    BY <2>1, Zenon DEF d4ref
  <2>3. newest \in [Addresses -> Caches \cup {Mem, Nobody}]
    BY DEF TreeInv
  <2>4. newest' \in [Addresses -> Caches \cup {Mem, Nobody}]
    BY <2>2, <2>3, MovesFacts
  <2> QED
    BY <2>2, <2>4, MemoryInv
<1> QED
  BY <1>1, <1>2

\* d4_dopending keeps the invariant of the tree.
LEMMA PendingStep ==
  ASSUME TreeInv, NEW c \in Caches, d4_dopending(c)
  PROVE  TreeInv' /\ conf' = conf
<1> DEFINE m == Head(pending[c])
           to == IF m.prefetch \/ m.split THEN c ELSE P(c).down
           pend == [pending EXCEPT ![c] = Tail(@)]
           r == [m EXCEPT !.split = FALSE]
<1>1. pending[c] # <<>> /\ d4ref(to, r, pend, c)
  BY Zenon DEF d4_dopending
<1>2. m \in OkRefs /\ PendOk(pend)
  BY <1>1, PoppedFacts
<1>3. to \in Caches \cup {Mem}
  <2>1. conf \in Configs
    BY DEF TreeInv
  <2> QED
    BY <2>1, CacheFacts
<1> HIDE DEF to, pend, m
<1>4. r \in OkRefs /\ r.split = FALSE
  <2>1. r \in OkRefs
    BY <1>2, RefFacts
  <2> QED
    BY <2>1, <1>2 DEF OkRefs
<1> HIDE DEF r
<1> QED
  BY <1>1, <1>2, <1>3, <1>4, TreeStep

\* Every tree starts empty.
LEMMA InitTree ==
  ASSUME Init
  PROVE  CachesInv
<1>1. /\ conf \in Configs /\ stack = [c \in Caches |-> [s \in Stacks(c) |-> [k \in 1 .. StackSize(c, s) |-> Node]]]
      /\ pending = [c \in Caches |-> <<>>] /\ seen = [c \in Caches |-> {}]
      /\ newest = [a \in Addresses |-> Mem]
      /\ calls = <<>> /\ flcount = conf.flushcount /\ done = FALSE
  BY DEF Init, d4setup
<1>2. /\ Node \in NodeRec /\ Node.block = 0 /\ Node.valid = {} /\ Node.referenced = {} /\ Node.dirty = {}
  BY DEF Node, NodeRec
<1>3. ASSUME NEW c \in Caches PROVE CacheInv(c)
  <2>1. \A s : StackSize(c, s) \in Nat \ {0}
    BY <1>1, SizeFacts
  <2>2. Block(c, 0) = 0
    <3>1. 0 \in Nat
      OBVIOUS
    <3>2. Block(c, 0) \in Nat /\ Block(c, 0) <= 0
      BY <1>1, <3>1, AddressFacts
    <3> QED
      BY <3>2
  <2>3. ASSUME NEW s \in Stacks(c) PROVE StackInv(c, s, stack[c][s])
    <3> DEFINE q == [k \in 1 .. StackSize(c, s) |-> Node]
    <3>1. stack[c][s] = q
      BY <1>1
    <3>2. StackSize(c, s) \in Nat \ {0} /\ StackSize(c, s) \in 1 .. StackSize(c, s)
      BY <2>1
    <3>3. Fits(c, s, Node)
      BY <1>2, <2>2 DEF Fits
    <3>4. \A k \in 1 .. StackSize(c, s) : q[k] = Node
      OBVIOUS
    <3>5. q \in [1 .. StackSize(c, s) -> NodeRec]
      BY <1>2
    <3> HIDE DEF q
    <3>6. Shape(q, StackSize(c, s))
      BY <3>2, <3>4, <3>5, <1>2 DEF Shape
    <3> QED
      BY <3>1, <3>3, <3>4, <3>6 DEF StackInv
  <2>4. DOMAIN stack[c] = Stacks(c)
    BY <1>1
  <2>5. Asked(c, pending[c])
    BY <1>1 DEF Asked
  <2>6. P(c).ccc => Valids(c, stack[c]) \subseteq seen[c]
    <3>1. \A s \in Stacks(c) : \A k \in 1 .. StackSize(c, s) : stack[c][s][k].valid \subseteq seen[c]
      BY <1>1, <1>2
    <3> QED
      BY <3>1, ValidsFacts
  <2>7. seen[c] = {}
    BY <1>1
  <2> QED
    BY <2>3, <2>4, <2>5, <2>6, <2>7 DEF CacheInv
<1>4. TreeInv
  <2>1. newest \in [Addresses -> Caches \cup {Mem, Nobody}]
    BY <1>1
  <2>2. /\ stack = [c \in Caches |-> stack[c]] /\ pending = [c \in Caches |-> pending[c]]
        /\ seen = [c \in Caches |-> seen[c]]
    BY <1>1
  <2> QED
    BY <2>1, <2>2, <1>1, <1>3 DEF TreeInv
<1>5. conf.flushcount \in Nat
  BY <1>1, ProgramsAssumption
<1>6. calls \in Seq(CallRecs) /\ flcount \in 0 .. conf.flushcount /\ done \in BOOLEAN
  <2>1. calls = <<>> /\ flcount = conf.flushcount /\ (done = FALSE)
    BY Zenon DEF Init
  <2>2. done \in BOOLEAN
    BY <2>1, Zenon
  <2>3. <<>> \in Seq(CallRecs)
    OBVIOUS
  <2> QED
    BY <1>5, <2>1, <2>2, <2>3
<1> QED
  BY <1>4, <1>6 DEF CachesInv

\* A step that leaves the tree alone.
LEMMA TreeAlone ==
  ASSUME TreeInv, UNCHANGED <<conf, stack, pending, seen, newest>>
  PROVE  TreeInv'
<1>1. PendOk(pending) /\ newest \in [Addresses -> Caches \cup {Mem, Nobody}]
  BY DEF TreeInv, CacheInv, PendOk
<1>2. /\ conf' = conf /\ stack' = stack /\ seen' = seen /\ pending' = pending
      /\ newest' \in [Addresses -> Caches \cup {Mem, Nobody}]
  BY <1>1
<1> HIDE DEF TreeInv
<1> QED
  BY <1>1, <1>2, MemoryInv

\* What the programs ask for is well formed.
LEMMA CallFacts ==
  ASSUME conf \in Configs
  PROVE  /\ conf.ci \in Caches /\ conf.cd \in Caches /\ conf.flushcount \in Nat
         /\ \A t \in {"READ", "WRITE"}, a \in Nat, c \in Caches :
              [cache |-> c, ref |-> Reference(t, a, WordSize)] \in CallRecs
         /\ \A t \in {"COPYB", "INVAL"}, c \in Caches : To(c, WholeCache(t)) \in CallRecs
         /\ \A r \in conf.trace, c \in Caches : To(c, r) \in CallRecs
<1>1. /\ conf.ci \in Caches /\ conf.cd \in Caches /\ conf.flushcount \in Nat
      /\ WordSize \in Nat \ {0}
      /\ \A r \in conf.trace :
            /\ r.type \in {"READ", "INSTRN", "WRITE", "COPYB", "INVAL"}
            /\ r.addr \in Nat /\ r.size \in Nat
            /\ r.size = 0 => r.type \in {"COPYB", "INVAL"}
            /\ r = Reference(r.type, r.addr, r.size)
  BY ProgramsAssumption DEF Caches
<1>2. ASSUME NEW c \in Caches, NEW r \in OkRefs, ~r.split, ~r.prefetch
      PROVE  [cache |-> c, ref |-> r] \in CallRecs
  BY <1>2 DEF CallRecs
<1>3. ASSUME NEW t \in {"READ", "WRITE"}, NEW a \in Nat, NEW c \in Caches
      PROVE  [cache |-> c, ref |-> Reference(t, a, WordSize)] \in CallRecs
  <2>1. t \in Types
    BY DEF Types
  <2>2. Reference(t, a, WordSize) \in OkRefs
    <3>1. WordSize \in Nat /\ (WordSize = 0 => t \in {"COPYB", "INVAL"})
      BY <1>1
    <3> QED
      BY <2>1, <3>1, ReferenceFacts
  <2>3. ~Reference(t, a, WordSize).split /\ ~Reference(t, a, WordSize).prefetch
    BY DEF Reference
  <2> QED
    BY <1>2, <2>2, <2>3
<1>4. ASSUME NEW t \in {"COPYB", "INVAL"}, NEW c \in Caches
      PROVE  To(c, WholeCache(t)) \in CallRecs
  <2>1. t \in Types /\ 0 \in Nat
    BY DEF Types
  <2>2. WholeCache(t) \in OkRefs
    BY <2>1, ReferenceFacts DEF WholeCache
  <2>3. ~WholeCache(t).split /\ ~WholeCache(t).prefetch
    BY DEF WholeCache, Reference
  <2> QED
    BY <1>2, <2>2, <2>3 DEF To
<1>5. ASSUME NEW r \in conf.trace, NEW c \in Caches
      PROVE  To(c, r) \in CallRecs
  <2> DEFINE t == r.type
             a == r.addr
             n == r.size
  <2>1. t \in Types /\ a \in Nat /\ n \in Nat /\ (n = 0 => t \in {"COPYB", "INVAL"}) /\ r = Reference(t, a, n)
    BY <1>1 DEF Types
  <2> HIDE DEF t, a, n
  <2>2. r \in OkRefs
    BY <2>1, ReferenceFacts
  <2>3. ~r.split /\ ~r.prefetch
    BY <2>1 DEF Reference
  <2> QED
    BY <1>2, <2>2, <2>3 DEF To
<1> QED
  BY <1>1, <1>3, <1>4, <1>5

\* A concatenation of calls.
LEMMA MoreCalls ==
  ASSUME NEW p \in Seq(CallRecs), NEW q \in Seq(CallRecs)
  PROVE  p \o q \in Seq(CallRecs)
  OBVIOUS

\* Every step of the programs and of the library keeps the invariant.
LEMMA CachesNext ==
  ASSUME CachesInv, [Next]_vars
  PROVE  CachesInv'
<1>1. /\ TreeInv /\ calls \in Seq(CallRecs) /\ flcount \in 0 .. conf.flushcount /\ done \in BOOLEAN
      /\ conf \in Configs
  BY DEF CachesInv, TreeInv
<1>2. /\ conf.ci \in Caches /\ conf.cd \in Caches /\ conf.flushcount \in Nat
      /\ \A t \in {"READ", "WRITE"}, a \in Nat, c \in Caches :
              [cache |-> c, ref |-> Reference(t, a, WordSize)] \in CallRecs
      /\ \A t \in {"COPYB", "INVAL"}, c \in Caches : To(c, WholeCache(t)) \in CallRecs
      /\ \A r \in conf.trace, c \in Caches : To(c, r) \in CallRecs
  BY <1>1, CallFacts
<1>3. conf' = conf => CallRecs' = CallRecs
  BY DEF CallRecs, Caches
<1>4. ASSUME Execute PROVE CachesInv'
  <2>1. PICK pc \in conf.code, operands \in Seq(CallRecs) : Instruction(pc, operands)
    <3>1. conf.code \subseteq Nat /\ conf.data \subseteq Nat /\ WordSize \in Nat \ {0}
      BY <1>1, ProgramsAssumption
    <3>2. \A a \in conf.data : a \in Nat /\ Aligned(a) \in Nat
      <4> SUFFICES ASSUME NEW a \in conf.data PROVE a \in Nat /\ Aligned(a) \in Nat
        OBVIOUS
      <4>1. a \in Nat /\ a - (a % WordSize) \in 0 .. a
        BY <3>1, Multiples
      <4> QED
        BY <4>1 DEF Aligned
    <3>3. \A a \in conf.data : /\ Load(a) \in Seq(CallRecs) /\ Store(a) \in Seq(CallRecs)
                               /\ LoadPart(a) \in Seq(CallRecs) /\ StorePart(a) \in Seq(CallRecs)
      <4> SUFFICES ASSUME NEW a \in conf.data
                   PROVE /\ Load(a) \in Seq(CallRecs) /\ Store(a) \in Seq(CallRecs)
                         /\ LoadPart(a) \in Seq(CallRecs) /\ StorePart(a) \in Seq(CallRecs)
        OBVIOUS
      <4>1. /\ doread(a, conf.cd) \in CallRecs /\ dowrite(a, conf.cd) \in CallRecs
            /\ doread(Aligned(a), conf.cd) \in CallRecs /\ dowrite(Aligned(a), conf.cd) \in CallRecs
        BY <1>2, <3>2 DEF doread, dowrite
      <4> QED
        BY <4>1 DEF Load, Store, LoadPart, StorePart
    <3>4. PICK pc \in conf.code :
             \/ Instruction(pc, <<>>)
             \/ \E a \in conf.data :
                  Instruction(pc, Load(a)) \/ Instruction(pc, Store(a)) \/ Instruction(pc, LoadPart(a))
                    \/ Instruction(pc, StorePart(a))
      BY <1>4, Zenon DEF Execute
    <3>5. <<>> \in Seq(CallRecs)
      OBVIOUS
    <3> QED
      BY <3>3, <3>4, <3>5
  <2>2. /\ calls' = <<doread(pc, conf.ci)>> \o operands
        /\ UNCHANGED <<conf, stack, pending, seen, newest, flcount, done>>
    BY <2>1, Zenon DEF Instruction
  <2>3. doread(pc, conf.ci) \in CallRecs
    <3>1. pc \in Nat
      BY <1>1, ProgramsAssumption
    <3> QED
      BY <3>1, <1>2 DEF doread
  <2>4. calls' \in Seq(CallRecs)
    BY <2>1, <2>2, <2>3, MoreCalls
  <2>5. TreeInv'
    BY <1>1, <2>2, TreeAlone
  <2> QED
    BY <1>1, <1>3, <2>2, <2>4, <2>5 DEF CachesInv
<1>5. ASSUME NEW r \in conf.trace, TraceItem(r) PROVE CachesInv'
  <2> DEFINE item == CASE r.type = "INSTRN" -> <<To(conf.ci, r)>>
                       [] r.type = "INVAL" -> <<To(conf.ci, r), To(conf.cd, r)>>
                       [] OTHER -> <<To(conf.cd, r)>>
             flush == IF flcount = 1 THEN Flush ELSE <<>>
  <2>1. /\ calls' = item \o flush
        /\ flcount' = IF flcount = 1 THEN conf.flushcount ELSE IF flcount > 1 THEN flcount - 1 ELSE 0
        /\ UNCHANGED <<conf, stack, pending, seen, newest, done>>
    BY <1>5, Zenon DEF TraceItem
  <2>2. item \in Seq(CallRecs)
    <3>1. To(conf.ci, r) \in CallRecs /\ To(conf.cd, r) \in CallRecs
      BY <1>2
    <3> DEFINE x == To(conf.ci, r)
               y == To(conf.cd, r)
    <3> HIDE DEF x, y
    <3>2. item = <<x>> \/ item = <<x, y>> \/ item = <<y>>
      BY DEF x, y
    <3>3. x \in CallRecs /\ y \in CallRecs
      BY <3>1 DEF x, y
    <3>4. <<x>> \in Seq(CallRecs) /\ <<y>> \in Seq(CallRecs) /\ <<x, y>> \in Seq(CallRecs)
      BY <3>3
    <3> HIDE DEF item
    <3> QED
      BY <3>2, <3>4
  <2>3. flush \in Seq(CallRecs)
    <3>1. /\ To(conf.cd, WholeCache("COPYB")) \in CallRecs /\ To(conf.ci, WholeCache("INVAL")) \in CallRecs
          /\ To(conf.cd, WholeCache("INVAL")) \in CallRecs
      BY <1>2
    <3>2. Flush \in Seq(CallRecs)
      BY <3>1 DEF Flush
    <3> QED
      BY <3>2
  <2>4. flcount' \in 0 .. conf.flushcount
    BY <1>1, <1>2, <2>1
  <2>5. calls' \in Seq(CallRecs)
    <3> HIDE DEF item, flush
    <3> QED
      BY <2>1, <2>2, <2>3, MoreCalls
  <2>6. TreeInv'
    BY <1>1, <2>1, TreeAlone
  <2> HIDE DEF item, flush
  <2> QED
    BY <1>1, <1>3, <2>1, <2>4, <2>5, <2>6 DEF CachesInv
<1>6. ASSUME TraceEnds PROVE CachesInv'
  <2>1. /\ calls' = <<To(conf.cd, WholeCache("COPYB"))>> /\ done' = TRUE
        /\ UNCHANGED <<conf, stack, pending, seen, newest, flcount>>
    BY <1>6, Zenon DEF TraceEnds
  <2>2. calls' \in Seq(CallRecs)
    BY <1>2, <2>1
  <2>3. TreeInv'
    BY <1>1, <2>1, TreeAlone
  <2> QED
    BY <1>1, <1>3, <2>1, <2>2, <2>3 DEF CachesInv
<1>7. ASSUME Call PROVE CachesInv'
  <2>1. /\ calls # <<>> /\ d4ref(Head(calls).cache, Head(calls).ref, pending, Head(calls).cache)
        /\ calls' = Tail(calls) /\ flcount' = flcount /\ done' = done
    BY <1>7, Zenon DEF Call
  <2> DEFINE h == Head(calls)
  <2>2. h \in CallRecs /\ Tail(calls) \in Seq(CallRecs)
    BY <1>1, <2>1
  <2> HIDE DEF h
  <2>3. h.cache \in Caches /\ h.ref \in OkRefs /\ h.ref.split = FALSE
    <3>1. h \in [cache : Caches, ref : OkRefs] /\ ~h.ref.split
      BY <2>2 DEF CallRecs
    <3>2. h.cache \in Caches /\ h.ref \in OkRefs
      BY <3>1
    <3>3. h.ref.split \in BOOLEAN
      BY <3>2, RefFacts
    <3> QED
      BY <3>1, <3>2, <3>3
  <2>4. PendOk(pending)
    BY <1>1 DEF TreeInv, CacheInv, PendOk
  <2>5. d4ref(h.cache, h.ref, pending, h.cache)
    BY <2>1, Zenon DEF h
  <2>6. TreeInv' /\ conf' = conf
    BY <1>1, <2>3, <2>4, <2>5, TreeStep
  <2> QED
    BY <1>1, <1>3, <2>1, <2>2, <2>6 DEF CachesInv
<1>8. ASSUME Continue PROVE CachesInv'
  <2>1. PICK c \in Caches : d4_dopending(c)
    BY <1>8, Zenon DEF Continue
  <2>2. UNCHANGED driver
    BY <1>8, Zenon DEF Continue
  <2>3. TreeInv' /\ conf' = conf
    BY <1>1, <2>1, PendingStep
  <2> QED
    BY <1>1, <1>3, <2>2, <2>3 DEF CachesInv, driver
<1>9. ASSUME UNCHANGED vars PROVE CachesInv'
  <2>1. UNCHANGED <<conf, stack, pending, seen, newest>> /\ UNCHANGED <<calls, flcount, done>>
    BY <1>9 DEF vars
  <2>2. TreeInv'
    BY <1>1, <2>1, TreeAlone
  <2> QED
    BY <1>1, <1>3, <2>1, <2>2 DEF CachesInv
<1>10. Finished => UNCHANGED vars
  BY Zenon DEF Finished
<1> QED
  BY <1>4, <1>5, <1>6, <1>7, <1>8, <1>9, <1>10, Zenon DEF Next

\* The invariant holds throughout.
LEMMA CachesInvariance == Spec => []CachesInv
<1>1. Init => CachesInv
  BY InitTree
<1>2. CachesInv /\ [Next]_vars => CachesInv'
  BY CachesNext
<1> QED
  BY <1>1, <1>2, PTL DEF Spec

\* A stack of the invariant, node by node.
LEMMA StackNodes ==
  ASSUME CachesInv, NEW c \in Caches, NEW s \in Stacks(c)
  PROVE  LET n == StackSize(c, s)
             q == stack[c][s]
         IN /\ n \in Nat \ {0} /\ DOMAIN q = 1 .. n /\ Len(q) = n /\ Shape(q, n)
            /\ \A k \in 1 .. n : Fits(c, s, q[k])
<1> DEFINE n == StackSize(c, s)
           q == stack[c][s]
<1>1. conf \in Configs /\ CacheInv(c)
  BY DEF CachesInv, TreeInv
<1>2. n \in Nat \ {0} /\ StackInv(c, s, q)
  BY <1>1, SizeFacts DEF CacheInv
<1>3. Shape(q, n) /\ \A k \in 1 .. n : Fits(c, s, q[k])
  BY <1>2 DEF StackInv
<1> HIDE DEF n, q
<1>4. DOMAIN q = 1 .. n /\ Len(q) = n
  BY <1>2, <1>3, LenFacts DEF Shape
<1> QED
  BY <1>2, <1>3, <1>4 DEF n, q

\* Every node is of a block of its cache, and every pending reference is to whole
\* sub-blocks of the cache that asks for it, the rest of a reference it has cut at
\* a block, or something it passes on, whatever the tree of caches and the program.
THEOREM CachesTyped == Spec => []TypeOK
<1>1. ASSUME CachesInv PROVE TypeOK
  <2>1. /\ conf \in Configs /\ newest \in [Addresses -> Caches \cup {Mem, Nobody}]
        /\ flcount \in 0 .. conf.flushcount /\ done \in BOOLEAN
        /\ \A c \in Caches : CacheInv(c)
    BY <1>1 DEF CachesInv, TreeInv
  <2>2. ASSUME NEW c \in Caches, NEW s \in Stacks(c)
        PROVE  /\ DOMAIN stack[c][s] = 1 .. StackSize(c, s)
               /\ \A k \in 1 .. StackSize(c, s) :
                    LET n == stack[c][s][k] IN
                    /\ n.block \in Nat /\ Block(c, n.block) = n.block
                    /\ \A a \in n.valid \cup n.referenced \cup n.dirty :
                         SubBlock(c, a) = a /\ Block(c, a) = n.block
    <3>1. /\ DOMAIN stack[c][s] = 1 .. StackSize(c, s)
          /\ \A k \in 1 .. StackSize(c, s) : Fits(c, s, stack[c][s][k])
      BY <1>1, StackNodes
    <3> QED
      BY <3>1 DEF Fits, NodeRec
  <2>3. ASSUME NEW c \in Caches, NEW k \in DOMAIN pending[c]
        PROVE  LET m == pending[c][k] IN
               /\ m.addr \in Int /\ m.size \in Nat
               /\ m.type \in {"READ", "INSTRN", "WRITE", "COPYB", "INVAL"}
               /\ m.size = 0 => m.type \in {"COPYB", "INVAL"}
               /\ WholeOrPassed(c, m)
    <3>1. /\ pending[c] \in Seq(OkRefs)
          /\ \A j \in 1 .. Len(pending[c]) : WholeOrPassed(c, pending[c][j])
      BY <2>1 DEF CacheInv, Asked
    <3>2. pending[c][k] \in OkRefs /\ WholeOrPassed(c, pending[c][k])
      BY <3>1
    <3> QED
      BY <3>2 DEF OkRefs, Types
  <2>4. ASSUME NEW c \in Caches, NEW a \in seen[c] PROVE P(c).ccc /\ SubBlock(c, a) = a
    BY <2>1 DEF CacheInv
  <2> QED
    BY <2>1, <2>2, <2>3, <2>4 DEF TypeOK
<1> QED
  BY <1>1, CachesInvariance, PTL

\* d4.h, "The valid ones are always first": in every stack of every cache, through
\* every replacement, write-back, copy-back and invalidation.
THEOREM ValidNodesFirst == Spec => []ValidFirst
<1>1. ASSUME CachesInv, NEW c \in Caches, NEW s \in Stacks(c) PROVE StackOK(c, s)
  <2> DEFINE n == StackSize(c, s)
             q == stack[c][s]
  <2>1. /\ n \in Nat \ {0} /\ DOMAIN q = 1 .. n /\ Len(q) = n /\ Shape(q, n)
        /\ \A k \in 1 .. n : Fits(c, s, q[k])
    BY <1>1, StackNodes
  <2> HIDE DEF n, q
  <2>2. /\ q[n].valid = {}
        /\ \A j, k \in 1 .. n : j < k /\ q[j].valid = {} => q[k].valid = {}
        /\ \A j, k \in 1 .. n : j # k /\ q[j].valid # {} /\ q[k].valid # {} => q[j].block # q[k].block
    BY <2>1 DEF Shape
  <2>3. \A k \in 1 .. Len(q) - 1 : q[k].valid = {} => q[k + 1].valid = {}
    BY <2>1, <2>2
  <2>4. \A k \in DOMAIN q : q[k].valid # {} =>
          /\ s # FullStack(c) => SetOf(c, q[k].block) = s
          /\ \A a \in q[k].valid : Block(c, a) = q[k].block
          /\ q[k].dirty \subseteq q[k].valid
    BY <2>1 DEF Fits
  <2> QED
    BY <2>1, <2>2, <2>3, <2>4 DEF StackOK, q
<1>2. CachesInv => ValidFirst
  BY <1>1 DEF ValidFirst
<1> QED
  BY <1>2, CachesInvariance, PTL

\* With D4F_CCC, no sub-block is in the cache or in the fully associative one that
\* the infinite cache has not seen.
THEOREM CachedSeen == Spec => []CachedIsSeen
<1>1. ASSUME CachesInv, NEW c \in Caches, P(c).ccc, NEW n \in Nodes(c) PROVE n.valid \subseteq seen[c]
  <2>1. PICK s \in Stacks(c) : n \in {stack[c][s][k] : k \in DOMAIN stack[c][s]}
    BY <1>1 DEF Nodes
  <2>2. DOMAIN stack[c][s] = 1 .. StackSize(c, s)
    BY <1>1, StackNodes
  <2>3. PICK k \in 1 .. StackSize(c, s) : n = stack[c][s][k]
    BY <2>1, <2>2
  <2>4. Valids(c, stack[c]) \subseteq seen[c]
    BY <1>1 DEF CachesInv, TreeInv, CacheInv
  <2> QED
    BY <2>3, <2>4, ValidsFacts
<1>2. CachesInv => CachedIsSeen
  BY <1>1 DEF CachedIsSeen
<1> QED
  BY <1>2, CachesInvariance, PTL

-----------------------------------------------------------------------------
(* Where the newest bytes are.                                               *)

\* u divides v: a number is as far below the next multiple of v as the multiple
\* of u it follows, or farther.
LEMMA Nesting ==
  ASSUME NEW u \in Nat \ {0}, NEW v \in Nat \ {0}, v % u = 0, NEW a \in Nat, NEW x \in Nat,
         a - (a % u) = x - (x % u)
  PROVE  a - (a % v) = x - (x % v)
<1> DEFINE w == v \div u
           i == a \div u
           j == a \div v
           y == x \div u
<1>1. w \in Nat /\ v = u * w
  <2>1. w \in Nat /\ v = u * w + (v % u)
    BY Multiples
  <2> HIDE DEF w
  <2>2. u * w \in Nat
    BY <2>1, SMTT(30)
  <2> QED
    BY <2>1, <2>2
<1>2. /\ i \in Nat /\ a - (a % u) = u * i /\ a < u * i + u /\ u * i <= a /\ u * i \in Nat
  <2>1. a - (a % u) \in 0 .. a /\ a - (a % u) = u * i /\ i \in Nat /\ a < u * i + u
    BY Multiples
  <2> HIDE DEF i
  <2> QED
    BY <2>1
<1>3. /\ j \in Nat /\ a - (a % v) = v * j /\ a < v * j + v /\ v * j <= a /\ v * j \in Nat
  <2>1. a - (a % v) \in 0 .. a /\ a - (a % v) = v * j /\ j \in Nat /\ a < v * j + v
    BY Multiples
  <2> HIDE DEF j
  <2> QED
    BY <2>1
<1>4. u * i <= x /\ x < u * i + u
  <2>1. x - (x % u) \in 0 .. x /\ x - (x % u) = u * y /\ y \in Nat /\ x < u * y + u
    BY Multiples
  <2>2. u * y = u * i
    BY <2>1, <1>2
  <2> HIDE DEF y, i
  <2> QED
    BY <2>1, <2>2, <1>2
<1> HIDE DEF i, j, y, w
<1>5. ASSUME NEW p \in Nat, NEW q \in Nat, u * p < u * q + u PROVE p <= q
  <2> SUFFICES ASSUME q < p PROVE FALSE
    OBVIOUS
  <2>1. PICK e \in Nat : p = q + 1 + e
    <3>1. p - q - 1 \in Nat /\ p = q + 1 + (p - q - 1)
      OBVIOUS
    <3> QED
      BY <3>1
  <2>2. u * p = u * q + u + u * e /\ u * e \in Nat /\ u * q \in Nat
    BY <2>1, SMTT(30)
  <2> QED
    BY <1>5, <2>2
<1>6. ASSUME NEW p \in Nat, NEW q \in Nat, p <= q PROVE u * p <= u * q
  <2>1. PICK e \in Nat : q = p + e
    <3>1. q - p \in Nat /\ q = p + (q - p)
      BY <1>6
    <3> QED
      BY <3>1
  <2>2. u * q = u * p + u * e /\ u * e \in Nat /\ u * p \in Nat
    BY <2>1, SMTT(30)
  <2> QED
    BY <2>2
<1>7. u * (w * j) = v * j /\ w * j \in Nat /\ u * (w * j + w) = v * j + v
  BY <1>1, <1>3, SMTT(30)
<1>8. v * j <= x
  <2>1. u * (w * j) < u * i + u
    BY <1>2, <1>3, <1>7
  <2>2. w * j <= i
    BY <2>1, <1>2, <1>7, <1>5
  <2>3. u * (w * j) <= u * i
    BY <2>2, <1>2, <1>7, <1>6
  <2> QED
    BY <2>3, <1>2, <1>3, <1>4, <1>7
<1>9. x < v * j + v
  <2> DEFINE g == w * j + w
  <2>1. g \in Nat /\ u * g = v * j + v
    BY <1>1, <1>7
  <2> HIDE DEF g
  <2>2. i < g
    <3> SUFFICES ASSUME g <= i PROVE FALSE
      BY <1>2, <2>1
    <3>1. u * g <= u * i
      BY <2>1, <1>2, <1>6
    <3> QED
      BY <3>1, <2>1, <1>2, <1>3
  <2>3. i + 1 \in Nat /\ i + 1 <= g
    BY <2>1, <2>2, <1>2
  <2>4. u * (i + 1) <= u * g
    BY <2>1, <2>3, <1>6
  <2>5. u * (i + 1) = u * i + u
    BY <1>2, SMTT(30)
  <2> QED
    BY <2>1, <2>4, <2>5, <1>2, <1>3, <1>4
<1>10. x \div v = j /\ x - (x % v) = v * j
  BY <1>3, <1>8, <1>9, MultipleOf
<1> QED
  BY <1>3, <1>10

\* The multiple of n at or below a.
Below(a, n) == a - (a % n)
Divides(u, v) == v % u = 0

\* The same, for all of them at once.
LEMMA NestingAll ==
  \A u, v \in Nat \ {0} : Divides(u, v) =>
    \A a, x \in Nat : Below(a, u) = Below(x, u) => Below(a, v) = Below(x, v)
  BY Nesting DEF Below, Divides

\* What goes downstream within a block is within a block there.
LEMMA NestedBlock ==
  ASSUME Nested, conf \in Configs, NEW c \in Caches, P(c).down \in Caches, NEW m \in OkRefs,
         m.size # 0, OneBlock(c, m)
  PROVE  OneBlock(P(c).down, m)
<1> DEFINE d == P(c).down
           u == P(c).block
           v == P(d).block
<1>1. u \in Nat \ {0} /\ v \in Nat \ {0}
  BY CacheFacts
<1>2. Divides(u, v)
  <2>1. d # Mem
    BY TreeAssumption DEF Caches
  <2>2. conf.cache[c].down # Mem => conf.cache[conf.cache[c].down].block % conf.cache[c].block = 0
    BY DEF Nested, Caches
  <2> QED
    BY <2>1, <2>2 DEF P, Divides
<1>3. \A x : Block(c, x) = Below(x, u) /\ Block(d, x) = Below(x, v)
  BY DEF Block, Below
<1> HIDE DEF d, u, v
<1>4. m.addr \in Nat /\ \A x \in Bytes(m) : x \in Nat
  BY RefFacts
<1>5. ASSUME NEW x \in Bytes(m) PROVE Block(d, x) = Block(d, m.addr)
  <2>1. Block(c, x) = Block(c, m.addr)
    BY DEF OneBlock
  <2> DEFINE a == m.addr
  <2>2. Below(a, u) = Below(x, u) /\ x \in Nat /\ a \in Nat
    BY <2>1, <1>3, <1>4
  <2> HIDE DEF a
  <2>3. Below(a, v) = Below(x, v)
    BY <2>2, <1>1, <1>2, NestingAll
  <2> QED
    BY <2>3, <1>3 DEF a
<1>6. OneBlock(d, m)
  BY <1>5 DEF OneBlock
<1> QED
  BY <1>6 DEF d

\* Every byte is where it was last written to, or on its way.
HeldAll == \A c \in Caches : HeldInv(c)

\* What a step takes off the stacks of pending references: at most the reference
\* m it is about, from a cache above.
Taken(c, m, pend, from) ==
  \A d \in Caches : \A a : Written(pending[d], a) =>
    \/ Written(pend[d], a)
    \/ /\ d = from /\ d # c /\ m.type = "WRITE" /\ a \in Bytes(m)
       /\ c = Mem \/ OneBlock(c, m)

\* A step at a cache: the bytes it takes are there, or on their way from there.
LEMMA EffectHeld ==
  ASSUME TreeInv, HeldAll, NEW c \in Caches, NEW m, NEW pend, PendOk(pend), NEW from,
         NEW row, NEW requests, NEW new, Effect(c, m, pend, from, row, requests, new),
         Taken(c, m, pend, from)
  PROVE  HeldAll'
<1>1. /\ conf \in Configs
      /\ stack = [d \in Caches |-> stack[d]]
      /\ pend = [d \in Caches |-> pend[d]] /\ \A d \in Caches : Asked(d, pend[d])
  BY DEF TreeInv, PendOk
<1>2. /\ stack' = [stack EXCEPT ![c] = row]
      /\ pending' = [pend EXCEPT ![c] = requests \o @]
      /\ conf' = conf /\ Asked(c, requests)
  BY Zenon DEF Effect
<1>3. /\ \A a \in Addresses : newest'[a] = c =>
           \/ Written(requests, a) \/ DirtyIn(c, row, a)
           \/ newest[a] = c /\ ~DirtyIn(c, stack[c], a)
      /\ \A a \in Addresses : newest'[a] \in {newest[a], c, Nobody}
      /\ m.type = "WRITE" /\ OneBlock(c, m) =>
           \A a \in Addresses : a \in Bytes(m) /\ newest[a] = from => newest'[a] = c
  BY Zenon DEF Effect
<1>4. Caches' = Caches /\ \A d, r, a : DirtyIn(d, r, a)' <=> DirtyIn(d, r, a)
  BY <1>2, SameConf, SameRow
<1>5. /\ stack'[c] = row /\ pending'[c] = requests \o pend[c]
      /\ \A d \in Caches : d # c => stack'[d] = stack[d] /\ pending'[d] = pend[d]
  BY <1>1, <1>2
<1>6. c # Mem /\ Nobody \notin Caches
  BY <1>1, TreeAssumption DEF Caches
<1>7. \A a : Written(requests, a) \/ Written(pend[c], a) => Written(pending'[c], a)
  BY <1>1, <1>2, <1>5, AskedTogether
<1>8. \A d \in Caches : \A a \in Addresses : newest[a] = d => DirtyIn(d, stack[d], a) \/ Written(pending[d], a)
  BY DEF HeldAll, HeldInv
<1>9. ASSUME NEW a \in Addresses, newest'[a] = c
      PROVE  DirtyIn(c, row, a) \/ Written(pending'[c], a)
  <2>1. CASE Written(requests, a) \/ DirtyIn(c, row, a)
    BY <2>1, <1>7
  <2>2. CASE newest[a] = c /\ ~DirtyIn(c, stack[c], a)
    <3>1. Written(pending[c], a)
      BY <2>2, <1>8
    <3>2. Written(pend[c], a)
      BY <3>1 DEF Taken
    <3> QED
      BY <3>2, <1>7
  <2> QED
    BY <2>1, <2>2, <1>3, <1>9
<1>10. ASSUME NEW d \in Caches, d # c, NEW a \in Addresses, newest'[a] = d
       PROVE  DirtyIn(d, stack[d], a) \/ Written(pending'[d], a)
  <2>1. newest[a] = d
    BY <1>3, <1>6, <1>10
  <2>2. CASE Written(pending[d], a)
    <3>1. CASE Written(pend[d], a)
      BY <3>1, <1>5, <1>10
    <3>2. CASE d = from /\ m.type = "WRITE" /\ a \in Bytes(m) /\ OneBlock(c, m)
      <4>1. newest'[a] = c
        BY <3>2, <2>1, <1>3
      <4> QED
        BY <4>1, <1>10
    <3> QED
      BY <3>1, <3>2, <2>2, <1>6 DEF Taken
  <2> QED
    BY <2>1, <2>2, <1>8
<1>11. ASSUME NEW d \in Caches PROVE HeldInv(d)'
  <2>1. CASE d = c
    BY <2>1, <1>4, <1>5, <1>9 DEF HeldInv
  <2>2. CASE d # c
    BY <2>2, <1>4, <1>5, <1>10 DEF HeldInv
  <2> QED
    BY <2>1, <2>2
<1> QED
  BY <1>4, <1>11 DEF HeldAll

\* What is written to the memory is taken by it.
LEMMA MemoryHeld ==
  ASSUME TreeInv, HeldAll, NEW m, NEW pend, PendOk(pend), NEW from,
         conf' = conf, stack' = stack, pending' = pend, Moves(Mem, m, from),
         Taken(Mem, m, pend, from)
  PROVE  HeldAll'
<1>1. conf \in Configs /\ newest \in [Addresses -> Caches \cup {Mem, Nobody}]
  BY DEF TreeInv
<1>2. /\ \A a \in Addresses : newest'[a] \in {newest[a], Mem}
      /\ m.type = "WRITE" => \A a \in Addresses : a \in Bytes(m) /\ newest[a] = from => newest'[a] = Mem
  BY <1>1, MovesFacts
<1>3. Mem \notin Caches
  BY <1>1, TreeAssumption DEF Caches
<1>4. /\ \A d : Caches' = Caches
      /\ \A d, r, a : DirtyIn(d, r, a)' <=> DirtyIn(d, r, a)
  BY SameConf, SameRow
<1>5. \A d \in Caches : \A a \in Addresses : newest[a] = d => DirtyIn(d, stack[d], a) \/ Written(pending[d], a)
  BY DEF HeldAll, HeldInv
<1>6. ASSUME NEW d \in Caches, NEW a \in Addresses, newest'[a] = d
      PROVE  DirtyIn(d, stack[d], a) \/ Written(pend[d], a)
  <2>1. newest[a] = d /\ newest'[a] # Mem
    BY <1>2, <1>3, <1>6
  <2>2. CASE Written(pending[d], a)
    <3>1. ~(d = from /\ m.type = "WRITE" /\ a \in Bytes(m))
      BY <2>1, <1>2
    <3> QED
      BY <2>2, <3>1 DEF Taken
  <2> QED
    BY <2>1, <2>2, <1>5
<1>7. ASSUME NEW d \in Caches PROVE HeldInv(d)'
  BY <1>4, <1>6 DEF HeldInv
<1> QED
  BY <1>4, <1>7 DEF HeldAll

\* d4ref, wherever it is called.
LEMMA HeldStep ==
  ASSUME TreeInv, HeldAll, NEW c \in Caches \cup {Mem}, NEW m \in OkRefs, m.split = FALSE,
         NEW pend, PendOk(pend), NEW from, d4ref(c, m, pend, from), Taken(c, m, pend, from)
  PROVE  HeldAll'
<1>1. CASE c \in Caches
  <2>1. PICK row, requests, new : Effect(c, m, pend, from, row, requests, new)
    BY <1>1, RefStep
  <2> QED
    BY <1>1, <2>1, EffectHeld
<1>2. CASE c \notin Caches
  <2>1. c = Mem
    BY <1>2
  <2>2. /\ conf' = conf /\ stack' = stack /\ pending' = pend
        /\ Moves(Mem, m, from)
    BY <2>1, Zenon DEF d4ref
  <2>3. Taken(Mem, m, pend, from)
    BY <2>1
  <2> QED
    BY <2>2, <2>3, MemoryHeld
<1> QED
  BY <1>1, <1>2

\* The bytes that leave a stack of pending references go to the cache downstream,
\* within one of its blocks, or to the memory.
LEMMA PendingHeld ==
  ASSUME Nested, TreeInv, HeldAll, NEW c \in Caches, d4_dopending(c)
  PROVE  HeldAll'
<1> DEFINE m == Head(pending[c])
           to == IF m.prefetch \/ m.split THEN c ELSE P(c).down
           pend == [pending EXCEPT ![c] = Tail(@)]
           r == [m EXCEPT !.split = FALSE]
<1>1. pending[c] # <<>> /\ d4ref(to, r, pend, c)
  BY Zenon DEF d4_dopending
<1>2. /\ m \in OkRefs /\ PendOk(pend)
      /\ m.type = "WRITE" /\ ~m.split => OneBlock(c, m)
      /\ pend[c] = Tail(pending[c]) /\ \A d \in Caches : d # c => pend[d] = pending[d]
      /\ \A a : Written(pending[c], a) =>
           Written(pend[c], a) \/ (m.type = "WRITE" /\ ~m.split /\ a \in Bytes(m))
  BY <1>1, PoppedFacts
<1>3. conf \in Configs /\ P(c).down \in Caches \cup {Mem} /\ (P(c).down # Mem => P(c).down # c)
  <2>1. conf \in Configs
    BY DEF TreeInv
  <2>2. P(c).down \in Caches \cup {Mem}
    BY <2>1, CacheFacts
  <2>3. P(c).down # Mem => P(P(c).down).cacheid < P(c).cacheid /\ P(c).cacheid \in Nat
    BY <2>1, TreeAssumption DEF Caches, P
  <2> QED
    BY <2>1, <2>2, <2>3
<1>4. to = (IF m.prefetch \/ m.split THEN c ELSE P(c).down) /\ to \in Caches \cup {Mem}
  BY <1>3
<1> HIDE DEF to, pend, m
<1>5. r \in OkRefs /\ r.split = FALSE /\ r.type = m.type /\ r.addr = m.addr /\ r.size = m.size
  <2>1. r \in OkRefs
    BY <1>2, RefFacts
  <2> QED
    BY <2>1, <1>2 DEF OkRefs
<1>6. Bytes(r) = Bytes(m) /\ \A d : OneBlock(d, r) <=> OneBlock(d, m)
  BY <1>5 DEF Bytes, OneBlock
<1> HIDE DEF r
<1>7. ASSUME m.type = "WRITE", ~m.split
      PROVE  to # c /\ (to = Mem \/ OneBlock(to, r))
  <2>1. to = P(c).down /\ m.size # 0
    BY <1>2, <1>4, <1>7 DEF OkRefs
  <2>2. CASE to = Mem
    <3>1. Mem \notin Caches
      BY <1>3, TreeAssumption DEF Caches
    <3> QED
      BY <2>2, <3>1
  <2>3. CASE to # Mem
    <3>1. to # c /\ P(c).down \in Caches
      BY <2>1, <2>3, <1>3
    <3>2. OneBlock(P(c).down, m)
      BY <1>2, <1>3, <1>7, <2>1, <3>1, NestedBlock
    <3> QED
      BY <3>1, <3>2, <2>1, <1>6
  <2> QED
    BY <2>2, <2>3
<1>8. Taken(to, r, pend, c)
  <2>1. ASSUME NEW d \in Caches, NEW a, Written(pending[d], a), ~Written(pend[d], a)
        PROVE  /\ d = c /\ d # to /\ r.type = "WRITE" /\ a \in Bytes(r)
               /\ to = Mem \/ OneBlock(to, r)
    <3>1. d = c
      BY <1>2, <2>1
    <3>2. m.type = "WRITE" /\ ~m.split /\ a \in Bytes(m)
      BY <1>2, <2>1, <3>1
    <3> QED
      BY <3>1, <3>2, <1>5, <1>6, <1>7
  <2> QED
    BY <2>1, Zenon DEF Taken
<1> QED
  BY <1>1, <1>2, <1>4, <1>5, <1>8, HeldStep

\* A step that leaves the tree alone leaves the bytes where they are.
LEMMA HeldAlone ==
  ASSUME HeldAll, UNCHANGED <<conf, stack, pending, seen, newest>>
  PROVE  HeldAll'
<1>1. /\ conf' = conf /\ stack' = stack /\ pending' = pending /\ newest' = newest
  OBVIOUS
<1>2. /\ \A d : Caches' = Caches
      /\ \A d, r, a : DirtyIn(d, r, a)' <=> DirtyIn(d, r, a)
  BY <1>1, SameConf, SameRow
<1>3. \A d \in Caches : HeldInv(d)'
  BY <1>1, <1>2 DEF HeldAll, HeldInv
<1> QED
  BY <1>2, <1>3 DEF HeldAll

\* No step loses the newest bytes.
LEMMA HeldNext ==
  ASSUME Nested, CachesInv, HeldAll, [Next]_vars
  PROVE  HeldAll'
<1>1. TreeInv /\ calls \in Seq(CallRecs)
  BY DEF CachesInv
<1>2. ASSUME UNCHANGED <<conf, stack, pending, seen, newest>> PROVE HeldAll'
  BY <1>2, HeldAlone
<1>3. CASE Execute
  <2>1. PICK pc, operands : Instruction(pc, operands)
    BY <1>3, Zenon DEF Execute
  <2>2. UNCHANGED <<conf, stack, pending, seen, newest>>
    BY <2>1 DEF Instruction
  <2> QED
    BY <1>2, <2>2
<1>4. ASSUME NEW r \in conf.trace, TraceItem(r) PROVE HeldAll'
  <2>1. UNCHANGED <<conf, stack, pending, seen, newest>>
    BY <1>4, Zenon DEF TraceItem
  <2> QED
    BY <1>2, <2>1
<1>5. CASE TraceEnds
  <2>1. UNCHANGED <<conf, stack, pending, seen, newest>>
    BY <1>5, Zenon DEF TraceEnds
  <2> QED
    BY <1>2, <2>1
<1>6. CASE Call
  <2> DEFINE h == Head(calls)
  <2>1. calls # <<>> /\ d4ref(h.cache, h.ref, pending, h.cache)
    BY <1>6, Zenon DEF Call
  <2>2. h \in CallRecs
    BY <1>1, <2>1
  <2> HIDE DEF h
  <2>3. h.cache \in Caches /\ h.ref \in OkRefs /\ h.ref.split = FALSE
    <3>1. h \in [cache : Caches, ref : OkRefs] /\ ~h.ref.split
      BY <2>2 DEF CallRecs
    <3>2. h.cache \in Caches /\ h.ref \in OkRefs
      BY <3>1
    <3>3. h.ref.split \in BOOLEAN
      BY <3>2, RefFacts
    <3> QED
      BY <3>1, <3>2, <3>3
  <2>4. PendOk(pending)
    BY <1>1 DEF TreeInv, CacheInv, PendOk
  <2>5. Taken(h.cache, h.ref, pending, h.cache)
    BY DEF Taken
  <2> QED
    BY <1>1, <2>1, <2>3, <2>4, <2>5, HeldStep
<1>7. CASE Continue
  <2>1. PICK c \in Caches : d4_dopending(c)
    BY <1>7, Zenon DEF Continue
  <2> QED
    BY <1>1, <2>1, PendingHeld
<1>8. CASE UNCHANGED vars
  <2>1. UNCHANGED <<conf, stack, pending, seen, newest>>
    BY <1>8 DEF vars
  <2> QED
    BY <1>2, <2>1
<1>9. Finished => UNCHANGED vars
  BY Zenon DEF Finished
<1> QED
  BY <1>3, <1>4, <1>5, <1>6, <1>7, <1>8, <1>9, Zenon DEF Next

\* Everything is in the memory to begin with.
LEMMA HeldInit ==
  ASSUME Init
  PROVE  HeldAll
<1>1. conf \in Configs /\ newest = [a \in Addresses |-> Mem]
  BY DEF Init, d4setup
<1>2. Mem \notin Caches
  BY <1>1, TreeAssumption DEF Caches
<1> QED
  BY <1>1, <1>2 DEF HeldAll, HeldInv

\* A byte that was written and has not come to the memory, and that no invalidation
\* has dropped, is dirty in the cache it was last written to or on its way out of
\* it, whatever the tree of caches whose blocks do not shrink downstream.
THEOREM NewestBytesHeld ==
  ASSUME Nested
  PROVE  Spec => []NewestHeld
<1>1. Init => CachesInv /\ HeldAll
  BY InitTree, HeldInit
<1>2. CachesInv /\ HeldAll /\ [Next]_vars => (CachesInv /\ HeldAll)'
  BY CachesNext, HeldNext
<1>3. CachesInv /\ HeldAll => NewestHeld
  <2> SUFFICES ASSUME CachesInv, HeldAll, NEW a \in Addresses, newest[a] \in Caches
               PROVE  Holds(newest[a], a)
    BY DEF NewestHeld
  <2>1. PICK c \in Caches : c = newest[a]
    OBVIOUS
  <2>2. DirtyIn(c, stack[c], a) \/ Written(pending[c], a)
    BY <2>1 DEF HeldAll, HeldInv
  <2>3. CASE DirtyIn(c, stack[c], a)
    <3>1. PICK s \in Stacks(c) : \E k \in 1 .. StackSize(c, s) : SubBlock(c, a) \in Part(stack[c][s][k])
      BY <2>3 DEF DirtyIn
    <3>2. PICK k \in 1 .. StackSize(c, s) : SubBlock(c, a) \in Part(stack[c][s][k])
      BY <3>1
    <3>3. DOMAIN stack[c][s] = 1 .. StackSize(c, s)
      BY StackNodes
    <3>4. stack[c][s][k] \in Nodes(c)
      <4> DEFINE g == [t \in Stacks(c) |-> {stack[c][t][j] : j \in DOMAIN stack[c][t]}]
                 x == stack[c][s][k]
      <4>1. x \in g[s] /\ g[s] \in {g[t] : t \in Stacks(c)}
        BY <3>3
      <4>2. Nodes(c) = UNION {g[t] : t \in Stacks(c)}
        BY DEF Nodes
      <4> HIDE DEF g, x
      <4>3. x \in Nodes(c)
        BY <4>1, <4>2
      <4> QED
        BY <4>3 DEF x
    <3> QED
      BY <2>1, <3>2, <3>4 DEF Holds, Dirty, Part
  <2>4. CASE Written(pending[c], a)
    <3>1. PICK k \in 1 .. Len(pending[c]) :
            pending[c][k].type = "WRITE" /\ ~pending[c][k].split /\ a \in Bytes(pending[c][k])
      BY <2>4 DEF Written
    <3>2. pending[c] \in Seq(OkRefs)
      BY DEF CachesInv, TreeInv, CacheInv, Asked
    <3>3. DOMAIN pending[c] = 1 .. Len(pending[c])
      BY <3>2
    <3> QED
      BY <2>1, <3>1, <3>3 DEF Holds, Leaving
  <2> QED
    BY <2>2, <2>3, <2>4
<1> QED
  BY <1>1, <1>2, <1>3, PTL DEF Spec

-----------------------------------------------------------------------------
(* d4ref returns.                                                            *)

\* Everything that is pending in a tree of stacks is calm.
CalmOf(pend) == \A c \in Caches : \A k \in 1 .. Len(pend[c]) : Calm(c, pend[c][k])
CalmAll == CalmOf(pending)

\* It is a matter of the geometry of the cache.
LEMMA SameCalm ==
  ASSUME conf' = conf, NEW c, NEW m
  PROVE  Calm(c, m)' <=> Calm(c, m)
<1>1. \A a : Block(c, a)' = Block(c, a)
  BY SameAddresses
<1> QED
  BY <1>1 DEF Calm, Crosses

\* A reference and its rank, once it is taken from the stack.
LEMMA UnsplitFacts ==
  ASSUME NEW m \in OkRefs, NEW r, r = [m EXCEPT !.split = FALSE]
  PROVE  /\ r \in OkRefs /\ r.split = FALSE /\ r.prefetch = m.prefetch /\ Rank(r) = Rank(m)
         /\ \A c : Calm(c, m) => Calm(c, r)
<1>1. /\ r \in OkRefs /\ r.split = FALSE /\ r.prefetch = m.prefetch /\ r.type = m.type
      /\ r.addr = m.addr /\ r.size = m.size
  BY DEF OkRefs
<1>2. Rank(r) = Rank(m)
  BY <1>1 DEF Rank
<1>3. \A c : Calm(c, m) => Calm(c, r)
  BY <1>1 DEF Calm, Crosses
<1> QED
  BY <1>1, <1>2, <1>3

\* A step at a cache puts references that rank lower, or are for the cache
\* downstream, on top of what is pending there, and nothing elsewhere.
LEMMA LowerStep ==
  ASSUME TreeInv, NEW c \in Caches, NEW m \in OkRefs, m.split = FALSE, Calm(c, m),
         NEW pend, PendOk(pend), CalmOf(pend), NEW from, d4ref(c, m, pend, from)
  PROVE  /\ CalmAll'
         /\ \E r \in Seq(OkRefs) : Lower(c, m, r) /\ pending'[c] = r \o pend[c]
<1>1. PICK row, r, new : Effect(c, m, pend, from, row, r, new) /\ Lower(c, m, r)
  BY RefStep
<1>2. pending' = [pend EXCEPT ![c] = r \o @] /\ conf' = conf /\ Asked(c, r)
  BY <1>1, Zenon DEF Effect
<1>3. r \in Seq(OkRefs) /\ pend[c] \in Seq(OkRefs) /\ pend = [d \in Caches |-> pend[d]]
  BY <1>2 DEF Asked, PendOk
<1>4. pending'[c] = r \o pend[c] /\ \A d \in Caches : d # c => pending'[d] = pend[d]
  BY <1>2, <1>3
<1>5. ASSUME NEW k \in 1 .. Len(pending'[c]) PROVE Calm(c, pending'[c][k])
  <2> DEFINE q == pend[c]
             j == k - Len(r)
  <2>1. /\ Len(r \o q) = Len(r) + Len(q) /\ Len(r) \in Nat /\ Len(q) \in Nat
        /\ \A i \in 1 .. Len(r) : (r \o q)[i] = r[i]
        /\ \A i \in 1 .. Len(q) : (r \o q)[Len(r) + i] = q[i]
    BY <1>3
  <2>2. /\ \A i \in 1 .. Len(r) : Calm(c, r[i])
        /\ \A i \in 1 .. Len(q) : Calm(c, q[i])
    BY <1>1 DEF Lower, CalmOf
  <2> HIDE DEF q
  <2>3. CASE k \in 1 .. Len(r)
    BY <2>1, <2>2, <2>3, <1>4 DEF q
  <2>4. CASE ~(k \in 1 .. Len(r))
    <3>1. j \in 1 .. Len(q) /\ Len(r) + j = k
      BY <2>1, <2>4, <1>4 DEF q
    <3> HIDE DEF j
    <3> QED
      BY <3>1, <2>1, <2>2, <1>4 DEF q
  <2> QED
    BY <2>3, <2>4
<1>6. \A d \in Caches : \A k \in 1 .. Len(pending'[d]) : Calm(d, pending'[d][k])
  BY <1>4, <1>5 DEF CalmOf
<1>7. Caches' = Caches /\ \A d, e : Calm(d, e)' <=> Calm(d, e)
  BY <1>2, SameConf, SameCalm
<1>8. CalmAll'
  BY <1>6, <1>7 DEF CalmAll, CalmOf
<1> QED
  BY <1>1, <1>3, <1>4, <1>8

\* So does a step at the memory, which asks for nothing.
LEMMA CalmMemory ==
  ASSUME NEW pend, CalmOf(pend), conf' = conf, pending' = pend
  PROVE  CalmAll'
<1>1. Caches' = Caches /\ \A d, e : Calm(d, e)' <=> Calm(d, e)
  BY SameConf, SameCalm
<1> QED
  BY <1>1 DEF CalmAll, CalmOf

\* Everything that is asked for ranks lower, or goes closer to the memory.
LEMMA Descent ==
  ASSUME conf \in Configs, NEW c \in Caches, NEW m, Calm(c, m), NEW r, Lower(c, m, r),
         NEW k \in 1 .. Len(r)
  PROVE  IF r[k].prefetch \/ r[k].split THEN Rank(r[k]) < Rank(m)
         ELSE P(c).down = Mem \/ P(P(c).down).cacheid < P(c).cacheid
<1>1. P(c).down # Mem => P(P(c).down).cacheid < P(c).cacheid
  BY TreeAssumption DEF Caches, P
<1>2. r[k].prefetch \/ r[k].split => Rank(r[k]) < Rank(m)
  BY DEF Lower
<1> QED
  BY <1>1, <1>2

\* On top of a stack, whatever its rest.
LEMMA DescentTop ==
  ASSUME conf \in Configs, NEW c \in Caches, NEW m, Calm(c, m), NEW r \in Seq(OkRefs), Lower(c, m, r),
         NEW q \in Seq(OkRefs), NEW k \in 1 .. Len(r \o q) - Len(q)
  PROVE  IF (r \o q)[k].prefetch \/ (r \o q)[k].split THEN Rank((r \o q)[k]) < Rank(m)
         ELSE P(c).down = Mem \/ P(P(c).down).cacheid < P(c).cacheid
<1>1. /\ Len(r \o q) = Len(r) + Len(q) /\ Len(r) \in Nat /\ Len(q) \in Nat
      /\ \A i \in 1 .. Len(r) : (r \o q)[i] = r[i]
  OBVIOUS
<1>2. k \in 1 .. Len(r) /\ (r \o q)[k] = r[k]
  BY <1>1
<1> QED
  BY <1>2, Descent

\* What a program asks for is no prefetch.
LEMMA CallCalm ==
  ASSUME CachesInv, calls # <<>>
  PROVE  /\ Head(calls).cache \in Caches /\ Head(calls).ref \in OkRefs
         /\ Head(calls).ref.split = FALSE /\ \A c : Calm(c, Head(calls).ref)
<1> DEFINE h == Head(calls)
<1>1. h \in CallRecs
  BY DEF CachesInv
<1> HIDE DEF h
<1>2. h.cache \in Caches /\ h.ref \in OkRefs /\ ~h.ref.split /\ ~h.ref.prefetch
  BY <1>1 DEF CallRecs
<1>3. h.ref.split = FALSE
  BY <1>2, RefFacts
<1>4. \A c : Calm(c, h.ref)
  BY <1>2 DEF Calm
<1> QED
  BY <1>2, <1>3, <1>4 DEF h

\* A reference r to the cache `to', which is m but for its mark, with the other
\* pending ones.
Served(m, r, to, pend) ==
  /\ m \in OkRefs /\ r \in OkRefs /\ r.split = FALSE /\ Rank(r) = Rank(m)
  /\ to \in Caches \cup {Mem} /\ PendOk(pend) /\ CalmOf(pend)
  /\ to \in Caches =>
       /\ Calm(to, r)
       /\ pend[to] \in Seq(OkRefs)
       /\ Len(pend[to]) = IF pending[to] = <<>> THEN 0 ELSE Len(pending[to]) - 1

\* The reference d4_dopending takes from a stack: to the cache itself it goes calm,
\* and downstream it is no prefetch, to a cache that has nothing pending.
LEMMA TakenCalm ==
  ASSUME TreeInv, CalmAll, NEW c \in Caches, pending[c] # <<>>,
         \A d \in Caches : pending[d] # <<>> => P(c).cacheid <= P(d).cacheid,
         NEW m, m = Head(pending[c]), NEW r, r = [m EXCEPT !.split = FALSE],
         NEW to, to = IF m.prefetch \/ m.split THEN c ELSE P(c).down,
         NEW pend, pend = [pending EXCEPT ![c] = Tail(@)]
  PROVE  Served(m, r, to, pend)
<1> USE DEF Served
<1>1. /\ m \in OkRefs /\ PendOk(pend)
      /\ pend[c] = Tail(pending[c]) /\ \A d \in Caches : d # c => pend[d] = pending[d]
  <2>1. m = Head(pending[c]) /\ pend = [pending EXCEPT ![c] = Tail(@)]
    OBVIOUS
  <2>2. m \in OkRefs
    BY <2>1, PoppedFacts, Zenon
  <2>3. PendOk(pend)
    BY <2>1, PoppedFacts, Zenon
  <2>4. pend[c] = Tail(pending[c])
    BY <2>1, PoppedFacts, Zenon
  <2>5. \A d \in Caches : d # c => pend[d] = pending[d]
    <3>1. pending = [d \in Caches |-> pending[d]]
      BY DEF TreeInv
    <3> QED
      BY <2>1, <3>1
  <2> QED
    BY <2>2, <2>3, <2>4, <2>5
<1>2. /\ r \in OkRefs /\ r.split = FALSE /\ r.prefetch = m.prefetch /\ Rank(r) = Rank(m)
      /\ \A d : Calm(d, m) => Calm(d, r)
  BY <1>1, UnsplitFacts
<1>3. \A d \in Caches : pending[d] \in Seq(OkRefs) /\ pend[d] \in Seq(OkRefs)
  BY <1>1 DEF TreeInv, CacheInv, Asked, PendOk
<1>4. /\ Len(pend[c]) = Len(pending[c]) - 1 /\ Len(pending[c]) \in Nat \ {0}
      /\ m = pending[c][1]
      /\ \A k \in 1 .. Len(pend[c]) : pend[c][k] = pending[c][k + 1]
  <2> DEFINE p == pending[c]
             t == Tail(p)
  <2>1. p \in Seq(OkRefs) /\ p # <<>> /\ m = Head(p) /\ pend[c] = t
    BY <1>1, <1>3
  <2> HIDE DEF p
  <2>2. /\ Len(t) = Len(p) - 1 /\ Len(p) \in Nat \ {0} /\ m = p[1]
        /\ \A k \in 1 .. Len(t) : t[k] = p[k + 1]
    BY <2>1
  <2> QED
    BY <2>1, <2>2 DEF p
<1>5. Calm(c, m)
  BY <1>4 DEF CalmAll, CalmOf
<1>6. CalmOf(pend)
  <2>1. ASSUME NEW d \in Caches, NEW k \in 1 .. Len(pend[d]) PROVE Calm(d, pend[d][k])
    <3>1. CASE d = c
      <4>1. k + 1 \in 1 .. Len(pending[c]) /\ pend[c][k] = pending[c][k + 1]
        BY <3>1, <2>1, <1>4
      <4> QED
        BY <3>1, <4>1 DEF CalmAll, CalmOf
    <3>2. CASE d # c
      BY <3>2, <1>1, <2>1 DEF CalmAll, CalmOf
    <3> QED
      BY <3>1, <3>2
  <2> QED
    BY <2>1 DEF CalmOf
<1>7. /\ P(c).down \in Caches \cup {Mem} /\ Mem \notin Caches
      /\ \A d \in Caches : P(d).cacheid \in Nat
      /\ P(c).down # Mem => P(P(c).down).cacheid < P(c).cacheid
  <2>1. conf \in Configs
    BY DEF TreeInv
  <2>2. P(c).down \in Caches \cup {Mem}
    BY <2>1, CacheFacts
  <2> QED
    BY <2>1, <2>2, TreeAssumption DEF Caches, P
<1>8. CASE m.prefetch \/ m.split
  <2>1. to = c /\ Calm(c, r)
    BY <1>2, <1>5, <1>8
  <2> QED
    BY <2>1, <1>1, <1>2, <1>3, <1>4, <1>6
<1>9. CASE ~(m.prefetch \/ m.split)
  <2>1. to = P(c).down /\ \A d : Calm(d, r)
    BY <1>2, <1>9 DEF Calm
  <2>2. ASSUME to \in Caches
        PROVE  pending[to] = <<>> /\ pend[to] = pending[to]
    <3>1. P(to).cacheid < P(c).cacheid /\ P(to).cacheid \in Nat /\ P(c).cacheid \in Nat
      BY <2>1, <2>2, <1>7
    <3>2. to # c
      BY <3>1
    <3>3. pending[to] = <<>>
      BY <3>1, <2>2
    <3> QED
      BY <3>2, <3>3, <2>2, <1>1
  <2>3. to \in Caches => Len(pend[to]) = 0
    BY <2>2
  <2> QED
    BY <2>1, <2>2, <2>3, <1>1, <1>2, <1>3, <1>6, <1>7
<1> QED
  BY <1>8, <1>9

\* The cache whose stack is served is the only one that may be, since no two have
\* the same number.
LEMMA NextPending ==
  ASSUME TreeInv, NEW c \in Caches, pending[c] # <<>>,
         \A d \in Caches : pending[d] # <<>> => P(c).cacheid <= P(d).cacheid
  PROVE  LET m == Head(pending[c]) IN
         NextRef = To(IF m.prefetch \/ m.split THEN c ELSE P(c).down, m)
<1> DEFINE First(x) == /\ pending[x] # <<>>
                       /\ \A d \in Caches : pending[d] # <<>> => P(x).cacheid <= P(d).cacheid
           x == CHOOSE y \in Caches : First(y)
           At(y) == LET m == Head(pending[y]) IN
                        To(IF m.prefetch \/ m.split THEN y ELSE P(y).down, m)
<1>1. ~Idle
  BY DEF Idle
<1>2. NextRef = At(x)
  BY <1>1, Zenon DEF NextRef
<1>3. First(c)
  OBVIOUS
<1>4. x \in Caches /\ First(x)
  <2> HIDE DEF First
  <2> QED
    BY <1>3, Zenon
<1> HIDE DEF x
<1>5. P(x).cacheid <= P(c).cacheid /\ P(c).cacheid <= P(x).cacheid
  BY <1>4
<1>6. /\ P(x).cacheid \in Nat /\ P(c).cacheid \in Nat
      /\ P(x).cacheid = P(c).cacheid => x = c
  <2>1. conf \in Configs
    BY DEF TreeInv
  <2> QED
    BY <2>1, <1>4, TreeAssumption DEF Caches, P
<1>7. x = c
  BY <1>5, <1>6
<1> HIDE DEF At
<1>8. NextRef = At(c)
  BY <1>2, <1>7
<1> QED
  BY <1>8 DEF At

\* What is on top of the stack of c after a step, beyond the rest of it.
Descending(c, m) ==
  \A k \in 1 .. Len(pending'[c]) - (IF pending[c] = <<>> THEN 0 ELSE Len(pending[c]) - 1) :
    LET e == pending'[c][k] IN
    IF e.prefetch \/ e.split THEN Rank(e) < Rank(m)
    ELSE P(c).down = Mem \/ P(P(c).down).cacheid < P(c).cacheid

\* It is all that a step may get wrong.
LEMMA DescendsAt ==
  ASSUME Descending(NextRef.cache, NextRef.ref)
  PROVE  Descends
  BY DEF Descends, Descending

\* Every step keeps what is pending calm, and descends.
LEMMA CalmNext ==
  ASSUME CachesInv, CalmAll, Next
  PROVE  CalmAll' /\ Descends
<1>1. TreeInv /\ conf \in Configs
  BY DEF CachesInv, TreeInv
<1>2. ASSUME UNCHANGED <<conf, pending>>, Idle /\ calls = <<>> PROVE CalmAll' /\ Descends
  <2>1. CalmAll'
    BY <1>2, CalmMemory DEF CalmAll
  <2> QED
    BY <1>2, <2>1 DEF Descends
<1>3. CASE Execute
  <2>1. PICK pc, operands : Instruction(pc, operands)
    BY <1>3, Zenon DEF Execute
  <2>2. UNCHANGED <<conf, pending>> /\ Idle /\ calls = <<>>
    BY <2>1, Zenon DEF Instruction, Ready
  <2> QED
    BY <1>2, <2>2
<1>4. ASSUME NEW r \in conf.trace, TraceItem(r) PROVE CalmAll' /\ Descends
  <2>1. UNCHANGED <<conf, pending>> /\ Idle /\ calls = <<>>
    BY <1>4, Zenon DEF TraceItem, Ready
  <2> QED
    BY <1>2, <2>1
<1>5. CASE TraceEnds
  <2>1. UNCHANGED <<conf, pending>> /\ Idle /\ calls = <<>>
    BY <1>5, Zenon DEF TraceEnds, Ready
  <2> QED
    BY <1>2, <2>1
<1>6. CASE Call
  <2> DEFINE h == Head(calls)
  <2>1. Idle /\ calls # <<>> /\ d4ref(h.cache, h.ref, pending, h.cache)
    BY <1>6, Zenon DEF Call
  <2>2. /\ h.cache \in Caches /\ h.ref \in OkRefs /\ h.ref.split = FALSE /\ Calm(h.cache, h.ref)
        /\ NextRef = h
    BY <2>1, CallCalm DEF NextRef
  <2>3. PendOk(pending) /\ CalmOf(pending)
    BY <1>1 DEF TreeInv, CacheInv, PendOk, CalmAll
  <2> DEFINE c == h.cache
             m == h.ref
  <2> HIDE DEF h
  <2>4. c \in Caches /\ m \in OkRefs /\ m.split = FALSE /\ Calm(c, m) /\ d4ref(c, m, pending, c)
    BY <2>1, <2>2
  <2>5. pending[c] = <<>>
    BY <2>1, <2>4 DEF Idle
  <2> HIDE DEF c, m
  <2>6. /\ CalmAll'
        /\ \E r \in Seq(OkRefs) : Lower(c, m, r) /\ pending'[c] = r \o pending[c]
    BY <1>1, <2>3, <2>4, LowerStep
  <2>7. PICK r \in Seq(OkRefs) : Lower(c, m, r) /\ pending'[c] = r \o pending[c]
    BY <2>6
  <2> DEFINE q == pending[c]
  <2>8. q \in Seq(OkRefs) /\ Len(q) = 0
    BY <2>5
  <2>9. pending'[c] = r \o q
    BY <2>7
  <2> HIDE DEF q
  <2>10. \A k \in 1 .. Len(r \o q) - Len(q) :
           IF (r \o q)[k].prefetch \/ (r \o q)[k].split THEN Rank((r \o q)[k]) < Rank(m)
           ELSE P(c).down = Mem \/ P(P(c).down).cacheid < P(c).cacheid
    BY <1>1, <2>4, <2>7, <2>8, DescentTop
  <2>11. Descending(c, m)
    BY <2>5, <2>8, <2>9, <2>10 DEF Descending
  <2>12. Descends
    BY <2>2, <2>11, DescendsAt DEF c, m
  <2> QED
    BY <2>6, <2>12
<1>7. CASE Continue
  <2>1. PICK c \in Caches : d4_dopending(c)
    BY <1>7, Zenon DEF Continue
  <2> DEFINE m == Head(pending[c])
             to == IF m.prefetch \/ m.split THEN c ELSE P(c).down
             pend == [pending EXCEPT ![c] = Tail(@)]
             x == [m EXCEPT !.split = FALSE]
  <2>2. /\ pending[c] # <<>> /\ d4ref(to, x, pend, c)
        /\ \A d \in Caches : pending[d] # <<>> => P(c).cacheid <= P(d).cacheid
    BY <2>1, Zenon DEF d4_dopending
  <2>3. NextRef = To(to, m)
    BY <1>1, <2>2, NextPending
  <2>4. /\ m = Head(pending[c]) /\ x = [m EXCEPT !.split = FALSE]
        /\ to = IF m.prefetch \/ m.split THEN c ELSE P(c).down
        /\ pend = [pending EXCEPT ![c] = Tail(@)]
    OBVIOUS
  <2> HIDE DEF m, to, pend, x
  <2>5. /\ m \in OkRefs /\ x \in OkRefs /\ x.split = FALSE /\ Rank(x) = Rank(m)
        /\ to \in Caches \cup {Mem} /\ PendOk(pend) /\ CalmOf(pend)
        /\ to \in Caches =>
              /\ Calm(to, x)
              /\ pend[to] \in Seq(OkRefs)
              /\ Len(pend[to]) = IF pending[to] = <<>> THEN 0 ELSE Len(pending[to]) - 1
    <3>1. Served(m, x, to, pend)
      BY <1>1, <2>2, <2>4, TakenCalm, Zenon
    <3> QED
      BY <3>1 DEF Served
  <2>6. NextRef.cache = to /\ NextRef.ref = m
    BY <2>3 DEF To
  <2>7. CASE to \in Caches
    <3>1. PICK r \in Seq(OkRefs) : Lower(to, x, r) /\ pending'[to] = r \o pend[to]
      BY <1>1, <2>2, <2>5, <2>7, LowerStep
    <3>2. CalmAll'
      BY <1>1, <2>2, <2>5, <2>7, LowerStep
    <3> DEFINE q == pend[to]
    <3>3. /\ q \in Seq(OkRefs) /\ pending'[to] = r \o q
          /\ Len(q) = IF pending[to] = <<>> THEN 0 ELSE Len(pending[to]) - 1
      BY <2>5, <2>7, <3>1
    <3> HIDE DEF q
    <3>4. \A k \in 1 .. Len(r \o q) - Len(q) :
           IF (r \o q)[k].prefetch \/ (r \o q)[k].split THEN Rank((r \o q)[k]) < Rank(x)
           ELSE P(to).down = Mem \/ P(P(to).down).cacheid < P(to).cacheid
      BY <1>1, <2>5, <2>7, <3>1, <3>3, DescentTop
    <3>5. Descending(to, m)
      BY <2>5, <3>3, <3>4 DEF Descending
    <3>6. Descends
      BY <2>6, <3>5, DescendsAt
    <3> QED
      BY <3>2, <3>6
  <2>8. CASE to \notin Caches
    <3>1. to = Mem
      BY <2>5, <2>8
    <3>2. conf' = conf /\ pending' = pend
      BY <2>2, <3>1, Zenon DEF d4ref
    <3>3. CalmAll'
      BY <2>5, <3>2, CalmMemory
    <3>4. Descends
      BY <2>6, <2>8, Zenon DEF Descends
    <3> QED
      BY <3>3, <3>4
  <2> QED
    BY <2>7, <2>8
<1>8. CASE Finished
  <2>1. UNCHANGED <<conf, pending>> /\ Idle /\ calls = <<>>
    BY <1>8, Zenon DEF Finished, vars
  <2> QED
    BY <1>2, <2>1
<1> QED
  BY <1>3, <1>4, <1>5, <1>6, <1>7, <1>8, Zenon DEF Next

\* d4ref returns, whatever the tree of caches, the policies and the program: what a
\* cache asks of itself in answer to a reference ranks lower than the reference,
\* and the rest goes to a cache with a lower number.
THEOREM RecursionDescends == Spec => RecursionEnds
<1>1. Init => CachesInv /\ CalmAll
  <2> SUFFICES ASSUME Init PROVE CachesInv /\ CalmAll
    OBVIOUS
  <2>1. pending = [c \in Caches |-> <<>>]
    BY DEF Init, d4setup
  <2>2. CalmAll
    BY <2>1 DEF CalmAll, CalmOf
  <2> QED
    BY <2>2, InitTree
<1>2. CachesInv /\ CalmAll /\ [Next]_vars => CachesInv' /\ CalmAll' /\ [Descends]_vars
  <2> SUFFICES ASSUME CachesInv, CalmAll, [Next]_vars
               PROVE  CachesInv' /\ CalmAll' /\ [Descends]_vars
    OBVIOUS
  <2>1. CachesInv'
    BY CachesNext
  <2>2. CASE Next
    BY <2>1, <2>2, CalmNext
  <2>3. CASE UNCHANGED vars
    <3>1. conf' = conf /\ pending' = pending
      BY <2>3 DEF vars
    <3>2. CalmAll'
      BY <3>1, CalmMemory DEF CalmAll
    <3> QED
      BY <2>1, <2>3, <3>2
  <2> QED
    BY <2>2, <2>3
<1> QED
  BY <1>1, <1>2, PTL DEF Spec, RecursionEnds

-----------------------------------------------------------------------------
(* What the policies ask for.                                                *)

\* What a step at c leaves of its stacks.
Policing(c, m) ==
  \A s \in Stacks(c) :
    m.type \in {"READ", "INSTRN", "WRITE"} =>
      IF s \in {SetOf(c, m.addr), FullStack(c)}
        THEN PolicyStep(c, stack[c][s], stack'[c][s], Block(c, m.addr),
                        m.type # "WRITE" \/ WriteAllocate(c, FirstPart(c, m)))
        ELSE Residents(stack'[c][s]) = Residents(stack[c][s])

\* Whether the rest of a split reference is marked does not matter.
LEMMA PolicyUnmarked ==
  ASSUME NEW c, NEW m \in OkRefs, NEW x, x = [m EXCEPT !.split = FALSE], Policing(c, x)
  PROVE  Policing(c, m)
<1>1. x.type = m.type /\ x.addr = m.addr /\ x.size = m.size
  BY DEF OkRefs
<1>2. Crosses(c, x) <=> Crosses(c, m)
  BY <1>1 DEF Crosses
<1> DEFINE z == P(c).block - (m.addr % P(c).block)
<1>3. /\ FirstPart(c, m).addr = m.addr /\ FirstPart(c, x).addr = m.addr
      /\ FirstPart(c, x).size = FirstPart(c, m).size
  <2>1. CASE Crosses(c, m)
    <3>1. FirstPart(c, m) = [m EXCEPT !.size = z] /\ FirstPart(c, x) = [x EXCEPT !.size = z]
      BY <2>1, <1>1, <1>2 DEF FirstPart
    <3> HIDE DEF z
    <3> QED
      BY <3>1, <1>1 DEF OkRefs
  <2>2. CASE ~Crosses(c, m)
    BY <2>2, <1>1, <1>2 DEF FirstPart
  <2> QED
    BY <2>1, <2>2
<1> DEFINE f == FirstPart(c, m)
           g == FirstPart(c, x)
<1>4. f.addr = g.addr /\ f.size = g.size
  BY <1>3
<1> HIDE DEF f, g
<1>5. Covering(c, f) = Covering(c, g)
  BY <1>4 DEF Covering
<1>6. WriteAllocate(c, f) <=> WriteAllocate(c, g)
  BY <1>4, <1>5 DEF WriteAllocate
<1>7. WriteAllocate(c, FirstPart(c, m)) <=> WriteAllocate(c, FirstPart(c, x))
  BY <1>6 DEF f, g
<1>8. ASSUME NEW s,
             PolicyStep(c, stack[c][s], stack'[c][s], Block(c, x.addr),
                        x.type # "WRITE" \/ WriteAllocate(c, FirstPart(c, x)))
      PROVE  PolicyStep(c, stack[c][s], stack'[c][s], Block(c, m.addr),
                        m.type # "WRITE" \/ WriteAllocate(c, FirstPart(c, m)))
  <2> DEFINE v == x.type # "WRITE" \/ WriteAllocate(c, FirstPart(c, x))
             w == m.type # "WRITE" \/ WriteAllocate(c, FirstPart(c, m))
             b == Block(c, m.addr)
             q == stack[c][s]
             t == stack'[c][s]
  <2>1. v <=> w
    BY <1>1, <1>7
  <2>2. PolicyStep(c, q, t, b, v)
    BY <1>1, <1>8
  <2> HIDE DEF v, w, b, q, t
  <2>3. PolicyStep(c, q, t, b, w)
    BY <2>1, <2>2, Zenon DEF PolicyStep
  <2> QED
    BY <2>3 DEF w, b, q, t
<1>9. Block(c, x.addr) = Block(c, m.addr) /\ SetOf(c, x.addr) = SetOf(c, m.addr)
  BY <1>1
<1> QED
  BY <1>1, <1>8, <1>9 DEF Policing

LEMMA PolicyAccess ==
  ASSUME TreeInv, NEW c \in Caches, NEW m \in OkRefs, m.type \in Accesses, m.split = FALSE,
         NEW pend, NEW from, Access(c, m, pend, from)
  PROVE  Policing(c, m)
<1> DEFINE s == SetOf(c, m.addr)
           f == FullStack(c)
<1>1. conf \in Configs /\ CacheInv(c) /\ stack = [d \in Caches |-> stack[d]]
  BY DEF TreeInv
<1>2. \A t \in Stacks(c) : StackInv(c, t, stack[c][t])
  BY <1>1 DEF CacheInv
<1>3. PICK mine, full, requests, new :
        /\ AccessEffect(c, FirstPart(c, m), pend, from, mine, full, requests, new)
        /\ Policed(c, m, mine, full)
  <2>1. \E mine, full, requests, new :
          /\ AccessEffect(c, FirstPart(c, m), pend, from, mine, full, requests, new)
          /\ Lower(c, m, requests) /\ Ordered(requests)
          /\ Policed(c, m, mine, full)
          /\ LET z == SetOf(c, m.addr)
             IN Traced(c, FirstPart(c, m), stack[c][z], mine, StackSize(c, z), requests)
    BY <1>1, <1>2, AccessFacts
  <2> QED
    BY <2>1, Zenon
<1>4. FirstPart(c, m).addr = m.addr
  BY <1>1, FirstFacts
<1>5. stack' = [stack EXCEPT ![c] = [t \in Stacks(c) |->
                  IF t = s THEN mine ELSE IF t = f THEN full ELSE @[t]]]
  BY <1>3, <1>4, Zenon DEF AccessEffect
<1>6. s # f /\ \A t \in Stacks(c) : t = f => P(c).ccc
  BY <1>1, RefFacts, SizeFacts
<1>7. /\ PolicyStep(c, stack[c][s], mine, Block(c, m.addr),
                    m.type # "WRITE" \/ WriteAllocate(c, FirstPart(c, m)))
      /\ P(c).ccc => PolicyStep(c, stack[c][f], full, Block(c, m.addr),
                                m.type # "WRITE" \/ WriteAllocate(c, FirstPart(c, m)))
  BY <1>3, Zenon DEF Policed
<1> HIDE DEF s, f
<1>8. stack'[c] = [t \in Stacks(c) |-> IF t = s THEN mine ELSE IF t = f THEN full ELSE stack[c][t]]
  BY <1>1, <1>5
<1>9. ASSUME NEW t \in Stacks(c)
      PROVE  IF t \in {s, f}
               THEN PolicyStep(c, stack[c][t], stack'[c][t], Block(c, m.addr),
                               m.type # "WRITE" \/ WriteAllocate(c, FirstPart(c, m)))
               ELSE Residents(stack'[c][t]) = Residents(stack[c][t])
  <2>1. CASE t = s
    <3>1. stack'[c][t] = mine
      BY <2>1, <1>8
    <3> QED
      BY <2>1, <3>1, <1>7
  <2>2. CASE t = f
    <3>1. stack'[c][t] = full /\ P(c).ccc
      BY <2>2, <1>6, <1>8
    <3> QED
      BY <2>2, <3>1, <1>7
  <2>3. CASE t # s /\ t # f
    <3>1. stack'[c][t] = stack[c][t]
      BY <2>3, <1>8
    <3> QED
      BY <2>3, <3>1
  <2> QED
    BY <2>1, <2>2, <2>3
<1> QED
  BY <1>9 DEF Policing, s, f

LEMMA PolicyRef ==
  ASSUME TreeInv, NEW c \in Caches, NEW m \in OkRefs, m.split = FALSE,
         NEW pend, NEW from, d4ref(c, m, pend, from)
  PROVE  Policing(c, m)
<1>1. CASE m.type \in Accesses
  <2>1. c # Mem
    BY TreeAssumption DEF TreeInv, Caches
  <2>2. m.type # "COPYB" /\ m.type # "INVAL"
    BY <1>1 DEF Accesses
  <2>3. Access(c, m, pend, from)
    BY <2>1, <2>2, Zenon DEF d4ref
  <2> QED
    BY <1>1, <2>3, PolicyAccess
<1>2. CASE m.type \notin Accesses
  BY <1>2 DEF Accesses, Policing
<1> QED
  BY <1>1, <1>2

LEMMA PolicyAt ==
  ASSUME NextRef.cache \in Caches => Policing(NextRef.cache, NextRef.ref)
  PROVE  FollowsPolicy
  BY DEF FollowsPolicy, Policing

LEMMA PolicyNext ==
  ASSUME CachesInv, CalmAll, Next
  PROVE  FollowsPolicy
<1>1. TreeInv
  BY DEF CachesInv
<1>2. ASSUME Idle /\ calls = <<>> PROVE FollowsPolicy
  BY <1>2 DEF FollowsPolicy
<1>3. CASE Execute
  <2>1. PICK pc, operands : Instruction(pc, operands)
    BY <1>3, Zenon DEF Execute
  <2> QED
    BY <2>1, <1>2, Zenon DEF Instruction, Ready
<1>4. ASSUME NEW r \in conf.trace, TraceItem(r) PROVE FollowsPolicy
  BY <1>4, <1>2, Zenon DEF TraceItem, Ready
<1>5. CASE TraceEnds
  BY <1>5, <1>2, Zenon DEF TraceEnds, Ready
<1>6. CASE Call
  <2> DEFINE h == Head(calls)
  <2>1. Idle /\ calls # <<>> /\ d4ref(h.cache, h.ref, pending, h.cache)
    BY <1>6, Zenon DEF Call
  <2>2. /\ h.cache \in Caches /\ h.ref \in OkRefs /\ h.ref.split = FALSE
        /\ NextRef = h
    BY <2>1, CallCalm DEF NextRef
  <2> DEFINE c == h.cache
             m == h.ref
  <2> HIDE DEF h
  <2>3. c \in Caches /\ m \in OkRefs /\ m.split = FALSE /\ d4ref(c, m, pending, c)
    BY <2>1, <2>2
  <2> HIDE DEF c, m
  <2>4. Policing(c, m)
    BY <1>1, <2>3, PolicyRef
  <2> QED
    BY <2>2, <2>4, PolicyAt DEF c, m
<1>7. CASE Continue
  <2>1. PICK c \in Caches : d4_dopending(c)
    BY <1>7, Zenon DEF Continue
  <2> DEFINE m == Head(pending[c])
             to == IF m.prefetch \/ m.split THEN c ELSE P(c).down
             pend == [pending EXCEPT ![c] = Tail(@)]
             x == [m EXCEPT !.split = FALSE]
  <2>2. /\ pending[c] # <<>> /\ d4ref(to, x, pend, c)
        /\ \A d \in Caches : pending[d] # <<>> => P(c).cacheid <= P(d).cacheid
    BY <2>1, Zenon DEF d4_dopending
  <2>3. NextRef = To(to, m)
    BY <1>1, <2>2, NextPending
  <2>4. /\ m = Head(pending[c]) /\ x = [m EXCEPT !.split = FALSE]
        /\ to = IF m.prefetch \/ m.split THEN c ELSE P(c).down
        /\ pend = [pending EXCEPT ![c] = Tail(@)]
    OBVIOUS
  <2> HIDE DEF m, to, pend, x
  <2>5. m \in OkRefs /\ x \in OkRefs /\ x.split = FALSE
    <3>1. Served(m, x, to, pend)
      BY <1>1, <2>2, <2>4, TakenCalm, Zenon
    <3> QED
      BY <3>1 DEF Served
  <2>6. NextRef.cache = to /\ NextRef.ref = m
    BY <2>3 DEF To
  <2>7. ASSUME to \in Caches PROVE Policing(to, m)
    <3>1. Policing(to, x)
      BY <1>1, <2>2, <2>5, <2>7, PolicyRef
    <3> QED
      BY <3>1, <2>4, <2>5, PolicyUnmarked
  <2> QED
    BY <2>6, <2>7, PolicyAt
<1>8. CASE Finished
  BY <1>8, <1>2, Zenon DEF Finished
<1> QED
  BY <1>3, <1>4, <1>5, <1>6, <1>7, <1>8, Zenon DEF Next

\* Every stack, and the fully associative one, holds the blocks its replacement policy
\* asks for, in its order, whatever d4_find, the spare node and the nodes left
\* by an invalidation do underneath.
THEOREM PoliciesKept == Spec => PolicyKept
<1>1. Init => CachesInv /\ CalmAll
  <2> SUFFICES ASSUME Init PROVE CachesInv /\ CalmAll
    OBVIOUS
  <2>1. pending = [c \in Caches |-> <<>>]
    BY DEF Init, d4setup
  <2>2. CalmAll
    BY <2>1 DEF CalmAll, CalmOf
  <2> QED
    BY <2>2, InitTree
<1>2. CachesInv /\ CalmAll /\ [Next]_vars => CachesInv' /\ CalmAll' /\ [FollowsPolicy]_vars
  <2> SUFFICES ASSUME CachesInv, CalmAll, [Next]_vars
               PROVE  CachesInv' /\ CalmAll' /\ [FollowsPolicy]_vars
    OBVIOUS
  <2>1. CachesInv'
    BY CachesNext
  <2>2. CASE Next
    BY <2>1, <2>2, CalmNext, PolicyNext
  <2>3. CASE UNCHANGED vars
    <3>1. conf' = conf /\ pending' = pending
      BY <2>3 DEF vars
    <3>2. CalmAll'
      BY <3>1, CalmMemory DEF CalmAll
    <3> QED
      BY <2>1, <2>3, <3>2
  <2> QED
    BY <2>2, <2>3
<1> QED
  BY <1>1, <1>2, PTL DEF Spec, PolicyKept

-----------------------------------------------------------------------------
(* What a copy-back and an invalidation of everything do together.           *)

\* The caches that what a program writes passes through: the data cache and all
\* the caches downstream of it.
DownClosed(S) == \A d \in S : P(d).down # Mem => P(d).down \in S
Path == {c \in Caches : \A S \in SUBSET Caches : conf.cd \in S /\ DownClosed(S) => c \in S}

\* The numbers of caches.
LEMMA NumberFacts ==
  ASSUME conf \in Configs
  PROVE  /\ Mem \notin Caches /\ Nobody \notin Caches
         /\ \A c \in Caches : /\ P(c).cacheid \in Nat
                              /\ P(c).down # Mem => P(P(c).down).cacheid < P(c).cacheid
         /\ \A c, d \in Caches : P(c).cacheid = P(d).cacheid => c = d
  BY TreeAssumption DEF Caches, P

\* The path is the smallest set of caches that has the data cache and goes down.
LEMMA PathFacts ==
  ASSUME conf \in Configs
  PROVE  /\ conf.cd \in Path /\ Path \in SUBSET Caches
         /\ \A c \in Path : P(c).down \in Path \cup {Mem}
         /\ \A S \in SUBSET Caches : conf.cd \in S /\ DownClosed(S) => Path \subseteq S
<1>1. conf.cd \in Caches
  BY CallFacts
<1>2. ASSUME NEW c \in Path, P(c).down # Mem PROVE P(c).down \in Path
  <2>1. c \in Caches /\ P(c).down \in Caches
    <3>1. c \in Caches
      BY DEF Path
    <3> QED
      BY <1>2, <3>1, CacheFacts
  <2>2. ASSUME NEW S \in SUBSET Caches, conf.cd \in S, DownClosed(S) PROVE P(c).down \in S
    <3>1. c \in S
      BY <2>2 DEF Path
    <3> QED
      BY <3>1, <2>2, <1>2 DEF DownClosed
  <2> QED
    BY <2>1, <2>2 DEF Path
<1> QED
  BY <1>1, <1>2 DEF Path

\* The path is a chain: from a cache on it one comes to each with a lower number.
LEMMA Chain ==
  ASSUME conf \in Configs, NEW c \in Path, NEW x \in Path, P(c).cacheid < P(x).cacheid
  PROVE  P(x).down \in Path /\ P(c).cacheid <= P(P(x).down).cacheid
<1> DEFINE I(d) == P(d).cacheid
           D(d) == P(d).down
           Above(d) == \A y \in Path : I(d) < I(y) => D(y) # Mem /\ I(d) <= I(D(y))
           T == {d \in Path : Above(d)}
<1>1. /\ conf.cd \in Path /\ Path \in SUBSET Caches
      /\ \A d \in Path : D(d) \in Path \cup {Mem}
      /\ \A S \in SUBSET Caches : conf.cd \in S /\ DownClosed(S) => Path \subseteq S
  BY PathFacts
<1>2. \A d \in Path : I(d) \in Nat /\ (D(d) # Mem => I(D(d)) < I(d))
  BY <1>1, NumberFacts
<1>3. \A d, e \in Path : I(d) = I(e) => d = e
  BY <1>1, NumberFacts
<1>d. \A S : DownClosed(S) <=> \A d \in S : D(d) # Mem => D(d) \in S
  BY DEF DownClosed
<1> HIDE DEF I, D
<1>4. conf.cd \in T
  <2> DEFINE S == {d \in Path : I(d) <= I(conf.cd)}
  <2>1. DownClosed(S)
    BY <1>1, <1>2, <1>d
  <2>2. S \in SUBSET Caches /\ conf.cd \in S
    BY <1>1, <1>2
  <2>3. Path \subseteq S
    BY <1>1, <2>1, <2>2
  <2>4. \A y \in Path : I(y) <= I(conf.cd)
    BY <2>3
  <2> QED
    BY <1>1, <1>2, <2>4
<1>5. DownClosed(T)
  <2> SUFFICES ASSUME NEW d \in T, D(d) # Mem, NEW x1 \in Path, I(D(d)) < I(x1)
               PROVE  D(x1) # Mem /\ I(D(d)) <= I(D(x1))
    BY <1>1, <1>d
  <2>1. d \in Path /\ D(d) \in Path /\ Above(d)
    BY <1>1
  <2> HIDE DEF T
  <2> DEFINE S == {y \in Path : I(d) <= I(y) \/ I(y) <= I(D(d))}
  <2>2. DownClosed(S)
    <3> SUFFICES ASSUME NEW y \in S, D(y) # Mem PROVE D(y) \in S
      BY <1>d
    <3>1. y \in Path /\ D(y) \in Path /\ I(D(y)) \in Nat /\ I(y) \in Nat /\ I(D(y)) < I(y)
          /\ I(d) \in Nat /\ I(D(d)) \in Nat
      BY <1>1, <1>2, <2>1
    <3>2. CASE I(d) < I(y)
      BY <3>1, <3>2, <2>1
    <3>3. CASE I(d) = I(y)
      BY <3>1, <3>3, <2>1, <1>3
    <3>4. CASE I(y) < I(d)
      BY <3>1, <3>4
    <3> QED
      BY <3>1, <3>2, <3>3, <3>4
  <2>3. conf.cd \in S
    <3>1. conf.cd \in Path /\ Above(conf.cd) /\ I(conf.cd) \in Nat /\ I(d) \in Nat /\ I(D(d)) \in Nat
      BY <1>1, <1>2, <1>4, <2>1 DEF T
    <3>2. SUFFICES ASSUME I(conf.cd) < I(d) PROVE FALSE
      BY <3>1
    <3> DEFINE U == {e \in Path : I(e) <= I(conf.cd)}
    <3>3. DownClosed(U)
      BY <1>1, <1>2, <1>d
    <3>4. U \in SUBSET Caches /\ conf.cd \in U
      BY <1>1, <1>2
    <3>5. Path \subseteq U
      BY <1>1, <3>3, <3>4
    <3>6. I(d) <= I(conf.cd)
      BY <2>1, <3>5
    <3> QED
      BY <3>1, <3>2, <3>6
  <2>4. S \in SUBSET Caches
    BY <1>1
  <2>5. Path \subseteq S
    BY <1>1, <2>2, <2>3, <2>4
  <2>6. I(d) <= I(x1) \/ I(x1) <= I(D(d))
    BY <2>5
  <2>7. /\ I(d) \in Nat /\ I(x1) \in Nat /\ I(D(d)) \in Nat /\ I(D(d)) < I(d)
        /\ D(x1) # Mem => I(D(x1)) \in Nat
    BY <1>1, <1>2, <2>1
  <2>8. CASE I(d) = I(x1)
    BY <2>1, <2>7, <2>8, <1>3
  <2>9. CASE I(d) < I(x1)
    BY <2>1, <2>7, <2>9
  <2> QED
    BY <2>6, <2>7, <2>8, <2>9
<1>6. Path \subseteq T
  <2>1. T \in SUBSET Caches
    BY <1>1
  <2> HIDE DEF T
  <2> QED
    BY <1>1, <1>4, <1>5, <2>1
<1>7. I(c) < I(x)
  BY DEF I
<1>8. D(x) # Mem /\ I(c) <= I(D(x))
  BY <1>6, <1>7
<1>9. D(x) \in Path
  BY <1>1, <1>8
<1> QED
  BY <1>8, <1>9 DEF I, D

\* What is on a stack of pending references.
LEMMA SetFacts ==
  ASSUME NEW p \in Seq(OkRefs), NEW q \in Seq(OkRefs)
  PROVE  /\ ToSet(p \o q) = ToSet(p) \cup ToSet(q)
         /\ ToSet(q) = {q[k] : k \in 1 .. Len(q)}
         /\ q # <<>> => Head(q) \in ToSet(q) /\ ToSet(q) = {Head(q)} \cup ToSet(Tail(q))
<1>0. \A r \in Seq(OkRefs) : ToSet(r) = {r[k] : k \in 1 .. Len(r)}
  BY DEF ToSet
<1>1. ToSet(p \o q) = ToSet(p) \cup ToSet(q)
  <2>1. /\ p \o q \in Seq(OkRefs) /\ Len(p \o q) = Len(p) + Len(q) /\ Len(p) \in Nat /\ Len(q) \in Nat
        /\ \A j \in 1 .. Len(p) : (p \o q)[j] = p[j]
        /\ \A j \in 1 .. Len(q) : (p \o q)[Len(p) + j] = q[j]
    OBVIOUS
  <2>2. ASSUME NEW k \in 1 .. Len(p \o q) PROVE (p \o q)[k] \in ToSet(p) \cup ToSet(q)
    <3>1. CASE k \in 1 .. Len(p)
      BY <3>1, <2>1, <1>0
    <3>2. CASE ~(k \in 1 .. Len(p))
      <4> DEFINE j == k - Len(p)
      <4>1. j \in 1 .. Len(q) /\ Len(p) + j = k
        BY <3>2, <2>1
      <4> HIDE DEF j
      <4> QED
        BY <4>1, <2>1, <1>0
    <3> QED
      BY <3>1, <3>2
  <2>3. ASSUME NEW k \in 1 .. Len(p) PROVE p[k] \in ToSet(p \o q)
    <3>1. k \in 1 .. Len(p \o q) /\ (p \o q)[k] = p[k]
      BY <2>1
    <3> QED
      BY <3>1, <2>1, <1>0
  <2>4. ASSUME NEW k \in 1 .. Len(q) PROVE q[k] \in ToSet(p \o q)
    <3>1. Len(p) + k \in 1 .. Len(p \o q) /\ (p \o q)[Len(p) + k] = q[k]
      BY <2>1
    <3> QED
      BY <3>1, <2>1, <1>0
  <2>5. ToSet(p \o q) = {(p \o q)[k] : k \in 1 .. Len(p \o q)}
    BY <2>1, <1>0
  <2>6. ToSet(p) = {p[k] : k \in 1 .. Len(p)} /\ ToSet(q) = {q[k] : k \in 1 .. Len(q)}
    BY <1>0
  <2> QED
    BY <2>2, <2>3, <2>4, <2>5, <2>6
<1>3. ASSUME q # <<>> PROVE Head(q) \in ToSet(q) /\ ToSet(q) = {Head(q)} \cup ToSet(Tail(q))
  <2> DEFINE t == Tail(q)
  <2>1. /\ t \in Seq(OkRefs) /\ Len(t) = Len(q) - 1 /\ Len(q) \in Nat \ {0} /\ Head(q) = q[1]
        /\ \A k \in 1 .. Len(t) : t[k] = q[k + 1]
    BY <1>3
  <2> HIDE DEF t
  <2>2. ToSet(t) = {t[k] : k \in 1 .. Len(t)} /\ ToSet(q) = {q[k] : k \in 1 .. Len(q)}
    BY <2>1, <1>0
  <2>3. ToSet(t) \subseteq ToSet(q) /\ q[1] \in ToSet(q)
    BY <2>1, <2>2
  <2>4. ASSUME NEW k \in 1 .. Len(q) PROVE q[k] = q[1] \/ q[k] \in ToSet(t)
    <3>1. CASE k # 1
      <4>1. k - 1 \in 1 .. Len(t) /\ t[k - 1] = q[k]
        BY <3>1, <2>1
      <4> QED
        BY <4>1, <2>2
    <3> QED
      BY <3>1
  <2> QED
    BY <2>1, <2>2, <2>3, <2>4, <1>0, <1>1 DEF t
<1> QED
  BY <1>0, <1>1, <1>3

\* What m makes c ask for, on top of what was pending.
Asks(c, m, pend) ==
  \E r \in Seq(OkRefs) : /\ pending'[c] = r \o pend[c]
                         /\ \A k \in 1 .. Len(r) : Kind(c, m, r[k])
                         /\ m.type = "COPYB" => Copied(c, m, r)

\* Only writes bring the newest bytes to a cache and only invalidations drop them.
Newer(c, m, from) ==
  /\ \A a \in Addresses :
       \/ newest'[a] = newest[a]
       \/ newest'[a] = c /\ m.type = "WRITE" /\ from \in {c, newest[a]}
       \/ newest'[a] = Nobody /\ m.type = "INVAL" /\ newest[a] = c /\ c \in Caches
  /\ m.type = "WRITE" /\ (c = Mem \/ OneBlock(c, m)) =>
       \A a \in Addresses : a \in Bytes(m) /\ newest[a] = from => newest'[a] = c

\* d4ref changes what is pending in its cache only.
Stepped(c, m, pend, from) ==
  /\ conf' = conf /\ Newer(c, m, from)
  /\ c \in Caches => Asks(c, m, pend)
  /\ \A d \in Caches : d # c => pending'[d] = pend[d]

\* A reference to a cache that is moved leaves the other bytes where they are.
LEMMA NewerFacts ==
  ASSUME NEW c, NEW m, NEW n, n.type = m.type, NEW from, Moves(c, n, from)
  PROVE  \A a \in Addresses :
           newest'[a] = newest[a] \/ (newest'[a] = c /\ m.type = "WRITE" /\ from \in {c, newest[a]})
  BY DEF Moves

\* In those terms, d4ref.
LEMMA SteppedFacts ==
  ASSUME TreeInv, NEW c \in Caches \cup {Mem}, NEW m \in OkRefs, m.split = FALSE,
         NEW pend, PendOk(pend), NEW from, d4ref(c, m, pend, from)
  PROVE  Stepped(c, m, pend, from)
<1>1. conf \in Configs /\ Mem \notin Caches
  BY NumberFacts DEF TreeInv
<1>2. CASE c \in Caches
  <2>1. PICK row, r, new : /\ Effect(c, m, pend, from, row, r, new) /\ Lower(c, m, r)
                           /\ m.type = "COPYB" => Copied(c, m, r)
    BY <1>2, RefStep
  <2>2. /\ pending' = [pend EXCEPT ![c] = r \o @] /\ conf' = conf /\ Asked(c, r)
        /\ m.type = "WRITE" /\ OneBlock(c, m) =>
             \A a \in Addresses : a \in Bytes(m) /\ newest[a] = from => newest'[a] = c
    BY <2>1, Zenon DEF Effect
  <2>3. pend = [d \in Caches |-> pend[d]] /\ r \in Seq(OkRefs)
    BY <2>2 DEF PendOk, Asked
  <2>4. pending'[c] = r \o pend[c] /\ \A d \in Caches : d # c => pending'[d] = pend[d]
    BY <2>2, <2>3, <1>2
  <2>5. \A k \in 1 .. Len(r) : Kind(c, m, r[k])
    BY <2>1, Zenon DEF Lower
  <2>6. Asks(c, m, pend)
    BY <2>1, <2>3, <2>4, <2>5, Zenon DEF Asks
  <2>7. \A a \in Addresses :
           \/ newest'[a] = newest[a]
           \/ newest'[a] = c /\ m.type = "WRITE" /\ from \in {c, newest[a]}
           \/ newest'[a] = Nobody /\ m.type = "INVAL" /\ newest[a] = c /\ c \in Caches
    <3>1. \/ m.type = "COPYB" /\ d4copyback(c, m, pend)
          \/ m.type = "INVAL" /\ d4invalidate(c, m, pend)
          \/ m.type \in Accesses /\ Access(c, m, pend, from)
      BY <1>1, <1>2, Zenon DEF d4ref, Accesses
    <3>2. CASE d4copyback(c, m, pend)
      <4>1. newest' = newest
        BY <3>2, Zenon DEF d4copyback
      <4> QED
        BY <4>1
    <3>3. CASE m.type = "INVAL" /\ d4invalidate(c, m, pend)
      <4> DEFINE dropped == {a \in Addresses : /\ newest[a] = c
                                               /\ m.size = 0 \/ Block(c, a) = Block(c, m.addr)}
      <4>1. newest' = [a \in Addresses |-> IF a \in dropped THEN Nobody ELSE newest[a]]
        BY <3>3, Zenon DEF d4invalidate
      <4>2. \A a \in dropped : newest[a] = c
        OBVIOUS
      <4> HIDE DEF dropped
      <4> QED
        BY <4>1, <4>2, <3>3, <1>2
    <3>4. CASE m.type \in Accesses /\ Access(c, m, pend, from)
      <4>1. Moves(c, FirstPart(c, m), from)
        BY <3>4, Zenon DEF Access
      <4>2. FirstPart(c, m).type = m.type
        BY <3>4, <1>1, <1>2, FirstFacts
      <4> QED
        BY <4>1, <4>2, NewerFacts
    <3> QED
      BY <3>1, <3>2, <3>3, <3>4
  <2>8. Newer(c, m, from)
    BY <2>2, <2>7, <1>1, <1>2 DEF Newer
  <2> QED
    BY <2>2, <2>4, <2>6, <2>8 DEF Stepped
<1>3. CASE c \notin Caches
  <2>1. c = Mem
    BY <1>3
  <2>2. conf' = conf /\ pending' = pend /\ Moves(c, m, from)
    BY <2>1, Zenon DEF d4ref
  <2>3. newest \in [Addresses -> Caches \cup {Mem, Nobody}]
    BY DEF TreeInv
  <2>4. m.type = "WRITE" => \A a \in Addresses : a \in Bytes(m) /\ newest[a] = from => newest'[a] = c
    BY <2>2, <2>3, MovesFacts
  <2>5. Newer(c, m, from)
    BY <2>2, <2>4, NewerFacts DEF Newer
  <2> QED
    BY <2>2, <2>5, <1>3 DEF Stepped
<1> QED
  BY <1>2, <1>3

\* The step that d4_dopending makes: m is on top of what is pending in c, and goes
\* as r to the cache `to'.
Turn(c, m, r, to, pend) ==
  /\ \A d \in Caches : pending[d] # <<>> => P(c).cacheid <= P(d).cacheid
  /\ pending[c] # <<>> /\ m = Head(pending[c]) /\ m \in OkRefs
  /\ r \in OkRefs /\ r.type = m.type /\ r.size = m.size /\ Bytes(r) = Bytes(m)
  /\ to = IF m.prefetch \/ m.split THEN c ELSE P(c).down
  /\ to \in Caches \cup {Mem}
  /\ ~m.split => r = m
  /\ m.type = "WRITE" /\ ~m.split => to = P(c).down /\ (to = Mem \/ OneBlock(to, r))
  /\ PendOk(pend)
  /\ pend[c] = Tail(pending[c]) /\ \A d \in Caches : d # c => pend[d] = pending[d]
  /\ \A a : Written(pending[c], a) =>
       Written(pend[c], a) \/ (m.type = "WRITE" /\ ~m.split /\ a \in Bytes(m))
  /\ Stepped(to, r, pend, c)

\* In those terms, d4_dopending.
LEMMA TurnFacts ==
  ASSUME Nested, TreeInv, NEW c \in Caches, d4_dopending(c)
  PROVE  \E m, r, to, pend :
           Turn(c, m, r, to, pend) /\ d4ref(to, r, pend, c) /\ r.split = FALSE
<1> DEFINE m == Head(pending[c])
           to == IF m.prefetch \/ m.split THEN c ELSE P(c).down
           pend == [pending EXCEPT ![c] = Tail(@)]
           r == [m EXCEPT !.split = FALSE]
<1>1. /\ pending[c] # <<>> /\ d4ref(to, r, pend, c)
      /\ \A d \in Caches : pending[d] # <<>> => P(c).cacheid <= P(d).cacheid
  BY Zenon DEF d4_dopending
<1>2. /\ m \in OkRefs /\ PendOk(pend)
      /\ m.type = "WRITE" /\ ~m.split => OneBlock(c, m)
      /\ pend[c] = Tail(pending[c]) /\ \A d \in Caches : d # c => pend[d] = pending[d]
      /\ \A a : Written(pending[c], a) =>
           Written(pend[c], a) \/ (m.type = "WRITE" /\ ~m.split /\ a \in Bytes(m))
  BY <1>1, PoppedFacts
<1>c. conf \in Configs
  BY DEF TreeInv
<1>3. to \in Caches \cup {Mem} /\ P(c).down \in Caches \cup {Mem}
  BY <1>c, CacheFacts
<1>4. to = IF m.prefetch \/ m.split THEN c ELSE P(c).down
  OBVIOUS
<1>m. m = Head(pending[c])
  OBVIOUS
<1>r. r = [m EXCEPT !.split = FALSE]
  OBVIOUS
<1> HIDE DEF to, pend, m, r
<1>5. /\ r \in OkRefs /\ r.split = FALSE /\ r.type = m.type /\ r.size = m.size /\ r.addr = m.addr
      /\ ~m.split => r = m
  <2>1. r \in OkRefs
    BY <1>2, <1>r, RefFacts
  <2> QED
    BY <2>1, <1>2, <1>r DEF OkRefs
<1>6. ASSUME m.type = "WRITE", ~m.split
      PROVE  to = P(c).down /\ (to = Mem \/ OneBlock(to, r))
  <2>1. to = P(c).down
    BY <1>2, <1>4, <1>6 DEF OkRefs
  <2>2. m.size # 0
    BY <1>2, <1>6 DEF OkRefs
  <2>3. P(c).down \in Caches => OneBlock(P(c).down, m)
    BY <2>2, <1>2, <1>6, <1>c, NestedBlock
  <2> QED
    BY <2>1, <2>3, <1>3, <1>5, <1>6
<1>7. Stepped(to, r, pend, c)
  BY <1>1, <1>2, <1>3, <1>5, SteppedFacts
<1>8. Bytes(r) = Bytes(m)
  BY <1>5 DEF Bytes
<1>9. Turn(c, m, r, to, pend)
  BY <1>1, <1>2, <1>3, <1>4, <1>5, <1>6, <1>7, <1>8, <1>m DEF Turn
<1> QED
  BY <1>1, <1>5, <1>9

\* A reference within one block does not cross blocks.
LEMMA WithinFacts ==
  ASSUME conf \in Configs, NEW c \in Caches, NEW m \in OkRefs, m.size # 0, OneBlock(c, m)
  PROVE  ~Crosses(c, m)
<1>1. m.addr \in Nat /\ m.size \in Nat \ {0}
  BY RefFacts
<1>2. m.addr + m.size - 1 \in Bytes(m)
  BY <1>1 DEF Bytes
<1> QED
  BY <1>2 DEF OneBlock, Crosses

\* The rest of a write that crosses blocks.
SplitWrite(e) == e.type = "WRITE" /\ e.split

\* What is pending after a step of d4ref was pending before or is of its kind.
LEMMA Grown ==
  ASSUME NEW c \in Caches \cup {Mem}, NEW m, NEW pend, PendOk(pend), NEW from, Stepped(c, m, pend, from),
         NEW d \in Caches, NEW e \in ToSet(pending'[d])
  PROVE  e \in ToSet(pend[d]) \/ (d = c /\ Kind(c, m, e))
<1>1. CASE d # c
  BY <1>1 DEF Stepped
<1>2. CASE d = c
  <2>1. PICK r \in Seq(OkRefs) : pending'[c] = r \o pend[c] /\ \A k \in 1 .. Len(r) : Kind(c, m, r[k])
    BY <1>2 DEF Stepped, Asks
  <2>2. pend[c] \in Seq(OkRefs)
    BY <1>2 DEF PendOk, Asked
  <2> DEFINE q == pend[c]
  <2> HIDE DEF q
  <2>3. ToSet(r \o q) = ToSet(r) \cup ToSet(q) /\ ToSet(r) = {r[k] : k \in 1 .. Len(r)}
    BY <2>2, SetFacts DEF q
  <2>4. e \in ToSet(r \o q)
    BY <2>1, <1>2 DEF q
  <2> QED
    BY <2>1, <2>3, <2>4, <1>2 DEF q
<1> QED
  BY <1>1, <1>2

\* A step of d4_dopending leaves the rest of a write only in the cache that had
\* one, and invalidations only where there were some.
LEMMA TurnKinds ==
  ASSUME TreeInv, NEW c \in Caches, NEW m, NEW r, NEW to, NEW pend, Turn(c, m, r, to, pend)
  PROVE  /\ m \in ToSet(pending[c])
         /\ \A d \in Caches : \A e \in ToSet(pending'[d]) :
              /\ SplitWrite(e) => e \in ToSet(pending[d]) \/ (d = c /\ SplitWrite(m))
              /\ e.type = "INVAL" => e \in ToSet(pending[d]) \/ m.type = "INVAL"
<1>1. /\ pending[c] # <<>> /\ m = Head(pending[c]) /\ m \in OkRefs
      /\ r \in OkRefs /\ r.type = m.type /\ r.size = m.size
      /\ to = IF m.prefetch \/ m.split THEN c ELSE P(c).down
      /\ to \in Caches \cup {Mem}
      /\ m.type = "WRITE" /\ ~m.split => to = P(c).down /\ (to = Mem \/ OneBlock(to, r))
      /\ PendOk(pend)
      /\ pend[c] = Tail(pending[c]) /\ \A d \in Caches : d # c => pend[d] = pending[d]
      /\ Stepped(to, r, pend, c)
  BY Zenon DEF Turn
<1>2. conf \in Configs /\ pending[c] \in Seq(OkRefs)
  BY DEF TreeInv, CacheInv, Asked
<1>3. m \in ToSet(pending[c]) /\ \A d \in Caches : ToSet(pend[d]) \subseteq ToSet(pending[d])
  <2> DEFINE q == pending[c]
  <2>1. q \in Seq(OkRefs) /\ q # <<>>
    BY <1>1, <1>2
  <2> HIDE DEF q
  <2>2. Head(q) \in ToSet(q) /\ ToSet(Tail(q)) \subseteq ToSet(q)
    BY <2>1, SetFacts
  <2> QED
    BY <2>2, <1>1 DEF q
<1>4. ASSUME NEW d \in Caches, NEW e \in ToSet(pending'[d])
      PROVE  /\ SplitWrite(e) => e \in ToSet(pending[d]) \/ (d = c /\ SplitWrite(m))
             /\ e.type = "INVAL" => e \in ToSet(pending[d]) \/ m.type = "INVAL"
  <2>1. e \in ToSet(pending[d]) \/ (d = to /\ Kind(to, r, e))
    <3>1. to \in Caches \cup {Mem} /\ PendOk(pend) /\ Stepped(to, r, pend, c)
      BY <1>1
    <3>2. e \in ToSet(pend[d]) \/ (d = to /\ Kind(to, r, e))
      BY <3>1, Grown
    <3> QED
      BY <3>2, <1>3
  <2>2. ASSUME SplitWrite(e), d = to, Kind(to, r, e) PROVE d = c /\ SplitWrite(m)
    <3>1. r.type = "WRITE" /\ Crosses(to, r)
      BY <2>2 DEF Kind, SplitWrite
    <3>2. r.size # 0 /\ to \in Caches /\ to # Mem
      BY <3>1, <1>1, <1>2, <2>2, NumberFacts DEF OkRefs
    <3>3. ~OneBlock(to, r)
      BY <3>1, <3>2, <1>1, <1>2, WithinFacts
    <3> QED
      BY <3>1, <3>2, <3>3, <1>1, <2>2 DEF SplitWrite
  <2> QED
    BY <2>1, <2>2, <1>1 DEF Kind
<1> QED
  BY <1>3, <1>4

\* The newest bytes are in the caches of the path or in the memory, and so are the
\* writes that have still to be finished.
NewestOnPath == \A a \in Addresses : newest[a] \in Caches => newest[a] \in Path
SplitsOnPath == \A d \in Caches : \A e \in ToSet(pending[d]) : SplitWrite(e) => d \in Path

\* No write is newer than the memory.
Away == \A a \in Addresses : newest[a] \notin Caches

\* No write has still to be finished.
Quiet == \A d \in Caches : \A e \in ToSet(pending[d]) : ~SplitWrite(e)

\* The caches are being copied back, as far as c: what it has still to write is
\* before the copy-back it will ask for, and no newer byte is above it.
Copying(c) ==
  LET q == pending[c] IN
  /\ q # <<>> /\ q[Len(q)].type = "COPYB" /\ q[Len(q)].size = 0
  /\ \A k \in 1 .. Len(q) : ~q[k].prefetch /\ ~q[k].split
  /\ \A k \in 1 .. Len(q) - 1 : q[k].type = "WRITE"
  /\ \A d \in Caches : pending[d] # <<>> => P(d).cacheid <= P(c).cacheid
  /\ \A a \in Addresses : newest[a] \in Caches =>
       P(newest[a]).cacheid < P(c).cacheid \/ (newest[a] = c /\ Written(q, a))

\* Everything is in the memory or will be before the next call.
Settled == Quiet /\ (Away \/ \E c \in Path : Copying(c))

\* What the caches are does not change.
LEMMA SamePath ==
  ASSUME conf' = conf
  PROVE  Caches' = Caches /\ Path' = Path /\ \A c : P(c)' = P(c)
  BY DEF Path, Caches, P, DownClosed

\* The newest bytes stay on the path.
LEMMA PathTurn ==
  ASSUME TreeInv, NewestOnPath, SplitsOnPath,
         NEW c \in Caches, NEW m, NEW r, NEW to, NEW pend, Turn(c, m, r, to, pend)
  PROVE  NewestOnPath' /\ SplitsOnPath'
<1>1. /\ m \in OkRefs /\ r.type = m.type /\ conf \in Configs
      /\ to = IF m.prefetch \/ m.split THEN c ELSE P(c).down
      /\ to \in Caches \cup {Mem}
      /\ Stepped(to, r, pend, c)
  <2>1. conf \in Configs
    BY DEF TreeInv
  <2> QED
    BY <2>1, Zenon DEF Turn
<1>2. /\ m \in ToSet(pending[c])
      /\ \A d \in Caches : \A e \in ToSet(pending'[d]) :
              SplitWrite(e) => e \in ToSet(pending[d]) \/ (d = c /\ SplitWrite(m))
  BY TurnKinds
<1>3. conf' = conf /\ Newer(to, r, c)
  BY <1>1 DEF Stepped
<1>4. Caches' = Caches /\ Path' = Path
  BY <1>3, SamePath
<1>5. SplitWrite(m) => c \in Path
  BY <1>2 DEF SplitsOnPath
<1>6. ASSUME NEW a \in Addresses, newest'[a] \in Caches PROVE newest'[a] \in Path
  <2>1. /\ Mem \notin Caches /\ Nobody \notin Caches
        /\ \A d \in Path : P(d).down \in Path \cup {Mem}
    BY <1>1, NumberFacts, PathFacts
  <2>2. \/ newest'[a] = newest[a]
        \/ newest'[a] = to /\ m.type = "WRITE" /\ c \in {to, newest[a]}
    BY <1>1, <1>3, <1>6, <2>1 DEF Newer
  <2>3. CASE newest'[a] = newest[a]
    BY <1>6, <2>3 DEF NewestOnPath
  <2>4. CASE newest'[a] = to /\ m.type = "WRITE" /\ c \in {to, newest[a]}
    <3>1. m.split => c \in Path /\ to = c
      BY <2>4, <1>1, <1>5 DEF SplitWrite
    <3>2. ~m.split => to = P(c).down
      BY <2>4, <1>1 DEF OkRefs
    <3>3. ~m.split => to # c
      <4>1. P(c).down # c
        BY <1>1, NumberFacts
      <4> QED
        BY <4>1, <3>2
    <3>4. ~m.split => newest[a] = c
      BY <2>4, <3>3
    <3>5. ~m.split => c \in Path
      BY <3>4 DEF NewestOnPath
    <3> QED
      BY <1>6, <2>1, <2>4, <3>1, <3>2, <3>5
  <2> QED
    BY <2>2, <2>3, <2>4
<1>7. NewestOnPath'
  BY <1>4, <1>6 DEF NewestOnPath
<1>8. SplitsOnPath'
  BY <1>2, <1>4, <1>5 DEF SplitsOnPath, SplitWrite
<1> QED
  BY <1>7, <1>8

\* Nothing that has still to be finished comes out of a turn when there was none,
\* and nothing newer than the memory.
LEMMA AwayTurn ==
  ASSUME TreeInv, Quiet, NEW c \in Caches, NEW m, NEW r, NEW to, NEW pend, Turn(c, m, r, to, pend)
  PROVE  /\ Quiet' /\ ~SplitWrite(m)
         /\ Away => Away' /\ \A a \in Addresses : newest'[a] = newest[a]
<1>1. /\ m \in OkRefs /\ r.type = m.type /\ conf \in Configs
      /\ to = IF m.prefetch \/ m.split THEN c ELSE P(c).down
      /\ to \in Caches \cup {Mem}
      /\ Stepped(to, r, pend, c)
      /\ m.type = "WRITE" /\ ~m.split => to = P(c).down /\ (to = Mem \/ OneBlock(to, r))
  <2>1. conf \in Configs
    BY DEF TreeInv
  <2> QED
    BY <2>1, Zenon DEF Turn
<1>2. /\ m \in ToSet(pending[c])
      /\ \A d \in Caches : \A e \in ToSet(pending'[d]) :
              SplitWrite(e) => e \in ToSet(pending[d]) \/ (d = c /\ SplitWrite(m))
  BY TurnKinds
<1>3. conf' = conf /\ Newer(to, r, c)
  BY <1>1 DEF Stepped
<1>4. Caches' = Caches
  BY <1>3, SamePath
<1>5. ~SplitWrite(m)
  BY <1>2 DEF Quiet
<1>6. Quiet'
  BY <1>2, <1>4, <1>5 DEF Quiet, SplitWrite
<1>7. ASSUME Away PROVE Away' /\ \A a \in Addresses : newest'[a] = newest[a]
  <2>1. /\ Mem \notin Caches /\ Nobody \notin Caches /\ P(c).down # c
    BY <1>1, NumberFacts
  <2>4. ASSUME NEW a \in Addresses PROVE newest'[a] = newest[a]
    <3>1. newest[a] \notin Caches
      BY <1>7 DEF Away
    <3>2. CASE newest'[a] = to /\ r.type = "WRITE" /\ c \in {to, newest[a]}
      <4>1. to = P(c).down
        BY <3>2, <1>1, <1>5 DEF SplitWrite
      <4> QED
        BY <4>1, <3>1, <3>2, <2>1
    <3> QED
      BY <3>1, <3>2, <1>3 DEF Newer
  <2> QED
    BY <1>7, <2>4, <1>4 DEF Away
<1> QED
  BY <1>5, <1>6, <1>7

\* A copy-back in progress at b, and a turn of a cache with a lower number: b waits.
LEMMA CopyingWaits ==
  ASSUME TreeInv, Quiet, NEW b \in Caches, Copying(b), NEW c \in Caches, c # b,
         NEW m, NEW r, NEW to, NEW pend, Turn(c, m, r, to, pend)
  PROVE  Copying(b)'
<1> DEFINE q == pending[b]
<1>1. /\ \A d \in Caches : pending[d] # <<>> => P(c).cacheid <= P(d).cacheid
      /\ pending[c] # <<>> /\ m \in OkRefs /\ r.type = m.type
      /\ to = IF m.prefetch \/ m.split THEN c ELSE P(c).down
      /\ to \in Caches \cup {Mem}
      /\ \A d \in Caches : d # c => pend[d] = pending[d]
      /\ Stepped(to, r, pend, c)
  BY Zenon DEF Turn
<1>2. /\ q # <<>> /\ q[Len(q)].type = "COPYB" /\ q[Len(q)].size = 0
      /\ \A k \in 1 .. Len(q) : ~q[k].prefetch /\ ~q[k].split
      /\ \A k \in 1 .. Len(q) - 1 : q[k].type = "WRITE"
      /\ \A d \in Caches : pending[d] # <<>> => P(d).cacheid <= P(b).cacheid
      /\ \A a \in Addresses : newest[a] \in Caches =>
           P(newest[a]).cacheid < P(b).cacheid \/ (newest[a] = b /\ Written(q, a))
  BY Zenon DEF Copying
<1>3. conf \in Configs
  BY DEF TreeInv
<1>4. /\ Mem \notin Caches /\ Nobody \notin Caches
      /\ \A d \in Caches : /\ P(d).cacheid \in Nat
                           /\ P(d).down # Mem => P(P(d).down).cacheid < P(d).cacheid
      /\ \A d, e \in Caches : P(d).cacheid = P(e).cacheid => d = e
  BY <1>3, NumberFacts
<1>5. P(c).cacheid < P(b).cacheid
  <2>1. P(c).cacheid <= P(b).cacheid
    BY <1>1, <1>2
  <2> QED
    BY <2>1, <1>4
<1>6. to \in Caches => P(to).cacheid < P(b).cacheid
  <2>1. P(c).down \in Caches \cup {Mem}
    BY <1>3, CacheFacts
  <2> QED
    BY <2>1, <1>1, <1>4, <1>5
<1>7. pending'[b] = q /\ \A d \in Caches : d # c /\ d # to => pending'[d] = pending[d]
  <2>1. to # b
    BY <1>4, <1>6
  <2>2. \A d \in Caches : d # to => pending'[d] = pend[d]
    BY <1>1 DEF Stepped
  <2> QED
    BY <1>1, <2>1, <2>2
<1>8. conf' = conf /\ Newer(to, r, c)
  BY <1>1 DEF Stepped
<1>9. Caches' = Caches /\ \A d : P(d)' = P(d)
  BY <1>8, SamePath
<1>10. ASSUME NEW d \in Caches, pending'[d] # <<>> PROVE P(d).cacheid <= P(b).cacheid
  <2>1. CASE d = c \/ d = to
    BY <2>1, <1>4, <1>5, <1>6, <1>10
  <2>2. CASE d # c /\ d # to
    BY <2>2, <1>2, <1>7, <1>10
  <2> QED
    BY <2>1, <2>2
<1>11. ASSUME NEW a \in Addresses, newest'[a] \in Caches
       PROVE  P(newest'[a]).cacheid < P(b).cacheid \/ (newest'[a] = b /\ Written(q, a))
  <2>1. newest'[a] = newest[a] \/ newest'[a] = to
    BY <1>4, <1>8, <1>11 DEF Newer
  <2>2. CASE newest'[a] = to
    BY <2>2, <1>6, <1>11
  <2>3. CASE newest'[a] = newest[a]
    BY <2>3, <1>2, <1>11
  <2> QED
    BY <2>1, <2>2, <2>3
<1> QED
  BY <1>2, <1>7, <1>9, <1>10, <1>11, Zenon DEF Copying

\* The turn of the cache that is copied back: it has one write less.
LEMMA CopyingWrites ==
  ASSUME TreeInv, NEW c \in Caches, Copying(c), Len(pending[c]) # 1,
         NEW m, NEW r, NEW to, NEW pend, Turn(c, m, r, to, pend)
  PROVE  Copying(c)'
<1> DEFINE q == pending[c]
           t == Tail(q)
<1>1. /\ pending[c] # <<>> /\ m = Head(pending[c]) /\ m \in OkRefs /\ r.type = m.type
      /\ Bytes(r) = Bytes(m) /\ r \in OkRefs
      /\ m.type = "WRITE" /\ ~m.split => to = P(c).down /\ (to = Mem \/ OneBlock(to, r))
      /\ pend[c] = Tail(pending[c]) /\ \A d \in Caches : d # c => pend[d] = pending[d]
      /\ \A a : Written(pending[c], a) =>
           Written(pend[c], a) \/ (m.type = "WRITE" /\ ~m.split /\ a \in Bytes(m))
      /\ to \in Caches \cup {Mem}
      /\ Stepped(to, r, pend, c)
  BY Zenon DEF Turn
<1>2. /\ q # <<>> /\ q[Len(q)].type = "COPYB" /\ q[Len(q)].size = 0
      /\ \A k \in 1 .. Len(q) : ~q[k].prefetch /\ ~q[k].split
      /\ \A k \in 1 .. Len(q) - 1 : q[k].type = "WRITE"
      /\ \A d \in Caches : pending[d] # <<>> => P(d).cacheid <= P(c).cacheid
      /\ \A a \in Addresses : newest[a] \in Caches =>
           P(newest[a]).cacheid < P(c).cacheid \/ (newest[a] = c /\ Written(q, a))
  BY Zenon DEF Copying
<1>3. conf \in Configs /\ q \in Seq(OkRefs)
  BY DEF TreeInv, CacheInv, Asked
<1>4. /\ Mem \notin Caches /\ Nobody \notin Caches
      /\ \A d \in Caches : /\ P(d).cacheid \in Nat
                           /\ P(d).down # Mem => P(P(d).down).cacheid < P(d).cacheid
  BY <1>3, NumberFacts
<1>5. /\ pend[c] = t /\ m = Head(q) /\ Len(q) # 1
      /\ \A a : Written(q, a) => Written(t, a) \/ (m.type = "WRITE" /\ ~m.split /\ a \in Bytes(m))
  BY <1>1
<1> HIDE DEF q
<1>6. /\ t \in Seq(OkRefs) /\ Len(t) = Len(q) - 1 /\ Len(q) \in Nat \ {0, 1} /\ m = q[1]
      /\ \A k \in 1 .. Len(t) : t[k] = q[k + 1]
  BY <1>2, <1>3, <1>5
<1> HIDE DEF t
<1>7. m.type = "WRITE" /\ ~m.split
  BY <1>2, <1>6
<1>8. to = P(c).down /\ (to \in Caches => P(to).cacheid < P(c).cacheid) /\ to # c
  BY <1>1, <1>4, <1>7
<1>9. conf' = conf /\ Newer(to, r, c) /\ \A d \in Caches : d # to => pending'[d] = pend[d]
  BY <1>1 DEF Stepped
<1>10. Caches' = Caches /\ \A d : P(d)' = P(d)
  BY <1>9, SamePath
<1>11. pending'[c] = t
  BY <1>5, <1>8, <1>9
<1>12. /\ t # <<>> /\ t[Len(t)].type = "COPYB" /\ t[Len(t)].size = 0
       /\ \A k \in 1 .. Len(t) : ~t[k].prefetch /\ ~t[k].split
       /\ \A k \in 1 .. Len(t) - 1 : t[k].type = "WRITE"
  <2>1. t[Len(t)] = q[Len(q)] /\ Len(t) \in Nat \ {0} /\ t # <<>>
    BY <1>6
  <2>2. \A k \in 1 .. Len(t) : k + 1 \in 1 .. Len(q) /\ t[k] = q[k + 1]
    BY <1>6
  <2>3. \A k \in 1 .. Len(t) - 1 : k + 1 \in 1 .. Len(q) - 1 /\ t[k] = q[k + 1]
    BY <1>6
  <2>4. t[Len(t)].type = "COPYB" /\ t[Len(t)].size = 0
    BY <2>1, <1>2
  <2>5. \A k \in 1 .. Len(t) : ~t[k].prefetch /\ ~t[k].split
    BY <2>2, <1>2
  <2>6. \A k \in 1 .. Len(t) - 1 : t[k].type = "WRITE"
    BY <2>3, <1>2
  <2> QED
    BY <2>1, <2>4, <2>5, <2>6
<1>13. ASSUME NEW d \in Caches, pending'[d] # <<>> PROVE P(d).cacheid <= P(c).cacheid
  <2>1. CASE d = c \/ d = to
    BY <2>1, <1>4, <1>8
  <2>2. CASE d # c /\ d # to
    BY <2>2, <1>1, <1>2, <1>9, <1>13
  <2> QED
    BY <2>1, <2>2
<1>14. ASSUME NEW a \in Addresses, newest'[a] \in Caches
       PROVE  P(newest'[a]).cacheid < P(c).cacheid \/ (newest'[a] = c /\ Written(t, a))
  <2>1. newest'[a] = newest[a] \/ newest'[a] = to
    BY <1>4, <1>9, <1>14 DEF Newer
  <2>2. CASE newest'[a] = to
    BY <2>2, <1>8, <1>14
  <2>3. CASE newest'[a] = newest[a] /\ newest'[a] # to
    <3>1. SUFFICES ASSUME newest[a] = c, Written(q, a) PROVE Written(t, a)
      BY <2>3, <1>2, <1>14
    <3>2. a \in Bytes(m) => newest'[a] = to
      BY <3>1, <1>1, <1>7, <1>9 DEF Newer
    <3> QED
      BY <3>1, <3>2, <2>3, <1>5
  <2> QED
    BY <2>1, <2>2, <2>3
<1> QED
  BY <1>10, <1>11, <1>12, <1>13, <1>14, Zenon DEF Copying

\* A copy-back of all of a cache starts, when nothing else is pending and nothing
\* newer is above it.
LEMMA CopyingStarts ==
  ASSUME TreeInv, HeldAll, conf' = conf, NEW c \in Caches, pending[c] = <<>>,
         NEW m \in OkRefs, m.type = "COPYB", m.size = 0, ~m.prefetch, ~m.split,
         NEW s \in Seq(OkRefs), pending'[c] = s, Copied(c, m, s),
         \A d \in Caches : d # c => pending'[d] = <<>>,
         \A a \in Addresses : newest'[a] = newest[a],
         \A a \in Addresses : newest[a] \in Caches => P(newest[a]).cacheid <= P(c).cacheid
  PROVE  Copying(c)'
<1>1. /\ s # <<>> /\ s[Len(s)] = m
      /\ \A k \in 1 .. Len(s) - 1 : s[k].type = "WRITE" /\ ~s[k].split /\ ~s[k].prefetch
      /\ \A a \in Addresses : DirtyIn(c, stack[c], a) => Written(s, a)
  BY DEF Copied
<1>2. \A k \in 1 .. Len(s) : ~s[k].prefetch /\ ~s[k].split
  <2>1. Len(s) \in Nat /\ \A k \in 1 .. Len(s) : k = Len(s) \/ k \in 1 .. Len(s) - 1
    OBVIOUS
  <2> QED
    BY <2>1, <1>1
<1>3. /\ \A d \in Caches : P(d).cacheid \in Nat
      /\ \A d, e \in Caches : P(d).cacheid = P(e).cacheid => d = e
  BY NumberFacts DEF TreeInv
<1>4. Caches' = Caches /\ \A d : P(d)' = P(d)
  BY SamePath
<1>5. \A d \in Caches : pending'[d] # <<>> => P(d).cacheid <= P(c).cacheid
  BY <1>3
<1>6. ASSUME NEW a \in Addresses, newest'[a] \in Caches
      PROVE  P(newest'[a]).cacheid < P(c).cacheid \/ (newest'[a] = c /\ Written(s, a))
  <2>1. newest'[a] = newest[a] /\ P(newest[a]).cacheid <= P(c).cacheid
    BY <1>6
  <2>2. CASE newest[a] = c
    <3>1. DirtyIn(c, stack[c], a) \/ Written(pending[c], a)
      BY <2>2 DEF HeldAll, HeldInv
    <3>2. ~Written(pending[c], a)
      BY DEF Written
    <3> QED
      BY <3>1, <3>2, <2>1, <2>2, <1>1
  <2>3. CASE newest[a] # c
    BY <2>1, <2>3, <1>3, <1>6
  <2> QED
    BY <2>2, <2>3
<1> QED
  BY <1>1, <1>2, <1>4, <1>5, <1>6, Zenon DEF Copying

\* The turn of the cache that is copied back, which has nothing more to write: the
\* copy-back goes on downstream, and ends with the memory.
LEMMA CopyingEnds ==
  ASSUME TreeInv, HeldAll, NewestOnPath, NEW c \in Path, Copying(c), Len(pending[c]) = 1,
         NEW m, NEW r, NEW to, NEW pend, Turn(c, m, r, to, pend)
  PROVE  Away' \/ (to \in Path /\ Copying(to)')
<1> DEFINE q == pending[c]
<1>1. /\ pending[c] # <<>> /\ m = Head(pending[c]) /\ m \in OkRefs
      /\ ~m.split => r = m
      /\ \A d \in Caches : pending[d] # <<>> => P(c).cacheid <= P(d).cacheid
      /\ pend[c] = Tail(pending[c]) /\ \A d \in Caches : d # c => pend[d] = pending[d]
      /\ to = IF m.prefetch \/ m.split THEN c ELSE P(c).down
      /\ to \in Caches \cup {Mem}
      /\ Stepped(to, r, pend, c)
  BY Zenon DEF Turn
<1>2. /\ q # <<>> /\ q[Len(q)].type = "COPYB" /\ q[Len(q)].size = 0
      /\ \A k \in 1 .. Len(q) : ~q[k].prefetch /\ ~q[k].split
      /\ \A d \in Caches : pending[d] # <<>> => P(d).cacheid <= P(c).cacheid
      /\ \A a \in Addresses : newest[a] \in Caches =>
           P(newest[a]).cacheid < P(c).cacheid \/ (newest[a] = c /\ Written(q, a))
  BY Zenon DEF Copying
<1>3. c \in Caches /\ conf \in Configs /\ q \in Seq(OkRefs)
  <2>1. conf \in Configs
    BY DEF TreeInv
  <2>2. c \in Caches
    BY <2>1, PathFacts
  <2> QED
    BY <2>1, <2>2 DEF TreeInv, CacheInv, Asked
<1>4. /\ Mem \notin Caches /\ Nobody \notin Caches /\ Path \in SUBSET Caches
      /\ \A d \in Caches : /\ P(d).cacheid \in Nat
                           /\ P(d).down # Mem => P(P(d).down).cacheid < P(d).cacheid
      /\ \A d, e \in Caches : P(d).cacheid = P(e).cacheid => d = e
  BY <1>3, NumberFacts, PathFacts
<1>5. pend[c] = Tail(q) /\ m = Head(q) /\ Len(q) = 1
  BY <1>1
<1> HIDE DEF q
<1>6. m = q[1] /\ pend[c] = <<>>
  BY <1>2, <1>3, <1>5
<1>7. m.type = "COPYB" /\ m.size = 0 /\ ~m.prefetch /\ ~m.split /\ r = m
  BY <1>1, <1>2, <1>5, <1>6
<1>8. to = P(c).down /\ (to \in Caches => P(to).cacheid < P(c).cacheid) /\ to # c
  BY <1>1, <1>3, <1>4, <1>7
<1>9. /\ conf' = conf /\ Newer(to, r, c) /\ \A d \in Caches : d # to => pending'[d] = pend[d]
      /\ to \in Caches => Asks(to, r, pend)
  BY <1>1 DEF Stepped
<1>10. Caches' = Caches /\ Path' = Path /\ \A d : P(d)' = P(d)
  BY <1>9, SamePath
<1>11. \A a \in Addresses : newest'[a] = newest[a]
  BY <1>7, <1>9 DEF Newer
<1>12. ~\E a : Written(q, a)
  BY <1>2, <1>5 DEF Written
<1>13. \A a \in Addresses : newest[a] \in Caches => newest[a] \in Path /\ P(newest[a]).cacheid < P(c).cacheid
  BY <1>2, <1>12 DEF NewestOnPath
<1>14. \A a \in Addresses : newest[a] \in Caches =>
         to \in Path /\ P(newest[a]).cacheid <= P(to).cacheid
  BY <1>3, <1>8, <1>13, Chain
<1>15. \A d \in Caches : pend[d] = <<>>
  <2>1. ASSUME NEW d \in Caches, pending[d] # <<>> PROVE d = c
    <3>1. P(c).cacheid <= P(d).cacheid /\ P(d).cacheid <= P(c).cacheid
      BY <2>1, <1>1, <1>2
    <3> QED
      BY <3>1, <1>3, <1>4
  <2> QED
    BY <2>1, <1>1, <1>6
<1>16. CASE to \notin Path
  BY <1>10, <1>11, <1>14, <1>16 DEF Away
<1>17. CASE to \in Path
  <2>1. to \in Caches
    BY <1>4, <1>17
  <2>2. PICK s \in Seq(OkRefs) : pending'[to] = s \o pend[to] /\ Copied(to, r, s)
    BY <1>7, <1>9, <2>1 DEF Asks
  <2>3. pending'[to] = s
    BY <2>1, <2>2, <1>15
  <2>4. pending[to] = <<>>
    BY <1>1, <1>8, <1>15, <2>1
  <2>5. \A d \in Caches : d # to => pending'[d] = <<>>
    BY <1>9, <1>15
  <2>8. Copying(to)'
    BY <2>1, <2>2, <2>3, <2>4, <2>5, <1>1, <1>7, <1>9, <1>11, <1>14, CopyingStarts
  <2> QED
    BY <2>8, <1>17
<1> QED
  BY <1>16, <1>17

\* A copy-back of everything goes on until everything is in the memory.
LEMMA SettledTurn ==
  ASSUME TreeInv, HeldAll, NewestOnPath, Settled,
         NEW c \in Caches, NEW m, NEW r, NEW to, NEW pend, Turn(c, m, r, to, pend)
  PROVE  Settled'
<1>1. Quiet /\ (Away \/ \E b \in Path : Copying(b))
  BY DEF Settled
<1>2. Quiet' /\ (Away => Away')
  BY <1>1, AwayTurn
<1>3. conf' = conf /\ conf \in Configs
  <2>1. Stepped(to, r, pend, c)
    BY Zenon DEF Turn
  <2> QED
    BY <2>1 DEF Stepped, TreeInv
<1>4. Path' = Path /\ Path \in SUBSET Caches
  BY <1>3, SamePath, PathFacts
<1>5. ASSUME NEW b \in Path, Copying(b)
      PROVE  Away' \/ \E d \in Path : Copying(d)'
  <2>1. CASE b # c
    <3>1. Copying(b)'
      BY <2>1, <1>1, <1>4, <1>5, CopyingWaits
    <3> QED
      BY <3>1
  <2>2. CASE b = c /\ Len(pending[c]) # 1
    <3>1. Copying(c)'
      BY <2>2, <1>5, CopyingWrites
    <3> QED
      BY <3>1, <2>2
  <2>3. CASE b = c /\ Len(pending[c]) = 1
    <3>1. Away' \/ (to \in Path /\ Copying(to)')
      BY <2>3, <1>5, CopyingEnds
    <3> QED
      BY <3>1
  <2> QED
    BY <2>1, <2>2, <2>3
<1>6. Away' \/ \E d \in Path' : Copying(d)'
  BY <1>1, <1>2, <1>4, <1>5
<1> QED
  BY <1>2, <1>6, Zenon DEF Settled
\* The data cache is the first on the path.
LEMMA PathTop ==
  ASSUME conf \in Configs, NEW c \in Path
  PROVE  P(c).cacheid <= P(conf.cd).cacheid
<1> DEFINE S == {d \in Path : P(d).cacheid <= P(conf.cd).cacheid}
<1>1. /\ conf.cd \in Path /\ Path \in SUBSET Caches
      /\ \A d \in Path : P(d).down \in Path \cup {Mem}
      /\ \A T \in SUBSET Caches : conf.cd \in T /\ DownClosed(T) => Path \subseteq T
  BY PathFacts
<1>2. \A d \in Path : P(d).cacheid \in Nat /\ (P(d).down # Mem => P(P(d).down).cacheid < P(d).cacheid)
  BY <1>1, NumberFacts
<1>3. DownClosed(S)
  BY <1>1, <1>2 DEF DownClosed
<1>4. S \in SUBSET Caches /\ conf.cd \in S
  BY <1>1, <1>2
<1>5. Path \subseteq S
  BY <1>1, <1>3, <1>4
<1> QED
  BY <1>5

\* No record of the trace invalidates.
Uninvalidated == \A r \in conf.trace : r.type # "INVAL"

\* What is written or copied back, it is through the data cache.
CallsToData ==
  \A k \in 1 .. Len(calls) : calls[k].ref.type \in {"WRITE", "COPYB"} => calls[k].cache = conf.cd

\* When the call k comes, everything will be in the memory.
WholeCopy(k) == calls[k].ref.type = "COPYB" /\ calls[k].ref.size = 0
NoWrites(j, k) == \A i \in j .. k : calls[i].ref.type # "WRITE"
Preceded(k) ==
  \/ \E j \in 1 .. k - 1 : WholeCopy(j) /\ NoWrites(j + 1, k - 1)
  \/ Settled /\ NoWrites(1, k - 1)

CopiedFirst ==
  /\ Uninvalidated => \A k \in 1 .. Len(calls) : calls[k].ref.type = "INVAL" => Preceded(k)
  /\ done => Preceded(Len(calls) + 1)

\* What is invalidated is in the memory.
CleanInvals ==
  Uninvalidated /\ (\E d \in Caches : \E e \in ToSet(pending[d]) : e.type = "INVAL") => Away /\ Quiet
NoneDropped == Uninvalidated => \A a \in Addresses : newest[a] # Nobody

FlushInv ==
  NewestOnPath /\ SplitsOnPath /\ CallsToData /\ CopiedFirst /\ CleanInvals /\ NoneDropped

\* A turn of d4_dopending.
LEMMA FlushTurn ==
  ASSUME TreeInv, HeldAll, FlushInv, UNCHANGED driver,
         NEW c \in Caches, NEW m, NEW r, NEW to, NEW pend, Turn(c, m, r, to, pend)
  PROVE  FlushInv'
<1>1. NewestOnPath /\ SplitsOnPath /\ CallsToData /\ CopiedFirst /\ CleanInvals /\ NoneDropped
  BY DEF FlushInv
<1>2. NewestOnPath' /\ SplitsOnPath'
  BY <1>1, PathTurn
<1>3. Stepped(to, r, pend, c) /\ r.type = m.type
  BY Zenon DEF Turn
<1>4. conf' = conf /\ calls' = calls /\ done' = done /\ Newer(to, r, c)
  BY <1>3 DEF Stepped, driver
<1>5. Settled => Settled'
  BY <1>1, SettledTurn
<1>6. CallsToData'
  BY <1>1, <1>4 DEF CallsToData
<1>7. (Uninvalidated' <=> Uninvalidated) /\ Caches' = Caches
  BY <1>4, SamePath DEF Uninvalidated
<1>8. \A k : Preceded(k) => Preceded(k)'
  BY <1>4, <1>5 DEF Preceded, WholeCopy, NoWrites
<1>9. CopiedFirst'
  BY <1>1, <1>4, <1>7, <1>8 DEF CopiedFirst
<1>10. /\ m \in ToSet(pending[c])
       /\ \A d \in Caches : \A e \in ToSet(pending'[d]) :
            e.type = "INVAL" => e \in ToSet(pending[d]) \/ m.type = "INVAL"
  BY TurnKinds
<1>11. CleanInvals'
  <2> SUFFICES ASSUME Uninvalidated, NEW d \in Caches, NEW e \in ToSet(pending'[d]), e.type = "INVAL"
               PROVE  Away' /\ Quiet'
    BY <1>7 DEF CleanInvals
  <2>1. Away /\ Quiet
    BY <1>1, <1>10 DEF CleanInvals
  <2> QED
    BY <2>1, AwayTurn
<1>12. NoneDropped'
  <2> SUFFICES ASSUME Uninvalidated, NEW a \in Addresses PROVE newest'[a] # Nobody
    BY <1>7 DEF NoneDropped
  <2>1. newest[a] # Nobody
    BY <1>1 DEF NoneDropped
  <2>2. CASE m.type = "INVAL"
    <3>1. Away /\ Quiet
      BY <2>2, <1>1, <1>10 DEF CleanInvals
    <3>2. newest'[a] = newest[a]
      BY <3>1, AwayTurn
    <3> QED
      BY <3>2, <2>1
  <2>3. CASE m.type # "INVAL"
    <3>1. to # Nobody
      <4>1. to \in Caches \cup {Mem} /\ conf \in Configs
        <5>1. to \in Caches \cup {Mem}
          BY Zenon DEF Turn
        <5> QED
          BY <5>1 DEF TreeInv
      <4>2. Nobody \notin Caches /\ Mem # Nobody
        BY <4>1, NumberFacts, TreeAssumption
      <4> QED
        BY <4>1, <4>2
    <3> QED
      BY <3>1, <2>1, <2>3, <1>3, <1>4 DEF Newer
  <2> QED
    BY <2>2, <2>3
<1> QED
  BY <1>2, <1>6, <1>9, <1>11, <1>12 DEF FlushInv

\* A step that leaves the tree alone.
LEMMA FlushStill ==
  ASSUME UNCHANGED <<conf, stack, pending, seen, newest>>
  PROVE  /\ Settled => Settled'
         /\ NewestOnPath => NewestOnPath'
         /\ SplitsOnPath => SplitsOnPath'
         /\ CleanInvals => CleanInvals'
         /\ NoneDropped => NoneDropped'
         /\ Uninvalidated' <=> Uninvalidated
<1>1. conf' = conf /\ pending' = pending /\ newest' = newest
  OBVIOUS
<1>2. Caches' = Caches /\ Path' = Path /\ \A c : P(c)' = P(c)
  BY <1>1, SamePath
<1>3. (Uninvalidated' <=> Uninvalidated) /\ (Away' <=> Away) /\ (Quiet' <=> Quiet)
  BY <1>1, <1>2 DEF Uninvalidated, Away, Quiet
<1>4. \A c : Copying(c) => Copying(c)'
  <2> TAKE c
  <2> HAVE Copying(c)
  <2> DEFINE q == pending[c]
  <2>1. pending'[c] = q
    BY <1>1
  <2>2. /\ q # <<>> /\ q[Len(q)].type = "COPYB" /\ q[Len(q)].size = 0
        /\ \A k \in 1 .. Len(q) : ~q[k].prefetch /\ ~q[k].split
        /\ \A k \in 1 .. Len(q) - 1 : q[k].type = "WRITE"
        /\ \A d \in Caches : pending[d] # <<>> => P(d).cacheid <= P(c).cacheid
        /\ \A a \in Addresses : newest[a] \in Caches =>
             P(newest[a]).cacheid < P(c).cacheid \/ (newest[a] = c /\ Written(q, a))
    BY Zenon DEF Copying
  <2> HIDE DEF q
  <2>3. /\ \A d \in Caches : pending'[d] # <<>> => P(d).cacheid <= P(c).cacheid
        /\ \A a \in Addresses : newest'[a] \in Caches =>
             P(newest'[a]).cacheid < P(c).cacheid \/ (newest'[a] = c /\ Written(q, a))
    BY <1>1, <2>2
  <2> QED
    BY <1>2, <2>1, <2>2, <2>3, Zenon DEF Copying
<1>5. Settled => Settled'
  BY <1>2, <1>3, <1>4, Zenon DEF Settled
<1>6. NewestOnPath => NewestOnPath'
  BY <1>1, <1>2 DEF NewestOnPath
<1>7. SplitsOnPath => SplitsOnPath'
  BY <1>1, <1>2 DEF SplitsOnPath
<1>8. CleanInvals => CleanInvals'
  BY <1>1, <1>2, <1>3 DEF CleanInvals
<1>9. NoneDropped => NoneDropped'
  BY <1>1, <1>3 DEF NoneDropped
<1> QED
  BY <1>3, <1>5, <1>6, <1>7, <1>8, <1>9

\* It is so to begin with.
LEMMA FlushInit ==
  ASSUME Init
  PROVE  FlushInv
<1>1. /\ conf \in Configs /\ calls = <<>> /\ done = FALSE
      /\ pending = [c \in Caches |-> <<>>] /\ newest = [a \in Addresses |-> Mem]
  BY DEF Init, d4setup
<1>2. Mem \notin Caches /\ Mem # Nobody
  BY <1>1, NumberFacts, TreeAssumption
<1>3. \A a \in Addresses : newest[a] = Mem
  BY <1>1
<1>4. \A d \in Caches : ToSet(pending[d]) = {}
  BY <1>1 DEF ToSet
<1>5. NewestOnPath /\ NoneDropped
  <2>1. \A a \in Addresses : newest[a] \notin Caches /\ newest[a] # Nobody
    BY <1>2, <1>3
  <2> QED
    BY <2>1 DEF NewestOnPath, NoneDropped
<1>6. SplitsOnPath /\ CleanInvals
  BY <1>4 DEF SplitsOnPath, CleanInvals
<1>7. CallsToData /\ CopiedFirst
  BY <1>1 DEF CallsToData, CopiedFirst
<1> QED
  BY <1>5, <1>6, <1>7 DEF FlushInv

\* The next call of a program reaches its cache.
LEMMA FlushCall ==
  ASSUME TreeInv, HeldAll, FlushInv, Idle, calls \in Seq(CallRecs), calls # <<>>,
         calls' = Tail(calls), done' = done,
         Stepped(Head(calls).cache, Head(calls).ref, pending, Head(calls).cache)
  PROVE  FlushInv'
<1>0. PICK c, m, n : c = Head(calls).cache /\ m = Head(calls).ref /\ n = Len(calls)
  OBVIOUS
<1>1. NewestOnPath /\ SplitsOnPath /\ CallsToData /\ CopiedFirst /\ CleanInvals /\ NoneDropped
  BY DEF FlushInv
<1>2. /\ n \in Nat \ {0} /\ Len(calls') = n - 1
      /\ calls[1].cache = c /\ calls[1].ref = m
      /\ \A k \in 1 .. n - 1 : k + 1 \in 1 .. n /\ calls'[k] = calls[k + 1]
  BY <1>0
<1>3. c \in Caches /\ m \in OkRefs /\ ~m.split /\ ~m.prefetch
  <2>1. Head(calls) \in CallRecs
    OBVIOUS
  <2> QED
    BY <2>1, <1>0 DEF CallRecs
<1>s. Stepped(c, m, pending, c)
  BY <1>0
<1>4. conf' = conf /\ Newer(c, m, c) /\ Asks(c, m, pending) /\ \A d \in Caches : d # c => pending'[d] = pending[d]
  BY <1>3, <1>s DEF Stepped
<1>5. conf \in Configs /\ PendOk(pending)
  BY DEF TreeInv, CacheInv, PendOk
<1>6. /\ Caches' = Caches /\ Path' = Path /\ (Uninvalidated' <=> Uninvalidated)
      /\ \A d : P(d)' = P(d)
  BY <1>4, SamePath DEF Uninvalidated
<1>7. conf.cd \in Path /\ Path \in SUBSET Caches /\ Mem \notin Caches /\ Nobody \notin Caches
  BY <1>5, PathFacts, NumberFacts
<1>8. m.type \in {"WRITE", "COPYB"} => c = conf.cd
  BY <1>1, <1>2 DEF CallsToData
<1>9. \A d \in Caches : pending[d] = <<>> /\ ToSet(pending[d]) = {}
  BY DEF Idle, ToSet
<1>10. \A d \in Caches : \A e \in ToSet(pending'[d]) : d = c /\ Kind(c, m, e)
  BY <1>3, <1>5, <1>9, <1>s, Grown
<1>11. \A a \in Addresses : \/ newest'[a] = newest[a]
                            \/ newest'[a] = c /\ m.type = "WRITE"
                            \/ newest'[a] = Nobody /\ m.type = "INVAL" /\ newest[a] = c
  BY <1>4 DEF Newer
<1>12. NewestOnPath'
  BY <1>1, <1>6, <1>7, <1>8, <1>11 DEF NewestOnPath
<1>13. SplitsOnPath'
  BY <1>6, <1>7, <1>8, <1>10 DEF SplitsOnPath, SplitWrite, Kind
<1>14. CallsToData'
  BY <1>1, <1>2, <1>4 DEF CallsToData
<1>15. m.type # "WRITE" => Quiet'
  BY <1>6, <1>10 DEF Quiet, SplitWrite, Kind
<1>16. Settled => Away
  <2>1. \A b \in Path : ~Copying(b)
    BY <1>7, <1>9 DEF Copying
  <2> QED
    BY <2>1 DEF Settled
<1>17. Settled /\ m.type # "WRITE" => Away' /\ Quiet' /\ Settled'
  <2> HAVE Settled /\ m.type # "WRITE"
  <2>1. Away'
    BY <1>6, <1>7, <1>11, <1>16 DEF Away
  <2> QED
    BY <2>1, <1>15 DEF Settled
<1>18. m.type = "COPYB" /\ m.size = 0 => Settled'
  <2> HAVE m.type = "COPYB" /\ m.size = 0
  <2>1. c = conf.cd /\ c \in Path
    BY <1>7, <1>8
  <2>2. PICK s \in Seq(OkRefs) : pending'[c] = s \o pending[c] /\ Copied(c, m, s)
    BY <1>4 DEF Asks
  <2>3. pending[c] = <<>> /\ pending'[c] = s
    BY <1>3, <1>9, <2>2
  <2>4. \A d \in Caches : d # c => pending'[d] = <<>>
    BY <1>4, <1>9
  <2>5. \A a \in Addresses : newest'[a] = newest[a]
    BY <1>11
  <2>6. \A a \in Addresses : newest[a] \in Caches => P(newest[a]).cacheid <= P(c).cacheid
    BY <1>1, <1>5, <2>1, PathTop DEF NewestOnPath
  <2>7. Copying(c)'
    BY <1>3, <1>4, <2>2, <2>3, <2>4, <2>5, <2>6, CopyingStarts
  <2> QED
    BY <2>1, <2>7, <1>6, <1>15, Zenon DEF Settled
<1>19. ASSUME NEW k \in 1 .. n, Preceded(k + 1)
       PROVE  Preceded(k)'
  <2>1. NoWrites(1, k) => m.type # "WRITE"
    BY <1>2 DEF NoWrites
  <2>2. \A i : NoWrites(i + 1, k) /\ i \in Nat \ {0} => NoWrites(i, k - 1)'
    <3> SUFFICES ASSUME NEW i \in Nat \ {0}, NoWrites(i + 1, k), NEW j \in i .. k - 1
                 PROVE  calls'[j].ref.type # "WRITE"
      BY DEF NoWrites
    <3>1. j + 1 \in i + 1 .. k /\ j \in 1 .. n - 1
      BY <1>2
    <3>2. calls[j + 1].ref.type # "WRITE"
      BY <3>1 DEF NoWrites
    <3> QED
      BY <3>1, <3>2, <1>2
  <2>3. CASE Settled /\ NoWrites(1, k)
    <3>1. NoWrites(1 + 1, k)
      BY <2>3 DEF NoWrites
    <3>2. NoWrites(1, k - 1)'
      BY <3>1, <2>2
    <3> QED
      BY <3>2, <2>1, <2>3, <1>17 DEF Preceded
  <2>4. ASSUME NEW j \in 1 .. k, WholeCopy(j), NoWrites(j + 1, k)
        PROVE  Preceded(k)'
    <3>1. NoWrites(j, k - 1)'
      BY <2>2, <2>4
    <3>2. CASE j = 1
      <4>1. m.type = "COPYB" /\ m.size = 0
        BY <3>2, <2>4, <1>2 DEF WholeCopy
      <4> QED
        BY <4>1, <3>1, <3>2, <1>18 DEF Preceded
    <3>3. CASE j # 1
      <4>1. j - 1 \in 1 .. k - 1 /\ j - 1 \in 1 .. n - 1 /\ (j - 1) + 1 = j
        BY <3>3, <1>2
      <4>2. calls'[j - 1] = calls[j]
        BY <4>1, <1>2
      <4>3. WholeCopy(j - 1)'
        BY <4>2, <2>4 DEF WholeCopy
      <4> QED
        BY <4>1, <4>3, <3>1 DEF Preceded
    <3> QED
      BY <3>2, <3>3
  <2>5. (k + 1) - 1 = k
    OBVIOUS
  <2> QED
    BY <2>3, <2>4, <2>5, <1>19 DEF Preceded
<1>20. CopiedFirst'
  <2>1. ASSUME Uninvalidated, NEW k \in 1 .. n - 1, calls'[k].ref.type = "INVAL" PROVE Preceded(k)'
    <3>1. k \in 1 .. n /\ k + 1 \in 1 .. n /\ calls'[k] = calls[k + 1]
      BY <1>2
    <3>2. Preceded(k + 1)
      BY <3>1, <2>1, <1>0, <1>1 DEF CopiedFirst
    <3> QED
      BY <3>1, <3>2, <1>19
  <2>2. ASSUME done PROVE Preceded(n)'
    <3>1. Preceded(n + 1) /\ n \in 1 .. n
      BY <2>2, <1>0, <1>1, <1>2 DEF CopiedFirst
    <3> QED
      BY <3>1, <1>19
  <2>3. Len(calls') + 1 = n
    BY <1>2
  <2>4. done' => Preceded(Len(calls) + 1)'
    BY <2>2, <2>3
  <2> QED
    BY <2>1, <2>4, <1>2, <1>6 DEF CopiedFirst
<1>21. ASSUME Uninvalidated, m.type = "INVAL" PROVE Settled
  <2>1. Preceded(1)
    BY <1>0, <1>1, <1>2, <1>21 DEF CopiedFirst
  <2> QED
    BY <2>1 DEF Preceded
<1>22. CleanInvals'
  <2> SUFFICES ASSUME Uninvalidated, NEW d \in Caches, NEW e \in ToSet(pending'[d]), e.type = "INVAL"
               PROVE  Away' /\ Quiet'
    BY <1>6 DEF CleanInvals
  <2>1. m.type = "INVAL"
    BY <1>10 DEF Kind
  <2> QED
    BY <2>1, <1>17, <1>21
<1>23. NoneDropped'
  <2> SUFFICES ASSUME Uninvalidated, NEW a \in Addresses PROVE newest'[a] # Nobody
    BY <1>6 DEF NoneDropped
  <2>1. newest[a] # Nobody
    BY <1>1 DEF NoneDropped
  <2>2. m.type = "INVAL" => newest[a] # c
    BY <1>3, <1>16, <1>21 DEF Away
  <2> QED
    BY <2>1, <2>2, <1>3, <1>7, <1>11
<1> QED
  BY <1>12, <1>13, <1>14, <1>20, <1>22, <1>23 DEF FlushInv

\* A program has more to ask for, in the right order.
LEMMA FlushAsks ==
  ASSUME FlushInv, UNCHANGED <<conf, stack, pending, seen, newest>>, NEW x, calls' = x,
         \A k \in 1 .. Len(x) : x[k].ref.type \in {"WRITE", "COPYB"} => x[k].cache = conf.cd,
         Uninvalidated =>
           \A k \in 1 .. Len(x) : x[k].ref.type = "INVAL" =>
             \E j \in 1 .. k - 1 : /\ x[j].ref.type = "COPYB" /\ x[j].ref.size = 0
                                   /\ \A i \in j + 1 .. k - 1 : x[i].ref.type # "WRITE",
         done' => \E j \in 1 .. Len(x) : /\ x[j].ref.type = "COPYB" /\ x[j].ref.size = 0
                                         /\ \A i \in j + 1 .. Len(x) : x[i].ref.type # "WRITE",
         Len(x) \in Nat
  PROVE  FlushInv'
<1>1. NewestOnPath' /\ SplitsOnPath' /\ CleanInvals' /\ NoneDropped' /\ (Uninvalidated' <=> Uninvalidated)
  BY FlushStill DEF FlushInv
<1>2. conf' = conf
  OBVIOUS
<1>3. CallsToData'
  BY <1>2 DEF CallsToData
<1>4. ASSUME NEW k \in Nat, NEW j \in 1 .. k - 1, x[j].ref.type = "COPYB", x[j].ref.size = 0,
             \A i \in j + 1 .. k - 1 : x[i].ref.type # "WRITE"
      PROVE  Preceded(k)'
  BY <1>4 DEF Preceded, WholeCopy, NoWrites
<1>5. Uninvalidated => \A k \in 1 .. Len(x) : x[k].ref.type = "INVAL" => Preceded(k)'
  BY <1>4
<1>6. ASSUME NEW n, n = Len(x) + 1, done' PROVE Preceded(n)'
  <2>1. PICK j \in 1 .. Len(x) : /\ x[j].ref.type = "COPYB" /\ x[j].ref.size = 0
                                 /\ \A i \in j + 1 .. Len(x) : x[i].ref.type # "WRITE"
    BY <1>6
  <2>2. n \in Nat /\ n - 1 = Len(x)
    BY <1>6
  <2> QED
    BY <2>1, <2>2, <1>4
<1>7. done' => Preceded(Len(calls) + 1)'
  BY <1>6
<1>8. CopiedFirst'
  BY <1>1, <1>5, <1>7 DEF CopiedFirst
<1> QED
  BY <1>1, <1>3, <1>8 DEF FlushInv

\* What an instruction asks for.
LEMMA FlushExecute ==
  ASSUME CachesInv, FlushInv, Execute
  PROVE  FlushInv'
<1> DEFINE Good(q) == /\ Len(q) \in Nat /\ q \in Seq(CallRecs)
                      /\ \A k \in 1 .. Len(q) : /\ q[k].ref.type \in {"READ", "WRITE"}
                                                /\ q[k].ref.type = "WRITE" => q[k].cache = conf.cd
<1>0. conf \in Configs
  BY DEF CachesInv, TreeInv
<1>1. /\ conf.ci \in Caches /\ conf.cd \in Caches
      /\ \A t \in {"READ", "WRITE"}, a \in Nat, c \in Caches :
           [cache |-> c, ref |-> Reference(t, a, WordSize)] \in CallRecs
  BY <1>0, CallFacts
<1>p. PICK pc \in conf.code : \E operands : Good(operands) /\ Instruction(pc, operands)
  <2>1. conf.code \subseteq Nat /\ conf.data \subseteq Nat /\ WordSize \in Nat \ {0}
    BY <1>0, ProgramsAssumption
  <2>2. ASSUME NEW a \in conf.data
        PROVE  Good(Load(a)) /\ Good(Store(a)) /\ Good(LoadPart(a)) /\ Good(StorePart(a))
    <3>1. a \in Nat /\ a - (a % WordSize) \in 0 .. a
      BY <2>1, Multiples
    <3>2. PICK b \in Nat : b = Aligned(a)
      BY <3>1 DEF Aligned
    <3>3. ASSUME NEW t \in {"READ", "WRITE"}, NEW e \in Nat
          PROVE  /\ [cache |-> conf.cd, ref |-> Reference(t, e, WordSize)] \in CallRecs
                 /\ [cache |-> conf.cd, ref |-> Reference(t, e, WordSize)].cache = conf.cd
                 /\ [cache |-> conf.cd, ref |-> Reference(t, e, WordSize)].ref.type = t
      BY <1>1 DEF Reference
    <3>4. /\ doread(a, conf.cd) \in CallRecs /\ dowrite(a, conf.cd) \in CallRecs
          /\ doread(b, conf.cd) \in CallRecs /\ dowrite(b, conf.cd) \in CallRecs
          /\ doread(a, conf.cd).ref.type = "READ" /\ dowrite(a, conf.cd).ref.type = "WRITE"
          /\ doread(b, conf.cd).ref.type = "READ" /\ dowrite(b, conf.cd).ref.type = "WRITE"
          /\ dowrite(a, conf.cd).cache = conf.cd /\ dowrite(b, conf.cd).cache = conf.cd
      BY <3>1, <3>3 DEF doread, dowrite
    <3> DEFINE w == doread(a, conf.cd)
               x == dowrite(a, conf.cd)
               y == doread(b, conf.cd)
               z == dowrite(b, conf.cd)
    <3>5. Load(a) = <<w>> /\ Store(a) = <<x>> /\ LoadPart(a) = <<y>> /\ StorePart(a) = <<y, z>>
      BY <3>2 DEF Load, Store, LoadPart, StorePart
    <3>6. /\ w \in CallRecs /\ x \in CallRecs /\ y \in CallRecs /\ z \in CallRecs
          /\ w.ref.type = "READ" /\ x.ref.type = "WRITE" /\ y.ref.type = "READ" /\ z.ref.type = "WRITE"
          /\ x.cache = conf.cd /\ z.cache = conf.cd
      BY <3>4
    <3> HIDE DEF w, x, y, z
    <3> QED
      BY <3>5, <3>6
  <2>3. Good(<<>>)
    OBVIOUS
  <2>4. PICK pc \in conf.code :
           \/ Instruction(pc, <<>>)
           \/ \E a \in conf.data :
                Instruction(pc, Load(a)) \/ Instruction(pc, Store(a)) \/ Instruction(pc, LoadPart(a))
                  \/ Instruction(pc, StorePart(a))
    BY Zenon DEF Execute
  <2> HIDE DEF Good
  <2> QED
    BY <2>2, <2>3, <2>4
<1>2. PICK operands : Good(operands) /\ Instruction(pc, operands)
  BY <1>p
<1>3. /\ calls' = <<doread(pc, conf.ci)>> \o operands /\ Ready
      /\ UNCHANGED <<conf, stack, pending, seen, newest, flcount, done>>
  BY <1>2, Zenon DEF Instruction
<1>4. ~done' /\ UNCHANGED <<conf, stack, pending, seen, newest>>
  BY <1>3 DEF Ready
<1>5. doread(pc, conf.ci) \in CallRecs /\ doread(pc, conf.ci).ref.type = "READ"
  <2>1. pc \in Nat
    BY <1>0, ProgramsAssumption
  <2> QED
    BY <2>1, <1>1 DEF doread, Reference
<1>6. PICK h : h = doread(pc, conf.ci)
  OBVIOUS
<1>7. PICK x : x = <<h>> \o operands
  OBVIOUS
<1>8. /\ Len(x) \in Nat
      /\ \A k \in 1 .. Len(x) : /\ x[k].ref.type \in {"READ", "WRITE"}
                                /\ x[k].ref.type = "WRITE" => x[k].cache = conf.cd
  <2>1. h \in CallRecs /\ h.ref.type = "READ" /\ Good(operands)
    BY <1>2, <1>5, <1>6
  <2>2. /\ Len(x) = Len(operands) + 1
        /\ \A k \in 1 .. Len(x) : \/ x[k] = h
                                  \/ k - 1 \in 1 .. Len(operands) /\ x[k] = operands[k - 1]
    BY <2>1, <1>7
  <2> QED
    BY <2>1, <2>2
<1>9. calls' = x
  BY <1>3, <1>6, <1>7
<1>10. /\ \A k \in 1 .. Len(x) : x[k].ref.type \in {"WRITE", "COPYB"} => x[k].cache = conf.cd
       /\ \A k \in 1 .. Len(x) : x[k].ref.type # "INVAL"
  BY <1>8
<1> QED
  BY <1>4, <1>8, <1>9, <1>10, FlushAsks

\* What a record of the trace asks for, and the flush after it.
LEMMA FlushItem ==
  ASSUME CachesInv, FlushInv, NEW r \in conf.trace, TraceItem(r)
  PROVE  FlushInv'
<1> DEFINE item == CASE r.type = "INSTRN" -> <<To(conf.ci, r)>>
                     [] r.type = "INVAL" -> <<To(conf.ci, r), To(conf.cd, r)>>
                     [] OTHER -> <<To(conf.cd, r)>>
           flush == IF flcount = 1 THEN Flush ELSE <<>>
<1>0. conf \in Configs
  BY DEF CachesInv, TreeInv
<1>1. /\ calls' = item \o flush /\ Ready
      /\ UNCHANGED <<conf, stack, pending, seen, newest, done>>
  BY Zenon DEF TraceItem
<1>2. ~done' /\ UNCHANGED <<conf, stack, pending, seen, newest>>
  BY <1>1 DEF Ready
<1>3. PICK y \in CallRecs : y = To(conf.ci, r)
  BY <1>0, CallFacts
<1>4. PICK z \in CallRecs : z = To(conf.cd, r)
  BY <1>0, CallFacts
<1>5. PICK u \in CallRecs : u = To(conf.cd, WholeCache("COPYB"))
  BY <1>0, CallFacts
<1>6. PICK v \in CallRecs : v = To(conf.ci, WholeCache("INVAL"))
  BY <1>0, CallFacts
<1>7. PICK w \in CallRecs : w = To(conf.cd, WholeCache("INVAL"))
  BY <1>0, CallFacts
<1>8. /\ y.ref = r /\ z.ref = r /\ z.cache = conf.cd /\ u.cache = conf.cd
      /\ u.ref.type = "COPYB" /\ u.ref.size = 0 /\ v.ref.type = "INVAL" /\ w.ref.type = "INVAL"
  BY <1>3, <1>4, <1>5, <1>6, <1>7 DEF To, WholeCache, Reference
<1>9. \/ item = <<y>> /\ r.type = "INSTRN"
      \/ item = <<y, z>> /\ r.type = "INVAL"
      \/ item = <<z>> /\ r.type # "INVAL"
  BY <1>3, <1>4
<1>10. /\ flush \in Seq(CallRecs) /\ Len(flush) \in {0, 2, 3}
       /\ \A k \in 1 .. Len(flush) : flush[k] = (IF k = 1 THEN u ELSE IF k = 2 THEN v ELSE w)
  <2>1. Flush = <<u, v>> \o (IF conf.ci # conf.cd THEN <<w>> ELSE <<>>)
    BY <1>5, <1>6, <1>7 DEF Flush
  <2>2. flush = <<>> \/ flush = <<u, v>> \o <<>> \/ flush = <<u, v>> \o <<w>>
    BY <2>1
  <2> HIDE DEF flush
  <2>3. CASE flush = <<>>
    BY <2>3
  <2>4. CASE flush = <<u, v>> \o <<>>
    BY <2>4
  <2>5. CASE flush = <<u, v>> \o <<w>>
    BY <2>5
  <2> QED
    BY <2>2, <2>3, <2>4, <2>5
<1> HIDE DEF item, flush
<1>11. PICK x : x = item \o flush
  OBVIOUS
<1>12. Len(x) \in Nat /\ \A k \in 1 .. Len(x) : x[k].ref.type \in {"WRITE", "COPYB"} => x[k].cache = conf.cd
  <2>1. item \in Seq(CallRecs)
    <3>1. item = <<y>> \/ item = <<y, z>> \/ item = <<z>>
      BY <1>9
    <3>2. <<y>> \in Seq(CallRecs) /\ <<z>> \in Seq(CallRecs) /\ <<y, z>> \in Seq(CallRecs)
      OBVIOUS
    <3> QED
      BY <3>1, <3>2
  <2>2. \A k \in 1 .. Len(item) : item[k].ref.type \in {"WRITE", "COPYB"} => item[k].cache = conf.cd
    BY <1>8, <1>9
  <2>3. \A k \in 1 .. Len(flush) : flush[k].ref.type \in {"WRITE", "COPYB"} => flush[k].cache = conf.cd
    BY <1>8, <1>10
  <2>4. /\ Len(x) = Len(item) + Len(flush)
        /\ \A k \in 1 .. Len(x) : \/ k \in 1 .. Len(item) /\ x[k] = item[k]
                                  \/ k - Len(item) \in 1 .. Len(flush) /\ x[k] = flush[k - Len(item)]
    BY <2>1, <1>10, <1>11
  <2>5. Len(x) \in Nat
    BY <2>1, <2>4, <1>10
  <2>6. ASSUME NEW k \in 1 .. Len(x), x[k].ref.type \in {"WRITE", "COPYB"} PROVE x[k].cache = conf.cd
    <3>1. CASE k \in 1 .. Len(item) /\ x[k] = item[k]
      BY <3>1, <2>2, <2>6
    <3>2. CASE k - Len(item) \in 1 .. Len(flush) /\ x[k] = flush[k - Len(item)]
      BY <3>2, <2>3, <2>6
    <3> QED
      BY <2>4, <3>1, <3>2
  <2> QED
    BY <2>5, <2>6
<1>13. ASSUME Uninvalidated, NEW k \in 1 .. Len(x), x[k].ref.type = "INVAL"
       PROVE  \E j \in 1 .. k - 1 : /\ x[j].ref.type = "COPYB" /\ x[j].ref.size = 0
                                    /\ \A i \in j + 1 .. k - 1 : x[i].ref.type # "WRITE"
  <2>1. r.type # "INVAL"
    BY <1>13 DEF Uninvalidated
  <2>2. PICK h \in CallRecs : item = <<h>> /\ h.ref = r
    BY <2>1, <1>8, <1>9
  <2>3. /\ x[1] = h /\ Len(x) = 1 + Len(flush)
        /\ \A i \in 2 .. Len(x) : i - 1 \in 1 .. Len(flush) /\ x[i] = flush[i - 1]
    BY <2>2, <1>10, <1>11
  <2>4. \A i \in 2 .. Len(x) : x[i] = (IF i = 2 THEN u ELSE IF i = 3 THEN v ELSE w)
    BY <2>3, <1>10
  <2>6. k \in 3 .. Len(x) /\ x[2] = u /\ \A i \in 3 .. Len(x) : x[i] \in {v, w}
    <3>1. k # 1
      BY <2>1, <2>2, <2>3, <1>13
    <3>2. k \in 2 .. Len(x) /\ 2 \in 2 .. Len(x)
      BY <3>1, <1>12, <1>13
    <3>3. x[2] = u
      BY <3>2, <2>4
    <3>4. k # 2
      BY <3>3, <1>8, <1>13
    <3>5. k \in 3 .. Len(x)
      BY <3>2, <3>4, <1>12
    <3>6. ASSUME NEW i \in 3 .. Len(x) PROVE x[i] \in {v, w}
      <4>1. i \in 2 .. Len(x) /\ i # 2
        OBVIOUS
      <4> QED
        BY <4>1, <2>4
    <3> QED
      BY <3>3, <3>5, <3>6
  <2>5. 2 \in 1 .. k - 1 /\ \A i \in 2 + 1 .. k - 1 : i \in 3 .. Len(x)
    BY <2>6, <1>12
  <2> QED
    BY <2>6, <2>5, <1>8
<1>14. calls' = x
  BY <1>1, <1>11
<1> QED
  BY <1>2, <1>12, <1>13, <1>14, FlushAsks

\* At the end of the trace everything is copied back.
LEMMA FlushEnds ==
  ASSUME CachesInv, FlushInv, TraceEnds
  PROVE  FlushInv'
<1>0. conf \in Configs
  BY DEF CachesInv, TreeInv
<1>1. /\ calls' = <<To(conf.cd, WholeCache("COPYB"))>>
      /\ UNCHANGED <<conf, stack, pending, seen, newest>>
  BY Zenon DEF TraceEnds
<1>2. PICK u \in CallRecs : u = To(conf.cd, WholeCache("COPYB"))
  BY <1>0, CallFacts
<1>3. u.cache = conf.cd /\ u.ref.type = "COPYB" /\ u.ref.size = 0
  BY <1>2 DEF To, WholeCache, Reference
<1>4. PICK x : x = <<u>>
  OBVIOUS
<1>5. /\ Len(x) \in Nat
      /\ \A k \in 1 .. Len(x) : x[k].ref.type \in {"WRITE", "COPYB"} => x[k].cache = conf.cd
      /\ \A k \in 1 .. Len(x) : x[k].ref.type # "INVAL"
      /\ \E j \in 1 .. Len(x) : /\ x[j].ref.type = "COPYB" /\ x[j].ref.size = 0
                                /\ \A i \in j + 1 .. Len(x) : x[i].ref.type # "WRITE"
  BY <1>3, <1>4
<1>6. calls' = x
  BY <1>1, <1>2, <1>4
<1> QED
  BY <1>1, <1>5, <1>6, FlushAsks

\* Every step of the programs and of the library keeps it.
LEMMA FlushNext ==
  ASSUME Nested, CachesInv, HeldAll, FlushInv, [Next]_vars
  PROVE  FlushInv'
<1>1. TreeInv /\ calls \in Seq(CallRecs)
  BY DEF CachesInv
<1>2. CASE Execute
  BY <1>2, FlushExecute
<1>3. ASSUME NEW r \in conf.trace, TraceItem(r) PROVE FlushInv'
  BY <1>3, FlushItem
<1>4. CASE TraceEnds
  BY <1>4, FlushEnds
<1>5. CASE Call
  <2> DEFINE h == Head(calls)
  <2>1. /\ calls # <<>> /\ d4ref(h.cache, h.ref, pending, h.cache) /\ Idle
        /\ calls' = Tail(calls) /\ done' = done
    BY <1>5, Zenon DEF Call
  <2>2. h \in CallRecs
    BY <1>1, <2>1
  <2> HIDE DEF h
  <2>3. h.cache \in Caches /\ h.ref \in OkRefs /\ h.ref.split = FALSE
    <3>1. h \in [cache : Caches, ref : OkRefs] /\ ~h.ref.split
      BY <2>2 DEF CallRecs
    <3>2. h.cache \in Caches /\ h.ref \in OkRefs
      BY <3>1
    <3>3. h.ref.split \in BOOLEAN
      BY <3>2, RefFacts
    <3> QED
      BY <3>1, <3>2, <3>3
  <2>4. PendOk(pending)
    BY <1>1 DEF TreeInv, CacheInv, PendOk
  <2>5. Stepped(h.cache, h.ref, pending, h.cache)
    BY <1>1, <2>1, <2>3, <2>4, SteppedFacts
  <2> QED
    BY <1>1, <2>1, <2>5, FlushCall DEF h
<1>6. CASE Continue
  <2>1. PICK c \in Caches : d4_dopending(c)
    BY <1>6, Zenon DEF Continue
  <2>2. UNCHANGED driver
    BY <1>6, Zenon DEF Continue
  <2>3. PICK m, r, to, pend : Turn(c, m, r, to, pend)
    BY <1>1, <2>1, TurnFacts
  <2> QED
    BY <1>1, <2>2, <2>3, FlushTurn
<1>7. CASE UNCHANGED vars
  <2>1. UNCHANGED <<conf, stack, pending, seen, newest>> /\ calls' = calls /\ done' = done
    BY <1>7 DEF vars
  <2>2. /\ NewestOnPath' /\ SplitsOnPath' /\ CleanInvals' /\ NoneDropped' /\ (Uninvalidated' <=> Uninvalidated)
        /\ Settled => Settled'
    BY <2>1, FlushStill DEF FlushInv
  <2>3. CallsToData'
    BY <2>1 DEF FlushInv, CallsToData
  <2>4. \A k : Preceded(k) => Preceded(k)'
    BY <2>1, <2>2 DEF Preceded, WholeCopy, NoWrites
  <2>5. CopiedFirst'
    BY <2>1, <2>2, <2>4 DEF FlushInv, CopiedFirst
  <2> QED
    BY <2>2, <2>3, <2>5 DEF FlushInv
<1>8. Finished => UNCHANGED vars
  BY Zenon DEF Finished
<1> QED
  BY <1>2, <1>3, <1>4, <1>5, <1>6, <1>7, <1>8, Zenon DEF Next

\* A trace that asks for no invalidation loses nothing it has written: every flush
\* copies everything back, through every cache down to the memory, before it
\* invalidates, and the copy-back at the end of the trace leaves nothing dirty or
\* on its way.
THEOREM FlushesKeepWrites ==
  ASSUME Nested
  PROVE  Spec => []FlushKeepsWrites
<1>1. Init => CachesInv /\ HeldAll /\ FlushInv
  BY InitTree, FlushInit, HeldInit
<1>2. CachesInv /\ HeldAll /\ FlushInv /\ [Next]_vars => (CachesInv /\ HeldAll /\ FlushInv)'
  BY CachesNext, HeldNext, FlushNext
<1>3. CachesInv /\ HeldAll /\ FlushInv => FlushKeepsWrites
  <2> SUFFICES ASSUME CachesInv, FlushInv PROVE FlushKeepsWrites
    OBVIOUS
  <2>1. NoneDropped /\ CopiedFirst /\ conf \in Configs
    BY DEF FlushInv, CachesInv, TreeInv
  <2>2. ASSUME done, Idle, calls = <<>>, NEW a \in Addresses PROVE newest[a] \in {Mem, Nobody}
    <3>1. Preceded(1)
      BY <2>1, <2>2 DEF CopiedFirst
    <3>2. Settled
      BY <3>1 DEF Preceded
    <3>3. \A c \in Path : ~Copying(c)
      BY <2>1, <2>2, PathFacts DEF Copying, Idle
    <3>4. newest[a] \notin Caches
      BY <3>2, <3>3 DEF Settled, Away
    <3>5. newest \in [Addresses -> Caches \cup {Mem, Nobody}]
      BY DEF CachesInv, TreeInv
    <3> QED
      BY <3>4, <3>5
  <2> QED
    BY <2>1, <2>2 DEF FlushKeepsWrites, NoneDropped, Uninvalidated
<1> QED
  BY <1>1, <1>2, <1>3, PTL DEF Spec

-----------------------------------------------------------------------------
(* What is left to write, and nothing twice.                                 *)

\* What d4ref does for c, in the terms of what c has to write: r is what it asks
\* for, and with sub-blocks of one byte a byte is asked to be written or dirty only
\* if it was dirty before or comes with m, and not both.
Clean(c, row) == \A a \in Nat : ~DirtyIn(c, row, a)
Kept(c, m, row, new, r) ==
  P(c).sub = 1 /\ (WritesThrough(c) => Clean(c, row)) =>
    /\ Once(r)
    /\ \A a \in Nat : ~(Written(r, a) /\ DirtyIn(c, new, a))
    /\ \A a \in Nat : Written(r, a) \/ DirtyIn(c, new, a) =>
         DirtyIn(c, row, a) \/ (m.type = "WRITE" /\ a \in Bytes(FirstPart(c, m)))
    /\ WritesThrough(c) => Clean(c, new)
Exact(c, m, pend, from) ==
  /\ \E r \in Seq(OkRefs) :
       pending'[c] = r \o pend[c] /\ Ordered(r) /\ Kept(c, m, stack[c], stack'[c], r)
  /\ \A d \in Caches : d # c => pending'[d] = pend[d] /\ stack'[d] = stack[d]
  /\ m.type = "WRITE" => Moves(c, FirstPart(c, m), from)
  /\ m.type \notin {"WRITE", "INVAL"} => \A a \in Addresses : newest'[a] = newest[a]
  /\ m.type = "INVAL" => \A a \in Addresses : newest'[a] \in {newest[a], Nobody}

\* One set of the cache has changed, and the fully associative stack, which holds
\* nothing dirty.
LEMMA OneSetKept ==
  ASSUME conf \in Configs, NEW c \in Caches, NEW m \in OkRefs, m.type \in Accesses,
         NEW row, NEW new, NEW r, NEW s, s = SetOf(c, m.addr),
         \A t \in Stacks(c) : StackInv(c, t, row[t]) /\ StackInv(c, t, new[t]),
         \A t \in Stacks(c) : t # s /\ t # FullStack(c) => new[t] = row[t],
         Traced(c, FirstPart(c, m), row[s], new[s], StackSize(c, s), r)
  PROVE  Kept(c, m, row, new, r)
<1> DEFINE n == StackSize(c, s)
           first == FirstPart(c, m)
<1> SUFFICES ASSUME P(c).sub = 1, WritesThrough(c) => Clean(c, row)
             PROVE  /\ Once(r)
                    /\ \A a \in Nat : ~(Written(r, a) /\ DirtyIn(c, new, a))
                    /\ \A a \in Nat : Written(r, a) \/ DirtyIn(c, new, a) =>
                         DirtyIn(c, row, a) \/ (m.type = "WRITE" /\ a \in Bytes(first))
                    /\ WritesThrough(c) => Clean(c, new)
  BY Zenon DEF Kept
<1>1. s \in Stacks(c) /\ s # FullStack(c) /\ m.addr \in Nat
  BY RefFacts, SizeFacts
<1>2. \A a \in Nat : SubBlock(c, a) = a
  BY DEF SubBlock
<1>3. /\ first.type = m.type
      /\ \A x \in Bytes(first) : x \in Nat /\ SetOf(c, x) = s
  <2>1. /\ first.type = m.type
        /\ \A x \in Bytes(first) : x \in Nat /\ Block(c, x) = Block(c, m.addr)
    BY FirstFacts
  <2> HIDE DEF first
  <2> QED
    BY <2>1, <1>1, SameSet
<1> HIDE DEF first
<1>4. \A t \in Stacks(c) : \A k \in 1 .. StackSize(c, t) :
        /\ \A a \in Part(row[t][k]) : t # FullStack(c) /\ a \in Nat /\ SetOf(c, a) = t
        /\ \A a \in Part(new[t][k]) : t # FullStack(c) /\ a \in Nat /\ SetOf(c, a) = t
  BY DirtyPlace
<1>5. \A a \in Nat : (DirtyIn(c, row, a) <=> \E t \in Stacks(c) : InPart(row[t], StackSize(c, t), a))
                     /\ (DirtyIn(c, new, a) <=> \E t \in Stacks(c) : InPart(new[t], StackSize(c, t), a))
  BY <1>2 DEF DirtyIn, InPart
<1>6. \A t \in Stacks(c) : \A a :
        /\ InPart(row[t], StackSize(c, t), a) => t # FullStack(c) /\ a \in Nat /\ SetOf(c, a) = t
        /\ InPart(new[t], StackSize(c, t), a) => t # FullStack(c) /\ a \in Nat /\ SetOf(c, a) = t
  BY <1>4 DEF InPart
<1>7. WritesThrough(c) => \A a : ~InPart(row[s], n, a)
  BY <1>1, <1>5, <1>6 DEF Clean
<1>8. /\ Once(r)
      /\ \A a : ~(Written(r, a) /\ InPart(new[s], n, a))
      /\ \A a : Written(r, a) \/ InPart(new[s], n, a) =>
           InPart(row[s], n, a) \/ (first.type = "WRITE" /\ a \in Bytes(first))
      /\ WritesThrough(c) => \A a : ~InPart(new[s], n, a)
  BY <1>7 DEF Traced, first
<1> HIDE DEF n
<1>9. ASSUME NEW a \in Nat, DirtyIn(c, new, a)
      PROVE  /\ ~Written(r, a)
             /\ DirtyIn(c, row, a) \/ (m.type = "WRITE" /\ a \in Bytes(first))
             /\ ~WritesThrough(c)
  <2>1. PICK t \in Stacks(c) : InPart(new[t], StackSize(c, t), a)
    BY <1>5, <1>9
  <2>2. t # FullStack(c) /\ SetOf(c, a) = t
    BY <1>6, <2>1
  <2>3. CASE t = s
    BY <2>1, <2>3, <1>1, <1>3, <1>5, <1>8 DEF n
  <2>4. CASE t # s
    <3>1. new[t] = row[t]
      BY <2>2, <2>4
    <3>2. DirtyIn(c, row, a)
      BY <3>1, <2>1, <1>5
    <3>3. ~Written(r, a)
      BY <1>1, <1>3, <1>6, <1>8, <2>2, <2>4 DEF n
    <3> QED
      BY <3>2, <3>3 DEF Clean
  <2> QED
    BY <2>3, <2>4
<1>10. \A a \in Nat : Written(r, a) =>
         DirtyIn(c, row, a) \/ (m.type = "WRITE" /\ a \in Bytes(first))
  BY <1>1, <1>3, <1>5, <1>8 DEF n
<1> QED
  BY <1>8, <1>9, <1>10 DEF Clean

\* A read, a write or an instruction fetch.
LEMMA AccessExact ==
  ASSUME TreeInv, NEW c \in Caches, NEW m \in OkRefs, m.type \in Accesses, m.split = FALSE,
         NEW pend, PendOk(pend), NEW from, Access(c, m, pend, from)
  PROVE  Exact(c, m, pend, from)
<1> DEFINE s == SetOf(c, m.addr)
           first == FirstPart(c, m)
<1>1. conf \in Configs /\ CacheInv(c) /\ stack = [d \in Caches |-> stack[d]]
  BY DEF TreeInv
<1>2. \A t \in Stacks(c) : StackInv(c, t, stack[c][t])
  BY <1>1 DEF CacheInv
<1>3. PICK mine, full, requests, new :
        /\ AccessEffect(c, first, pend, from, mine, full, requests, new)
        /\ Ordered(requests)
        /\ Traced(c, first, stack[c][s], mine, StackSize(c, s), requests)
  <2>1. \E mine, full, requests, new :
          /\ AccessEffect(c, FirstPart(c, m), pend, from, mine, full, requests, new)
          /\ Lower(c, m, requests) /\ Ordered(requests)
          /\ Policed(c, m, mine, full)
          /\ LET z == SetOf(c, m.addr)
             IN Traced(c, FirstPart(c, m), stack[c][z], mine, StackSize(c, z), requests)
    BY <1>1, <1>2, AccessFacts
  <2> QED
    BY <2>1, Zenon
<1>4. first.addr = m.addr /\ first.type = m.type
  BY <1>1, FirstFacts
<1> DEFINE f == FullStack(c)
           row == [t \in Stacks(c) |-> IF t = s THEN mine ELSE IF t = f THEN full ELSE stack[c][t]]
<1>5. /\ stack' = [stack EXCEPT ![c] = [t \in Stacks(c) |->
                 IF t = s THEN mine ELSE IF t = f THEN full ELSE @[t]]]
      /\ pending' = [pend EXCEPT ![c] = requests \o @]
      /\ Moves(c, first, from)
      /\ Asked(c, requests)
  BY <1>3, <1>4, Zenon DEF AccessEffect
<1>6. /\ Updated(c, s, stack[c][s], mine, SubBlocks(c, first), requests)
      /\ P(c).ccc => Updated(c, f, stack[c][f], full, SubBlocks(c, first), requests)
  BY <1>3, <1>4, Zenon DEF AccessEffect
<1>7. s \in Stacks(c) /\ s # f /\ \A t \in Stacks(c) : t = f => P(c).ccc
  BY <1>1, RefFacts, SizeFacts
<1>8. stack'[c] = row /\ \A d \in Caches : d # c => stack'[d] = stack[d]
  BY <1>1, <1>5
<1>9. /\ pending'[c] = requests \o pend[c]
      /\ \A d \in Caches : d # c => pending'[d] = pend[d]
  BY <1>5 DEF PendOk
<1>10. /\ row[s] = mine
       /\ \A t \in Stacks(c) : t # s /\ t # f => row[t] = stack[c][t]
       /\ \A t \in Stacks(c) : t = f => row[t] = full
  BY <1>7
<1> HIDE DEF row, first, s, f
<1>11. \A t \in Stacks(c) : StackInv(c, t, row[t])
  BY <1>2, <1>6, <1>7, <1>10 DEF Updated
<1>12. Kept(c, m, stack[c], row, requests)
  <2>1. Traced(c, FirstPart(c, m), stack[c][s], row[s], StackSize(c, s), requests)
    BY <1>3, <1>10 DEF first
  <2>2. s = SetOf(c, m.addr)
    BY DEF s
  <2> QED
    BY <2>1, <2>2, <1>1, <1>2, <1>10, <1>11, OneSetKept DEF f
<1>13. \E r \in Seq(OkRefs) :
         pending'[c] = r \o pend[c] /\ Ordered(r) /\ Kept(c, m, stack[c], stack'[c], r)
  <2>1. requests \in Seq(OkRefs)
    BY <1>5 DEF Asked
  <2>2. Kept(c, m, stack[c], stack'[c], requests)
    BY <1>8, <1>12
  <2> QED
    BY <2>1, <2>2, <1>3, <1>9, Zenon
<1>14. m.type # "WRITE" => \A a \in Addresses : newest'[a] = newest[a]
  BY <1>4, <1>5 DEF Moves
<1> QED
  BY <1>5, <1>8, <1>9, <1>13, <1>14 DEF Exact, Accesses, first

\* A copy-back.
LEMMA CopyExact ==
  ASSUME TreeInv, NEW c \in Caches, NEW m \in OkRefs, m.type = "COPYB", m.split = FALSE,
         NEW pend, PendOk(pend), NEW from, d4copyback(c, m, pend)
  PROVE  Exact(c, m, pend, from)
<1>1. /\ conf \in Configs /\ CacheInv(c) /\ newest \in [Addresses -> Caches \cup {Mem, Nobody}]
      /\ stack = [d \in Caches |-> stack[d]] /\ seen = [d \in Caches |-> seen[d]]
      /\ Addresses \subseteq Nat
  BY TreeAssumption DEF TreeInv
<1>2. PICK row, r, new :
        Effect(c, m, pend, from, row, r, new) /\ CopiedOnce(c, row, r)
  BY <1>1, CopyStep
<1>3. /\ stack' = [stack EXCEPT ![c] = row] /\ pending' = [pend EXCEPT ![c] = r \o @]
      /\ Asked(c, r)
  BY <1>2, Zenon DEF Effect
<1>4. newest' = newest
  BY DEF d4copyback
<1>5. /\ stack'[c] = row /\ pending'[c] = r \o pend[c]
      /\ \A d \in Caches : d # c => pending'[d] = pend[d] /\ stack'[d] = stack[d]
  BY <1>1, <1>3 DEF PendOk
<1>6. Kept(c, m, stack[c], row, r)
  <2>1. \A a \in Nat : DirtyIn(c, row, a) => DirtyIn(c, stack[c], a)
    BY <1>2 DEF CopiedOnce
  <2>2. P(c).sub = 1 =>
          /\ Once(r)
          /\ \A a \in Nat : Written(r, a) => DirtyIn(c, stack[c], a) /\ ~DirtyIn(c, row, a)
    BY <1>2 DEF CopiedOnce
  <2> QED
    BY <2>1, <2>2, Zenon DEF Kept, Clean
<1>7. \E x \in Seq(OkRefs) :
         pending'[c] = x \o pend[c] /\ Ordered(x) /\ Kept(c, m, stack[c], stack'[c], x)
  BY <1>2, <1>3, <1>5, <1>6, Zenon DEF CopiedOnce, Asked
<1> QED
  BY <1>4, <1>5, <1>7 DEF Exact

\* An invalidation.
LEMMA InvalidateExact ==
  ASSUME TreeInv, NEW c \in Caches, NEW m \in OkRefs, m.type = "INVAL", m.split = FALSE,
         NEW pend, PendOk(pend), NEW from, d4invalidate(c, m, pend)
  PROVE  Exact(c, m, pend, from)
<1> DEFINE row == [s \in Stacks(c) |-> InvalidatedRow(c, m, s, stack[c][s])]
           r == <<m>>
<1>1. /\ conf \in Configs /\ CacheInv(c) /\ newest \in [Addresses -> Caches \cup {Mem, Nobody}]
      /\ stack = [d \in Caches |-> stack[d]]
  BY DEF TreeInv
<1>2. /\ stack' = [stack EXCEPT ![c] = row]
      /\ pending' = [pend EXCEPT ![c] = r \o @]
  BY DEF d4invalidate, InvalidatedRow
<1>3. \A a \in Addresses : newest'[a] \in {newest[a], Nobody}
  <2> DEFINE dropped == {a \in Addresses : newest[a] = c /\ (m.size = 0 \/ Block(c, a) = Block(c, m.addr))}
  <2>1. newest' = [a \in Addresses |-> IF a \in dropped THEN Nobody ELSE newest[a]]
    BY Zenon DEF d4invalidate
  <2> HIDE DEF dropped
  <2> QED
    BY <2>1
<1>4. \A s \in Stacks(c) : row[s] = InvalidatedRow(c, m, s, stack[c][s])
  OBVIOUS
<1>5. /\ stack'[c] = row /\ pending'[c] = r \o pend[c]
      /\ \A d \in Caches : d # c => pending'[d] = pend[d] /\ stack'[d] = stack[d]
  BY <1>1, <1>2 DEF PendOk
<1> HIDE DEF row
<1>6. \A s \in Stacks(c) : \A j \in 1 .. StackSize(c, s) : \A a \in Part(row[s][j]) :
        \E i \in 1 .. StackSize(c, s) : a \in Part(stack[c][s][i])
  <2> SUFFICES ASSUME NEW s \in Stacks(c)
               PROVE  \A j \in 1 .. StackSize(c, s) : \A a \in Part(row[s][j]) :
                        \E i \in 1 .. StackSize(c, s) : a \in Part(stack[c][s][i])
    OBVIOUS
  <2> DEFINE q == stack[c][s]
             t == row[s]
  <2>1. StackInv(c, s, q) /\ t = InvalidatedRow(c, m, s, q)
    BY <1>1, <1>4 DEF CacheInv
  <2> HIDE DEF q, t
  <2>2. \A j \in 1 .. StackSize(c, s) : \A a \in Part(t[j]) :
           \E i \in 1 .. StackSize(c, s) : a \in Part(q[i])
    BY <1>1, <2>1, InvalidatedFacts
  <2> QED
    BY <2>2 DEF q, t
<1>7. \A a \in Nat : DirtyIn(c, row, a) => DirtyIn(c, stack[c], a)
  BY <1>6 DEF DirtyIn
<1>8. r \in Seq(OkRefs) /\ Ordered(r) /\ Once(r) /\ \A a : ~Written(r, a)
  <2>1. r \in Seq(OkRefs) /\ NoneStored(r)
    BY DEF NoneStored, Storing
  <2>2. Ordered(r)
    BY DEF Ordered, Storing
  <2> HIDE DEF r
  <2> QED
    BY <2>1, <2>2, NoneFacts
<1>9. Kept(c, m, stack[c], row, r)
  BY <1>7, <1>8, Zenon DEF Kept, Clean
<1> HIDE DEF r
<1>10. \E x \in Seq(OkRefs) :
          pending'[c] = x \o pend[c] /\ Ordered(x) /\ Kept(c, m, stack[c], stack'[c], x)
  BY <1>5, <1>8, <1>9, Zenon
<1> QED
  BY <1>3, <1>5, <1>10 DEF Exact

\* d4ref, for a cache.
LEMMA RefExact ==
  ASSUME TreeInv, NEW c \in Caches, NEW m \in OkRefs, m.split = FALSE,
         NEW pend, PendOk(pend), NEW from, d4ref(c, m, pend, from)
  PROVE  Exact(c, m, pend, from)
<1>1. c # Mem
  BY TreeAssumption DEF TreeInv, Caches
<1>2. \/ m.type = "COPYB" /\ d4copyback(c, m, pend)
      \/ m.type = "INVAL" /\ d4invalidate(c, m, pend)
      \/ m.type \in Accesses /\ Access(c, m, pend, from)
  BY <1>1 DEF d4ref, Accesses
<1> QED
  BY <1>2, CopyExact, InvalidateExact, AccessExact

\* A cache has a byte still to write: dirty, or asked for and not yet taken.
Has(c, row, q, a) == DirtyIn(c, row, a) \/ Written(q, a)

\* It has each once, and none if writes go through; and what it asks of itself
\* comes last.
Tidy(c, row, q) ==
  /\ Ordered(q)
  /\ P(c).sub = 1 =>
       /\ Once(q)
       /\ \A a \in Nat : ~(Written(q, a) /\ DirtyIn(c, row, a))
       /\ WritesThrough(c) => Clean(c, row)

LEMMA SameTidy ==
  ASSUME conf' = conf, NEW c, NEW row, NEW q
  PROVE  /\ \A a : Has(c, row, q, a)' <=> Has(c, row, q, a)
         /\ Tidy(c, row, q)' <=> Tidy(c, row, q)
<1>1. P(c)' = P(c) /\ \A a : DirtyIn(c, row, a)' <=> DirtyIn(c, row, a)
  BY SameConf, SameRow
<1>2. (WritesThrough(c)' <=> WritesThrough(c)) /\ (Clean(c, row)' <=> Clean(c, row))
  BY <1>1 DEF WritesThrough, Clean
<1> QED
  BY <1>1, <1>2 DEF Has, Tidy

\* The references below the one on top.
LEMMA TidyPopped ==
  ASSUME NEW c, NEW row, NEW q \in Seq(OkRefs), q # <<>>, Tidy(c, row, q)
  PROVE  /\ Tidy(c, row, Tail(q))
         /\ \A a : Written(Tail(q), a) => Written(q, a)
         /\ Head(q).prefetch \/ Head(q).split => NoneStored(Tail(q))
         /\ Storing(Head(q)) => \A a \in Bytes(Head(q)) :
              Written(q, a) /\ (P(c).sub = 1 => ~Has(c, row, Tail(q), a))
<1> DEFINE n == Len(q)
           t == Tail(q)
<1>1. /\ n \in Nat \ {0} /\ Head(q) = q[1] /\ Len(t) = n - 1 /\ 1 \in 1 .. n
      /\ \A k \in 1 .. n - 1 : k + 1 \in 1 .. n /\ t[k] = q[k + 1]
  OBVIOUS
<1>2. Head(q) \in OkRefs
  OBVIOUS
<1> HIDE DEF n, t
<1>3. /\ \A i, j \in 1 .. n : i <= j /\ (q[i].prefetch \/ q[i].split) => ~Storing(q[j])
      /\ P(c).sub = 1 =>
           \A i, j \in 1 .. n : i # j /\ Storing(q[i]) /\ Storing(q[j]) =>
              \A a \in Bytes(q[i]) : a \notin Bytes(q[j])
  BY DEF Tidy, Ordered, Once, n
<1>4. \A i, j \in 1 .. n - 1 : i <= j /\ (t[i].prefetch \/ t[i].split) => ~Storing(t[j])
  <2> SUFFICES ASSUME NEW i \in 1 .. n - 1, NEW j \in 1 .. n - 1, i <= j,
                      t[i].prefetch \/ t[i].split
               PROVE  ~Storing(t[j])
    BY <1>1
  <2> DEFINE k == i + 1
             l == j + 1
  <2>1. k \in 1 .. n /\ l \in 1 .. n /\ k <= l /\ t[i] = q[k] /\ t[j] = q[l]
    BY <1>1
  <2> HIDE DEF k, l
  <2> QED
    BY <2>1, <1>3
<1>5. P(c).sub = 1 =>
        \A i, j \in 1 .. n - 1 : i # j /\ Storing(t[i]) /\ Storing(t[j]) =>
              \A a \in Bytes(t[i]) : a \notin Bytes(t[j])
  <2> SUFFICES ASSUME P(c).sub = 1, NEW i \in 1 .. n - 1, NEW j \in 1 .. n - 1, i # j,
                      Storing(t[i]), Storing(t[j])
               PROVE  \A a \in Bytes(t[i]) : a \notin Bytes(t[j])
    BY <1>1
  <2> DEFINE k == i + 1
             l == j + 1
  <2>1. k \in 1 .. n /\ l \in 1 .. n /\ k # l /\ t[i] = q[k] /\ t[j] = q[l]
    BY <1>1
  <2> HIDE DEF k, l
  <2> QED
    BY <2>1, <1>3
<1>6. \A a : Written(t, a) => Written(q, a)
  BY <1>1 DEF Written, n
<1>7. Tidy(c, row, t)
  BY <1>1, <1>4, <1>5, <1>6 DEF Tidy, Ordered, Once
<1>8. Head(q).prefetch \/ Head(q).split => NoneStored(t)
  <2>1. \A k \in 1 .. n - 1 : 1 <= k + 1
    BY <1>1
  <2> QED
    BY <2>1, <1>1, <1>3 DEF NoneStored
<1>9. ASSUME Storing(Head(q)), NEW a \in Bytes(Head(q))
      PROVE  Written(q, a) /\ (P(c).sub = 1 => ~Has(c, row, t, a))
  <2>1. Written(q, a)
    BY <1>1, <1>9 DEF Written, Storing, n
  <2>2. a \in Nat
    BY <1>2, <1>9, RefFacts
  <2>3. P(c).sub = 1 => ~Written(t, a)
    <3> SUFFICES ASSUME P(c).sub = 1, NEW k \in 1 .. n - 1, Storing(t[k]), a \in Bytes(t[k])
                 PROVE  FALSE
      BY <1>1 DEF Written, Storing
    <3>1. 1 # k + 1
      BY <1>1
    <3> QED
      BY <3>1, <1>1, <1>3, <1>9
  <2>4. P(c).sub = 1 => ~DirtyIn(c, row, a)
    BY <2>1, <2>2 DEF Tidy
  <2> QED
    BY <2>1, <2>3, <2>4 DEF Has
<1> QED
  BY <1>6, <1>7, <1>8, <1>9 DEF t

\* A cache that has nothing more to write than what is dirty stays so, and a byte
\* it then has was dirty or has just come.
LEMMA TidyExact ==
  ASSUME NEW c \in Caches, NEW m, NEW pend, PendOk(pend), NEW from, Exact(c, m, pend, from),
         Tidy(c, stack[c], pend[c]), NoneStored(pend[c])
  PROVE  /\ Tidy(c, stack'[c], pending'[c])
         /\ P(c).sub = 1 => \A a \in Nat : Has(c, stack'[c], pending'[c], a) =>
              DirtyIn(c, stack[c], a) \/ (m.type = "WRITE" /\ a \in Bytes(FirstPart(c, m)))
<1>1. PICK r \in Seq(OkRefs) :
        pending'[c] = r \o pend[c] /\ Ordered(r) /\ Kept(c, m, stack[c], stack'[c], r)
  BY Zenon DEF Exact
<1>2. PICK q, row, new : q = pend[c] /\ row = stack[c] /\ new = stack'[c]
  OBVIOUS
<1>3. /\ q \in Seq(OkRefs) /\ Tidy(c, row, q) /\ NoneStored(q)
      /\ pending'[c] = r \o q /\ Kept(c, m, row, new, r)
  BY <1>1, <1>2 DEF PendOk, Asked
<1>4. Ordered(r \o q)
  BY <1>1, <1>3, OrderedTogether
<1>5. /\ \A a : Written(r \o q, a) <=> Written(r, a)
      /\ Once(r) => Once(r \o q)
  <2>1. Once(q) /\ \A a : ~Written(q, a)
    BY <1>3, NoneFacts
  <2>2. /\ \A a : Written(r \o q, a) <=> Written(r, a) \/ Written(q, a)
        /\ Once(r) /\ Once(q) /\ (\A a : ~(Written(r, a) /\ Written(q, a))) => Once(r \o q)
    BY <1>3, OnceTogether
  <2> QED
    BY <2>1, <2>2
<1>6. P(c).sub = 1 =>
        /\ Once(r)
        /\ \A a \in Nat : ~(Written(r, a) /\ DirtyIn(c, new, a))
        /\ \A a \in Nat : Written(r, a) \/ DirtyIn(c, new, a) =>
             DirtyIn(c, row, a) \/ (m.type = "WRITE" /\ a \in Bytes(FirstPart(c, m)))
        /\ WritesThrough(c) => Clean(c, new)
  BY <1>3, Zenon DEF Kept, Tidy
<1> DEFINE z == r \o q
<1>7. Ordered(z) /\ (\A a : Written(z, a) <=> Written(r, a)) /\ (Once(r) => Once(z))
  BY <1>4, <1>5
<1>8. pending'[c] = z /\ stack'[c] = new /\ stack[c] = row
  BY <1>2, <1>3
<1> HIDE DEF z
<1>9. Tidy(c, new, z)
  BY <1>6, <1>7, Zenon DEF Tidy
<1>10. P(c).sub = 1 => \A a \in Nat : Has(c, new, z, a) =>
              DirtyIn(c, row, a) \/ (m.type = "WRITE" /\ a \in Bytes(FirstPart(c, m)))
  BY <1>6, <1>7, Zenon DEF Has
<1> QED
  BY <1>8, <1>9, <1>10

\* So are all caches, and only those the data cache writes through have something to
\* write, nothing of it older than what is closer to the memory.
TidyAll == \A c \in Caches : Tidy(c, stack[c], pending[c])
HoldersOnPath ==
  \A c \in Caches : \A a \in Nat : P(c).sub = 1 /\ Has(c, stack[c], pending[c], a) => c \in Path
NoneStale ==
  \A c \in Caches : \A a \in Addresses :
    P(c).sub = 1 /\ Has(c, stack[c], pending[c], a) /\ newest[a] # Nobody
      => newest[a] \in Caches /\ P(newest[a]).cacheid >= P(c).cacheid
UpToDate == TidyAll /\ HoldersOnPath /\ NoneStale

\* The same of the next state.
LEMMA FreshNext ==
  ASSUME conf' = conf,
         \A c \in Caches : Tidy(c, stack'[c], pending'[c]),
         \A c \in Caches : \A a \in Nat :
           P(c).sub = 1 /\ Has(c, stack'[c], pending'[c], a) => c \in Path,
         \A c \in Caches : \A a \in Addresses :
           P(c).sub = 1 /\ Has(c, stack'[c], pending'[c], a) /\ newest'[a] # Nobody
             => newest'[a] \in Caches /\ P(newest'[a]).cacheid >= P(c).cacheid
  PROVE  UpToDate'
<1>1. Caches' = Caches /\ Path' = Path /\ \A c : P(c)' = P(c)
  BY SamePath
<1>2. /\ \A c, row, q, a : Has(c, row, q, a)' <=> Has(c, row, q, a)
      /\ \A c, row, q : Tidy(c, row, q)' <=> Tidy(c, row, q)
  BY SameTidy
<1>3. TidyAll'
  BY <1>1, <1>2 DEF TidyAll
<1>4. HoldersOnPath'
  BY <1>1, <1>2 DEF HoldersOnPath
<1>5. NoneStale'
  BY <1>1, <1>2 DEF NoneStale
<1> QED
  BY <1>3, <1>4, <1>5 DEF UpToDate

\* Another cache that has the byte is no closer to the data cache than the one
\* downstream of where it is newest.
LEMMA StaleBelow ==
  ASSUME conf \in Configs, HoldersOnPath, NoneStale, NewestOnPath,
         NEW a \in Addresses, newest[a] \in Caches, NEW x \in Caches, x # newest[a],
         P(x).sub = 1, Has(x, stack[x], pending[x], a)
  PROVE  P(newest[a]).down \in Caches /\ P(x).cacheid <= P(P(newest[a]).down).cacheid
<1>1. PICK o : o = newest[a]
  OBVIOUS
<1>2. /\ \A d \in Caches : P(d).cacheid \in Nat
      /\ \A d, e \in Caches : P(d).cacheid = P(e).cacheid => d = e
      /\ Nobody \notin Caches /\ a \in Nat
  BY NumberFacts, TreeAssumption
<1>3. o \in Path /\ o \in Caches
  BY <1>1 DEF NewestOnPath
<1>4. x \in Path
  BY <1>2 DEF HoldersOnPath
<1>5. P(o).cacheid >= P(x).cacheid
  BY <1>1, <1>2 DEF NoneStale
<1>6. P(x).cacheid < P(o).cacheid
  BY <1>1, <1>2, <1>3, <1>5
<1>7. P(o).down \in Path /\ P(x).cacheid <= P(P(o).down).cacheid
  BY <1>3, <1>4, <1>6, Chain
<1> QED
  BY <1>1, <1>7, PathFacts

\* A reference that arrives at a cache, with the pending ones of all: a write is of
\* the data cache itself, or has come from the cache above, which is then without
\* it.
Brought(to, r, pend, from) ==
  /\ from \in Caches /\ to = P(from).down /\ FirstPart(to, r) = r
  /\ P(to).sub = 1 => P(from).sub = 1
  /\ \A a \in Bytes(r) : /\ Written(pending[from], a)
                         /\ P(from).sub = 1 => ~Has(from, stack[from], pend[from], a)
Arrives(to, r, pend, from) ==
  /\ NoneStored(pend[to])
  /\ \A d \in Caches : /\ Tidy(d, stack[d], pend[d])
                       /\ \A a : Written(pend[d], a) => Written(pending[d], a)
  /\ r.type = "WRITE" => (to = from /\ to = conf.cd) \/ Brought(to, r, pend, from)

\* What the caches have after it: what they had, and the one it comes to perhaps
\* what it brings.
LEMMA ArrivedFacts ==
  ASSUME NEW to \in Caches, NEW r, NEW pend, PendOk(pend), NEW from,
         Exact(to, r, pend, from), Arrives(to, r, pend, from)
  PROVE  /\ \A d \in Caches : Tidy(d, stack'[d], pending'[d])
         /\ \A d \in Caches : \A a \in Nat : P(d).sub = 1 /\ Has(d, stack'[d], pending'[d], a) =>
              \/ Has(d, stack[d], pending[d], a) /\ (d # to => Has(d, stack[d], pend[d], a))
              \/ d = to /\ r.type = "WRITE" /\ a \in Bytes(FirstPart(to, r))
<1>1. /\ NoneStored(pend[to])
      /\ \A d \in Caches : /\ Tidy(d, stack[d], pend[d])
                           /\ \A a : Written(pend[d], a) => Written(pending[d], a)
  BY Zenon DEF Arrives
<1>2. \A d \in Caches : d # to => pending'[d] = pend[d] /\ stack'[d] = stack[d]
  BY Zenon DEF Exact
<1>3. /\ Tidy(to, stack'[to], pending'[to])
      /\ P(to).sub = 1 => \A a \in Nat : Has(to, stack'[to], pending'[to], a) =>
           DirtyIn(to, stack[to], a) \/ (r.type = "WRITE" /\ a \in Bytes(FirstPart(to, r)))
  BY <1>1, TidyExact
<1>4. ASSUME NEW d \in Caches, d # to
      PROVE  /\ Tidy(d, stack'[d], pending'[d])
             /\ \A a \in Nat : Has(d, stack'[d], pending'[d], a) =>
                  Has(d, stack[d], pending[d], a) /\ Has(d, stack[d], pend[d], a)
  <2>1. pending'[d] = pend[d] /\ stack'[d] = stack[d]
    BY <1>2, <1>4
  <2>2. Tidy(d, stack'[d], pending'[d])
    BY <1>1, <2>1
  <2>3. \A a : Has(d, stack[d], pend[d], a) => Has(d, stack[d], pending[d], a)
    BY <1>1 DEF Has
  <2> QED
    BY <2>1, <2>2, <2>3
<1>5. \A a : DirtyIn(to, stack[to], a) => Has(to, stack[to], pending[to], a)
  BY DEF Has
<1> QED
  BY <1>3, <1>4, <1>5

\* A reference that arrives leaves nothing stale.
LEMMA FreshArrives ==
  ASSUME conf \in Configs, UpToDate, NewestOnPath, conf' = conf,
         NEW to \in Caches, NEW r \in OkRefs, NEW pend, PendOk(pend), NEW from,
         Exact(to, r, pend, from), Arrives(to, r, pend, from)
  PROVE  UpToDate'
<1>1. /\ \A d \in Caches : Tidy(d, stack'[d], pending'[d])
      /\ \A d \in Caches : \A a \in Nat : P(d).sub = 1 /\ Has(d, stack'[d], pending'[d], a) =>
           \/ Has(d, stack[d], pending[d], a) /\ (d # to => Has(d, stack[d], pend[d], a))
           \/ d = to /\ r.type = "WRITE" /\ a \in Bytes(FirstPart(to, r))
  BY ArrivedFacts
<1>2. HoldersOnPath /\ NoneStale
  BY DEF UpToDate
<1>3. r.type = "WRITE" => (to = from /\ to = conf.cd) \/ Brought(to, r, pend, from)
  BY Zenon DEF Arrives
<1>4. /\ conf.cd \in Path /\ Path \in SUBSET Caches
      /\ \A d \in Path : P(d).down \in Path \cup {Mem} /\ P(d).cacheid <= P(conf.cd).cacheid
      /\ Mem \notin Caches /\ Nobody \notin Caches
  BY PathFacts, PathTop, NumberFacts
<1>5. /\ \A d \in Caches : /\ P(d).cacheid \in Nat
                           /\ P(d).down # Mem => P(P(d).down).cacheid < P(d).cacheid
      /\ Addresses \subseteq Nat
  BY NumberFacts, TreeAssumption
<1>6. Brought(to, r, pend, from) =>
        /\ from \in Caches /\ to = P(from).down /\ FirstPart(to, r) = r
        /\ P(to).sub = 1 => P(from).sub = 1
        /\ \A a \in Bytes(r) : /\ Written(pending[from], a) /\ Has(from, stack[from], pending[from], a)
                               /\ P(from).sub = 1 => ~Has(from, stack[from], pend[from], a)
  BY DEF Brought, Has
<1>7. ASSUME NEW d \in Caches, NEW a \in Nat, P(d).sub = 1, Has(d, stack'[d], pending'[d], a)
      PROVE  d \in Path
  <2>1. CASE Has(d, stack[d], pending[d], a)
    BY <2>1, <1>2, <1>7 DEF HoldersOnPath
  <2>2. CASE d = to /\ r.type = "WRITE" /\ a \in Bytes(FirstPart(to, r))
    <3>1. CASE to = from /\ to = conf.cd
      BY <3>1, <2>2, <1>4
    <3>2. CASE Brought(to, r, pend, from)
      <4>1. from \in Path
        BY <3>2, <2>2, <1>2, <1>6, <1>7 DEF HoldersOnPath
      <4> QED
        BY <4>1, <3>2, <2>2, <1>4, <1>6
    <3> QED
      BY <3>1, <3>2, <2>2, <1>3
  <2> QED
    BY <2>1, <2>2, <1>1, <1>7
<1>8. ASSUME NEW x \in Caches, NEW a \in Addresses, P(x).sub = 1,
             Has(x, stack'[x], pending'[x], a), newest'[a] # Nobody
      PROVE  newest'[a] \in Caches /\ P(newest'[a]).cacheid >= P(x).cacheid
  <2> DEFINE Good == newest'[a] \in Caches /\ P(newest'[a]).cacheid >= P(x).cacheid
  <2>1. /\ a \in Nat
        /\ \/ Has(x, stack[x], pending[x], a) /\ (x # to => Has(x, stack[x], pend[x], a))
           \/ x = to /\ r.type = "WRITE" /\ a \in Bytes(FirstPart(to, r))
    BY <1>1, <1>5, <1>8
  <2>2. ASSUME Has(x, stack[x], pending[x], a), newest'[a] = newest[a] PROVE Good
    BY <2>2, <1>2, <1>8 DEF NoneStale
  <2>3. CASE r.type # "WRITE"
    <3>1. newest'[a] = newest[a]
      BY <2>3, <1>8 DEF Exact
    <3> QED
      BY <3>1, <2>1, <2>2, <2>3
  <2>4. CASE r.type = "WRITE"
    <3>1. newest'[a] = IF a \in Bytes(FirstPart(to, r)) /\ from \in {to, newest[a]} THEN to ELSE newest[a]
      <4>1. Moves(to, FirstPart(to, r), from)
        BY <2>4, Zenon DEF Exact
      <4>2. FirstPart(to, r).type = "WRITE"
        BY <2>4 DEF FirstPart, OkRefs
      <4> QED
        BY <4>1, <4>2 DEF Moves
    <3>2. CASE to = from /\ to = conf.cd
      <4>1. CASE newest'[a] = to
        <5>1. x \in Path
          BY <1>7, <1>8, <2>1
        <5> QED
          BY <5>1, <4>1, <3>2, <1>4, <1>5
      <4>2. CASE newest'[a] # to
        BY <4>2, <3>1, <3>2, <2>1, <2>2
      <4> QED
        BY <4>1, <4>2
    <3>3. CASE Brought(to, r, pend, from)
      <4>1. from # to /\ P(to).cacheid < P(from).cacheid /\ to # Mem
        BY <3>3, <1>4, <1>5, <1>6
      <4>2. newest'[a] = IF a \in Bytes(r) /\ from = newest[a] THEN to ELSE newest[a]
        BY <4>1, <3>1, <3>3, <1>6
      <4>3. CASE a \in Bytes(r) /\ from = newest[a]
        <5>1. CASE x = to
          BY <5>1, <4>2, <4>3, <1>5
        <5>2. CASE x # to
          <6>1. Has(x, stack[x], pending[x], a) /\ Has(x, stack[x], pend[x], a)
            BY <5>2, <2>1
          <6>2. x # from
            BY <6>1, <4>3, <3>3, <1>6, <1>8
          <6>3. P(x).cacheid <= P(P(from).down).cacheid
            BY <6>1, <6>2, <4>3, <3>3, <1>2, <1>6, <1>8, StaleBelow
          <6> QED
            BY <6>3, <4>2, <4>3, <3>3, <1>5, <1>6
        <5> QED
          BY <5>1, <5>2
      <4>4. CASE ~(a \in Bytes(r) /\ from = newest[a])
        <5>1. newest'[a] = newest[a]
          BY <4>2, <4>4
        <5>2. CASE x = to /\ a \in Bytes(FirstPart(to, r))
          <6>1. newest[a] \in Caches /\ P(newest[a]).cacheid >= P(from).cacheid
            BY <5>1, <5>2, <3>3, <1>2, <1>6, <1>8 DEF NoneStale
          <6> QED
            BY <6>1, <5>1, <5>2, <4>1, <3>3, <1>5, <1>6
        <5> QED
          BY <5>1, <5>2, <2>1, <2>2
      <4> QED
        BY <4>3, <4>4
    <3> QED
      BY <3>2, <3>3, <2>4, <1>3
  <2> QED
    BY <2>3, <2>4
<1> QED
  BY <1>1, <1>7, <1>8, FreshNext

\* Nor does a write that arrives at the memory, where it was newest.
LEMMA FreshMemory ==
  ASSUME conf \in Configs, UpToDate, NewestOnPath, conf' = conf, stack' = stack,
         NEW c \in Caches, P(c).down = Mem, NEW r, NEW pend, pending' = pend, Moves(Mem, r, c),
         \A d \in Caches : /\ Tidy(d, stack[d], pend[d])
                           /\ \A a : Written(pend[d], a) => Written(pending[d], a),
         r.type = "WRITE" =>
           \A a \in Bytes(r) : P(c).sub = 1 => ~Has(c, stack[c], pend[c], a)
  PROVE  UpToDate'
<1>1. HoldersOnPath /\ NoneStale /\ Mem \notin Caches
  BY NumberFacts DEF UpToDate
<1>2. \A d \in Caches : Tidy(d, stack'[d], pending'[d])
  OBVIOUS
<1>3. \A d \in Caches : \A a : Has(d, stack'[d], pending'[d], a) =>
        Has(d, stack[d], pending[d], a) /\ Has(d, stack[d], pend[d], a)
  BY DEF Has
<1>4. \A d \in Caches : \A a \in Nat : P(d).sub = 1 /\ Has(d, stack'[d], pending'[d], a) => d \in Path
  BY <1>1, <1>3 DEF HoldersOnPath
<1>5. ASSUME NEW x \in Caches, NEW a \in Addresses, P(x).sub = 1,
             Has(x, stack'[x], pending'[x], a), newest'[a] # Nobody
      PROVE  newest'[a] \in Caches /\ P(newest'[a]).cacheid >= P(x).cacheid
  <2>1. Has(x, stack[x], pending[x], a) /\ Has(x, stack[x], pend[x], a)
    BY <1>3, <1>5
  <2>2. newest'[a] = IF r.type = "WRITE" /\ a \in Bytes(r) /\ c \in {Mem, newest[a]} THEN Mem ELSE newest[a]
    BY DEF Moves
  <2>3. ASSUME r.type = "WRITE", a \in Bytes(r), c = newest[a] PROVE FALSE
    <3>1. x # c
      BY <2>1, <2>3, <1>5
    <3> QED
      BY <3>1, <2>1, <2>3, <1>1, <1>5, StaleBelow
  <2>4. newest'[a] = newest[a]
    BY <2>2, <2>3, <1>1
  <2> QED
    BY <2>1, <2>4, <1>1, <1>5 DEF NoneStale
<1> QED
  BY <1>2, <1>4, <1>5, FreshNext

\* The rest of a write is in the data cache only.
SplitsAtTop == \A d \in Caches : \A e \in ToSet(pending[d]) : SplitWrite(e) => d = conf.cd
StaleInv == UpToDate /\ SplitsAtTop

\* Sub-blocks of one byte above sub-blocks of one byte: with larger ones above, a
\* write-back brings bytes that were not written there.
Bytewise ==
  \A f \in Configs : \A c \in DOMAIN f.cache :
    f.cache[c].down # Mem /\ f.cache[f.cache[c].down].sub = 1 => f.cache[c].sub = 1

\* The reference on top of a stack, taken off it: a write that goes downstream was
\* pending and is not any more, and what the cache does itself is the last.
LEMMA TakenTidy ==
  ASSUME TreeInv, TidyAll, NEW c \in Caches, NEW m, NEW r, NEW to, NEW pend, Turn(c, m, r, to, pend)
  PROVE  /\ \A d \in Caches : /\ Tidy(d, stack[d], pend[d])
                              /\ \A a : Written(pend[d], a) => Written(pending[d], a)
         /\ to \in Caches => NoneStored(pend[to])
         /\ r.type = "WRITE" /\ ~m.split => \A a \in Bytes(r) :
              Written(pending[c], a) /\ (P(c).sub = 1 => ~Has(c, stack[c], pend[c], a))
<1>1. /\ \A d \in Caches : pending[d] # <<>> => P(c).cacheid <= P(d).cacheid
      /\ pending[c] # <<>> /\ m = Head(pending[c]) /\ r.type = m.type /\ Bytes(r) = Bytes(m)
      /\ to = IF m.prefetch \/ m.split THEN c ELSE P(c).down
      /\ pend[c] = Tail(pending[c]) /\ \A d \in Caches : d # c => pend[d] = pending[d]
  BY Zenon DEF Turn
<1>2. conf \in Configs /\ pending[c] \in Seq(OkRefs) /\ Tidy(c, stack[c], pending[c])
  BY DEF TreeInv, CacheInv, Asked, TidyAll
<1>3. PICK q : q = pending[c]
  OBVIOUS
<1>4. /\ Tidy(c, stack[c], Tail(q))
      /\ \A a : Written(Tail(q), a) => Written(q, a)
      /\ Head(q).prefetch \/ Head(q).split => NoneStored(Tail(q))
      /\ Storing(Head(q)) => \A a \in Bytes(Head(q)) :
           Written(q, a) /\ (P(c).sub = 1 => ~Has(c, stack[c], Tail(q), a))
  <2>1. q \in Seq(OkRefs) /\ q # <<>> /\ Tidy(c, stack[c], q)
    BY <1>1, <1>2, <1>3
  <2> QED
    BY <2>1, TidyPopped
<1>5. ASSUME NEW d \in Caches
      PROVE  Tidy(d, stack[d], pend[d]) /\ \A a : Written(pend[d], a) => Written(pending[d], a)
  <2>1. CASE d = c
    BY <2>1, <1>1, <1>3, <1>4
  <2>2. CASE d # c
    BY <2>2, <1>1 DEF TidyAll
  <2> QED
    BY <2>1, <2>2
<1>6. ASSUME to \in Caches PROVE NoneStored(pend[to])
  <2>1. CASE m.prefetch \/ m.split
    BY <2>1, <1>1, <1>3, <1>4
  <2>2. CASE ~(m.prefetch \/ m.split)
    <3>1. to = P(c).down /\ P(to).cacheid < P(c).cacheid
      BY <2>2, <1>1, <1>2, <1>6, NumberFacts
    <3>2. P(to).cacheid \in Nat /\ P(c).cacheid \in Nat
      BY <1>2, <1>6, NumberFacts
    <3>3. to # c /\ pending[to] = <<>>
      BY <3>1, <3>2, <1>1, <1>6
    <3>4. pend[to] = <<>>
      BY <3>3, <1>1, <1>6
    <3> QED
      BY <3>4 DEF NoneStored
  <2> QED
    BY <2>1, <2>2
<1>7. r.type = "WRITE" /\ ~m.split => \A a \in Bytes(r) :
        Written(pending[c], a) /\ (P(c).sub = 1 => ~Has(c, stack[c], pend[c], a))
  BY <1>1, <1>3, <1>4 DEF Storing
<1> QED
  BY <1>5, <1>6, <1>7

\* A turn of d4_dopending leaves nothing stale.
LEMMA StaleTurn ==
  ASSUME Bytewise, TreeInv, NewestOnPath, StaleInv,
         NEW c \in Caches, NEW m, NEW r, NEW to, NEW pend, Turn(c, m, r, to, pend),
         d4ref(to, r, pend, c), r.split = FALSE
  PROVE  StaleInv'
<1>1. /\ m \in OkRefs /\ r \in OkRefs /\ r.type = m.type /\ Bytes(r) = Bytes(m)
      /\ to = IF m.prefetch \/ m.split THEN c ELSE P(c).down
      /\ to \in Caches \cup {Mem}
      /\ m.type = "WRITE" /\ ~m.split => to = P(c).down /\ (to = Mem \/ OneBlock(to, r))
      /\ PendOk(pend)
      /\ Stepped(to, r, pend, c)
  BY Zenon DEF Turn
<1>2. /\ conf \in Configs /\ conf' = conf /\ Mem \notin Caches
      /\ UpToDate /\ SplitsAtTop /\ TidyAll
  BY <1>1, NumberFacts DEF TreeInv, Stepped, StaleInv, UpToDate
<1>3. /\ \A d \in Caches : /\ Tidy(d, stack[d], pend[d])
                           /\ \A a : Written(pend[d], a) => Written(pending[d], a)
      /\ to \in Caches => NoneStored(pend[to])
      /\ r.type = "WRITE" /\ ~m.split => \A a \in Bytes(r) :
           Written(pending[c], a) /\ (P(c).sub = 1 => ~Has(c, stack[c], pend[c], a))
  BY <1>2, TakenTidy
<1>4. /\ m \in ToSet(pending[c])
      /\ \A d \in Caches : \A e \in ToSet(pending'[d]) :
           SplitWrite(e) => e \in ToSet(pending[d]) \/ (d = c /\ SplitWrite(m))
  BY TurnKinds
<1>5. m.type = "WRITE" /\ m.split => c = conf.cd /\ to = c
  BY <1>1, <1>2, <1>4 DEF SplitsAtTop, SplitWrite
<1>6. SplitsAtTop'
  <2>1. Caches' = Caches /\ conf'.cd = conf.cd
    BY <1>2, SamePath
  <2>2. SplitWrite(m) => c = conf.cd
    BY <1>5 DEF SplitWrite
  <2> QED
    BY <2>1, <2>2, <1>2, <1>4 DEF SplitsAtTop, SplitWrite
<1>7. CASE to \in Caches
  <2>1. Exact(to, r, pend, c)
    BY <1>1, <1>7, RefExact
  <2>2. ASSUME r.type = "WRITE", ~m.split PROVE Brought(to, r, pend, c)
    <3>1. to = P(c).down /\ OneBlock(to, r) /\ r.size # 0
      BY <2>2, <1>1, <1>2, <1>7 DEF OkRefs
    <3>2. FirstPart(to, r) = r
      BY <3>1, <1>1, <1>2, <1>7, WithinFacts DEF FirstPart
    <3>3. P(to).sub = 1 => P(c).sub = 1
      BY <3>1, <1>2, <1>7 DEF Bytewise, P, Caches
    <3> QED
      BY <2>2, <3>1, <3>2, <3>3, <1>3 DEF Brought
  <2>3. Arrives(to, r, pend, c)
    BY <2>2, <1>1, <1>3, <1>5, <1>7 DEF Arrives
  <2> QED
    BY <2>1, <2>3, <1>1, <1>2, <1>6, <1>7, FreshArrives DEF StaleInv
<1>8. CASE to = Mem
  <2>1. stack' = stack /\ pending' = pend /\ Moves(Mem, r, c)
    BY <1>8, Zenon DEF d4ref
  <2>2. P(c).down = Mem /\ ~m.split
    BY <1>1, <1>2, <1>8
  <2> QED
    BY <2>1, <2>2, <1>1, <1>2, <1>3, <1>6, FreshMemory DEF StaleInv
<1> QED
  BY <1>1, <1>7, <1>8

\* The next call of a program reaches its cache, with nothing pending.
LEMMA StaleCall ==
  ASSUME TreeInv, NewestOnPath, CallsToData, StaleInv, Idle, calls # <<>>,
         NEW c \in Caches, NEW r \in OkRefs, c = Head(calls).cache, r = Head(calls).ref,
         calls \in Seq(CallRecs), r.split = FALSE, d4ref(c, r, pending, c)
  PROVE  StaleInv'
<1>1. conf \in Configs /\ PendOk(pending) /\ UpToDate /\ SplitsAtTop /\ TidyAll
  BY DEF TreeInv, CacheInv, PendOk, StaleInv, UpToDate
<1>2. Stepped(c, r, pending, c) /\ Exact(c, r, pending, c)
  BY <1>1, SteppedFacts, RefExact
<1>3. conf' = conf
  BY <1>2 DEF Stepped
<1>4. \A d \in Caches : pending[d] = <<>> /\ ToSet(pending[d]) = {}
  BY DEF Idle, ToSet
<1>5. r.type = "WRITE" => c = conf.cd
  <2>1. Len(calls) \in Nat \ {0} /\ Head(calls) = calls[1] /\ 1 \in 1 .. Len(calls)
    OBVIOUS
  <2> QED
    BY <2>1 DEF CallsToData
<1>6. Arrives(c, r, pending, c)
  BY <1>1, <1>4, <1>5 DEF Arrives, NoneStored, TidyAll
<1>7. UpToDate'
  BY <1>1, <1>2, <1>3, <1>6, FreshArrives
<1>8. SplitsAtTop'
  <2>1. ASSUME NEW d \in Caches, NEW e \in ToSet(pending'[d]) PROVE d = c /\ Kind(c, r, e)
    <3>1. PendOk(pending) /\ Stepped(c, r, pending, c) /\ c \in Caches \cup {Mem}
      BY <1>1, <1>2
    <3>2. e \in ToSet(pending[d]) \/ (d = c /\ Kind(c, r, e))
      BY <3>1, Grown
    <3> QED
      BY <3>2, <1>4
  <2>2. Caches' = Caches /\ conf'.cd = conf.cd
    BY <1>3, SamePath
  <2> QED
    BY <1>5, <2>1, <2>2 DEF SplitsAtTop, SplitWrite, Kind
<1> QED
  BY <1>7, <1>8 DEF StaleInv

\* A step that leaves the tree alone.
LEMMA StaleAlone ==
  ASSUME StaleInv, UNCHANGED <<conf, stack, pending, seen, newest>>
  PROVE  StaleInv'
<1>1. /\ conf' = conf /\ stack' = stack /\ pending' = pending /\ newest' = newest
      /\ TidyAll /\ HoldersOnPath /\ NoneStale /\ SplitsAtTop
  BY DEF StaleInv, UpToDate
<1>2. /\ \A c \in Caches : Tidy(c, stack'[c], pending'[c])
      /\ \A c \in Caches : \A a \in Nat :
           P(c).sub = 1 /\ Has(c, stack'[c], pending'[c], a) => c \in Path
      /\ \A c \in Caches : \A a \in Addresses :
           P(c).sub = 1 /\ Has(c, stack'[c], pending'[c], a) /\ newest'[a] # Nobody
             => newest'[a] \in Caches /\ P(newest'[a]).cacheid >= P(c).cacheid
  BY <1>1 DEF TidyAll, HoldersOnPath, NoneStale
<1>3. UpToDate'
  BY <1>1, <1>2, FreshNext
<1>4. SplitsAtTop'
  BY <1>1, SamePath DEF SplitsAtTop
<1> QED
  BY <1>3, <1>4 DEF StaleInv

\* Nothing has been written to begin with.
LEMMA StaleInit ==
  ASSUME Init
  PROVE  StaleInv
<1>1. /\ stack = [c \in Caches |-> [s \in Stacks(c) |-> [k \in 1 .. StackSize(c, s) |-> Node]]]
      /\ pending = [c \in Caches |-> <<>>]
  BY DEF Init, d4setup
<1>2. ASSUME NEW c \in Caches PROVE pending[c] = <<>> /\ \A a : ~DirtyIn(c, stack[c], a)
  <2>1. \A s \in Stacks(c) : \A k \in 1 .. StackSize(c, s) : stack[c][s][k] = Node
    BY <1>1
  <2>2. Part(Node) = {}
    BY DEF Part, Node
  <2> QED
    BY <1>1, <2>1, <2>2 DEF DirtyIn
<1>3. \A c \in Caches : \A a : ~Has(c, stack[c], pending[c], a)
  BY <1>2 DEF Has, Written
<1>4. TidyAll
  BY <1>2 DEF TidyAll, Tidy, Ordered, Once, Written, Clean
<1>5. HoldersOnPath /\ NoneStale
  BY <1>3 DEF HoldersOnPath, NoneStale
<1>6. SplitsAtTop
  BY <1>2 DEF SplitsAtTop, ToSet
<1> QED
  BY <1>4, <1>5, <1>6 DEF StaleInv, UpToDate

\* Every step of the programs and of the library keeps it.
LEMMA StaleNext ==
  ASSUME Nested, Bytewise, CachesInv, FlushInv, StaleInv, [Next]_vars
  PROVE  StaleInv'
<1>1. TreeInv /\ calls \in Seq(CallRecs) /\ NewestOnPath /\ CallsToData
  BY DEF CachesInv, FlushInv
<1>2. ASSUME UNCHANGED <<conf, stack, pending, seen, newest>> PROVE StaleInv'
  BY <1>2, StaleAlone
<1>3. CASE Execute
  <2>1. PICK pc, operands : Instruction(pc, operands)
    BY <1>3, Zenon DEF Execute
  <2>2. UNCHANGED <<conf, stack, pending, seen, newest>>
    BY <2>1 DEF Instruction
  <2> QED
    BY <1>2, <2>2
<1>4. ASSUME NEW r \in conf.trace, TraceItem(r) PROVE StaleInv'
  <2>1. UNCHANGED <<conf, stack, pending, seen, newest>>
    BY <1>4, Zenon DEF TraceItem
  <2> QED
    BY <1>2, <2>1
<1>5. CASE TraceEnds
  <2>1. UNCHANGED <<conf, stack, pending, seen, newest>>
    BY <1>5, Zenon DEF TraceEnds
  <2> QED
    BY <1>2, <2>1
<1>6. CASE Call
  <2> DEFINE h == Head(calls)
  <2>1. Idle /\ calls # <<>> /\ d4ref(h.cache, h.ref, pending, h.cache)
    BY <1>6, Zenon DEF Call
  <2>2. h \in CallRecs
    BY <1>1, <2>1
  <2> HIDE DEF h
  <2>3. h.cache \in Caches /\ h.ref \in OkRefs /\ h.ref.split = FALSE
    <3>1. h \in [cache : Caches, ref : OkRefs] /\ ~h.ref.split
      BY <2>2 DEF CallRecs
    <3>2. h.cache \in Caches /\ h.ref \in OkRefs
      BY <3>1
    <3>3. h.ref.split \in BOOLEAN
      BY <3>2, RefFacts
    <3> QED
      BY <3>1, <3>2, <3>3
  <2>4. PICK c, r : c = h.cache /\ r = h.ref
    OBVIOUS
  <2>5. /\ c \in Caches /\ r \in OkRefs /\ r.split = FALSE /\ d4ref(c, r, pending, c)
        /\ c = Head(calls).cache /\ r = Head(calls).ref
    BY <2>1, <2>3, <2>4 DEF h
  <2> QED
    BY <1>1, <2>1, <2>5, StaleCall
<1>7. CASE Continue
  <2>1. PICK c \in Caches : d4_dopending(c)
    BY <1>7, Zenon DEF Continue
  <2>2. PICK m, r, to, pend : Turn(c, m, r, to, pend) /\ d4ref(to, r, pend, c) /\ r.split = FALSE
    BY <1>1, <2>1, TurnFacts
  <2> QED
    BY <1>1, <2>2, StaleTurn
<1>8. CASE UNCHANGED vars
  <2>1. UNCHANGED <<conf, stack, pending, seen, newest>>
    BY <1>8 DEF vars
  <2> QED
    BY <1>2, <2>1
<1>9. Finished => UNCHANGED vars
  BY Zenon DEF Finished
<1> QED
  BY <1>3, <1>4, <1>5, <1>6, <1>7, <1>8, <1>9, Zenon DEF Next

\* No cache ever writes back what a cache further down, or the memory, has newer,
\* whatever the tree of caches whose blocks do not shrink and whose sub-blocks of one
\* byte are below sub-blocks of one byte.
THEOREM NothingWrittenStale ==
  ASSUME Nested, Bytewise
  PROVE  Spec => []NothingStale
<1>1. Init => CachesInv /\ HeldAll /\ FlushInv /\ StaleInv
  BY InitTree, FlushInit, HeldInit, StaleInit
<1>2. CachesInv /\ HeldAll /\ FlushInv /\ StaleInv /\ [Next]_vars =>
        (CachesInv /\ HeldAll /\ FlushInv /\ StaleInv)'
  BY CachesNext, HeldNext, FlushNext, StaleNext
<1>3. CachesInv /\ StaleInv => NothingStale
  <2> SUFFICES ASSUME CachesInv, StaleInv, NEW c \in Caches, NEW a \in Addresses,
                      P(c).sub = 1, Holds(c, a), newest[a] # Nobody
               PROVE  newest[a] \in Caches /\ P(newest[a]).cacheid >= P(c).cacheid
    BY DEF NothingStale
  <2>1. CASE SubBlock(c, a) \in Dirty(c)
    <3>1. PICK x \in Nodes(c) : SubBlock(c, a) \in Part(x)
      BY <2>1 DEF Dirty, Part
    <3> DEFINE g == [t \in Stacks(c) |-> {stack[c][t][j] : j \in DOMAIN stack[c][t]}]
    <3>2. Nodes(c) = UNION {g[t] : t \in Stacks(c)}
      BY DEF Nodes
    <3>3. \A t \in Stacks(c) : g[t] = {stack[c][t][j] : j \in DOMAIN stack[c][t]}
      OBVIOUS
    <3> HIDE DEF g
    <3>4. PICK s \in Stacks(c) : x \in g[s]
      BY <3>1, <3>2
    <3>5. DOMAIN stack[c][s] = 1 .. StackSize(c, s)
      BY StackNodes
    <3>6. PICK k \in 1 .. StackSize(c, s) : x = stack[c][s][k]
      <4>1. g[s] = {stack[c][s][j] : j \in DOMAIN stack[c][s]}
        BY <3>3
      <4>2. \E k \in DOMAIN stack[c][s] : x = stack[c][s][k]
        BY <3>4, <4>1
      <4> QED
        BY <4>2, <3>5
    <3> QED
      BY <3>1, <3>6 DEF DirtyIn, Has, StaleInv, UpToDate, NoneStale
  <2>2. CASE a \in Leaving(c)
    <3>1. pending[c] \in Seq(OkRefs)
      BY DEF CachesInv, TreeInv, CacheInv, Asked
    <3>2. DOMAIN pending[c] = 1 .. Len(pending[c])
      BY <3>1
    <3>3. Written(pending[c], a)
      BY <2>2, <3>2 DEF Leaving, Written
    <3> QED
      BY <3>3 DEF Has, StaleInv, UpToDate, NoneStale
  <2> QED
    BY <2>1, <2>2 DEF Holds
<1> QED
  BY <1>1, <1>2, <1>3, PTL DEF Spec
=============================================================================
