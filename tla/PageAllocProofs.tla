-------------------------- MODULE PageAllocProofs --------------------------
(***************************************************************************)
(* Proofs about alloc_pages over the zones of a node (module PageAlloc),   *)
(* for any zones with any pages, any number of orders and any batch.       *)
(***************************************************************************)
EXTENDS PageAlloc, ListLemmas

-----------------------------------------------------------------------------
(* Blocks: their sizes, their alignment and their buddies *)

LEMMA OrdersAre ==
  /\ Orders \subseteq Nat /\ 0 \in Orders
  /\ \A o \in Orders : Tops(o) \subseteq Orders /\ o \in Tops(o)
  /\ \A o \in Orders : \A k \in o .. MaxOrder - 1 : k \in Orders
BY ZonesAssumption DEF Orders, Tops

(* Where a multiple of a size, and of twice the size, is next to a page. *)
LEMMA Halves ==
  ASSUME NEW p \in Nat, NEW s \in Nat \ {0}
  PROVE  /\ p % s \in 0 .. s - 1 /\ p % (2 * s) \in 0 .. 2 * s - 1
         /\ \/ p % (2 * s) = p % s
            \/ p % (2 * s) = (p % s) + s
<1> DEFINE t == 2 * s
           Q == p \div t
           R == p % t
<1>1. t \in Nat \ {0} /\ t = s + s
  OBVIOUS
<1> HIDE DEF t
<1>2. p = Q * t + R /\ R \in 0 .. t - 1 /\ Q \in Nat
  BY <1>1
<1> HIDE DEF Q, R
<1>3. p % s \in 0 .. s - 1
  OBVIOUS
<1> DEFINE a == Q + Q
           b == a + 1
           c == R - s
<1>4. Q * t = a * s /\ b * s = a * s + s /\ a \in Nat /\ b \in Nat /\ c \in Int
  BY <1>1, <1>2
<1>5. CASE R < s
  <2>1. p = a * s + R /\ R \in 0 .. s - 1
    BY <1>2, <1>4, <1>5
  <2> HIDE DEF a
  <2>2. p % s = R
    BY <1>4, <2>1
  <2> QED
    BY <1>2, <1>3, <2>2 DEF R, t
<1>6. CASE ~ (R < s)
  <2>1. p = b * s + c /\ c \in 0 .. s - 1 /\ b \in Nat
    BY <1>1, <1>2, <1>4, <1>6
  <2>2. R = c + s
    BY <1>2
  <2> HIDE DEF b, c
  <2>3. p % s = c
    BY <2>1
  <2> QED
    BY <1>2, <1>3, <2>2, <2>3 DEF R, t
<1> QED
  BY <1>5, <1>6

(* What is left of a page number at its multiple is nothing, and the same goes
   for the multiples next to it.                                            *)
LEMMA Multiples ==
  ASSUME NEW p \in Nat, NEW s \in Nat \ {0}
  PROVE  /\ p - (p % s) \in Nat /\ (p - (p % s)) % s = 0
         /\ (p - (p % s) + s) % s = 0
         /\ p - (p % s) - s \in Nat => (p - (p % s) - s) % s = 0
<1> DEFINE q == p \div s
           h == p - (p % s)
<1>1. q \in Nat /\ h = q * s /\ h \in Nat
  OBVIOUS
<1>2. h + s = (q + 1) * s + 0 /\ h = q * s + 0 /\ 0 \in 0 .. s - 1 /\ q + 1 \in Nat
  BY <1>1
<1> HIDE DEF q, h
<1>3. h % s = 0 /\ (h + s) % s = 0
  BY <1>1, <1>2
<1>4. ASSUME h - s \in Nat PROVE (h - s) % s = 0
  <2>1. q # 0
    BY <1>1, <1>4
  <2> DEFINE e == q - 1
             g == h - s
  <2>2. g = e * s + 0 /\ e \in Nat /\ g \in Nat
    BY <1>1, <1>4, <2>1
  <2> HIDE DEF e, g
  <2>3. g % s = 0
    BY <1>2, <2>2
  <2> QED
    BY <2>3 DEF g
<1> QED
  BY <1>1, <1>3, <1>4 DEF h

(* HeadOf and BuddyAt: both start blocks of their order, and together they are
   the block of the next order.                                             *)
LEMMA Buddies ==
  ASSUME NEW p \in Nat, NEW j \in Nat
  PROVE  /\ HeadOf(p, j) \in Nat /\ HeadOf(p, j) % 2 ^ j = 0
         /\ BuddyAt(p, j) \in Nat /\ BuddyAt(p, j) % 2 ^ j = 0
         /\ Block(<<HeadOf(p, j + 1), j + 1>>) =
              Block(<<HeadOf(p, j), j>>) \cup Block(<<BuddyAt(p, j), j>>)
         /\ Block(<<HeadOf(p, j), j>>) \cap Block(<<BuddyAt(p, j), j>>) = {}
<1> DEFINE s == 2 ^ j
           h == p - (p % s)
           H == p - (p % (2 * s))
<1>1. s \in Nat \ {0} /\ 2 ^ (j + 1) = 2 * s
  BY PowersOfTwo
<1>2. HeadOf(p, j) = h /\ HeadOf(p, j + 1) = H
  BY <1>1 DEF HeadOf
<1> HIDE DEF s
<1>3. h \in Nat /\ h % s = 0 /\ (h + s) % s = 0 /\ (h - s \in Nat => (h - s) % s = 0)
  BY <1>1, Multiples
<1>4. H \in Nat
  BY <1>1, Multiples
<1>5. H = h \/ H = h - s
  <2>1. /\ p % s \in 0 .. s - 1 /\ p % (2 * s) \in 0 .. 2 * s - 1
        /\ p % (2 * s) = p % s \/ p % (2 * s) = (p % s) + s
    BY <1>1, Halves
  <2> QED
    BY <1>1, <2>1
<1> HIDE DEF h, H
<1>6. BuddyAt(p, j) = IF h = H THEN h + s ELSE h - s
  BY <1>2 DEF BuddyAt, s
<1>7. /\ Block(<<HeadOf(p, j + 1), j + 1>>) = H .. H + 2 * s - 1
      /\ Block(<<HeadOf(p, j), j>>) = h .. h + s - 1
      /\ Block(<<BuddyAt(p, j), j>>) = BuddyAt(p, j) .. BuddyAt(p, j) + s - 1
  BY <1>1, <1>2 DEF Block, s
<1>8. CASE h = H
  <2>1. BuddyAt(p, j) = h + s /\ h + s \in Nat
    BY <1>1, <1>3, <1>6, <1>8
  <2>2. H .. H + 2 * s - 1 = (h .. h + s - 1) \cup (h + s .. h + s + s - 1)
    BY <1>1, <1>3, <1>8
  <2>3. (h .. h + s - 1) \cap (h + s .. h + s + s - 1) = {}
    BY <1>1, <1>3
  <2> QED
    BY <1>2, <1>3, <1>7, <2>1, <2>2, <2>3 DEF s
<1>9. CASE h # H
  <2>1. BuddyAt(p, j) = h - s /\ h - s \in Nat
    BY <1>1, <1>3, <1>4, <1>5, <1>6, <1>9
  <2>2. H .. H + 2 * s - 1 = (h .. h + s - 1) \cup (h - s .. h - s + s - 1)
    BY <1>1, <1>3, <1>4, <1>5, <1>9
  <2>3. (h .. h + s - 1) \cap (h - s .. h - s + s - 1) = {}
    BY <1>1, <1>3
  <2> QED
    BY <1>2, <1>3, <1>7, <2>1, <2>2, <2>3 DEF s
<1> QED
  BY <1>8, <1>9

(* A block of order k starts where a smaller one may. *)
LEMMA AlignedBelow ==
  ASSUME NEW p \in Nat, NEW k \in Nat, p % 2 ^ k = 0, NEW j \in 0 .. k
  PROVE  p % 2 ^ j = 0
<1> DEFINE T == {i \in 0 .. k : p % 2 ^ (k - i) = 0}
<1>1. 0 \in T
  BY k - 0 = k
<1>2. ASSUME NEW i \in 1 .. k, i - 1 \in T PROVE i \in T
  <2> DEFINE m == k - i
             s == 2 ^ m
  <2>1. m \in Nat /\ k - (i - 1) = m + 1
    OBVIOUS
  <2>2. s \in Nat \ {0} /\ 2 ^ (m + 1) = 2 * s
    BY <2>1, PowersOfTwo
  <2>3. p % (2 * s) = 0
    BY <1>2, <2>1, <2>2
  <2> HIDE DEF s
  <2>4. p % s = 0
    <3>1. /\ p % s \in 0 .. s - 1
          /\ p % (2 * s) = p % s \/ p % (2 * s) = (p % s) + s
      BY <2>2, Halves
    <3> QED
      BY <2>2, <2>3, <3>1
  <2> QED
    BY <2>4 DEF s
<1> HIDE DEF T
<1>3. 0 .. k \subseteq T
  BY <1>1, <1>2, InductionUpTo
<1>4. k - j \in 0 .. k /\ k - (k - j) = j
  OBVIOUS
<1>5. k - j \in T
  BY <1>3, <1>4
<1> QED
  BY <1>4, <1>5 DEF T

LEMMA BlockIs ==
  ASSUME NEW p \in Nat, NEW o \in Nat
  PROVE  /\ p \in Block(<<p, o>>) /\ Block(<<p, o>>) \subseteq Nat
         /\ IsFiniteSet(Block(<<p, o>>)) /\ Cardinality(Block(<<p, o>>)) = 2 ^ o
         /\ Block(<<p, 0>>) = {p}
<1>1. 2 ^ o \in Nat \ {0} /\ 2 ^ 0 = 1
  BY PowersOfTwo
<1> DEFINE s == 2 ^ o
           e == p + s - 1
<1>2. Block(<<p, o>>) = p .. e /\ e \in Nat /\ e - p + 1 = s /\ ~ (p > e) /\ p \in p .. e /\ p .. e \subseteq Nat
  BY <1>1 DEF Block
<1>3. Block(<<p, 0>>) = {p}
  BY <1>1 DEF Block
<1> HIDE DEF s, e
<1>4. IsFiniteSet(p .. e) /\ Cardinality(p .. e) = s
  BY <1>2, FS_Interval
<1> QED
  BY <1>2, <1>3, <1>4 DEF s

-----------------------------------------------------------------------------
(* Sets of blocks *)

Cover(F) == UNION {Block(b) : b \in F}

(* Blocks where blocks may start, no two of which overlap. *)
Neat(F) ==
  /\ F \subseteq Nat \X Orders
  /\ \A b \in F : b[1] % 2 ^ b[2] = 0
  /\ \A b, c \in F : b # c => Block(b) \cap Block(c) = {}

LEMMA NoBlocks == Neat({}) /\ Cover({}) = {}
BY DEF Neat, Cover

LEMMA OneBlock ==
  ASSUME NEW p \in Nat, NEW o \in Orders, p % 2 ^ o = 0
  PROVE  Neat({<<p, o>>}) /\ Cover({<<p, o>>}) = Block(<<p, o>>)
BY DEF Neat, Cover

LEMMA FewerBlocks ==
  ASSUME NEW F, Neat(F), NEW B, B \subseteq F
  PROVE  /\ Neat(B) /\ Cover(B) \subseteq Cover(F)
         /\ Cover(F \ B) = Cover(F) \ Cover(B)
<1>1. Neat(B) /\ Cover(B) \subseteq Cover(F)
  BY DEF Neat, Cover
<1>2. ASSUME NEW q \in Cover(F \ B) PROVE q \in Cover(F) \ Cover(B)
  <2>1. PICK b \in F \ B : q \in Block(b)
    BY <1>2 DEF Cover
  <2>2. ASSUME NEW c \in B PROVE q \notin Block(c)
    BY <2>1 DEF Neat
  <2> QED
    BY <2>1, <2>2 DEF Cover
<1>3. ASSUME NEW q \in Cover(F) \ Cover(B) PROVE q \in Cover(F \ B)
  BY <1>3 DEF Cover
<1> QED
  BY <1>1, <1>2, <1>3

LEMMA BlocksJoined ==
  ASSUME NEW F, Neat(F), NEW U, Neat(U), Cover(U) \cap Cover(F) = {}
  PROVE  Neat(F \cup U) /\ Cover(F \cup U) = Cover(F) \cup Cover(U)
<1>1. Cover(F \cup U) = Cover(F) \cup Cover(U)
  BY DEF Cover
<1>2. ASSUME NEW b \in F, NEW c \in U PROVE Block(b) \cap Block(c) = {}
  <2>1. Block(b) \subseteq Cover(F) /\ Block(c) \subseteq Cover(U)
    BY DEF Cover
  <2> QED
    BY <2>1
<1>3. \A b \in F \cup U : b \in Nat \X Orders /\ b[1] % 2 ^ b[2] = 0
  BY DEF Neat
<1>4. ASSUME NEW b \in F \cup U, NEW c \in F \cup U, b # c
      PROVE  Block(b) \cap Block(c) = {}
  <2>1. CASE b \in F /\ c \in F
    BY <1>4, <2>1 DEF Neat
  <2>2. CASE b \in U /\ c \in U
    BY <1>4, <2>2 DEF Neat
  <2>3. CASE b \in F /\ c \in U
    BY <1>2, <2>3
  <2>4. CASE b \in U /\ c \in F
    BY <1>2, <2>4
  <2> QED
    BY <2>1, <2>2, <2>3, <2>4
<1> QED
  BY <1>1, <1>3, <1>4 DEF Neat

(* Some blocks are replaced by others that overlap none of those that stay. *)
LEMMA Exchange ==
  ASSUME NEW F, Neat(F), NEW B, B \subseteq F, NEW U, Neat(U),
         Cover(U) \cap (Cover(F) \ Cover(B)) = {}
  PROVE  /\ Neat((F \ B) \cup U)
         /\ Cover((F \ B) \cup U) = (Cover(F) \ Cover(B)) \cup Cover(U)
<1>1. Neat(F \ B) /\ Cover(F \ B) = Cover(F) \ Cover(B)
  BY FewerBlocks
<1>2. Cover(U) \cap Cover(F \ B) = {}
  BY <1>1
<1>3. Neat((F \ B) \cup U) /\ Cover((F \ B) \cup U) = Cover(F \ B) \cup Cover(U)
  BY <1>1, <1>2, BlocksJoined
<1> QED
  BY <1>1, <1>3

LEMMA NeatParts ==
  ASSUME NEW F, Neat(F), NEW b \in F
  PROVE  /\ b[1] \in Nat /\ b[2] \in Orders /\ b[2] \in Nat /\ b = <<b[1], b[2]>>
         /\ b[1] % 2 ^ b[2] = 0
         /\ b[1] \in Block(b) /\ Block(b) \subseteq Cover(F)
<1>1. b[1] \in Nat /\ b[2] \in Orders /\ b = <<b[1], b[2]>> /\ b[1] % 2 ^ b[2] = 0
  BY DEF Neat
<1>2. b[2] \in Nat
  BY <1>1, OrdersAre
<1>3. b[1] \in Block(b)
  BY <1>1, <1>2, BlockIs
<1> QED
  BY <1>1, <1>2, <1>3 DEF Cover

-----------------------------------------------------------------------------
(* A block is given back *)

BuddiesBelow(p, o, k) == {<<BuddyAt(p, j), j>> : j \in o .. k - 1}

(* The block a freed block coalesces to is that block and its buddies. *)
LEMMA CoalescedIs ==
  ASSUME NEW p \in Nat, NEW o \in Nat, p % 2 ^ o = 0, NEW k \in Nat, o <= k
  PROVE  /\ HeadOf(p, k) \in Nat /\ HeadOf(p, k) % 2 ^ k = 0
         /\ Block(<<HeadOf(p, k), k>>) = Block(<<p, o>>) \cup Cover(BuddiesBelow(p, o, k))
<1> DEFINE Holds(i) == Block(<<HeadOf(p, o + i), o + i>>) = Block(<<p, o>>) \cup Cover(BuddiesBelow(p, o, o + i))
           T == {i \in 0 .. k - o : Holds(i)}
<1>1. 0 \in T
  <2>1. HeadOf(p, o) = p
    BY DEF HeadOf
  <2>2. BuddiesBelow(p, o, o) = {}
    BY DEF BuddiesBelow
  <2>3. Cover({}) = {} /\ o + 0 = o
    BY NoBlocks
  <2>4. Holds(0)
    BY <2>1, <2>2, <2>3
  <2> QED
    BY <2>4
<1>2. ASSUME NEW i \in 1 .. k - o, i - 1 \in T PROVE i \in T
  <2> DEFINE j == o + (i - 1)
  <2>1. j \in Nat /\ o + i = j + 1 /\ o <= j
    OBVIOUS
  <2>2. Block(<<HeadOf(p, j), j>>) = Block(<<p, o>>) \cup Cover(BuddiesBelow(p, o, j))
    BY <1>2
  <2> HIDE DEF j
  <2>3. Block(<<HeadOf(p, j + 1), j + 1>>) = Block(<<HeadOf(p, j), j>>) \cup Block(<<BuddyAt(p, j), j>>)
    BY <2>1, Buddies
  <2>4. BuddiesBelow(p, o, j + 1) = BuddiesBelow(p, o, j) \cup {<<BuddyAt(p, j), j>>}
    <3>1. o .. j + 1 - 1 = (o .. j - 1) \cup {j}
      BY <2>1
    <3> QED
      BY <3>1 DEF BuddiesBelow
  <2>5. Cover(BuddiesBelow(p, o, j + 1)) = Cover(BuddiesBelow(p, o, j)) \cup Block(<<BuddyAt(p, j), j>>)
    BY <2>4 DEF Cover
  <2>6. Holds(i)
    BY <2>1, <2>2, <2>3, <2>5
  <2> QED
    BY <2>6
<1> HIDE DEF T
<1>3. k - o \in 0 .. k - o /\ o + (k - o) = k
  OBVIOUS
<1>4. k - o \in T
  BY <1>1, <1>2, <1>3, InductionUpTo
<1> QED
  BY <1>3, <1>4, Buddies DEF T

LEMMA GiveBackIs ==
  ASSUME NEW F, NEW p \in Nat, NEW o \in Orders
  PROVE  \E top \in Tops(o) :
           /\ BuddiesBelow(p, o, top) \subseteq F
           /\ GiveBack(F, p, o) = (F \ BuddiesBelow(p, o, top)) \cup {<<HeadOf(p, top), top>>}
<1> DEFINE S == {k \in Tops(o) : BuddiesBelow(p, o, k) \subseteq F}
<1>1. o \in Nat /\ o \in Tops(o) /\ Tops(o) \subseteq 0 .. MaxOrder /\ MaxOrder \in Nat
  BY OrdersAre, ZonesAssumption DEF Tops, Orders
<1>2. o \in S
  BY <1>1 DEF BuddiesBelow
<1>3. S \subseteq 0 .. MaxOrder
  BY <1>1
<1>4. GiveBack(F, p, o) = (F \ BuddiesBelow(p, o, Max(S))) \cup {<<HeadOf(p, Max(S)), Max(S)>>}
  BY DEF GiveBack, BuddiesBelow
<1> HIDE DEF S
<1>5. Max(S) \in S
  BY <1>1, <1>2, <1>3, MaxOfNumbers
<1> QED
  BY <1>4, <1>5 DEF S

LEMMA GiveBackType ==
  ASSUME NEW F, F \subseteq Nat \X Orders, NEW p \in Nat, NEW o \in Orders
  PROVE  GiveBack(F, p, o) \subseteq Nat \X Orders
<1>1. PICK top \in Tops(o) :
        GiveBack(F, p, o) = (F \ BuddiesBelow(p, o, top)) \cup {<<HeadOf(p, top), top>>}
  BY GiveBackIs
<1>2. top \in Orders /\ top \in Nat
  BY OrdersAre
<1>3. HeadOf(p, top) \in Nat
  BY <1>2, Buddies
<1> QED
  BY <1>1, <1>2, <1>3

(* A block that overlaps no free block joins them, whatever it coalesces to. *)
LEMMA GivenBack ==
  ASSUME NEW F, Neat(F), NEW p \in Nat, NEW o \in Orders, p % 2 ^ o = 0,
         Block(<<p, o>>) \cap Cover(F) = {}
  PROVE  /\ Neat(GiveBack(F, p, o))
         /\ Cover(GiveBack(F, p, o)) = Cover(F) \cup Block(<<p, o>>)
<1>1. PICK top \in Tops(o) :
        /\ BuddiesBelow(p, o, top) \subseteq F
        /\ GiveBack(F, p, o) = (F \ BuddiesBelow(p, o, top)) \cup {<<HeadOf(p, top), top>>}
  BY GiveBackIs
<1> DEFINE B == BuddiesBelow(p, o, top)
           U == {<<HeadOf(p, top), top>>}
<1>2. top \in Orders /\ top \in Nat /\ o \in Nat /\ o <= top
  BY OrdersAre DEF Tops
<1>3. /\ HeadOf(p, top) \in Nat /\ HeadOf(p, top) % 2 ^ top = 0
      /\ Block(<<HeadOf(p, top), top>>) = Block(<<p, o>>) \cup Cover(B)
  BY <1>2, CoalescedIs
<1>4. Neat(U) /\ Cover(U) = Block(<<p, o>>) \cup Cover(B)
  BY <1>2, <1>3, OneBlock
<1>5. B \subseteq F /\ Cover(B) \subseteq Cover(F)
  BY <1>1, FewerBlocks
<1> HIDE DEF B, U
<1>6. Cover(U) \cap (Cover(F) \ Cover(B)) = {}
  BY <1>4
<1>7. /\ Neat((F \ B) \cup U)
      /\ Cover((F \ B) \cup U) = (Cover(F) \ Cover(B)) \cup Cover(U)
  BY <1>4, <1>5, <1>6, Exchange
<1>8. GiveBack(F, p, o) = (F \ B) \cup U
  BY <1>1 DEF B, U
<1> QED
  BY <1>4, <1>5, <1>7, <1>8

-----------------------------------------------------------------------------
(* Pages given back one by one *)

LEMMA MaxOfSome ==
  ASSUME NEW S, S \subseteq Nat, IsFiniteSet(S), S # {}
  PROVE  Max(S) \in S
<1>1. PICK n \in Nat : S \subseteq 0 .. n
  BY FiniteIsBounded
<1> QED
  BY <1>1, MaxOfNumbers

LEMMA PageGivenBack ==
  ASSUME NEW F, Neat(F), NEW p \in Nat, p \notin Cover(F)
  PROVE  Neat(GiveBack(F, p, 0)) /\ Cover(GiveBack(F, p, 0)) = Cover(F) \cup {p}
<1> DEFINE o == 0
<1>1. o \in Orders /\ p % 2 ^ o = 0 /\ Block(<<p, o>>) = {p}
  <2>1. 2 ^ 0 = 1 /\ p % 1 = 0
    OBVIOUS
  <2> QED
    BY <2>1, BlockIs, OrdersAre
<1> HIDE DEF o
<1>2. Neat(GiveBack(F, p, o)) /\ Cover(GiveBack(F, p, o)) = Cover(F) \cup Block(<<p, o>>)
  BY <1>1, GivenBack
<1> QED
  BY <1>1, <1>2 DEF o

LEMMA AllGivenBack ==
  ASSUME NEW F, Neat(F), NEW P, P \subseteq Nat, IsFiniteSet(P), P \cap Cover(F) = {}
  PROVE  Neat(GiveBackAll(F, P)) /\ Cover(GiveBackAll(F, P)) = Cover(F) \cup P
<1> DEFINE D == SUBSET P
           T == SUBSET (Nat \X Orders)
           Goes(f) == f = [S \in D |->
             IF S = {} THEN F ELSE GiveBack(f[S \ {Max(S)}], Max(S), 0)]
           give == CHOOSE f : Goes(f)
           Stops == {{}}
           val == [S \in Stops |-> F]
           next == [S \in D |-> S \ {Max(S)}]
           step == [x \in D \X T |-> IF x[1] = {} THEN F ELSE GiveBack(x[2], Max(x[1]), 0)]
           size == [S \in D |-> Cardinality(S)]
           n == Cardinality(P)
<1>1. GiveBackAll(F, P) = give[P]
  BY DEF GiveBackAll
<1>2. F \in T /\ 0 \in Orders
  BY OrdersAre DEF Neat
<1>3. ASSUME NEW S \in D, S # {}
      PROVE  /\ Max(S) \in S /\ Max(S) \in Nat
             /\ S \ {Max(S)} \in D
             /\ Cardinality(S \ {Max(S)}) < Cardinality(S)
  <2>1. IsFiniteSet(S) /\ S \subseteq Nat
    BY FS_Subset
  <2>2. Max(S) \in S
    BY <1>3, <2>1, MaxOfSome
  <2>3. Cardinality(S \ {Max(S)}) = Cardinality(S) - 1 /\ Cardinality(S) \in Nat
    BY <2>1, <2>2, FS_RemoveElement, FS_CardinalityType
  <2>4. Cardinality(S \ {Max(S)}) < Cardinality(S)
    BY <2>3
  <2> QED
    BY <2>1, <2>2, <2>4
<1>4. n \in Nat /\ \A S \in D : IsFiniteSet(S) /\ Cardinality(S) \in 0 .. n
  <2>1. n \in Nat
    BY FS_CardinalityType
  <2>2. ASSUME NEW S \in D PROVE IsFiniteSet(S) /\ Cardinality(S) \in 0 .. n
    <3>1. IsFiniteSet(S) /\ Cardinality(S) <= n
      BY FS_Subset
    <3>2. Cardinality(S) \in Nat
      BY <3>1, FS_CardinalityType
    <3> QED
      BY <2>1, <3>1, <3>2
  <2> QED
    BY <2>1, <2>2
<1>5. \E f : Goes(f)
  <2>1. size \in [D -> 0 .. n]
    BY <1>4
  <2>2. val \in [D \cap Stops -> T]
    BY <1>2
  <2>3. step \in [D \X T -> T]
    <3> SUFFICES ASSUME NEW S \in D, NEW G \in T
                 PROVE  (IF S = {} THEN F ELSE GiveBack(G, Max(S), 0)) \in T
      OBVIOUS
    <3>1. CASE S = {}
      BY <1>2, <3>1
    <3>2. CASE S # {}
      <4>1. Max(S) \in Nat
        BY <1>3, <3>2
      <4>2. G \subseteq Nat \X Orders
        OBVIOUS
      <4>3. GiveBack(G, Max(S), 0) \subseteq Nat \X Orders
        BY <1>2, <4>1, <4>2, GiveBackType
      <4> QED
        BY <3>2, <4>3
    <3> QED
      BY <3>1, <3>2
  <2>4. ASSUME NEW S \in D, S \notin Stops
        PROVE  next[S] \in D /\ size[next[S]] < size[S]
    <3>1. next[S] = S \ {Max(S)} /\ S \ {Max(S)} \in D
      BY <1>3, <2>4
    <3>2. size[S] = Cardinality(S) /\ size[S \ {Max(S)}] = Cardinality(S \ {Max(S)})
      BY <3>1
    <3> QED
      BY <1>3, <2>4, <3>1, <3>2
  <2>5. \A S \in D, G \in T : S # {} => step[<<S, G>>] = GiveBack(G, Max(S), 0)
    OBVIOUS
  <2>6. \A S \in D : S # {} => next[S] = S \ {Max(S)}
    OBVIOUS
  <2>7. val[{}] = F
    OBVIOUS
  <2> HIDE DEF D, T, val, next, step, size, n
  <2>8. PICK f \in [D -> T] : StepsFrom(f, D, Stops, val, next, step)
    BY <1>4, <2>1, <2>2, <2>3, <2>4, StepRecursion
  <2>9. ASSUME NEW S \in D
        PROVE  f[S] = IF S = {} THEN F ELSE GiveBack(f[S \ {Max(S)}], Max(S), 0)
    <3>1. f[S] = IF S \in Stops THEN val[S] ELSE step[<<S, f[next[S]]>>]
      BY <2>8 DEF StepsFrom
    <3>2. CASE S = {}
      BY <2>7, <3>1, <3>2
    <3>3. CASE S # {}
      <4>1. next[S] \in D
        BY <2>4, <3>3
      <4>2. f[next[S]] \in T
        BY <4>1
      <4> QED
        BY <2>5, <2>6, <3>1, <3>3, <4>2
    <3> QED
      BY <3>2, <3>3
  <2>10. Goes(f)
    <3>1. f = [S \in D |-> f[S]]
      OBVIOUS
    <3> QED
      BY <2>9, <3>1
  <2> HIDE DEF Goes
  <2> QED
    BY <2>10
<1> HIDE DEF Goes
<1>6. Goes(give)
  BY <1>5
<1> HIDE DEF give
<1>7. \A S \in D : give[S] = IF S = {} THEN F ELSE GiveBack(give[S \ {Max(S)}], Max(S), 0)
  BY <1>6 DEF Goes
<1> HIDE DEF val, next, step
<1> DEFINE G == {S \in D : Neat(give[S]) /\ Cover(give[S]) = Cover(F) \cup S}
<1>8. size \in [D -> Nat]
  BY <1>4
<1>9. ASSUME NEW S \in D, \A R \in D : size[R] < size[S] => R \in G
      PROVE  S \in G
  <2>1. CASE S = {}
    <3>1. give[S] = F
      BY <1>7, <2>1
    <3> QED
      BY <2>1, <3>1
  <2>2. CASE S # {}
    <3> DEFINE p == Max(S)
               R == S \ {p}
    <3>1. p \in S /\ p \in Nat /\ R \in D /\ size[R] < size[S]
      <4>1. p \in S /\ p \in Nat /\ R \in D /\ Cardinality(R) < Cardinality(S)
        BY <1>3, <2>2
      <4> HIDE DEF p, R
      <4>2. size[R] = Cardinality(R) /\ size[S] = Cardinality(S)
        BY <4>1
      <4> QED
        BY <4>1, <4>2
    <3>2. give[S] = GiveBack(give[R], p, 0)
      BY <1>7, <2>2
    <3> HIDE DEF p, G
    <3>3. R \in G /\ S = R \cup {p} /\ p \notin R
      BY <1>9, <3>1
    <3>4. Neat(give[R]) /\ Cover(give[R]) = Cover(F) \cup R
      BY <3>3 DEF G
    <3> HIDE DEF R
    <3>5. p \notin Cover(give[R])
      BY <3>1, <3>3, <3>4
    <3>6. Neat(GiveBack(give[R], p, 0)) /\ Cover(GiveBack(give[R], p, 0)) = Cover(give[R]) \cup {p}
      BY <3>1, <3>4, <3>5, PageGivenBack
    <3>7. Cover(give[S]) = Cover(F) \cup S
      BY <3>2, <3>3, <3>4, <3>6
    <3> QED
      BY <3>2, <3>6, <3>7 DEF G
  <2> QED
    BY <2>1, <2>2
<1> HIDE DEF G, size, D
<1>10. D \subseteq G
  BY <1>8, <1>9, InductionOnSize
<1> QED
  BY <1>1, <1>10 DEF G, D

-----------------------------------------------------------------------------
(* A block is taken *)

UpperHalves(p, o, k) == {<<p + 2 ^ j, j>> : j \in o .. k - 1}

(* What expand gives back of a block of order k are blocks that cover all of it
   behind the first block of order o.                                       *)
LEMMA UpperHalvesAre ==
  ASSUME NEW p \in Nat, NEW k \in Orders, p % 2 ^ k = 0, NEW o \in Nat, o <= k
  PROVE  /\ Neat(UpperHalves(p, o, k))
         /\ Cover(UpperHalves(p, o, k)) = p + 2 ^ o .. p + 2 ^ k - 1
<1> DEFINE Holds(m) == /\ Neat(UpperHalves(p, o, m))
                       /\ Cover(UpperHalves(p, o, m)) = p + 2 ^ o .. p + 2 ^ m - 1
           T == {i \in 0 .. k - o : Holds(o + i)}
<1>1. k \in Nat /\ \A j \in 0 .. k : j \in Orders
  BY ZonesAssumption DEF Orders
<1>2. 0 \in T
  <2>1. UpperHalves(p, o, o) = {} /\ o + 0 = o
    BY DEF UpperHalves
  <2>2. p + 2 ^ o .. p + 2 ^ o - 1 = {}
    <3>1. 2 ^ o \in Nat
      BY PowersOfTwo
    <3> QED
      BY <3>1
  <2>3. Holds(o)
    BY <2>1, <2>2, NoBlocks
  <2> HIDE DEF Holds
  <2> QED
    BY <1>1, <2>1, <2>3
<1>3. ASSUME NEW i \in 1 .. k - o, i - 1 \in T PROVE i \in T
  <2> DEFINE m == o + (i - 1)
             s == 2 ^ m
             U == UpperHalves(p, o, m)
             V == {<<p + s, m>>}
  <2>1. m \in Nat /\ o + i = m + 1 /\ m \in 0 .. k /\ m \in Orders /\ o <= m
    BY <1>1
  <2>2. Neat(U) /\ Cover(U) = p + 2 ^ o .. p + s - 1
    BY <1>3
  <2> HIDE DEF m
  <2>3. s \in Nat \ {0} /\ 2 ^ (m + 1) = 2 * s /\ 2 ^ o \in Nat \ {0}
    BY <2>1, PowersOfTwo
  <2>4. p % s = 0
    BY <1>1, <2>1, AlignedBelow
  <2>5. (p + s) % s = 0
    <3>1. (p - (p % s) + s) % s = 0
      BY <2>3, Multiples
    <3>2. p - (p % s) + s = p + s
      BY <2>3, <2>4
    <3> QED
      BY <3>1, <3>2
  <2>6. Neat(V) /\ Cover(V) = p + s .. p + s + s - 1
    <3>1. p + s \in Nat
      BY <2>3
    <3>2. Neat(V) /\ Cover(V) = Block(<<p + s, m>>)
      BY <2>1, <2>5, <3>1, OneBlock
    <3>3. Block(<<p + s, m>>) = p + s .. p + s + s - 1
      BY DEF Block
    <3> QED
      BY <3>2, <3>3
  <2>7. UpperHalves(p, o, m + 1) = U \cup V
    <3>1. o .. m + 1 - 1 = (o .. m - 1) \cup {m}
      BY <2>1
    <3> QED
      BY <3>1 DEF UpperHalves
  <2>8. s >= 2 ^ o
    <3>1. CASE m = o
      BY <2>3, <3>1
    <3>2. CASE m # o
      <4>1. m - 1 \in o .. m - 1
        BY <2>1, <3>2
      <4>2. <<p + 2 ^ (m - 1), m - 1>> \in U
        BY <4>1 DEF UpperHalves
      <4>3. p + 2 ^ (m - 1) \in Cover(U)
        BY <2>2, <4>2, NeatParts
      <4> DEFINE a == 2 ^ (m - 1)
                 b == 2 ^ o
      <4>4. a \in Nat
        BY <2>1, <3>2, PowersOfTwo
      <4> HIDE DEF a, b, s
      <4>5. p + a \in p + b .. p + s - 1 /\ s \in Nat /\ b \in Nat
        BY <2>2, <2>3, <4>3 DEF a, b, s
      <4>6. s >= b
        BY <4>4, <4>5
      <4> QED
        BY <4>6 DEF b
    <3> QED
      BY <3>1, <3>2
  <2> DEFINE q == 2 ^ o
  <2> HIDE DEF U, V, s, q
  <2>9. q \in Nat /\ s \in Nat /\ q <= s
    BY <2>3, <2>8 DEF q, s
  <2>10. Neat(U) /\ Neat(V) /\ Cover(V) \cap Cover(U) = {}
    <3>1. Cover(U) = p + q .. p + s - 1
      BY <2>2 DEF q, s
    <3>2. Cover(V) \cap Cover(U) = {}
      BY <2>6, <2>9, <3>1
    <3> QED
      BY <2>2, <2>6, <3>2
  <2>11. (p + q .. p + s - 1) \cup (p + s .. p + s + s - 1) = p + q .. p + 2 * s - 1
    BY <2>9
  <2>12. Neat(U \cup V) /\ Cover(U \cup V) = p + q .. p + 2 * s - 1
    <3>1. Cover(U) = p + q .. p + s - 1
      BY <2>2 DEF q, s
    <3>2. Neat(U \cup V) /\ Cover(U \cup V) = Cover(U) \cup Cover(V)
      BY <2>10, BlocksJoined
    <3> QED
      BY <2>6, <2>11, <3>1, <3>2
  <2>13. Holds(m + 1)
    BY <2>3, <2>7, <2>12 DEF s, q
  <2> HIDE DEF Holds
  <2> QED
    BY <2>1, <2>13
<1> HIDE DEF T, Holds
<1>4. k - o \in 0 .. k - o /\ o + (k - o) = k
  BY <1>1
<1>5. k - o \in T
  <2>1. 0 .. k - o \subseteq T
    BY <1>2, <1>3, <1>4, InductionUpTo
  <2> QED
    BY <1>4, <2>1
<1> QED
  BY <1>4, <1>5 DEF T, Holds

(* The block taken is part of a free one, and nothing else stops being free. *)
LEMMA BlockTaken ==
  ASSUME NEW F, Neat(F), NEW o \in Nat, NEW t \in Takes(F, o)
  PROVE  /\ o \in Orders /\ t[1] \in Nat /\ t[1] % 2 ^ o = 0
         /\ Block(<<t[1], o>>) \subseteq Cover(F)
         /\ Neat(t[2])
         /\ Cover(t[2]) = Cover(F) \ Block(<<t[1], o>>)
<1>1. PICK b \in F : b[2] >= o /\ t = <<b[1], (F \ {b}) \cup UpperHalves(b[1], o, b[2])>>
  BY DEF Takes, UpperHalves
<1> DEFINE p == b[1]
           k == b[2]
           U == UpperHalves(p, o, k)
           s == 2 ^ o
           e == 2 ^ k
<1>2. p \in Nat /\ k \in Orders /\ k \in Nat /\ b = <<p, k>> /\ p % 2 ^ k = 0
  BY NeatParts
<1>3. o <= k /\ o \in Orders
  BY <1>1, <1>2, ZonesAssumption DEF Orders
<1>4. t[1] = p /\ t[2] = (F \ {b}) \cup U
  BY <1>1
<1> HIDE DEF p, k
<1>5. p % 2 ^ o = 0
  BY <1>2, <1>3, AlignedBelow
<1>6. Neat(U) /\ Cover(U) = p + s .. p + e - 1
  BY <1>2, <1>3, UpperHalvesAre
<1>7. Cover({b}) = Block(b) /\ Block(b) = p .. p + e - 1 /\ Block(<<p, o>>) = p .. p + s - 1
  BY <1>2 DEF Cover, Block
<1> HIDE DEF U
<1>8. s \in Nat \ {0} /\ e \in Nat \ {0}
  BY <1>2, PowersOfTwo
<1>9. s <= e
  <2>1. CASE o = k
    BY <1>8, <2>1
  <2>2. CASE o # k
    <3>1. <<p + 2 ^ o, o>> \in UpperHalves(p, o, k)
      BY <1>2, <1>3, <2>2 DEF UpperHalves
    <3>2. p + s \in p + s .. p + e - 1
      BY <1>6, <3>1, NeatParts DEF U
    <3> HIDE DEF s, e
    <3> QED
      BY <1>2, <1>8, <3>2
  <2> QED
    BY <2>1, <2>2
<1> HIDE DEF s, e
<1>10. /\ p .. p + s - 1 \subseteq p .. p + e - 1
       /\ (p .. p + e - 1) \ (p .. p + s - 1) = p + s .. p + e - 1
  BY <1>2, <1>8, <1>9
<1>11. Block(b) \subseteq Cover(F)
  BY DEF Cover
<1>12. /\ Neat((F \ {b}) \cup U)
       /\ Cover((F \ {b}) \cup U) = (Cover(F) \ Cover({b})) \cup Cover(U)
  <2>1. Cover(U) \cap (Cover(F) \ Cover({b})) = {}
    BY <1>6, <1>7, <1>10
  <2> DEFINE B == {b}
  <2>2. B \subseteq F /\ Cover(U) \cap (Cover(F) \ Cover(B)) = {}
    BY <2>1
  <2> HIDE DEF B
  <2>3. Neat(U)
    BY <1>6
  <2>4. Neat((F \ B) \cup U) /\ Cover((F \ B) \cup U) = (Cover(F) \ Cover(B)) \cup Cover(U)
    BY <2>2, <2>3, Exchange
  <2> QED
    BY <2>4 DEF B
<1>13. (Cover(F) \ Block(b)) \cup (Block(b) \ Block(<<p, o>>)) = Cover(F) \ Block(<<p, o>>)
  BY <1>7, <1>10, <1>11
<1>14. Cover(t[2]) = Cover(F) \ Block(<<p, o>>)
  BY <1>4, <1>6, <1>7, <1>10, <1>12, <1>13
<1> QED
  BY <1>2, <1>3, <1>4, <1>5, <1>7, <1>10, <1>11, <1>12, <1>14

LEMMA TakesType ==
  ASSUME NEW F, F \subseteq Nat \X Orders, NEW o \in Orders, NEW t \in Takes(F, o)
  PROVE  t[1] \in Nat /\ t[2] \subseteq Nat \X Orders
<1>1. PICK b \in F : b[2] >= o /\ t = <<b[1], (F \ {b}) \cup UpperHalves(b[1], o, b[2])>>
  BY DEF Takes, UpperHalves
<1>2. b[1] \in Nat /\ b[2] \in Orders
  OBVIOUS
<1>3. ASSUME NEW j \in o .. b[2] - 1 PROVE <<b[1] + 2 ^ j, j>> \in Nat \X Orders
  <2>1. j \in Nat /\ j \in Orders
    BY <1>2, ZonesAssumption DEF Orders
  <2>2. 2 ^ j \in Nat
    BY <2>1, PowersOfTwo
  <2> QED
    BY <1>2, <2>1, <2>2
<1>4. UpperHalves(b[1], o, b[2]) \subseteq Nat \X Orders
  BY <1>3 DEF UpperHalves
<1> QED
  BY <1>1, <1>2, <1>4

(* sum[G] is the number of pages of the blocks of G, for any part G of F. *)
SumsUp(sum, F) ==
  /\ sum[{}] = 0
  /\ \A G \in SUBSET F : G # {} => \E b \in G : sum[G] = 2 ^ b[2] + sum[G \ {b}]

(* The recursion of FreePages has its values. *)
LEMMA FreePagesRecursion ==
  ASSUME NEW F, F \subseteq Nat \X Orders, IsFiniteSet(F)
  PROVE  \E sum : FreePages(F) = sum[F] /\ SumsUp(sum, F)
<1> DEFINE D == SUBSET F
           T == Nat
           Some(G) == CHOOSE b \in G : TRUE
           Goes(f) == f = [G \in D |->
             IF G = {} THEN 0 ELSE 2 ^ Some(G)[2] + f[G \ {Some(G)}]]
           sum == CHOOSE f : Goes(f)
           Stops == {{}}
           val == [G \in Stops |-> 0]
           next == [G \in D |-> G \ {Some(G)}]
           step == [x \in D \X T |-> IF x[1] = {} THEN 0 ELSE 2 ^ Some(x[1])[2] + x[2]]
           size == [G \in D |-> Cardinality(G)]
           n == Cardinality(F)
<1>1. FreePages(F) = sum[F]
  BY DEF FreePages, MapThenSumSet, MapThenFoldSet
<1>2. ASSUME NEW G \in D, G # {}
      PROVE  /\ Some(G) \in G /\ 2 ^ Some(G)[2] \in Nat
             /\ G \ {Some(G)} \in D
             /\ Cardinality(G \ {Some(G)}) < Cardinality(G)
  <2>1. IsFiniteSet(G)
    BY FS_Subset
  <2>2. Some(G) \in G
    BY <1>2
  <2> HIDE DEF Some
  <2>3. Some(G)[2] \in Nat
    BY <2>2, OrdersAre
  <2>4. 2 ^ Some(G)[2] \in Nat
    BY <2>3, PowersOfTwo
  <2>5. Cardinality(G \ {Some(G)}) = Cardinality(G) - 1 /\ Cardinality(G) \in Nat
    BY <2>1, <2>2, FS_RemoveElement, FS_CardinalityType
  <2>6. Cardinality(G \ {Some(G)}) < Cardinality(G)
    BY <2>5
  <2> QED
    BY <2>2, <2>4, <2>6
<1>3. n \in Nat /\ \A G \in D : Cardinality(G) \in 0 .. n
  <2>1. n \in Nat
    BY FS_CardinalityType
  <2>2. ASSUME NEW G \in D PROVE Cardinality(G) \in 0 .. n
    <3>1. IsFiniteSet(G) /\ Cardinality(G) <= n
      BY FS_Subset
    <3>2. Cardinality(G) \in Nat
      BY <3>1, FS_CardinalityType
    <3> QED
      BY <2>1, <3>1, <3>2
  <2> QED
    BY <2>1, <2>2
<1>4. \E f : Goes(f)
  <2> HIDE DEF Some
  <2>1. size \in [D -> 0 .. n]
    BY <1>3
  <2>2. val \in [D \cap Stops -> T]
    OBVIOUS
  <2>3. step \in [D \X T -> T]
    <3> SUFFICES ASSUME NEW G \in D, NEW m \in T
                 PROVE  (IF G = {} THEN 0 ELSE 2 ^ Some(G)[2] + m) \in Nat
      OBVIOUS
    <3> DEFINE w == 2 ^ Some(G)[2]
    <3>1. G # {} => w \in Nat
      BY <1>2
    <3> HIDE DEF w
    <3>2. (IF G = {} THEN 0 ELSE w + m) \in Nat
      BY <3>1
    <3> QED
      BY <3>2 DEF w
  <2>4. ASSUME NEW G \in D, G \notin Stops
        PROVE  next[G] \in D /\ size[next[G]] < size[G]
    <3>1. next[G] = G \ {Some(G)} /\ G \ {Some(G)} \in D
      BY <1>2, <2>4
    <3>2. size[G] = Cardinality(G) /\ size[G \ {Some(G)}] = Cardinality(G \ {Some(G)})
      BY <3>1
    <3> QED
      BY <1>2, <2>4, <3>1, <3>2
  <2>5. \A G \in D, m \in T : G # {} => step[<<G, m>>] = 2 ^ Some(G)[2] + m
    OBVIOUS
  <2>6. \A G \in D : G # {} => next[G] = G \ {Some(G)}
    OBVIOUS
  <2>7. val[{}] = 0
    OBVIOUS
  <2>8. n \in Nat
    BY <1>3
  <2> HIDE DEF D, T, Stops, val, next, step, size, n
  <2>9. PICK f \in [D -> T] : StepsFrom(f, D, Stops, val, next, step)
    BY <2>1, <2>2, <2>3, <2>4, <2>8, StepRecursion
  <2>10. ASSUME NEW G \in D
        PROVE  f[G] = IF G = {} THEN 0 ELSE 2 ^ Some(G)[2] + f[G \ {Some(G)}]
    <3>1. f[G] = IF G \in Stops THEN val[G] ELSE step[<<G, f[next[G]]>>]
      BY <2>9 DEF StepsFrom
    <3>2. CASE G = {}
      BY <2>7, <3>1, <3>2 DEF Stops
    <3>3. CASE G # {}
      <4>1. next[G] \in D
        BY <2>4, <3>3 DEF Stops
      <4>2. f[next[G]] \in T
        BY <4>1
      <4> QED
        BY <2>5, <2>6, <3>1, <3>3, <4>2 DEF Stops
    <3> QED
      BY <3>2, <3>3
  <2>11. Goes(f)
    <3>1. f = [G \in D |-> f[G]]
      OBVIOUS
    <3> QED
      BY <2>10, <3>1
  <2> HIDE DEF Goes
  <2> QED
    BY <2>11
<1> HIDE DEF Goes
<1>5. Goes(sum)
  BY <1>4
<1> HIDE DEF sum, Some
<1>6. \A G \in D : sum[G] = IF G = {} THEN 0 ELSE 2 ^ Some(G)[2] + sum[G \ {Some(G)}]
  BY <1>5 DEF Goes
<1>7. sum[{}] = 0
  BY <1>6
<1>8. \A G \in D : G # {} => \E b \in G : sum[G] = 2 ^ b[2] + sum[G \ {b}]
  BY <1>2, <1>6
<1>9. SumsUp(sum, F)
  BY <1>7, <1>8 DEF SumsUp
<1> QED
  BY <1>1, <1>9

(* FreePages counts the pages of the blocks. *)
LEMMA FreePagesCounts ==
  ASSUME NEW F, Neat(F), IsFiniteSet(F)
  PROVE  /\ IsFiniteSet(Cover(F)) /\ FreePages(F) = Cardinality(Cover(F))
         /\ FreePages(F) \in Nat
<1>1. F \subseteq Nat \X Orders
  BY DEF Neat
<1>2. PICK sum : FreePages(F) = sum[F] /\ SumsUp(sum, F)
  BY <1>1, FreePagesRecursion
<1> DEFINE D == SUBSET F
           Right == {G \in D : IsFiniteSet(Cover(G)) /\ sum[G] = Cardinality(Cover(G))}
           size == [G \in D |-> Cardinality(G)]
<1>3. \A G \in D : IsFiniteSet(G) /\ Cardinality(G) \in Nat
  BY FS_Subset, FS_CardinalityType
<1>4. size \in [D -> Nat]
  BY <1>3
<1>5. ASSUME NEW G \in D, \A R \in D : size[R] < size[G] => R \in Right
      PROVE  G \in Right
  <2>1. CASE G = {}
    <3>1. Cover(G) = {} /\ sum[G] = 0
      BY <1>2, <2>1, NoBlocks DEF SumsUp
    <3> QED
      BY <3>1, FS_EmptySet
  <2>2. CASE G # {}
    <3>1. PICK b \in G : sum[G] = 2 ^ b[2] + sum[G \ {b}]
      BY <1>2, <2>2 DEF SumsUp
    <3> DEFINE R == G \ {b}
               B == {b}
    <3>2. R \in D /\ size[R] < size[G]
      <4>1. Cardinality(R) = Cardinality(G) - 1 /\ Cardinality(G) \in Nat /\ R \in D
        BY <1>3, FS_RemoveElement
      <4> HIDE DEF R
      <4> QED
        BY <4>1
    <3>3. IsFiniteSet(Cover(R)) /\ sum[R] = Cardinality(Cover(R))
      BY <1>5, <3>2
    <3>4. b[1] \in Nat /\ b[2] \in Nat /\ b = <<b[1], b[2]>>
      <4>1. b \in Nat \X Orders
        BY <1>1
      <4>2. b[1] \in Nat /\ b[2] \in Orders /\ b = <<b[1], b[2]>>
        BY <4>1
      <4> QED
        BY <4>2, OrdersAre
    <3>5. IsFiniteSet(Block(b)) /\ Cardinality(Block(b)) = 2 ^ b[2]
      <4>1. IsFiniteSet(Block(<<b[1], b[2]>>)) /\ Cardinality(Block(<<b[1], b[2]>>)) = 2 ^ b[2]
        BY <3>4, BlockIs
      <4> QED
        BY <3>4, <4>1
    <3>6. Cover(R) \cap Block(b) = {} /\ Cover(G) = Cover(R) \cup Block(b)
      BY DEF Neat, Cover
    <3> DEFINE X == Cover(R)
               Y == Block(b)
    <3> HIDE DEF X, Y
    <3>7. IsFiniteSet(X \cup Y) /\ Cardinality(X \cup Y) = Cardinality(X) + Cardinality(Y)
      <4>1. X \cap Y = {} /\ IsFiniteSet(X) /\ IsFiniteSet(Y)
        BY <3>3, <3>5, <3>6 DEF X, Y
      <4>2. Cardinality(X \cap Y) = 0
        BY <4>1, FS_EmptySet
      <4>3. Cardinality(X) \in Nat /\ Cardinality(Y) \in Nat
        BY <4>1, FS_CardinalityType
      <4>4. IsFiniteSet(X) /\ IsFiniteSet(Y)
        BY <4>1
      <4>5. /\ IsFiniteSet(X \cup Y)
            /\ Cardinality(X \cup Y) = Cardinality(X) + Cardinality(Y) - Cardinality(X \cap Y)
        BY <4>4, FS_Union
      <4> QED
        BY <4>2, <4>3, <4>5
    <3>8. Cardinality(X) \in Nat /\ Cardinality(Y) \in Nat
      BY <3>3, <3>5, FS_CardinalityType DEF X, Y
    <3>9. sum[G] = Cardinality(X \cup Y) /\ Cover(G) = X \cup Y
      <4>1. sum[G] = Cardinality(Y) + Cardinality(X)
        BY <3>1, <3>3, <3>5 DEF X, Y
      <4> QED
        BY <3>6, <3>7, <3>8, <4>1 DEF X, Y
    <3> QED
      BY <3>7, <3>9
  <2> QED
    BY <2>1, <2>2
<1> HIDE DEF Right, size, D
<1>6. D \subseteq Right
  BY <1>4, <1>5, InductionOnSize
<1>7. IsFiniteSet(Cover(F)) /\ sum[F] = Cardinality(Cover(F))
  BY <1>6 DEF Right, D
<1> QED
  BY <1>2, <1>7, FS_CardinalityType

-----------------------------------------------------------------------------
(* A batch of pages is taken *)

(* What rmqueue_bulk does with one more page. *)
OneMore(r) ==
  IF r[2] = {} THEN {r} ELSE {<<r[1] \cup {t[1]}, t[2]>> : t \in Takes(r[2], 0)}

(* Single pages of F, and the blocks that are left when they are taken. *)
Splits(F, r) ==
  /\ r = <<r[1], r[2]>>
  /\ r[1] \subseteq Cover(F)
  /\ Neat(r[2]) /\ Cover(r[2]) = Cover(F) \ r[1]

LEMMA OneMoreSplits ==
  ASSUME NEW F, NEW r, Splits(F, r), NEW x \in OneMore(r)
  PROVE  Splits(F, x)
<1>1. CASE r[2] = {}
  BY <1>1 DEF OneMore
<1>2. CASE r[2] # {}
  <2>1. PICK t \in Takes(r[2], 0) : x = <<r[1] \cup {t[1]}, t[2]>>
    BY <1>2 DEF OneMore
  <2> DEFINE H == r[2]
             P == r[1]
             o == 0
  <2>2. Neat(H) /\ P \subseteq Cover(F) /\ Cover(H) = Cover(F) \ P
    BY DEF Splits
  <2>3. o \in Nat /\ t \in Takes(H, o)
    OBVIOUS
  <2> HIDE DEF H, P, o
  <2>4. /\ t[1] \in Nat
        /\ Block(<<t[1], o>>) \subseteq Cover(H)
        /\ Neat(t[2]) /\ Cover(t[2]) = Cover(H) \ Block(<<t[1], o>>)
    BY <2>2, <2>3, BlockTaken
  <2>5. Block(<<t[1], o>>) = {t[1]}
    BY <2>4, BlockIs DEF o
  <2>6. x[1] = P \cup {t[1]} /\ x[2] = t[2] /\ x = <<x[1], x[2]>>
    BY <2>1 DEF P
  <2>7. t[1] \in Cover(H) /\ Cover(t[2]) = Cover(H) \ {t[1]}
    BY <2>4, <2>5
  <2>8. P \cup {t[1]} \subseteq Cover(F) /\ Cover(t[2]) = Cover(F) \ (P \cup {t[1]})
    BY <2>2, <2>7
  <2> QED
    BY <2>4, <2>6, <2>8 DEF Splits
<1> QED
  BY <1>1, <1>2

LEMMA BulkTakesSplits ==
  ASSUME NEW F, Neat(F), NEW r \in BulkTakes(F)
  PROVE  Splits(F, r)
<1> DEFINE n == PcpBatch
           T == SUBSET ((SUBSET Nat) \X SUBSET (Nat \X Orders))
           base == {<<{}, F>>}
           Goes(f) == f = [i \in 0 .. n |->
             IF i = 0 THEN base
             ELSE UNION {IF x[2] = {} THEN {x}
                         ELSE {<<x[1] \cup {t[1]}, t[2]>> : t \in Takes(x[2], 0)} : x \in f[i - 1]}]
           bulk == CHOOSE f : Goes(f)
           More(R) == UNION {OneMore(x) : x \in R}
           step == [y \in (1 .. n) \X T |-> More(y[2])]
<1>1. BulkTakes(F) = bulk[n]
  BY DEF BulkTakes
<1>2. n \in Nat \ {0}
  BY ZonesAssumption
<1>3. base \in T
  BY DEF Neat
<1>4. ASSUME NEW R \in T PROVE More(R) \in T
  <2> SUFFICES ASSUME NEW x \in R, NEW y \in OneMore(x)
               PROVE  y \in (SUBSET Nat) \X SUBSET (Nat \X Orders)
    OBVIOUS
  <2>1. x \in (SUBSET Nat) \X SUBSET (Nat \X Orders)
    OBVIOUS
  <2>2. CASE x[2] = {}
    BY <2>1, <2>2 DEF OneMore
  <2>3. CASE x[2] # {}
    <3>1. PICK t \in Takes(x[2], 0) : y = <<x[1] \cup {t[1]}, t[2]>>
      BY <2>3 DEF OneMore
    <3> DEFINE H == x[2]
               o == 0
    <3>2. H \subseteq Nat \X Orders /\ x[1] \subseteq Nat /\ t \in Takes(H, o)
      BY <2>1
    <3>3. o \in Orders
      BY OrdersAre
    <3> HIDE DEF H, o
    <3>4. t[1] \in Nat /\ t[2] \subseteq Nat \X Orders
      BY <3>2, <3>3, TakesType
    <3> QED
      BY <3>1, <3>2, <3>4
  <2> QED
    BY <2>2, <2>3
<1>5. \E f : Goes(f)
  <2> HIDE DEF T, base, More
  <2>1. step \in [(1 .. n) \X T -> T]
    BY <1>4
  <2>2. \A i \in 1 .. n, R \in T : step[<<i, R>>] = More(R)
    OBVIOUS
  <2> HIDE DEF step
  <2>3. PICK f \in [0 .. n -> T] : Iterates(f, n, base, step)
    BY <1>2, <1>3, <2>1, Iteration
  <2>4. ASSUME NEW i \in 0 .. n
        PROVE  f[i] = IF i = 0 THEN base
                      ELSE UNION {IF x[2] = {} THEN {x}
                         ELSE {<<x[1] \cup {t[1]}, t[2]>> : t \in Takes(x[2], 0)} : x \in f[i - 1]}
    <3>1. CASE i = 0
      BY <2>3, <3>1 DEF Iterates
    <3>2. CASE i # 0
      <4>1. i \in 1 .. n /\ i - 1 \in 0 .. n
        BY <1>2, <3>2
      <4>2. f[i - 1] \in T
        BY <4>1
      <4>3. f[i] = More(f[i - 1])
        BY <2>2, <2>3, <4>1, <4>2 DEF Iterates
      <4> QED
        BY <3>2, <4>3 DEF More, OneMore
    <3> QED
      BY <3>1, <3>2
  <2>5. f = [i \in 0 .. n |-> f[i]]
    OBVIOUS
  <2>6. Goes(f)
    BY <2>4, <2>5
  <2> HIDE DEF Goes
  <2> QED
    BY <2>6
<1> HIDE DEF Goes
<1>6. Goes(bulk)
  BY <1>5
<1> HIDE DEF bulk
<1>7. /\ bulk[0] = base
      /\ \A i \in 1 .. n : bulk[i] = More(bulk[i - 1])
  <2>1. bulk[0] = base
    BY <1>2, <1>6 DEF Goes
  <2>2. ASSUME NEW i \in 1 .. n PROVE bulk[i] = More(bulk[i - 1])
    <3>1. i \in 0 .. n /\ i # 0
      BY <1>2
    <3> QED
      BY <1>6, <3>1 DEF Goes, OneMore
  <2> QED
    BY <2>1, <2>2
<1> DEFINE G == {i \in 0 .. n : \A x \in bulk[i] : Splits(F, x)}
<1>8. 0 \in G
  <2>1. Splits(F, <<{}, F>>)
    BY DEF Splits
  <2>2. bulk[0] = base /\ 0 \in 0 .. n
    BY <1>2, <1>7
  <2>3. \A x \in bulk[0] : Splits(F, x)
    BY <2>1, <2>2
  <2> QED
    BY <2>2, <2>3
<1>9. ASSUME NEW i \in 1 .. n, i - 1 \in G PROVE i \in G
  <2>1. \A x \in bulk[i - 1] : Splits(F, x)
    BY <1>9
  <2>2. ASSUME NEW x \in bulk[i] PROVE Splits(F, x)
    <3>1. PICK y \in bulk[i - 1] : x \in OneMore(y)
      BY <1>7
    <3> QED
      BY <2>1, <3>1, OneMoreSplits
  <2> QED
    BY <1>2, <2>2
<1> HIDE DEF G, n
<1>10. 0 .. n \subseteq G
  BY <1>2, <1>8, <1>9, InductionUpTo
<1>11. n \in G
  BY <1>2, <1>10
<1> QED
  BY <1>1, <1>11 DEF G

-----------------------------------------------------------------------------
(* Room *)

LEMMA PagesFinite ==
  /\ IsFiniteSet(Pages) /\ Pages \subseteq Nat /\ Cardinality(Pages) \in Nat
  /\ IsFiniteSet(Pages \X Orders)
  /\ \A z \in Zones : ZonePages[z] \subseteq Pages /\ IsFiniteSet(ZonePages[z])
<1> DEFINE Sets == {ZonePages[z] : z \in Zones}
<1>1. IsFiniteSet(Sets)
  <2> DEFINE f == [z \in Zones |-> ZonePages[z]]
  <2>1. f \in Surjection(Zones, Sets)
    BY DEF Surjection
  <2>2. IsFiniteSet(Zones)
    BY ZonesAssumption
  <2> HIDE DEF Sets, f
  <2> QED
    BY <2>1, <2>2, FS_Surjection
<1>2. \A S \in Sets : IsFiniteSet(S) /\ S \subseteq Nat
  BY ZonesAssumption
<1>3. Pages = UNION Sets
  BY DEF Pages
<1> HIDE DEF Sets
<1>4. IsFiniteSet(Pages) /\ Pages \subseteq Nat
  BY <1>1, <1>2, <1>3, FS_UNION
<1>5. IsFiniteSet(Orders)
  <2> DEFINE m == MaxOrder - 1
  <2>1. m \in Int /\ 0 \in Int /\ Orders = 0 .. m
    BY ZonesAssumption DEF Orders
  <2> HIDE DEF m
  <2> QED
    BY <2>1, FS_Interval
<1>6. IsFiniteSet(Pages \X Orders)
  BY <1>4, <1>5, FS_Product
<1>7. \A z \in Zones : ZonePages[z] \subseteq Pages /\ IsFiniteSet(ZonePages[z])
  BY ZonesAssumption DEF Pages
<1> QED
  BY <1>4, <1>6, <1>7, FS_CardinalityType

(* The pages of some blocks of F, and of others of F. *)
LEMMA FreePagesOfParts ==
  ASSUME NEW F, Neat(F), IsFiniteSet(F), NEW L, L \subseteq F, NEW S, S \subseteq F, L \cap S = {}
  PROVE  /\ FreePages(F) \in Nat /\ FreePages(L) \in Nat /\ FreePages(S) \in Nat
         /\ FreePages(F) >= FreePages(L) + FreePages(S)
<1> DEFINE A == Cover(L)
           B == Cover(S)
           C == Cover(F)
<1>1. IsFiniteSet(L) /\ IsFiniteSet(S)
  BY FS_Subset
<1>2. Neat(L) /\ Neat(S) /\ A \subseteq C /\ B \subseteq Cover(F \ L) /\ Cover(F \ L) = C \ A
  <2>1. Neat(L) /\ Neat(S) /\ A \subseteq C /\ Cover(F \ L) = C \ A
    BY FewerBlocks
  <2>2. S \subseteq F \ L
    OBVIOUS
  <2>3. B \subseteq Cover(F \ L)
    BY <2>2 DEF Cover
  <2> QED
    BY <2>1, <2>3
<1>3. /\ IsFiniteSet(A) /\ IsFiniteSet(B) /\ IsFiniteSet(C)
      /\ FreePages(L) = Cardinality(A) /\ FreePages(S) = Cardinality(B)
      /\ FreePages(F) = Cardinality(C)
  BY <1>1, <1>2, FreePagesCounts
<1> HIDE DEF A, B, C
<1>4. A \cap B = {} /\ A \cup B \subseteq C
  BY <1>2
<1>5. Cardinality(A) \in Nat /\ Cardinality(B) \in Nat /\ Cardinality(C) \in Nat
  BY <1>3, FS_CardinalityType
<1>6. Cardinality(A \cup B) = Cardinality(A) + Cardinality(B) - Cardinality(A \cap B)
  BY <1>3, FS_Union
<1>7. Cardinality(A \cap B) = 0
  BY <1>4, FS_EmptySet
<1>8. Cardinality(A \cup B) <= Cardinality(C)
  BY <1>3, <1>4, FS_Subset
<1> QED
  BY <1>3, <1>5, <1>6, <1>7, <1>8

LEMMA NoFreePages == FreePages({}) = 0
<1> DEFINE E == {}
<1>1. Neat(E) /\ IsFiniteSet(E) /\ Cover(E) = {} /\ Cardinality(Cover(E)) = 0
  BY NoBlocks, FS_EmptySet
<1> HIDE DEF E
<1>2. FreePages(E) = Cardinality(Cover(E))
  BY <1>1, FreePagesCounts
<1> QED
  BY <1>1, <1>2 DEF E

(* What a zone's free blocks are: neat, and inside the zone. *)
FreeInZone(z) ==
  /\ Neat(free[z]) /\ free[z] \subseteq Pages \X Orders
  /\ Cover(free[z]) \subseteq ZonePages[z]

(* A zone with room for an order passes the watermark test and has a block of
   that order to give.                                                      *)
LEMMA RoomIsFound ==
  ASSUME NEW z \in Zones, FreeInZone(z), NEW o \in 0 .. MaxOrder, HasRoom(z, o)
  PROVE  /\ zone_watermark_ok(z, o) /\ Takes(free[z], o) # {}
         /\ o < MaxOrder /\ ZonePages[z] # {}
<1> DEFINE F == free[z]
           L == {b \in F : b[2] >= o}
           S(j) == {b \in F : b[2] < j}
           w == 2 ^ o
<1>1. Neat(F) /\ IsFiniteSet(F) /\ F \subseteq Pages \X Orders /\ Cover(F) \subseteq ZonePages[z]
  BY PagesFinite, FS_Subset DEF FreeInZone
<1>2. o \in Nat /\ w \in Nat
  BY PowersOfTwo, ZonesAssumption
<1>3. FreePages(L) > w + 1
  BY DEF HasRoom
<1> HIDE DEF F, w
<1>4. L \subseteq F /\ \A j : S(j) \subseteq F
  OBVIOUS
<1>5. \A j \in 1 .. o : L \cap S(j) = {}
  <2>1. \A b \in F : b[2] \in Nat
    BY <1>1, OrdersAre
  <2> QED
    BY <1>2, <2>1
<1>6. Smaller(z, 1) = Smaller(z, 1) /\ \A j : Smaller(z, j) = FreePages(S(j))
  BY DEF Smaller, F
<1> HIDE DEF S, L
<1>7. \A j \in 1 .. o : /\ FreePages(S(j)) \in Nat
                        /\ FreePages(F) >= FreePages(L) + FreePages(S(j))
  <2> SUFFICES ASSUME NEW j \in 1 .. o
               PROVE  /\ FreePages(S(j)) \in Nat
                      /\ FreePages(F) >= FreePages(L) + FreePages(S(j))
    OBVIOUS
  <2> DEFINE U == S(j)
  <2>1. U \subseteq F /\ L \cap U = {}
    BY <1>4, <1>5
  <2> HIDE DEF U
  <2>2. FreePages(U) \in Nat /\ FreePages(F) >= FreePages(L) + FreePages(U)
    BY <1>1, <1>4, <2>1, FreePagesOfParts
  <2> QED
    BY <2>2 DEF U
<1>8. FreePages(F) \in Nat /\ FreePages(L) \in Nat /\ FreePages(F) >= FreePages(L)
  <2> DEFINE U == {}
  <2>1. U \subseteq F /\ L \cap U = {}
    OBVIOUS
  <2> HIDE DEF U
  <2>2. /\ FreePages(F) \in Nat /\ FreePages(L) \in Nat /\ FreePages(U) \in Nat
        /\ FreePages(F) >= FreePages(L) + FreePages(U)
    BY <1>1, <1>4, <2>1, FreePagesOfParts
  <2> QED
    BY <2>2
<1>9. FreePages(F) <= Cardinality(Pages)
  <2>1. Cover(F) \subseteq Pages
    BY <1>1, PagesFinite
  <2>2. Cardinality(Cover(F)) <= Cardinality(Pages)
    BY <2>1, PagesFinite, FS_Subset
  <2>3. FreePages(F) = Cardinality(Cover(F))
    BY <1>1, FreePagesCounts
  <2> QED
    BY <2>2, <2>3
<1>10. zone_watermark_ok(z, o)
  <2> DEFINE m == FreePages(F) - (w + 1)
             W == Word
  <2>1. m \in Nat \ {0}
    BY <1>2, <1>3, <1>8
  <2>2. m < W /\ W \in Nat
    <3> DEFINE c == Cardinality(Pages)
               d == 2 ^ MaxOrder
               f == FreePages(F)
    <3>1. W \in Nat /\ W > c + d + 1
      BY ZonesAssumption
    <3>2. c \in Nat /\ d \in Nat /\ f <= c /\ f \in Nat
      BY <1>8, <1>9, PagesFinite, PowersOfTwo, ZonesAssumption
    <3> HIDE DEF c, d, f, W
    <3>3. f - (w + 1) < W
      BY <1>2, <3>1, <3>2
    <3> QED
      BY <3>1, <3>3 DEF f
  <2>3. m % W = m
    <3> HIDE DEF m, W
    <3> QED
      BY <2>1, <2>2
  <2>4. ASSUME NEW j \in 1 .. o PROVE m - Smaller(z, j) > 0
    <3> DEFINE a == FreePages(F)
               b == FreePages(L)
               c == FreePages(S(j))
    <3>1. a \in Nat /\ b \in Nat /\ c \in Nat /\ a >= b + c /\ b > w + 1 /\ Smaller(z, j) = c
      BY <1>3, <1>6, <1>7, <1>8
    <3> HIDE DEF a, b, c
    <3>2. a - (w + 1) - c > 0
      BY <1>2, <3>1
    <3> QED
      BY <3>1, <3>2 DEF a
  <2>5. m % W > 0
    BY <2>1, <2>3
  <2> QED
    BY <2>4, <2>5 DEF zone_watermark_ok, F, w
<1>11. L # {}
  <2>1. L = {} => FreePages(L) = 0
    BY NoFreePages
  <2> QED
    BY <1>2, <1>3, <2>1
<1>12. PICK b \in F : b[2] >= o
  BY <1>11 DEF L
<1>13. Takes(free[z], o) # {}
  <2> DEFINE c == (F \ {b}) \cup {<<b[1] + 2 ^ j, j>> : j \in o .. b[2] - 1}
  <2>1. b \in {d \in F : d[2] >= o}
    BY <1>12
  <2>2. <<b[1], c>> \in Takes(F, o)
    BY <2>1 DEF Takes
  <2> HIDE DEF c
  <2> QED
    BY <2>2 DEF F
<1>14. b = <<b[1], b[2]>> /\ b[1] \in Nat /\ b[2] \in Nat /\ b[2] < MaxOrder
  <2>1. b \in Pages \X Orders
    BY <1>1, <1>12
  <2>2. b = <<b[1], b[2]>> /\ b[1] \in Pages /\ b[2] \in Orders
    BY <2>1
  <2> QED
    BY <2>2, ZonesAssumption, PagesFinite DEF Orders
<1>15. o < MaxOrder
  BY <1>2, <1>12, <1>14, ZonesAssumption
<1>16. ZonePages[z] # {}
  <2>1. b[1] \in Block(<<b[1], b[2]>>)
    BY <1>14, BlockIs
  <2>2. b[1] \in Cover(F)
    BY <1>12, <1>14, <2>1 DEF Cover
  <2> QED
    BY <1>1, <2>2
<1> QED
  BY <1>10, <1>13, <1>15, <1>16

-----------------------------------------------------------------------------
(* A zone, as its free blocks F, the blocks T taken from it and the pages P on
   its lists                                                                *)

Tiled(F, T, P, Z) ==
  /\ Neat(F) /\ Neat(T) /\ P \subseteq Nat
  /\ Cover(F) \cap Cover(T) = {}
  /\ P \cap Cover(F) = {} /\ P \cap Cover(T) = {}
  /\ Cover(F) \cup Cover(T) \cup P = Z

LEMMA CoverNumbers ==
  ASSUME NEW F, Neat(F)
  PROVE  Cover(F) \subseteq Nat
<1>1. ASSUME NEW b \in F PROVE Block(b) \subseteq Nat
  <2>1. b[1] \in Nat /\ b[2] \in Nat /\ b = <<b[1], b[2]>>
    BY NeatParts
  <2>2. Block(<<b[1], b[2]>>) \subseteq Nat
    BY <2>1, BlockIs
  <2> QED
    BY <2>1, <2>2
<1> QED
  BY <1>1 DEF Cover

LEMMA SinglePage ==
  ASSUME NEW p \in Nat
  PROVE  /\ Neat({<<p, 0>>}) /\ Cover({<<p, 0>>}) = {p}
         /\ Block(<<p, 0>>) = {p}
<1> DEFINE o == 0
<1>1. o \in Orders /\ o \in Nat /\ p % 2 ^ o = 0 /\ Block(<<p, o>>) = {p}
  <2>1. 2 ^ 0 = 1 /\ p % 1 = 0
    OBVIOUS
  <2> QED
    BY <2>1, BlockIs, OrdersAre
<1> HIDE DEF o
<1>2. Neat({<<p, o>>}) /\ Cover({<<p, o>>}) = Block(<<p, o>>)
  BY <1>1, OneBlock
<1> QED
  BY <1>1, <1>2 DEF o

(* One block less, or more. *)
LEMMA BlockLess ==
  ASSUME NEW T, Neat(T), NEW b \in T
  PROVE  /\ Neat(T \ {b}) /\ Cover(T \ {b}) = Cover(T) \ Block(b)
         /\ Block(b) \subseteq Cover(T)
<1> DEFINE B == {b}
<1>1. B \subseteq T /\ Cover(B) = Block(b)
  BY DEF Cover
<1> HIDE DEF B
<1>2. Cover(T \ B) = Cover(T) \ Cover(B) /\ Cover(B) \subseteq Cover(T)
  BY <1>1, FewerBlocks
<1>3. T \ B \subseteq T
  OBVIOUS
<1>4. Neat(T \ B)
  BY <1>3, FewerBlocks
<1> QED
  BY <1>1, <1>2, <1>4 DEF B

LEMMA BlockMore ==
  ASSUME NEW T, Neat(T), NEW p \in Nat, NEW o \in Orders, p % 2 ^ o = 0,
         Block(<<p, o>>) \cap Cover(T) = {}
  PROVE  /\ Neat(T \cup {<<p, o>>}) /\ Cover(T \cup {<<p, o>>}) = Cover(T) \cup Block(<<p, o>>)
         /\ <<p, o>> \notin T
<1> DEFINE B == {<<p, o>>}
<1>1. Neat(B) /\ Cover(B) = Block(<<p, o>>)
  BY OneBlock
<1> HIDE DEF B
<1>2. Cover(B) \cap Cover(T) = {}
  BY <1>1
<1>3. Neat(T \cup B) /\ Cover(T \cup B) = Cover(T) \cup Cover(B)
  BY <1>1, <1>2, BlocksJoined
<1>4. <<p, o>> \notin T
  <2>1. o \in Nat
    BY OrdersAre
  <2>2. p \in Block(<<p, o>>)
    BY <2>1, BlockIs
  <2> QED
    BY <2>2 DEF Cover
<1> QED
  BY <1>1, <1>3, <1>4 DEF B

LEMMA TiledFirst ==
  ASSUME NEW Z, Z \subseteq Nat, IsFiniteSet(Z)
  PROVE  Tiled(GiveBackAll({}, Z), {}, {}, Z)
<1> DEFINE F == {}
<1>1. Neat(F) /\ Cover(F) = {}
  BY NoBlocks
<1> HIDE DEF F
<1>2. Neat(GiveBackAll(F, Z)) /\ Cover(GiveBackAll(F, Z)) = Cover(F) \cup Z
  BY <1>1, AllGivenBack
<1>3. Neat(GiveBackAll({}, Z)) /\ Cover(GiveBackAll({}, Z)) = Z
  BY <1>1, <1>2 DEF F
<1> QED
  BY <1>3, NoBlocks DEF Tiled

LEMMA TiledBlockTaken ==
  ASSUME NEW F, NEW T, NEW P, NEW Z, Tiled(F, T, P, Z), NEW o \in Nat, NEW t \in Takes(F, o)
  PROVE  /\ Tiled(t[2], T \cup {<<t[1], o>>}, P, Z)
         /\ <<t[1], o>> \notin T /\ Block(<<t[1], o>>) \subseteq Z /\ t[1] \in Z /\ o \in Orders
<1> DEFINE p == t[1]
           B == Block(<<p, o>>)
<1>1. Neat(F) /\ Neat(T)
  BY DEF Tiled
<1>2. /\ o \in Orders /\ p \in Nat /\ p % 2 ^ o = 0
      /\ B \subseteq Cover(F)
      /\ Neat(t[2]) /\ Cover(t[2]) = Cover(F) \ B
  BY <1>1, BlockTaken
<1>3. p \in B
  BY <1>2, BlockIs
<1> HIDE DEF p
<1>4. B \cap Cover(T) = {}
  BY <1>2 DEF Tiled
<1>5. /\ Neat(T \cup {<<p, o>>}) /\ Cover(T \cup {<<p, o>>}) = Cover(T) \cup B
      /\ <<p, o>> \notin T
  BY <1>1, <1>2, <1>4, BlockMore
<1> HIDE DEF B
<1>6. B \subseteq Z /\ p \in Z
  BY <1>2, <1>3 DEF Tiled
<1> DEFINE U == T \cup {<<p, o>>}
           H == t[2]
<1>7. Neat(U) /\ Cover(U) = Cover(T) \cup B /\ Neat(H) /\ Cover(H) = Cover(F) \ B
  BY <1>2, <1>5
<1> HIDE DEF U, H
<1>8. Tiled(H, U, P, Z)
  BY <1>2, <1>4, <1>7 DEF Tiled
<1> QED
  BY <1>2, <1>5, <1>6, <1>8 DEF U, H, B, p

LEMMA TiledPageTaken ==
  ASSUME NEW F, NEW T, NEW P, NEW Z, Tiled(F, T, P, Z), NEW r, Splits(F, r), NEW p \in P \cup r[1]
  PROVE  /\ Tiled(r[2], T \cup {<<p, 0>>}, (P \cup r[1]) \ {p}, Z)
         /\ <<p, 0>> \notin T /\ Block(<<p, 0>>) \subseteq Z /\ p \in Z
<1> DEFINE R == r[1]
           H == r[2]
           o == 0
           B == Block(<<p, o>>)
           U == T \cup {<<p, o>>}
<1>1. Neat(F) /\ Neat(T) /\ P \subseteq Nat /\ R \subseteq Cover(F) /\ Neat(H) /\ Cover(H) = Cover(F) \ R
  BY DEF Tiled, Splits
<1>2. Cover(F) \subseteq Nat /\ p \in P \cup R
  BY <1>1, CoverNumbers
<1>3. p \in Nat /\ o \in Nat
  BY <1>1, <1>2
<1>4. B = {p} /\ o \in Orders /\ p % 2 ^ o = 0
  <2>1. 2 ^ 0 = 1 /\ p % 1 = 0
    BY <1>3
  <2> QED
    BY <1>3, <2>1, SinglePage, OrdersAre
<1> HIDE DEF o, B, R, H
<1>5. p \notin Cover(T) /\ p \in Z
  BY <1>1, <1>2 DEF Tiled
<1>6. B \cap Cover(T) = {}
  BY <1>4, <1>5
<1>7. Neat(U) /\ Cover(U) = Cover(T) \cup B /\ <<p, o>> \notin T
  BY <1>1, <1>3, <1>4, <1>6, BlockMore DEF B
<1> HIDE DEF U
<1>8. Tiled(H, U, (P \cup R) \ {p}, Z)
  <2>1. (P \cup R) \ {p} \subseteq Nat
    BY <1>1, <1>2
  <2>2. Cover(H) \cap Cover(U) = {}
    BY <1>1, <1>2, <1>4, <1>7 DEF Tiled
  <2>3. ((P \cup R) \ {p}) \cap Cover(H) = {} /\ ((P \cup R) \ {p}) \cap Cover(U) = {}
    BY <1>1, <1>4, <1>7 DEF Tiled
  <2>4. Cover(H) \cup Cover(U) \cup ((P \cup R) \ {p}) = Z
    BY <1>1, <1>2, <1>4, <1>7 DEF Tiled
  <2> QED
    BY <1>1, <1>7, <2>1, <2>2, <2>3, <2>4 DEF Tiled
<1> QED
  BY <1>4, <1>5, <1>7, <1>8 DEF U, H, R, o, B

LEMMA TiledBlockGivenBack ==
  ASSUME NEW F, NEW T, NEW P, NEW Z, Tiled(F, T, P, Z), NEW b \in T
  PROVE  Tiled(GiveBack(F, b[1], b[2]), T \ {b}, P, Z)
<1> DEFINE G == GiveBack(F, b[1], b[2])
           U == T \ {b}
           B == Block(b)
<1>1. Neat(F) /\ Neat(T)
  BY DEF Tiled
<1>2. b[1] \in Nat /\ b[2] \in Orders /\ b = <<b[1], b[2]>> /\ b[1] % 2 ^ b[2] = 0
  BY <1>1, NeatParts
<1>3. Neat(U) /\ Cover(U) = Cover(T) \ B /\ B \subseteq Cover(T)
  BY <1>1, BlockLess
<1> DEFINE p == b[1]
           o == b[2]
<1>4. B = Block(<<p, o>>)
  BY <1>2
<1>5. p \in Nat /\ o \in Orders /\ p % 2 ^ o = 0
  BY <1>2
<1> HIDE DEF U, B, p, o
<1>6. Block(<<p, o>>) \cap Cover(F) = {}
  BY <1>3, <1>4 DEF Tiled
<1>7. Neat(GiveBack(F, p, o)) /\ Cover(GiveBack(F, p, o)) = Cover(F) \cup Block(<<p, o>>)
  BY <1>1, <1>5, <1>6, GivenBack
<1>8. Neat(G) /\ Cover(G) = Cover(F) \cup B
  BY <1>4, <1>7 DEF p, o
<1> HIDE DEF G
<1>9. Tiled(G, U, P, Z)
  BY <1>3, <1>8 DEF Tiled
<1> QED
  BY <1>9 DEF G, U

LEMMA TiledPageGivenBack ==
  ASSUME NEW F, NEW T, NEW P, NEW Z, Tiled(F, T, P, Z), IsFiniteSet(Z),
         NEW p \in Nat, <<p, 0>> \in T, NEW back \in SUBSET (P \cup {p})
  PROVE  Tiled(GiveBackAll(F, back), T \ {<<p, 0>>}, (P \cup {p}) \ back, Z)
<1> DEFINE b == <<p, 0>>
           U == T \ {b}
           G == GiveBackAll(F, back)
           Q == (P \cup {p}) \ back
<1>1. Block(b) = {p}
  BY SinglePage
<1>2. Neat(F) /\ Neat(T) /\ b \in T
  BY DEF Tiled
<1> HIDE DEF b
<1>3. Neat(U) /\ Cover(U) = Cover(T) \ Block(b) /\ Block(b) \subseteq Cover(T)
  BY <1>2, BlockLess
<1>4. p \in Cover(T) /\ Cover(U) = Cover(T) \ {p}
  BY <1>1, <1>3
<1>5. back \subseteq Nat /\ back \subseteq Z /\ back \cap Cover(F) = {}
  BY <1>4 DEF Tiled
<1>6. IsFiniteSet(back)
  BY <1>5, FS_Subset
<1>7. Neat(G) /\ Cover(G) = Cover(F) \cup back
  BY <1>2, <1>5, <1>6, AllGivenBack
<1> HIDE DEF G, U
<1>8. Q \subseteq Nat /\ Q \cup back = P \cup {p} /\ Q \cap back = {}
  BY DEF Tiled
<1> HIDE DEF Q
<1>9. Tiled(G, U, Q, Z)
  <2>1. Cover(G) \cap Cover(U) = {}
    BY <1>4, <1>7, <1>8 DEF Tiled
  <2>2. Q \cap Cover(G) = {} /\ Q \cap Cover(U) = {}
    BY <1>4, <1>7, <1>8 DEF Tiled
  <2>3. Cover(G) \cup Cover(U) \cup Q = Z
    BY <1>4, <1>7, <1>8 DEF Tiled
  <2> QED
    BY <1>3, <1>7, <1>8, <2>1, <2>2, <2>3 DEF Tiled
<1> QED
  BY <1>9 DEF G, U, Q, b

(* What the parts of a tiled zone are. *)
LEMMA TiledParts ==
  ASSUME NEW F, NEW T, NEW P, NEW Z, Tiled(F, T, P, Z)
  PROVE  /\ F \subseteq Z \X Orders /\ T \subseteq Z \X Orders /\ P \subseteq Z
         /\ Cover(F) \subseteq Z /\ Neat(F)
         /\ \A b \in T : Block(b) \subseteq Z
<1>1. ASSUME NEW H, Neat(H), Cover(H) \subseteq Z, NEW b \in H
      PROVE  b \in Z \X Orders /\ Block(b) \subseteq Z
  <2>1. b[1] \in Block(b) /\ Block(b) \subseteq Cover(H) /\ b[2] \in Orders /\ b = <<b[1], b[2]>>
    BY <1>1, NeatParts
  <2>2. b[1] \in Z /\ Block(b) \subseteq Z
    BY <1>1, <2>1
  <2> QED
    BY <2>1, <2>2
<1>2. Neat(F) /\ Neat(T) /\ Cover(F) \subseteq Z /\ Cover(T) \subseteq Z /\ P \subseteq Z
  BY DEF Tiled
<1> QED
  BY <1>1, <1>2

(* What ZonesTiled says of a tiled zone. *)
LEMMA TiledCounts ==
  ASSUME NEW F, NEW T, NEW P, NEW Z, Tiled(F, T, P, Z), Z \subseteq Nat, IsFiniteSet(Z)
  PROVE  /\ UNION {Block(b) : b \in F \cup T \cup {<<p, 0>> : p \in P}} = Z
         /\ FreePages(F) + FreePages(T) + Cardinality(P) = Cardinality(Z)
<1> DEFINE A == Cover(F)
           B == Cover(T)
           L == {<<p, 0>> : p \in P}
<1>1. Neat(F) /\ Neat(T) /\ F \subseteq Z \X Orders /\ T \subseteq Z \X Orders
  <2>1. Neat(F) /\ Neat(T)
    BY DEF Tiled
  <2>2. F \subseteq Z \X Orders /\ T \subseteq Z \X Orders
    BY TiledParts
  <2> QED
    BY <2>1, <2>2
<1>2. IsFiniteSet(F) /\ IsFiniteSet(T)
  <2>1. IsFiniteSet(Orders)
    <3> DEFINE m == MaxOrder - 1
    <3>1. m \in Int /\ 0 \in Int /\ Orders = 0 .. m
      BY ZonesAssumption DEF Orders
    <3> HIDE DEF m
    <3> QED
      BY <3>1, FS_Interval
  <2>2. IsFiniteSet(Z \X Orders)
    BY <2>1, FS_Product
  <2> QED
    BY <1>1, <2>2, FS_Subset
<1>3. /\ IsFiniteSet(A) /\ FreePages(F) = Cardinality(A)
      /\ IsFiniteSet(B) /\ FreePages(T) = Cardinality(B)
  BY <1>1, <1>2, FreePagesCounts
<1>4. UNION {Block(b) : b \in L} = P
  <2>1. \A p \in P : Block(<<p, 0>>) = {p}
    BY SinglePage DEF Tiled
  <2>2. ASSUME NEW b \in L, NEW q \in Block(b) PROVE q \in P
    <3>1. PICK p \in P : b = <<p, 0>>
      OBVIOUS
    <3> QED
      BY <2>1, <2>2, <3>1
  <2>3. ASSUME NEW q \in P PROVE <<q, 0>> \in L /\ q \in Block(<<q, 0>>)
    BY <2>1
  <2> HIDE DEF L
  <2> QED
    BY <2>2, <2>3
<1> HIDE DEF L
<1>5. UNION {Block(b) : b \in F \cup T \cup L} = A \cup B \cup P
  <2>1. A = UNION {Block(b) : b \in F} /\ B = UNION {Block(b) : b \in T}
    BY DEF Cover
  <2> HIDE DEF A, B
  <2> QED
    BY <1>4, <2>1
<1> HIDE DEF A, B
<1>6. A \cup B \cup P = Z /\ A \cap B = {} /\ P \cap (A \cup B) = {} /\ P \subseteq Z
  BY DEF Tiled, A, B
<1> DEFINE C == A \cup B
<1>7. IsFiniteSet(C) /\ Cardinality(C) = Cardinality(A) + Cardinality(B) - Cardinality(A \cap B)
  BY <1>3, FS_Union
<1>8. Cardinality(A \cap B) = 0
  BY <1>6, FS_EmptySet
<1>9. C \cup P = Z /\ C \cap P = {}
  BY <1>6
<1>10. IsFiniteSet(P)
  BY <1>6, FS_Subset
<1> HIDE DEF C
<1>11. Cardinality(C \cup P) = Cardinality(C) + Cardinality(P) - Cardinality(C \cap P)
  BY <1>7, <1>10, FS_Union
<1>12. Cardinality(C \cap P) = 0
  BY <1>9, FS_EmptySet
<1>13. Cardinality(A) \in Nat /\ Cardinality(B) \in Nat /\ Cardinality(P) \in Nat
  BY <1>3, <1>10, FS_CardinalityType
<1>14. Cardinality(A) + Cardinality(B) + Cardinality(P) = Cardinality(Z)
  <2>1. Cardinality(C \cup P) = Cardinality(Z)
    BY <1>9
  <2> DEFINE a == Cardinality(A)
             b == Cardinality(B)
             c == Cardinality(P)
  <2>2. a \in Nat /\ b \in Nat /\ c \in Nat
    BY <1>13
  <2>3. Cardinality(C) = a + b - 0
    BY <1>7, <1>8
  <2>4. Cardinality(Z) = Cardinality(C) + c - 0
    BY <1>11, <1>12, <2>1
  <2> HIDE DEF a, b, c
  <2>5. a + b + c = Cardinality(Z)
    BY <2>2, <2>3, <2>4
  <2> QED
    BY <2>5 DEF a, b, c
<1> QED
  BY <1>3, <1>5, <1>6, <1>14 DEF L

-----------------------------------------------------------------------------
(* The inductive invariant *)

(* The blocks that callers hold of a zone. *)
TakenFrom(z) == {b \in out : b[1] \in ZonePages[z]}

AllTiled == \A z \in Zones : Tiled(free[z], TakenFrom(z), pcp[z], ZonePages[z])

(* A walk has found no room in the zones it has passed, and none at all when
   it has ended.                                                            *)
NoRoomPassed ==
  /\ Walking => \A y \in Zones :
       y <= req.high /\ (zone = NoZone \/ y > zone) => ~HasRoom(y, req.order)
  /\ Walking /\ zone # NoZone => zone <= req.high
  /\ pc \in {"rebalance", "retry"} => \A y \in Zones : y <= req.high => ~HasRoom(y, req.order)

ZonesInv == TypeOK /\ AllTiled /\ NoRoomPassed

LEMMA ZoneChanged ==
  ASSUME TypeOK, AllTiled, NEW z \in Zones, NEW F, NEW T, NEW P,
         Tiled(F, T, P, ZonePages[z]),
         free' = [free EXCEPT ![z] = F], pcp' = [pcp EXCEPT ![z] = P],
         TakenFrom(z)' = T, \A y \in Zones : y # z => TakenFrom(y)' = TakenFrom(y)
  PROVE  /\ AllTiled'
         /\ free' \in [Zones -> SUBSET (Pages \X Orders)] /\ pcp' \in [Zones -> SUBSET Pages]
<1>1. /\ free \in [Zones -> SUBSET (Pages \X Orders)] /\ pcp \in [Zones -> SUBSET Pages]
      /\ free'[z] = F /\ pcp'[z] = P
      /\ \A y \in Zones : y # z => free'[y] = free[y] /\ pcp'[y] = pcp[y]
  BY DEF TypeOK
<1>2. F \subseteq Pages \X Orders /\ P \subseteq Pages
  <2>1. ZonePages[z] \subseteq Pages
    BY PagesFinite
  <2>2. F \subseteq ZonePages[z] \X Orders /\ P \subseteq ZonePages[z]
    BY TiledParts
  <2> QED
    BY <2>1, <2>2
<1>3. ASSUME NEW y \in Zones
      PROVE  Tiled(free'[y], TakenFrom(y)', pcp'[y], ZonePages[y])
  <2>1. CASE y = z
    BY <1>1, <2>1
  <2>2. CASE y # z
    BY <1>1, <2>2 DEF AllTiled
  <2> QED
    BY <2>1, <2>2
<1> QED
  BY <1>1, <1>2, <1>3 DEF AllTiled

LEMMA OneZoneOnly ==
  ASSUME NEW z \in Zones, NEW y \in Zones, y # z, NEW p \in ZonePages[z]
  PROVE  p \notin ZonePages[y]
BY ZonesAssumption

LEMMA BlockHandedOut ==
  ASSUME TypeOK, AllTiled, NEW z \in Zones, NEW F, NEW P, NEW p \in ZonePages[z], NEW o \in Orders,
         out' = out \cup {<<p, o>>},
         Tiled(F, TakenFrom(z) \cup {<<p, o>>}, P, ZonePages[z]),
         free' = [free EXCEPT ![z] = F], pcp' = [pcp EXCEPT ![z] = P]
  PROVE  /\ AllTiled'
         /\ free' \in [Zones -> SUBSET (Pages \X Orders)] /\ pcp' \in [Zones -> SUBSET Pages]
         /\ out' \subseteq Pages \X Orders
<1>1. TakenFrom(z)' = TakenFrom(z) \cup {<<p, o>>}
  BY DEF TakenFrom
<1>2. ASSUME NEW y \in Zones, y # z PROVE TakenFrom(y)' = TakenFrom(y)
  <2>1. p \notin ZonePages[y]
    BY <1>2, OneZoneOnly
  <2> QED
    BY <2>1 DEF TakenFrom
<1>3. out' \subseteq Pages \X Orders
  BY PagesFinite DEF TypeOK
<1> QED
  BY <1>1, <1>2, <1>3, ZoneChanged

LEMMA BlockReturned ==
  ASSUME TypeOK, AllTiled, NEW z \in Zones, NEW F, NEW P, NEW b \in out, b[1] \in ZonePages[z],
         out' = out \ {b},
         Tiled(F, TakenFrom(z) \ {b}, P, ZonePages[z]),
         free' = [free EXCEPT ![z] = F], pcp' = [pcp EXCEPT ![z] = P]
  PROVE  /\ AllTiled'
         /\ free' \in [Zones -> SUBSET (Pages \X Orders)] /\ pcp' \in [Zones -> SUBSET Pages]
         /\ out' \subseteq Pages \X Orders
<1>1. TakenFrom(z)' = TakenFrom(z) \ {b}
  BY DEF TakenFrom
<1>2. ASSUME NEW y \in Zones, y # z PROVE TakenFrom(y)' = TakenFrom(y)
  <2>1. b[1] \notin ZonePages[y]
    BY <1>2, OneZoneOnly
  <2> QED
    BY <2>1 DEF TakenFrom
<1>3. out' \subseteq Pages \X Orders
  BY DEF TypeOK
<1> QED
  BY <1>1, <1>2, <1>3, ZoneChanged

(* A step that leaves the zones alone. *)
LEMMA ZonesKept ==
  ASSUME AllTiled, UNCHANGED <<free, pcp, out>>
  PROVE  AllTiled' /\ \A z, o : HasRoom(z, o)' = HasRoom(z, o)
<1>1. \A z : TakenFrom(z)' = TakenFrom(z)
  BY DEF TakenFrom
<1>2. AllTiled'
  BY <1>1 DEF AllTiled
<1>3. \A z, o : HasRoom(z, o)' = HasRoom(z, o)
  BY DEF HasRoom
<1> QED
  BY <1>2, <1>3

LEMMA FreeIsInZone ==
  ASSUME TypeOK, AllTiled, NEW z \in Zones
  PROVE  FreeInZone(z)
<1>1. free[z] \subseteq Pages \X Orders
  BY DEF TypeOK
<1>2. Tiled(free[z], TakenFrom(z), pcp[z], ZonePages[z])
  BY DEF AllTiled
<1>3. Neat(free[z]) /\ Cover(free[z]) \subseteq ZonePages[z]
  BY <1>2, TiledParts
<1> QED
  BY <1>1, <1>3 DEF FreeInZone

(* The zones a walk passes over have no room. *)
LEMMA FirstIs ==
  ASSUME NEW S, S \subseteq Zones
  PROVE  /\ FirstOf(S) = NoZone => S = {}
         /\ FirstOf(S) # NoZone => FirstOf(S) \in S
         /\ \A y \in S : y <= FirstOf(S)
<1>1. S \subseteq Nat /\ IsFiniteSet(S)
  BY ZonesAssumption, FS_Subset
<1>2. CASE S = {}
  BY <1>2 DEF FirstOf
<1>3. CASE S # {}
  <2>1. PICK n \in Nat : S \subseteq 0 .. n
    BY <1>1, FiniteIsBounded
  <2>2. Max(S) \in S /\ \A y \in S : Max(S) >= y
    BY <1>3, <2>1, MaxOfNumbers
  <2> DEFINE m == Max(S)
  <2> HIDE DEF m
  <2>3. m \in S /\ \A y \in S : m >= y
    BY <2>2 DEF m
  <2>4. FirstOf(S) = m
    BY <1>3 DEF FirstOf, m
  <2>5. m \in Nat /\ m # NoZone
    BY <1>1, <2>3 DEF NoZone
  <2>6. \A y \in S : y <= m
    BY <1>1, <2>3, <2>5
  <2> QED
    BY <2>3, <2>4, <2>5, <2>6
<1> QED
  BY <1>2, <1>3

LEMMA EmptyHasNoRoom ==
  ASSUME TypeOK, AllTiled, NEW y \in Zones, ZonePages[y] = {}, NEW o \in 0 .. MaxOrder
  PROVE  ~HasRoom(y, o)
<1>1. FreeInZone(y)
  BY FreeIsInZone
<1> QED
  BY <1>1, RoomIsFound

LEMMA WalkStarts ==
  ASSUME TypeOK, AllTiled, NEW high \in Nat
  PROVE  /\ FirstZone(high) \in Zones \cup {NoZone}
         /\ FirstZone(high) # NoZone => FirstZone(high) <= high
         /\ \A y \in Zones : y <= high /\ (FirstZone(high) = NoZone \/ y > FirstZone(high)) =>
              \A o \in 0 .. MaxOrder : ~HasRoom(y, o)
<1> DEFINE S == {z \in Zones : Allowed(z, high)}
           f == FirstOf(S)
<1>1. /\ f = NoZone => S = {}
      /\ f # NoZone => f \in S
      /\ \A y \in S : y <= f
  BY FirstIs
<1>2. FirstZone(high) = f
  BY DEF FirstZone
<1> HIDE DEF f
<1>3. f \in Zones \cup {NoZone} /\ (f # NoZone => f <= high)
  BY <1>1 DEF Allowed
<1>4. ASSUME NEW y \in Zones, y <= high, f = NoZone \/ y > f, NEW o \in 0 .. MaxOrder
      PROVE  ~HasRoom(y, o)
  <2>1. y \notin S
    <3>1. y \in Nat /\ (f # NoZone => f \in Nat)
      BY <1>3, ZonesAssumption
    <3>2. y \in S => y <= f /\ f # NoZone
      BY <1>1
    <3> HIDE DEF S
    <3> QED
      BY <1>4, <3>1, <3>2
  <2>2. ZonePages[y] = {}
    BY <1>4, <2>1 DEF Allowed
  <2> QED
    BY <2>2, EmptyHasNoRoom
<1> QED
  BY <1>2, <1>3, <1>4

LEMMA WalkContinues ==
  ASSUME TypeOK, AllTiled, NEW high \in Nat, NEW z \in Zones
  PROVE  /\ NextZone(z, high) \in Zones \cup {NoZone}
         /\ NextZone(z, high) # NoZone => NextZone(z, high) <= high
         /\ \A y \in Zones :
              y <= high /\ y < z /\ (NextZone(z, high) = NoZone \/ y > NextZone(z, high)) =>
                \A o \in 0 .. MaxOrder : ~HasRoom(y, o)
<1> DEFINE S == {y \in Zones : Allowed(y, high) /\ y < z}
           f == FirstOf(S)
<1>1. /\ f = NoZone => S = {}
      /\ f # NoZone => f \in S
      /\ \A y \in S : y <= f
  BY FirstIs
<1>2. NextZone(z, high) = f
  BY DEF NextZone
<1> HIDE DEF f
<1>3. f \in Zones \cup {NoZone} /\ (f # NoZone => f <= high)
  BY <1>1 DEF Allowed
<1>4. ASSUME NEW y \in Zones, y <= high, y < z, f = NoZone \/ y > f, NEW o \in 0 .. MaxOrder
      PROVE  ~HasRoom(y, o)
  <2>1. y \notin S
    <3>1. y \in Nat /\ (f # NoZone => f \in Nat)
      BY <1>3, ZonesAssumption
    <3>2. y \in S => y <= f /\ f # NoZone
      BY <1>1
    <3> HIDE DEF S
    <3> QED
      BY <1>4, <3>1, <3>2
  <2>2. ZonePages[y] = {}
    BY <1>4, <2>1 DEF Allowed
  <2> QED
    BY <2>2, EmptyHasNoRoom
<1> QED
  BY <1>2, <1>3, <1>4

-----------------------------------------------------------------------------
(* Every action preserves the invariant *)

LEMMA InitZonesInv ==
  ASSUME Init
  PROVE  ZonesInv
<1>1. ASSUME NEW z \in Zones
      PROVE  /\ Tiled(free[z], TakenFrom(z), pcp[z], ZonePages[z])
             /\ free[z] \subseteq Pages \X Orders
  <2>1. ZonePages[z] \subseteq Nat /\ IsFiniteSet(ZonePages[z]) /\ ZonePages[z] \subseteq Pages
    BY ZonesAssumption, PagesFinite
  <2>2. Tiled(GiveBackAll({}, ZonePages[z]), {}, {}, ZonePages[z])
    BY <2>1, TiledFirst
  <2>3. free[z] = GiveBackAll({}, ZonePages[z]) /\ pcp[z] = {} /\ TakenFrom(z) = {}
    BY DEF Init, TakenFrom
  <2>4. Tiled(free[z], TakenFrom(z), pcp[z], ZonePages[z])
    BY <2>2, <2>3
  <2>5. free[z] \subseteq ZonePages[z] \X Orders
    BY <2>4, TiledParts
  <2> QED
    BY <2>1, <2>4, <2>5
<1>2. free = [z \in Zones |-> free[z]]
  BY DEF Init
<1>3. free \in [Zones -> SUBSET (Pages \X Orders)]
  BY <1>1, <1>2
<1>4. req \in [order : 0 .. MaxOrder, high : Zones \cup {0}, gfp : Gfp]
  BY ZonesAssumption DEF Init, NoRequest, Gfp
<1>5. TypeOK
  BY <1>3, <1>4 DEF TypeOK, Init
<1>6. NoRoomPassed
  BY DEF NoRoomPassed, Init, Walking
<1> QED
  BY <1>1, <1>5, <1>6 DEF ZonesInv, AllTiled

LEMMA StartAllocKeeps ==
  ASSUME ZonesInv, NEW order \in 0 .. MaxOrder, NEW high \in Zones, NEW gfp \in Gfp,
         StartAlloc(order, high, gfp)
  PROVE  ZonesInv'
<1>1. TypeOK /\ AllTiled /\ high \in Nat
  BY ZonesAssumption DEF ZonesInv
<1>2. AllTiled' /\ \A z, o : HasRoom(z, o)' = HasRoom(z, o)
  BY <1>1, ZonesKept DEF StartAlloc
<1>3. /\ FirstZone(high) \in Zones \cup {NoZone}
      /\ FirstZone(high) # NoZone => FirstZone(high) <= high
      /\ \A y \in Zones : y <= high /\ (FirstZone(high) = NoZone \/ y > FirstZone(high)) =>
           \A o \in 0 .. MaxOrder : ~HasRoom(y, o)
  BY <1>1, WalkStarts
<1>4. /\ req' = [order |-> order, high |-> high, gfp |-> gfp]
      /\ zone' = FirstZone(high)
      /\ pc' = IF zone' = NoZone THEN "idle" ELSE "first"
      /\ UNCHANGED <<free, pcp, out>>
  BY DEF StartAlloc
<1>5. TypeOK'
  BY <1>1, <1>3, <1>4 DEF TypeOK
<1>6. NoRoomPassed'
  <2>1. req'.order = order /\ req'.high = high
    BY <1>4
  <2> QED
    BY <1>2, <1>3, <1>4, <2>1 DEF NoRoomPassed, Walking
<1> QED
  BY <1>2, <1>5, <1>6 DEF ZonesInv

(* What the types of a request are. *)
LEMMA RequestIs ==
  ASSUME TypeOK
  PROVE  req.order \in 0 .. MaxOrder /\ req.order \in Nat /\ req.high \in Nat
<1>1. req.order \in 0 .. MaxOrder /\ req.high \in Zones \cup {0}
  BY DEF TypeOK
<1>2. req.high \in Nat
  <2> DEFINE h == req.high
  <2>1. h \in Zones \cup {0}
    BY <1>1
  <2> HIDE DEF h
  <2>2. h \in Nat
    BY <2>1, ZonesAssumption
  <2> QED
    BY <2>2 DEF h
<1> DEFINE o == req.order
<1>3. o \in 0 .. MaxOrder
  BY <1>1
<1> HIDE DEF o
<1>4. o \in Nat
  BY <1>3
<1> QED
  BY <1>2, <1>3, <1>4 DEF o

LEMMA SkipZoneKeeps ==
  ASSUME ZonesInv, SkipZone
  PROVE  ZonesInv'
<1>1. TypeOK /\ AllTiled /\ NoRoomPassed
  BY DEF ZonesInv
<1>2. AllTiled' /\ \A z, o : HasRoom(z, o)' = HasRoom(z, o)
  BY <1>1, ZonesKept DEF SkipZone
<1> DEFINE o == req.order
           h == req.high
           n == NextZone(zone, h)
<1>3. /\ Walking /\ zone \in Zones /\ zone # NoZone /\ zone \in Nat
      /\ o \in 0 .. MaxOrder /\ h \in Nat
      /\ zone' = n
      /\ UNCHANGED <<free, pcp, out, req, pc>>
  BY <1>1, ZonesAssumption, RequestIs DEF SkipZone, TypeOK
<1>4. ~zone_watermark_ok(zone, o) \/ Takes(free[zone], o) = {}
  BY DEF SkipZone
<1> HIDE DEF o
<1>5. ~HasRoom(zone, o)
  <2>1. FreeInZone(zone)
    BY <1>1, <1>3, FreeIsInZone
  <2> QED
    BY <1>3, <1>4, <2>1, RoomIsFound
<1>6. /\ n \in Zones \cup {NoZone}
      /\ n # NoZone => n <= h
      /\ \A y \in Zones : y <= h /\ y < zone /\ (n = NoZone \/ y > n) => ~HasRoom(y, o)
  BY <1>1, <1>3, WalkContinues
<1>7. \A y \in Zones : y <= h /\ y > zone => ~HasRoom(y, o)
  BY <1>1, <1>3 DEF NoRoomPassed, o
<1> HIDE DEF n, h
<1>8. \A y \in Zones : y <= h /\ (n = NoZone \/ y > n) => ~HasRoom(y, o)
  <2>1. \A y \in Zones : y \in Nat /\ (y < zone \/ y = zone \/ y > zone)
    BY <1>3, ZonesAssumption
  <2> QED
    BY <1>5, <1>6, <1>7, <2>1
<1>9. TypeOK'
  BY <1>1, <1>3, <1>6 DEF TypeOK
<1>10. NoRoomPassed'
  <2>1. Walking' /\ pc' \notin {"rebalance", "retry"} /\ zone' = n /\ req'.order = o /\ req'.high = h
    BY <1>3 DEF Walking, o, h
  <2> QED
    BY <1>2, <1>6, <1>8, <2>1 DEF NoRoomPassed
<1> QED
  BY <1>2, <1>9, <1>10 DEF ZonesInv

(* What a step that takes a zone does beside the zone. *)
LEMMA RequestDone ==
  ASSUME TypeOK, NoRoomPassed, UNCHANGED <<req, zone>>, pc' = "idle",
         free' \in [Zones -> SUBSET (Pages \X Orders)], pcp' \in [Zones -> SUBSET Pages],
         out' \subseteq Pages \X Orders, AllTiled'
  PROVE  ZonesInv'
<1>1. TypeOK'
  BY DEF TypeOK
<1>2. NoRoomPassed'
  BY DEF NoRoomPassed, Walking
<1> QED
  BY <1>1, <1>2 DEF ZonesInv

(* The block a request gets, as the invariant knows it and as ZonesInOrder
   and RefusesOnlyWhenShort want it.                                        *)
HandsOut(z, p, o) ==
  /\ out' = out \cup {<<p, o>>} /\ <<p, o>> \notin out
  /\ Block(<<p, o>>) \subseteq ZonePages[z]

LEMMA TriedZoneIs ==
  ASSUME ZonesInv, TryThisZone
  PROVE  /\ TypeOK /\ AllTiled /\ NoRoomPassed
         /\ Walking /\ zone \in Zones /\ zone # NoZone /\ zone <= req.high /\ pc' = "idle" /\ UNCHANGED <<req, zone>>
         /\ Tiled(free[zone], TakenFrom(zone), pcp[zone], ZonePages[zone])
<1>1. TypeOK /\ AllTiled /\ NoRoomPassed
  BY DEF ZonesInv
<1>2. Walking /\ zone # NoZone /\ pc' = "idle" /\ UNCHANGED <<req, zone>>
  BY DEF TryThisZone
<1>3. zone \in Zones /\ zone <= req.high
  BY <1>1, <1>2 DEF TypeOK, NoRoomPassed
<1> QED
  BY <1>1, <1>2, <1>3 DEF AllTiled

(* A page whose block is not among those taken from its zone is not out. *)
LEMMA NotOut ==
  ASSUME NEW z \in Zones, NEW p \in ZonePages[z], NEW o, <<p, o>> \notin TakenFrom(z)
  PROVE  <<p, o>> \notin out
BY DEF TakenFrom

LEMMA TakeListedKeeps ==
  ASSUME ZonesInv, TakeListed
  PROVE  ZonesInv' /\ \E p, o : HandsOut(zone, p, o)
<1> DEFINE z == zone
           F == free[z]
           T == TakenFrom(z)
           P == pcp[z]
           o == 0
<1>1. /\ TypeOK /\ AllTiled /\ NoRoomPassed
      /\ z \in Zones /\ pc' = "idle" /\ UNCHANGED <<req, zone>>
      /\ Tiled(F, T, P, ZonePages[z])
  BY TriedZoneIs DEF TakeListed
<1>2. PICK p \in P : /\ pcp' = [pcp EXCEPT ![z] = P \ {p}]
                     /\ out' = out \cup {<<p, 0>>}
  BY DEF TakeListed
<1>3. free' = [free EXCEPT ![z] = F]
  BY <1>1 DEF TakeListed, TypeOK
<1> DEFINE r == <<{}, F>>
<1>4. r[1] = {} /\ r[2] = F /\ Splits(F, r)
  <2>1. Neat(F)
    BY <1>1 DEF Tiled
  <2> QED
    BY <2>1 DEF Splits
<1> HIDE DEF r, z, F, T, P
<1>5. p \in P \cup r[1] /\ (P \cup r[1]) \ {p} = P \ {p}
  BY <1>4
<1>6. /\ Tiled(r[2], T \cup {<<p, 0>>}, (P \cup r[1]) \ {p}, ZonePages[z])
      /\ <<p, 0>> \notin T /\ Block(<<p, 0>>) \subseteq ZonePages[z] /\ p \in ZonePages[z]
  BY <1>1, <1>4, <1>5, TiledPageTaken
<1>7. Tiled(F, T \cup {<<p, o>>}, P \ {p}, ZonePages[z]) /\ o \in Orders /\ out' = out \cup {<<p, o>>}
  BY <1>2, <1>4, <1>5, <1>6, OrdersAre
<1> HIDE DEF o
<1>8. /\ AllTiled'
      /\ free' \in [Zones -> SUBSET (Pages \X Orders)] /\ pcp' \in [Zones -> SUBSET Pages]
      /\ out' \subseteq Pages \X Orders
  BY <1>1, <1>2, <1>3, <1>6, <1>7, BlockHandedOut DEF T
<1>9. ZonesInv'
  BY <1>1, <1>8, RequestDone
<1>10. HandsOut(z, p, o)
  BY <1>1, <1>6, <1>7, NotOut DEF HandsOut, T, o
<1> QED
  BY <1>9, <1>10 DEF z

LEMMA TakeRefilledKeeps ==
  ASSUME ZonesInv, TakeRefilled
  PROVE  ZonesInv' /\ \E p, o : HandsOut(zone, p, o)
<1> DEFINE z == zone
           F == free[z]
           T == TakenFrom(z)
           P == pcp[z]
           o == 0
<1>1. /\ TypeOK /\ AllTiled /\ NoRoomPassed
      /\ z \in Zones /\ pc' = "idle" /\ UNCHANGED <<req, zone>>
      /\ Tiled(F, T, P, ZonePages[z])
  BY TriedZoneIs DEF TakeRefilled
<1>2. PICK r \in BulkTakes(F), p \in Pages :
        /\ p \in r[1]
        /\ free' = [free EXCEPT ![z] = r[2]]
        /\ pcp'  = [pcp EXCEPT ![z] = P \cup (r[1] \ {p})]
        /\ out'  = out \cup {<<p, 0>>}
  BY DEF TakeRefilled
<1>3. Neat(F)
  BY <1>1 DEF Tiled
<1> HIDE DEF z, F, T, P
<1>4. Splits(F, r)
  BY <1>2, <1>3, BulkTakesSplits
<1>5. p \in P \cup r[1]
  BY <1>2
<1>6. /\ Tiled(r[2], T \cup {<<p, 0>>}, (P \cup r[1]) \ {p}, ZonePages[z])
      /\ <<p, 0>> \notin T /\ Block(<<p, 0>>) \subseteq ZonePages[z] /\ p \in ZonePages[z]
  <2>1. Tiled(F, T, P, ZonePages[z])
    BY <1>1
  <2> QED
    BY <1>4, <1>5, <2>1, TiledPageTaken
<1>7. P \cup (r[1] \ {p}) = (P \cup r[1]) \ {p}
  <2>1. p \notin P
    <3>1. P \cap Cover(F) = {}
      BY <1>1 DEF Tiled
    <3>2. r[1] \subseteq Cover(F)
      BY <1>4 DEF Splits
    <3> QED
      BY <1>2, <3>1, <3>2
  <2> QED
    BY <2>1
<1>8. o \in Orders /\ out' = out \cup {<<p, o>>}
  BY <1>2, OrdersAre
<1> DEFINE H == r[2]
           Q == (P \cup r[1]) \ {p}
<1>9. /\ Tiled(H, T \cup {<<p, o>>}, Q, ZonePages[z])
      /\ free' = [free EXCEPT ![z] = H] /\ pcp' = [pcp EXCEPT ![z] = Q]
  BY <1>2, <1>6, <1>7
<1> HIDE DEF o, H, Q
<1>10. /\ AllTiled'
       /\ free' \in [Zones -> SUBSET (Pages \X Orders)] /\ pcp' \in [Zones -> SUBSET Pages]
       /\ out' \subseteq Pages \X Orders
  BY <1>1, <1>6, <1>8, <1>9, BlockHandedOut DEF T
<1>11. ZonesInv'
  BY <1>1, <1>10, RequestDone
<1>12. HandsOut(z, p, o)
  BY <1>1, <1>6, <1>8, NotOut DEF HandsOut, T, o
<1> QED
  BY <1>11, <1>12 DEF z

LEMMA TakeBlockKeeps ==
  ASSUME ZonesInv, TakeBlock
  PROVE  ZonesInv' /\ \E p, o : HandsOut(zone, p, o)
<1> DEFINE z == zone
           F == free[z]
           T == TakenFrom(z)
           P == pcp[z]
           o == req.order
<1>1. /\ TypeOK /\ AllTiled /\ NoRoomPassed
      /\ z \in Zones /\ pc' = "idle" /\ UNCHANGED <<req, zone>>
      /\ Tiled(F, T, P, ZonePages[z])
  BY TriedZoneIs DEF TakeBlock
<1>2. PICK t \in Takes(F, o) : /\ free' = [free EXCEPT ![z] = t[2]]
                               /\ out'  = out \cup {<<t[1], o>>}
  BY DEF TakeBlock
<1>3. pcp' = [pcp EXCEPT ![z] = P]
  BY <1>1 DEF TakeBlock, TypeOK
<1>4. o \in Nat
  BY <1>1, RequestIs
<1> HIDE DEF z, F, T, P, o
<1> DEFINE p == t[1]
           H == t[2]
<1>5. /\ Tiled(H, T \cup {<<p, o>>}, P, ZonePages[z])
      /\ <<p, o>> \notin T /\ Block(<<p, o>>) \subseteq ZonePages[z] /\ p \in ZonePages[z]
      /\ o \in Orders
  BY <1>1, <1>4, TiledBlockTaken
<1>6. free' = [free EXCEPT ![z] = H] /\ out' = out \cup {<<p, o>>}
  BY <1>2
<1> HIDE DEF p, H
<1>7. /\ AllTiled'
      /\ free' \in [Zones -> SUBSET (Pages \X Orders)] /\ pcp' \in [Zones -> SUBSET Pages]
      /\ out' \subseteq Pages \X Orders
  BY <1>1, <1>3, <1>5, <1>6, BlockHandedOut DEF T
<1>8. ZonesInv'
  BY <1>1, <1>7, RequestDone
<1>9. HandsOut(z, p, o)
  BY <1>1, <1>5, <1>6, NotOut DEF HandsOut, T
<1> QED
  BY <1>8, <1>9 DEF z

LEMMA FreeBlockKeeps ==
  ASSUME ZonesInv, NEW b \in out, FreeBlock(b)
  PROVE  ZonesInv' /\ out' \subseteq out
<1>1. TypeOK /\ AllTiled /\ NoRoomPassed
  BY DEF ZonesInv
<1>2. PICK z \in Zones : /\ b[1] \in ZonePages[z]
                         /\ free' = [free EXCEPT ![z] = GiveBack(free[z], b[1], b[2])]
  BY DEF FreeBlock
<1> DEFINE F == free[z]
           T == TakenFrom(z)
           P == pcp[z]
           G == GiveBack(F, b[1], b[2])
<1>3. out' = out \ {b} /\ UNCHANGED <<req, zone>> /\ pc' = "idle"
  BY DEF FreeBlock
<1>4. pcp' = [pcp EXCEPT ![z] = P]
  BY <1>1 DEF FreeBlock, TypeOK
<1>5. Tiled(F, T, P, ZonePages[z]) /\ b \in T
  BY <1>1, <1>2 DEF AllTiled, TakenFrom
<1>6. free' = [free EXCEPT ![z] = G]
  BY <1>2
<1> HIDE DEF F, T, P
<1>7. Tiled(G, T \ {b}, P, ZonePages[z])
  BY <1>5, TiledBlockGivenBack
<1> HIDE DEF G
<1>8. /\ AllTiled'
      /\ free' \in [Zones -> SUBSET (Pages \X Orders)] /\ pcp' \in [Zones -> SUBSET Pages]
      /\ out' \subseteq Pages \X Orders
  BY <1>1, <1>2, <1>3, <1>4, <1>6, <1>7, BlockReturned DEF T
<1>9. ZonesInv'
  BY <1>1, <1>3, <1>8, RequestDone
<1> QED
  BY <1>3, <1>9

LEMMA FreePageKeeps ==
  ASSUME ZonesInv, NEW p \in Pages, FreePage(p)
  PROVE  ZonesInv' /\ out' \subseteq out
<1>1. TypeOK /\ AllTiled /\ NoRoomPassed
  BY DEF ZonesInv
<1>2. PICK z \in Zones : \E back \in SUBSET (pcp[z] \cup {p}) :
        /\ p \in ZonePages[z]
        /\ free' = [free EXCEPT ![z] = GiveBackAll(free[z], back)]
        /\ pcp'  = [pcp EXCEPT ![z] = (pcp[z] \cup {p}) \ back]
  BY DEF FreePage
<1>3. PICK back \in SUBSET (pcp[z] \cup {p}) :
        /\ p \in ZonePages[z]
        /\ free' = [free EXCEPT ![z] = GiveBackAll(free[z], back)]
        /\ pcp'  = [pcp EXCEPT ![z] = (pcp[z] \cup {p}) \ back]
  BY <1>2
<1> DEFINE F == free[z]
           T == TakenFrom(z)
           P == pcp[z]
           b == <<p, 0>>
           G == GiveBackAll(F, back)
           Q == (P \cup {p}) \ back
<1>4. b \in out /\ out' = out \ {b} /\ UNCHANGED <<req, zone>> /\ pc' = "idle"
  BY DEF FreePage
<1>5. Tiled(F, T, P, ZonePages[z]) /\ b \in T /\ b[1] \in ZonePages[z]
  BY <1>1, <1>3, <1>4 DEF AllTiled, TakenFrom
<1>6. IsFiniteSet(ZonePages[z]) /\ p \in Nat
  BY PagesFinite
<1>7. free' = [free EXCEPT ![z] = G] /\ pcp' = [pcp EXCEPT ![z] = Q] /\ back \in SUBSET (P \cup {p})
  BY <1>3
<1> HIDE DEF F, T, P
<1>8. Tiled(G, T \ {b}, Q, ZonePages[z])
  BY <1>5, <1>6, <1>7, TiledPageGivenBack
<1> HIDE DEF G, Q, b
<1>9. /\ AllTiled'
      /\ free' \in [Zones -> SUBSET (Pages \X Orders)] /\ pcp' \in [Zones -> SUBSET Pages]
      /\ out' \subseteq Pages \X Orders
  BY <1>1, <1>4, <1>5, <1>7, <1>8, BlockReturned DEF T
<1>10. ZonesInv'
  BY <1>1, <1>4, <1>9, RequestDone
<1> QED
  BY <1>4, <1>10

LEMMA SlowPathKeeps ==
  ASSUME ZonesInv, SlowPath
  PROVE  ZonesInv'
<1>1. TypeOK /\ AllTiled /\ NoRoomPassed
  BY DEF ZonesInv
<1>2. AllTiled' /\ \A z, o : HasRoom(z, o)' = HasRoom(z, o)
  BY <1>1, ZonesKept DEF SlowPath
<1>3. req.order \in 0 .. MaxOrder /\ req.high \in Nat
  BY <1>1, RequestIs
<1>4. CASE req.order >= MaxOrder
  <2>1. UNCHANGED <<free, pcp, out, req, zone>> /\ pc' = "idle"
    BY <1>4 DEF SlowPath
  <2>2. TypeOK' /\ NoRoomPassed'
    BY <1>1, <2>1 DEF TypeOK, NoRoomPassed, Walking
  <2> QED
    BY <1>2, <2>2 DEF ZonesInv
<1>5. CASE ~ (req.order >= MaxOrder)
  <2> DEFINE o == req.order
             h == req.high
             f == FirstZone(h)
  <2>1. UNCHANGED <<free, pcp, out, req>> /\ pc' = "min" /\ zone' = f
    BY <1>5 DEF SlowPath
  <2> HIDE DEF h
  <2>2. h \in Nat /\ o \in 0 .. MaxOrder
    BY <1>3 DEF h
  <2>3. /\ f \in Zones \cup {NoZone}
        /\ f # NoZone => f <= h
        /\ \A y \in Zones : y <= h /\ (f = NoZone \/ y > f) =>
             \A i \in 0 .. MaxOrder : ~HasRoom(y, i)
    BY <1>1, <2>2, WalkStarts
  <2> HIDE DEF f
  <2>4. TypeOK'
    BY <1>1, <2>1, <2>3 DEF TypeOK
  <2>5. req'.order = o /\ req'.high = h /\ zone' = f /\ pc' = "min"
    BY <2>1 DEF h
  <2> HIDE DEF o
  <2>6. NoRoomPassed'
    BY <1>2, <2>2, <2>3, <2>5 DEF NoRoomPassed, Walking
  <2> QED
    BY <1>2, <2>4, <2>6 DEF ZonesInv
<1> QED
  BY <1>4, <1>5

LEMMA OtherStepsKeep ==
  ASSUME ZonesInv, WalkFails \/ Rebalance \/ Retry
  PROVE  ZonesInv'
<1>1. TypeOK /\ AllTiled /\ NoRoomPassed
  BY DEF ZonesInv
<1>2. UNCHANGED <<free, pcp, out, req, zone>>
  BY DEF WalkFails, Rebalance, Retry
<1>3. AllTiled' /\ \A z, o : HasRoom(z, o)' = HasRoom(z, o)
  BY <1>1, <1>2, ZonesKept
<1>4. TypeOK'
  BY <1>1, <1>2 DEF TypeOK, WalkFails, Rebalance, Retry
<1>5. NoRoomPassed'
  BY <1>1, <1>2, <1>3 DEF NoRoomPassed, Walking, WalkFails, Rebalance, Retry
<1> QED
  BY <1>3, <1>4, <1>5 DEF ZonesInv

LEMMA NextZonesInv ==
  ASSUME ZonesInv, [Next]_vars
  PROVE  ZonesInv'
<1>1. CASE Call
  <2>1. ASSUME NEW order \in 0 .. MaxOrder, NEW high \in Zones, NEW gfp \in Gfp,
               StartAlloc(order, high, gfp)
        PROVE  ZonesInv'
    BY <2>1, StartAllocKeeps
  <2>2. ASSUME NEW b \in out, FreeBlock(b) PROVE ZonesInv'
    BY <2>2, FreeBlockKeeps
  <2>3. ASSUME NEW p \in Pages, FreePage(p) PROVE ZonesInv'
    BY <2>3, FreePageKeeps
  <2> QED
    BY <1>1, <2>1, <2>2, <2>3 DEF Call
<1>2. CASE Step
  <2>1. CASE TryZone
    BY <2>1, TakeListedKeeps, TakeRefilledKeeps, TakeBlockKeeps DEF TryZone
  <2>2. CASE SkipZone
    BY <2>2, SkipZoneKeeps
  <2>3. CASE SlowPath
    BY <2>3, SlowPathKeeps
  <2>4. CASE WalkFails \/ Rebalance \/ Retry
    BY <2>4, OtherStepsKeep
  <2> QED
    BY <1>2, <2>1, <2>2, <2>3, <2>4 DEF Step
<1>3. CASE UNCHANGED vars
  <2>1. TypeOK /\ AllTiled /\ NoRoomPassed
    BY DEF ZonesInv
  <2>2. UNCHANGED <<free, pcp, out, req, zone, pc>>
    BY <1>3 DEF vars
  <2>3. AllTiled' /\ \A z, o : HasRoom(z, o)' = HasRoom(z, o)
    BY <2>1, <2>2, ZonesKept
  <2>4. TypeOK' /\ NoRoomPassed'
    BY <2>1, <2>2, <2>3 DEF TypeOK, NoRoomPassed, Walking
  <2> QED
    BY <2>3, <2>4 DEF ZonesInv
<1> QED
  BY <1>1, <1>2, <1>3 DEF Next

THEOREM ZonesInvariant == Spec => []ZonesInv
<1>1. Init => ZonesInv
  BY InitZonesInv
<1>2. ZonesInv /\ [Next]_vars => ZonesInv'
  BY NextZonesInv
<1> QED
  BY <1>1, <1>2, PTL DEF Spec

-----------------------------------------------------------------------------
(* What the invariant gives *)

(* alloc_pages and __free_pages never lose a page of a zone, double it or
   let it drift into another zone: the free blocks, those handed out and the
   pages on the per-cpu lists tile each zone.                               *)
THEOREM ZonesAreSound == Spec => []ZonesSound
<1>1. ASSUME ZonesInv PROVE ZonesSound
  <2>1. ASSUME NEW z \in Zones
        PROVE  LET taken  == {b \in out : b[1] \in ZonePages[z]}
                   blocks == free[z] \cup taken \cup {<<p, 0>> : p \in pcp[z]}
               IN /\ UNION {Block(b) : b \in blocks} = ZonePages[z]
                  /\ FreePages(free[z]) + FreePages(taken) + Cardinality(pcp[z])
                       = Cardinality(ZonePages[z])
    <3> DEFINE F == free[z]
               T == TakenFrom(z)
               P == pcp[z]
               Z == ZonePages[z]
    <3>1. Tiled(F, T, P, Z)
      BY <1>1 DEF ZonesInv, AllTiled
    <3>2. Z \subseteq Nat /\ IsFiniteSet(Z)
      BY ZonesAssumption
    <3> HIDE DEF F, T, P, Z
    <3>3. /\ UNION {Block(b) : b \in F \cup T \cup {<<p, 0>> : p \in P}} = Z
          /\ FreePages(F) + FreePages(T) + Cardinality(P) = Cardinality(Z)
      BY <3>1, <3>2, TiledCounts
    <3> QED
      BY <3>3 DEF F, T, P, Z, TakenFrom
  <2>2. ZonesTiled
    BY <2>1 DEF ZonesTiled
  <2> QED
    BY <1>1, <2>2 DEF ZonesInv, ZonesSound
<1>2. ZonesInv => ZonesSound
  BY <1>1
<1> QED
  BY <1>2, ZonesInvariant, PTL

(* The walk along the zonelist, highest zone first: a block comes from a zone
   the request allows, and only from one below which the higher ones have no
   room.                                                                    *)
THEOREM ZonesTakenInOrder == Spec => ZonesInOrder
<1> DEFINE InOrder == \A b \in out' \ out :
             \E z \in Zones :
               /\ Block(b) \subseteq ZonePages[z]
               /\ z <= req.high
               /\ \A y \in Zones : z < y /\ y <= req.high => ~HasRoom(y, req.order)
<1>1. ASSUME ZonesInv, [Next]_vars PROVE InOrder
  <2>1. ASSUME TryZone PROVE InOrder
    <3>1. PICK p, o : HandsOut(zone, p, o)
      BY <1>1, <2>1, TakeListedKeeps, TakeRefilledKeeps, TakeBlockKeeps DEF TryZone
    <3>2. Walking /\ zone \in Zones /\ zone # NoZone /\ zone <= req.high /\ NoRoomPassed
      BY <1>1, <2>1, TriedZoneIs DEF TryZone, TakeListed, TakeRefilled, TakeBlock
    <3>3. \A b \in out' \ out : Block(b) \subseteq ZonePages[zone]
      BY <3>1 DEF HandsOut
    <3>4. \A y \in Zones : zone < y /\ y <= req.high => ~HasRoom(y, req.order)
      <4>1. \A y \in Zones : zone < y => y > zone
        BY <3>2, ZonesAssumption
      <4> QED
        BY <3>2, <4>1 DEF NoRoomPassed
    <3> QED
      BY <3>2, <3>3, <3>4
  <2>2. CASE out' \subseteq out
    BY <2>2
  <2>3. ASSUME Call PROVE out' \subseteq out
    BY <1>1, <2>3, FreeBlockKeeps, FreePageKeeps DEF Call, StartAlloc
  <2>4. ASSUME SkipZone \/ SlowPath \/ WalkFails \/ Rebalance \/ Retry \/ UNCHANGED vars
        PROVE  out' \subseteq out
    BY <2>4 DEF SkipZone, SlowPath, WalkFails, Rebalance, Retry, vars
  <2> HIDE DEF InOrder
  <2> QED
    BY <1>1, <2>1, <2>2, <2>3, <2>4 DEF Next, Step
<1>2. ZonesInv /\ [Next]_vars => [InOrder]_vars
  BY <1>1
<1>3. Spec => [][InOrder]_vars
  BY <1>2, ZonesInvariant, PTL DEF Spec
<1> QED
  BY <1>3 DEF ZonesInOrder

(* The slow path: NULL is returned only when no zone of the request had room,
   and only for a request that may not wait, asks not to be retried, or is of
   a costly order.                                                          *)
THEOREM RefusalsAreJust == Spec => RefusesOnlyWhenShort
<1> DEFINE Just == pc # "idle" /\ pc' = "idle" /\ out' = out =>
             /\ \A z \in Zones : z <= req.high => ~HasRoom(z, req.order)
             /\ \/ "WAIT" \notin req.gfp
                \/ "NORETRY" \in req.gfp
                \/ req.order > PAGE_ALLOC_COSTLY_ORDER
<1>1. ASSUME ZonesInv, [Next]_vars PROVE Just
  <2>1. TypeOK /\ NoRoomPassed /\ req.order \in Nat
    BY <1>1, RequestIs DEF ZonesInv
  <2>2. ASSUME TryZone PROVE out' # out
    <3>1. PICK p, o : HandsOut(zone, p, o)
      BY <1>1, <2>2, TakeListedKeeps, TakeRefilledKeeps, TakeBlockKeeps DEF TryZone
    <3> QED
      BY <3>1 DEF HandsOut
  <2>3. ASSUME Call PROVE pc = "idle"
    BY <2>3 DEF Call, StartAlloc, FreeBlock, FreePage
  <2>4. ASSUME SkipZone \/ UNCHANGED vars PROVE pc' = pc
    BY <2>4 DEF SkipZone, vars
  <2>5. ASSUME WalkFails \/ Retry PROVE pc' # "idle"
    BY <2>5 DEF WalkFails, Retry
  <2>6. ASSUME SlowPath, pc' = "idle" PROVE Just
    <3>1. pc = "first" /\ zone = NoZone /\ req.order >= MaxOrder
      BY <2>6 DEF SlowPath
    <3>2. \A z \in Zones : z <= req.high => ~HasRoom(z, req.order)
      BY <2>1, <3>1 DEF NoRoomPassed, Walking
    <3>3. req.order > PAGE_ALLOC_COSTLY_ORDER
      BY <2>1, <3>1, ZonesAssumption
    <3> QED
      BY <3>2, <3>3
  <2>7. ASSUME Rebalance, pc' = "idle" PROVE Just
    <3>1. \A z \in Zones : z <= req.high => ~HasRoom(z, req.order)
      BY <2>1, <2>7 DEF NoRoomPassed, Rebalance
    <3>2. ~ ("WAIT" \in req.gfp /\ should_alloc_retry)
      BY <2>7 DEF Rebalance
    <3>3. \/ "WAIT" \notin req.gfp
          \/ "NORETRY" \in req.gfp
          \/ req.order > PAGE_ALLOC_COSTLY_ORDER
      BY <2>1, <3>2, ZonesAssumption DEF should_alloc_retry
    <3> QED
      BY <3>1, <3>3
  <2>8. CASE pc = "idle" \/ pc' # "idle" \/ pc' = pc \/ out' # out
    BY <2>8
  <2> HIDE DEF Just
  <2> QED
    BY <1>1, <2>2, <2>3, <2>4, <2>5, <2>6, <2>7, <2>8 DEF Next, Step
<1>2. ZonesInv /\ [Next]_vars => [Just]_vars
  BY <1>1
<1>3. Spec => [][Just]_vars
  BY <1>2, ZonesInvariant, PTL DEF Spec
<1> QED
  BY <1>3 DEF RefusesOnlyWhenShort
=============================================================================
