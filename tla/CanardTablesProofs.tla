-------------------------- MODULE CanardTablesProofs --------------------------
(***************************************************************************)
(* The functions that keep no state, for every input: identifiers, acceptance    *)
(* filters, the CRC, bit timings, and the descriptors of a driver.             *)
(***************************************************************************)
EXTENDS CanardTables, FiniteSetTheorems, SequenceTheorems, WellFoundedInduction, TLAPS

-----------------------------------------------------------------------------
(* Words *)

LEMMA InAt ==
    \A word \in SUBSET Int, shift \in Int :
        /\ At(word, shift) \subseteq Int
        /\ \A x \in Int : x \in At(word, shift) <=> x - shift \in word
<1>1. SUFFICES ASSUME NEW word \in SUBSET Int, NEW shift \in Int
               PROVE  /\ At(word, shift) \subseteq Int
                      /\ \A x \in Int : x \in At(word, shift) <=> x - shift \in word
  OBVIOUS
<1>2. \A w \in word : w + shift \in Int /\ (w + shift) - shift = w
  OBVIOUS
<1>3. \A x \in Int : (x - shift) + shift = x
  OBVIOUS
<1> QED
  BY <1>2, <1>3 DEF At

LEMMA InPart ==
    \A word \in SUBSET Int, shift, width \in Int :
        /\ Part(word, shift, width) \subseteq 0 .. width - 1
        /\ Part(word, shift, width) \subseteq Int
        /\ \A x \in Int :
              x \in Part(word, shift, width) <=> 0 <= x /\ x < width /\ x + shift \in word
<1>1. SUFFICES ASSUME NEW word \in SUBSET Int, NEW shift \in Int, NEW width \in Int
               PROVE  /\ Part(word, shift, width) \subseteq 0 .. width - 1
                      /\ \A x \in Int : x \in Part(word, shift, width)
                                          <=> 0 <= x /\ x < width /\ x + shift \in word
  OBVIOUS
<1>2. ASSUME NEW x
      PROVE  x \in Part(word, shift, width)
                <=> \E v \in word : shift <= v /\ v < shift + width /\ x = v - shift
  BY DEF Part
<1>3. \A v \in word : v \in Int /\ shift <= v /\ v < shift + width => v - shift \in 0 .. width - 1
  OBVIOUS
<1>4. \A x \in Int : 0 <= x /\ x < width /\ x + shift \in word =>
         shift <= x + shift /\ x + shift < shift + width /\ x = (x + shift) - shift
  OBVIOUS
<1>5. \A x \in Int : \A v \in word :
         shift <= v /\ v < shift + width /\ x = v - shift => 0 <= x /\ x < width /\ x + shift = v
  OBVIOUS
<1>6. Part(word, shift, width) \subseteq 0 .. width - 1
  BY <1>2, <1>3
<1>7. \A x \in Int :
         x \in Part(word, shift, width) <=> 0 <= x /\ x < width /\ x + shift \in word
  BY <1>2, <1>4, <1>5
<1> QED
  BY <1>6, <1>7

LEMMA InXor ==
    ASSUME NEW a, NEW b
    PROVE  /\ \A x : x \in Xor(a, b) <=> (x \in a) # (x \in b)
           /\ \A s : a \subseteq s /\ b \subseteq s => Xor(a, b) \subseteq s
BY DEF Xor

-----------------------------------------------------------------------------
(* Acceptance filters *)

LEMMA FrameIdIs ==
    ASSUME NEW id, IsFrameId(id)
    PROVE  /\ id \subseteq Int
           /\ \A w \in id : w \in 0 .. 28 \/ w = 30 \/ w = 31
           /\ 31 \notin id => \A w \in id : w \in 0 .. 10 \/ w = 30
BY DEF IsFrameId, EFF, RTR

(* The registers, bit by bit. *)
LEMMA RegisterIs ==
    ASSUME NEW id, id \subseteq Int
    PROVE  /\ convertFrameIDCanardToRegister(id) \subseteq Int
           /\ \A x \in Int : x \in convertFrameIDCanardToRegister(id) <=>
                 \/ x = 1 /\ 30 \in id
                 \/ 31 \in id /\ (x = 2 \/ (x \in 3 .. 31 /\ x - 3 \in id))
                 \/ 31 \notin id /\ x \in 21 .. 31 /\ x - 21 \in id
<1> DEFINE e == Part(id, 0, 29)
           b == Part(id, 0, 11)
<1>1. /\ e \subseteq Int /\ \A x \in Int : x \in e <=> 0 <= x /\ x < 29 /\ x + 0 \in id
      /\ b \subseteq Int /\ \A x \in Int : x \in b <=> 0 <= x /\ x < 11 /\ x + 0 \in id
  <2>1. e \subseteq Int /\ \A x \in Int : x \in e <=> 0 <= x /\ x < 29 /\ x + 0 \in id
    BY InPart
  <2>2. b \subseteq Int /\ \A x \in Int : x \in b <=> 0 <= x /\ x < 11 /\ x + 0 \in id
    BY InPart
  <2> QED
    BY <2>1, <2>2
<1> HIDE DEF e, b
<1>2. /\ At(e, 3) \subseteq Int /\ \A x \in Int : x \in At(e, 3) <=> x - 3 \in e
      /\ At(b, 21) \subseteq Int /\ \A x \in Int : x \in At(b, 21) <=> x - 21 \in b
  <2>1. At(e, 3) \subseteq Int /\ \A x \in Int : x \in At(e, 3) <=> x - 3 \in e
    BY <1>1, InAt
  <2>2. At(b, 21) \subseteq Int /\ \A x \in Int : x \in At(b, 21) <=> x - 21 \in b
    BY <1>1, InAt
  <2> QED
    BY <2>1, <2>2
<1>3. convertFrameIDCanardToRegister(id) =
         (IF 31 \in id THEN At(e, 3) \cup {2} ELSE At(b, 21)) \cup (IF 30 \in id THEN {1} ELSE {})
  BY DEF convertFrameIDCanardToRegister, EFF, RTR, IDE, RTRBit, e, b
<1>4. \A x \in Int : x - 3 \in Int /\ x - 21 \in Int /\ x + 0 = x
  OBVIOUS
<1>5. \A x \in Int : x \in At(e, 3) <=> x \in 3 .. 31 /\ x - 3 \in id
  BY <1>1, <1>2, <1>4
<1>6. \A x \in Int : x \in At(b, 21) <=> x \in 21 .. 31 /\ x - 21 \in id
  BY <1>1, <1>2, <1>4
<1> HIDE DEF e, b
<1> QED
  BY <1>2, <1>3, <1>5, <1>6

LEMMA FilterIs ==
    ASSUME NEW cfg, cfg.id \subseteq Int, cfg.mask \subseteq Int
    PROVE  /\ \A x \in Int : x \in FilterId(cfg) <=>
                 \/ x = 1 /\ 30 \in cfg.id
                 \/ ExtendedBank(cfg) /\ (x = 2 \/ (x \in 3 .. 31 /\ x - 3 \in cfg.id))
                 \/ ~ExtendedBank(cfg) /\ x \in 21 .. 31 /\ x - 21 \in cfg.id
           /\ \A x \in Int : x \in FilterMask(cfg) <=>
                 \/ x = 1 /\ 30 \in cfg.mask
                 \/ x = 2 /\ 31 \in cfg.mask
                 \/ ExtendedBank(cfg) /\ x \in 3 .. 31 /\ x - 3 \in cfg.mask
                 \/ ~ExtendedBank(cfg) /\ x \in 21 .. 31 /\ x - 21 \in cfg.mask
           /\ FilterMask(cfg) \subseteq Int
<1>1. ASSUME NEW w, w \subseteq Int
      PROVE  /\ At(Part(w, 0, 29), 3) \subseteq Int
             /\ At(Part(w, 0, 11), 21) \subseteq Int
             /\ \A x \in Int : x \in At(Part(w, 0, 29), 3) <=> x \in 3 .. 31 /\ x - 3 \in w
             /\ \A x \in Int : x \in At(Part(w, 0, 11), 21) <=> x \in 21 .. 31 /\ x - 21 \in w
  <2> DEFINE e == Part(w, 0, 29)
             b == Part(w, 0, 11)
  <2>1. /\ e \subseteq Int /\ \A x \in Int : x \in e <=> 0 <= x /\ x < 29 /\ x + 0 \in w
        /\ b \subseteq Int /\ \A x \in Int : x \in b <=> 0 <= x /\ x < 11 /\ x + 0 \in w
    <3>1. e \subseteq Int /\ \A x \in Int : x \in e <=> 0 <= x /\ x < 29 /\ x + 0 \in w
      BY <1>1, InPart
    <3>2. b \subseteq Int /\ \A x \in Int : x \in b <=> 0 <= x /\ x < 11 /\ x + 0 \in w
      BY <1>1, InPart
    <3> QED
      BY <3>1, <3>2
  <2> HIDE DEF e, b
  <2>2. /\ At(e, 3) \subseteq Int /\ \A x \in Int : x \in At(e, 3) <=> x - 3 \in e
        /\ At(b, 21) \subseteq Int /\ \A x \in Int : x \in At(b, 21) <=> x - 21 \in b
    <3>1. At(e, 3) \subseteq Int /\ \A x \in Int : x \in At(e, 3) <=> x - 3 \in e
      BY <2>1, InAt
    <3>2. At(b, 21) \subseteq Int /\ \A x \in Int : x \in At(b, 21) <=> x - 21 \in b
      BY <2>1, InAt
    <3> QED
      BY <3>1, <3>2
  <2>3. \A x \in Int : x - 3 \in Int /\ x - 21 \in Int /\ x + 0 = x
    OBVIOUS
  <2>4. \A x \in Int : x \in At(e, 3) <=> x \in 3 .. 31 /\ x - 3 \in w
    BY <2>1, <2>2, <2>3
  <2>5. \A x \in Int : x \in At(b, 21) <=> x \in 21 .. 31 /\ x - 21 \in w
    BY <2>1, <2>2, <2>3
  <2> QED
    BY <2>2, <2>4, <2>5 DEF e, b
<1>2. FilterId(cfg) =
         (IF ExtendedBank(cfg) THEN At(Part(cfg.id, 0, 29), 3) \cup {2} ELSE At(Part(cfg.id, 0, 11), 21))
            \cup (IF 30 \in cfg.id THEN {1} ELSE {})
  BY DEF FilterId, RTR, RTRBit, IDE
<1>3. FilterMask(cfg) =
         (IF ExtendedBank(cfg) THEN At(Part(cfg.mask, 0, 29), 3) ELSE At(Part(cfg.mask, 0, 11), 21))
            \cup (IF 31 \in cfg.mask THEN {2} ELSE {}) \cup (IF 30 \in cfg.mask THEN {1} ELSE {})
  BY DEF FilterMask, EFF, RTR, RTRBit, IDE
<1> QED
  BY <1>1, <1>2, <1>3

LEMMA BankPasses ==
    ASSUME NEW cfg, NEW id, IsFrameId(cfg.id), IsFrameId(id), cfg.mask \subseteq 0 .. 31,
           31 \in id \/ ~ExtendedBank(cfg)
    PROVE  Passes(cfg, id) <=> /\ id \cap cfg.mask = cfg.id \cap cfg.mask
                               /\ 30 \in id => 30 \in cfg.id
<1> DEFINE word == convertFrameIDCanardToRegister(id)
<1>1. /\ id \subseteq Int /\ cfg.id \subseteq Int /\ cfg.mask \subseteq Int
      /\ \A w \in id : w \in 0 .. 28 \/ w = 30 \/ w = 31
      /\ \A w \in cfg.id : w \in 0 .. 28 \/ w = 30 \/ w = 31
      /\ 31 \notin id => \A w \in id : w \in 0 .. 10 \/ w = 30
      /\ 31 \notin cfg.id => \A w \in cfg.id : w \in 0 .. 10 \/ w = 30
  BY FrameIdIs
<1>2. /\ word \subseteq Int
      /\ \A x \in Int : x \in word <=>
            \/ x = 1 /\ 30 \in id
            \/ 31 \in id /\ (x = 2 \/ (x \in 3 .. 31 /\ x - 3 \in id))
            \/ 31 \notin id /\ x \in 21 .. 31 /\ x - 21 \in id
  BY <1>1, RegisterIs
<1> HIDE DEF word
<1>3. Passes(cfg, id) <=>
         /\ \A x \in FilterMask(cfg) : x \in word <=> x \in FilterId(cfg)
         /\ 2 \in word => 2 \in FilterId(cfg)
         /\ 1 \in word => 1 \in FilterId(cfg)
  BY DEF Passes, word, IDE, RTRBit
<1>4. (id \cap cfg.mask = cfg.id \cap cfg.mask) <=> \A y \in cfg.mask : y \in id <=> y \in cfg.id
  OBVIOUS
<1>5. ExtendedBank(cfg) <=> 31 \in cfg.id \/ 31 \notin cfg.mask
  BY DEF ExtendedBank, EFF
<1>6. CASE ExtendedBank(cfg)
  <2>1. /\ \A x \in Int : x \in FilterId(cfg) <=>
              x = 2 \/ (x = 1 /\ 30 \in cfg.id) \/ (x \in 3 .. 31 /\ x - 3 \in cfg.id)
        /\ \A x \in Int : x \in FilterMask(cfg) <=>
              \/ x = 1 /\ 30 \in cfg.mask
              \/ x = 2 /\ 31 \in cfg.mask
              \/ x \in 3 .. 31 /\ x - 3 \in cfg.mask
        /\ FilterMask(cfg) \subseteq Int
    BY <1>1, <1>6, FilterIs
  <2>2. \A x \in Int : x \in word <=> x = 2 \/ (x = 1 /\ 30 \in id) \/ (x \in 3 .. 31 /\ x - 3 \in id)
    BY <1>2, <1>6
  <2>3. ASSUME \A x \in FilterMask(cfg) : x \in word <=> x \in FilterId(cfg), NEW y \in cfg.mask
        PROVE  y \in id <=> y \in cfg.id
    <3>1. CASE y \in 0 .. 28
      <4>1. PICK x \in Int : x = y + 3
        BY <3>1
      <4>2. x \in 3 .. 31 /\ x - 3 = y /\ x # 1 /\ x # 2
        BY <3>1, <4>1
      <4> QED
        BY <2>1, <2>2, <2>3, <4>2
    <3>2. CASE y = 30
      BY <2>1, <2>2, <2>3, <3>2
    <3>3. CASE y = 31
      BY <1>5, <1>6, <2>3, <3>3
    <3> QED
      BY <1>1, <3>1, <3>2, <3>3
  <2>4. ASSUME \A y \in cfg.mask : y \in id <=> y \in cfg.id, NEW x \in FilterMask(cfg)
        PROVE  x \in word <=> x \in FilterId(cfg)
    <3>1. CASE x = 1
      BY <2>1, <2>2, <2>4, <3>1
    <3>2. CASE x = 2
      BY <2>1, <2>2, <3>2
    <3>3. CASE x \in 3 .. 31 /\ x - 3 \in cfg.mask
      BY <2>1, <2>2, <2>4, <3>3
    <3> QED
      BY <2>1, <3>1, <3>2, <3>3
  <2>5. (1 \in word <=> 30 \in id) /\ (1 \in FilterId(cfg) <=> 30 \in cfg.id)
    BY <2>1, <2>2
  <2> QED
    BY <1>3, <1>4, <2>1, <2>2, <2>3, <2>4, <2>5
<1>7. CASE ~ExtendedBank(cfg)
  <2>1. /\ \A x \in Int : x \in FilterId(cfg) <=>
              (x = 1 /\ 30 \in cfg.id) \/ (x \in 21 .. 31 /\ x - 21 \in cfg.id)
        /\ \A x \in Int : x \in FilterMask(cfg) <=>
              \/ x = 1 /\ 30 \in cfg.mask
              \/ x = 2
              \/ x \in 21 .. 31 /\ x - 21 \in cfg.mask
        /\ FilterMask(cfg) \subseteq Int
    BY <1>1, <1>5, <1>7, FilterIs
  <2>2. 31 \notin cfg.id /\ 31 \in cfg.mask
    BY <1>5, <1>7
  <2>3. CASE 31 \in id
    <3>1. 2 \in word /\ 2 \notin FilterId(cfg)
      BY <1>2, <2>1, <2>3
    <3> QED
      BY <1>3, <1>4, <2>2, <2>3, <3>1
  <2>4. CASE 31 \notin id
    <3>1. /\ \A x \in Int : x \in word <=> (x = 1 /\ 30 \in id) \/ (x \in 21 .. 31 /\ x - 21 \in id)
          /\ \A w \in id : w \in 0 .. 10 \/ w = 30
          /\ \A w \in cfg.id : w \in 0 .. 10 \/ w = 30
      BY <1>1, <1>2, <2>2, <2>4
    <3>2. ASSUME \A x \in FilterMask(cfg) : x \in word <=> x \in FilterId(cfg), NEW y \in cfg.mask
          PROVE  y \in id <=> y \in cfg.id
      <4>1. CASE y \in 0 .. 10
        <5>1. PICK x \in Int : x = y + 21
          BY <4>1
        <5>2. x \in 21 .. 31 /\ x - 21 = y /\ x # 1
          BY <4>1, <5>1
        <5> QED
          BY <2>1, <3>1, <3>2, <5>2
      <4>2. CASE y = 30
        BY <2>1, <3>1, <3>2, <4>2
      <4> QED
        BY <3>1, <4>1, <4>2
    <3>3. ASSUME \A y \in cfg.mask : y \in id <=> y \in cfg.id, NEW x \in FilterMask(cfg)
          PROVE  x \in word <=> x \in FilterId(cfg)
      <4>1. CASE x = 1
        BY <2>1, <3>1, <3>3, <4>1
      <4>2. CASE x = 2
        BY <2>1, <3>1, <4>2
      <4>3. CASE x \in 21 .. 31 /\ x - 21 \in cfg.mask
        BY <2>1, <3>1, <3>3, <4>3
      <4> QED
        BY <2>1, <4>1, <4>2, <4>3
    <3>4. 2 \notin word
      BY <3>1
    <3>5. (1 \in word <=> 30 \in id) /\ (1 \in FilterId(cfg) <=> 30 \in cfg.id)
      BY <2>1, <3>1
    <3> QED
      BY <1>3, <1>4, <3>2, <3>3, <3>4, <3>5
  <2> QED
    BY <2>3, <2>4
<1> QED
  BY <1>6, <1>7

-----------------------------------------------------------------------------
(* Counting *)

LEMMA Least ==
    ASSUME NEW S, S \subseteq Nat, S # {}
    PROVE  \E n \in S : \A k \in S : n <= k
<1>1. IsWellFoundedOn(OpToRel(<, Nat), Nat)
  BY NatLessThanWellFounded, Zenon
<1>2. \E n \in S : \A k \in S : ~(<<k, n>> \in OpToRel(<, Nat))
  BY <1>1, WFMin, Zenon
<1>3. PICK n \in S : \A k \in S : ~(<<k, n>> \in OpToRel(<, Nat))
  BY <1>2, Zenon
<1>4. \A k \in S : k \in Nat /\ n \in Nat /\ ~(k < n)
  BY <1>3 DEF OpToRel
<1> QED
  BY <1>4

LEMMA Counting ==
    ASSUME NEW N \in Nat, NEW S, 0 \in S, \A k \in 0 .. N : k < N /\ k \in S => k + 1 \in S
    PROVE  \A k \in 0 .. N : k \in S
<1> DEFINE Bad == {k \in 0 .. N : k \notin S}
<1>1. SUFFICES ASSUME Bad # {}
               PROVE  FALSE
  OBVIOUS
<1>2. Bad \subseteq Nat
  OBVIOUS
<1>3. PICK n \in Bad : \A k \in Bad : n <= k
  <2> HIDE DEF Bad
  <2> QED
    BY <1>1, <1>2, Least
<1>4. n \in 0 .. N /\ n \notin S /\ n # 0
  OBVIOUS
<1>5. PICK m \in 0 .. N : m + 1 = n
  BY <1>4
<1>6. m \in S
  BY <1>3, <1>5
<1> QED
  BY <1>4, <1>5, <1>6

(* There is a function that takes as many steps as it is asked for. *)
Steps(next, N, V) == next \in [(1 .. N) \X V -> V]
Follows(g, next, N, V, v) ==
    g \in [0 .. N -> V] /\ g[0] = v /\ \A k \in 1 .. N : g[k] = next[<<k, g[k - 1]>>]

LEMMA Counts ==
    ASSUME NEW N \in Nat, NEW V, NEW v \in V, NEW next, Steps(next, N, V)
    PROVE  \E g : Follows(g, next, N, V, v)
<1> DEFINE Is(g, n) == Follows(g, next, n, V, v)
           S == {n \in 0 .. N : \E g : Is(g, n)}
<1>1. 0 \in S
  <2> DEFINE g0 == [k \in 0 .. 0 |-> v]
  <2>1. g0 \in [0 .. 0 -> V] /\ g0[0] = v
    OBVIOUS
  <2> HIDE DEF g0
  <2>2. Is(g0, 0)
    BY <2>1 DEF Follows
  <2> HIDE DEF Is
  <2> QED
    BY <2>2
<1>2. ASSUME NEW n \in 0 .. N, n < N, n \in S
      PROVE  n + 1 \in S
  <2>0. PICK g : Is(g, n)
    BY <1>2
  <2>1. g \in [0 .. n -> V] /\ g[0] = v /\ \A k \in 1 .. n : g[k] = next[<<k, g[k - 1]>>]
    BY <2>0 DEF Follows
  <2> DEFINE h == [k \in 0 .. n + 1 |-> IF k <= n THEN g[k] ELSE next[<<n + 1, g[n]>>]]
  <2>2. n + 1 \in 1 .. N /\ n \in Nat
    BY <1>2
  <2>3. next[<<n + 1, g[n]>>] \in V
    BY <2>1, <2>2 DEF Steps
  <2>4. h \in [0 .. n + 1 -> V]
    BY <2>1, <2>3
  <2>5. /\ \A k \in 0 .. n : h[k] = g[k]
        /\ h[n + 1] = next[<<n + 1, g[n]>>]
    BY <2>2
  <2> HIDE DEF h
  <2>6. ASSUME NEW k \in 1 .. n + 1
        PROVE  h[k] = next[<<k, h[k - 1]>>]
    <3>1. k - 1 \in 0 .. n /\ h[k - 1] = g[k - 1]
      BY <2>2, <2>5
    <3>2. CASE k = n + 1
      <4>1. k - 1 = n
        BY <2>2, <3>2
      <4>2. h[k - 1] = g[n]
        BY <3>1, <4>1
      <4>3. h[k] = next[<<k, g[n]>>]
        BY <2>5, <3>2
      <4> QED
        BY <4>2, <4>3
    <3>3. CASE k # n + 1
      <4>1. k \in 1 .. n /\ k \in 0 .. n
        BY <2>2, <3>3
      <4>2. h[k] = g[k] /\ g[k] = next[<<k, g[k - 1]>>]
        BY <2>1, <2>5, <4>1
      <4> QED
        BY <3>1, <4>2
    <3> QED
      BY <3>2, <3>3
  <2>7. h[0] = v
    BY <2>1, <2>2, <2>5
  <2>8. Is(h, n + 1)
    BY <2>4, <2>6, <2>7 DEF Follows
  <2>9. n + 1 \in 0 .. N
    BY <2>2
  <2> HIDE DEF Is
  <2> QED
    BY <2>8, <2>9
<1>3. \A k \in 0 .. N : k \in S
  <2> HIDE DEF S
  <2> QED
    BY <1>1, <1>2, Counting
<1>4. N \in S
  <2> HIDE DEF S
  <2> QED
    BY <1>3
<1> QED
  BY <1>4

-----------------------------------------------------------------------------
(* The CRC *)

Register == SUBSET (0 .. 15)

LEMMA ShiftIs ==
    ASSUME NEW crc \in Register
    PROVE  /\ CrcShift(crc) \in Register
           /\ \A x \in Int : x \in CrcShift(crc) <=>
                 (x # 16 /\ x - 1 \in crc) # (15 \in crc /\ (x = 0 \/ x = 5 \/ x = 12))
<1> DEFINE kept == crc \ {15}
<1>1. kept \in SUBSET Int /\ crc \in SUBSET Int
  BY DEF Register
<1>2. /\ At(kept, 1) \subseteq Int
      /\ \A x \in Int : x \in At(kept, 1) <=> x - 1 \in kept
  <2> HIDE DEF kept
  <2> QED
    BY <1>1, InAt
<1>3. \A x \in Int : x \in At(kept, 1) <=> x # 16 /\ x - 1 \in crc
  <2>1. \A x \in Int : x - 1 \in kept <=> x - 1 \in crc /\ x - 1 # 15
    OBVIOUS
  <2>2. \A x \in Int : x - 1 # 15 <=> x # 16
    OBVIOUS
  <2> HIDE DEF kept
  <2> QED
    BY <1>2, <2>1, <2>2
<1>4. At(kept, 1) \subseteq 0 .. 15
  BY <1>2, <1>3 DEF Register
<1> HIDE DEF kept
<1>5. CrcShift(crc) = IF 15 \in crc THEN Xor(At(kept, 1), {0, 5, 12}) ELSE At(kept, 1)
  BY DEF CrcShift, ShiftedLeft, Polynomial, kept
<1>6. CASE 15 \in crc
  <2>1. \A x : x \in CrcShift(crc) <=> (x \in At(kept, 1)) # (x \in {0, 5, 12})
    BY <1>5, <1>6 DEF Xor
  <2> QED
    BY <1>3, <1>4, <1>6, <2>1 DEF Register
<1>7. CASE 15 \notin crc
  BY <1>3, <1>4, <1>5, <1>7 DEF Register
<1> QED
  BY <1>6, <1>7

(* What crcAddByte goes through: eight shifts. *)
LEMMA ByteIs ==
    ASSUME NEW crc \in Register, NEW byte \in Byte
    PROVE  \E g \in [0 .. 8 -> Register] :
              /\ g[0] = Xor(crc, At(byte, 8))
              /\ \A j \in 1 .. 8 : g[j] = CrcShift(g[j - 1])
              /\ crcAddByte(crc, byte) = g[8]
<1> DEFINE first == Xor(crc, At(byte, 8))
           Is(g) == g = [j \in 0 .. 8 |-> IF j = 0 THEN first ELSE CrcShift(g[j - 1])]
           f == CHOOSE g : Is(g)
<1>1. first \in Register
  <2>1. byte \in SUBSET Int
    BY DEF Byte
  <2>2. At(byte, 8) \subseteq Int /\ \A x \in Int : x \in At(byte, 8) <=> x - 8 \in byte
    BY <2>1, InAt
  <2>3. At(byte, 8) \subseteq 0 .. 15
    BY <2>2 DEF Byte
  <2> QED
    BY <2>3 DEF Register, Xor
<1>2. crcAddByte(crc, byte) = f[8]
  BY DEF crcAddByte
<1> HIDE DEF first
<1>3. \E g : Is(g)
  <2> DEFINE next == [p \in (1 .. 8) \X Register |-> CrcShift(p[2])]
  <2>1. Steps(next, 8, Register)
    BY ShiftIs DEF Steps
  <2>2. \A k \in 1 .. 8, c \in Register : next[<<k, c>>] = CrcShift(c)
    OBVIOUS
  <2> HIDE DEF next
  <2>3. PICK g : Follows(g, next, 8, Register, first)
    <3>1. 8 \in Nat
      OBVIOUS
    <3> QED
      BY <1>1, <2>1, <3>1, Counts, Zenon
  <2>4. \A j \in 0 .. 8 : g[j] = IF j = 0 THEN first ELSE CrcShift(g[j - 1])
    BY <2>2, <2>3 DEF Follows
  <2>5. Is(g)
    BY <2>3, <2>4 DEF Follows
  <2> QED
    BY <2>5
<1>4. Is(f)
  BY <1>3
<1> HIDE DEF f
<1>5. \A j \in 0 .. 8 : f[j] = IF j = 0 THEN first ELSE CrcShift(f[j - 1])
  BY <1>4
<1>6. f[0] = first /\ \A j \in 1 .. 8 : f[j] = CrcShift(f[j - 1])
  BY <1>5
<1>7. \A j \in 0 .. 8 : f[j] \in Register
  <2> DEFINE S == {j \in 0 .. 8 : f[j] \in Register}
  <2>1. 0 \in S
    BY <1>1, <1>6
  <2>2. \A k \in 0 .. 8 : k < 8 /\ k \in S => k + 1 \in S
    BY <1>6, ShiftIs
  <2>3. \A k \in 0 .. 8 : k \in S
    <3> HIDE DEF S
    <3> QED
      BY <2>1, <2>2, Counting
  <2> QED
    BY <2>3
<1>8. f \in [0 .. 8 -> Register]
  BY <1>4, <1>7
<1> QED
  BY <1>2, <1>6, <1>8 DEF first

(* And crcAdd: as many bytes as there are. *)
LEMMA AddedIs ==
    ASSUME NEW crc \in Register, NEW bytes \in Seq(Byte)
    PROVE  \E g \in [0 .. Len(bytes) -> Register] :
              /\ g[0] = crc
              /\ \A i \in 1 .. Len(bytes) : g[i] = crcAddByte(g[i - 1], bytes[i])
              /\ crcAdd(crc, bytes) = g[Len(bytes)]
<1> DEFINE L == Len(bytes)
           Is(g) == g = [i \in 0 .. L |-> IF i = 0 THEN crc ELSE crcAddByte(g[i - 1], bytes[i])]
           f == CHOOSE g : Is(g)
<1>1. L \in Nat /\ \A i \in 1 .. L : bytes[i] \in Byte
  OBVIOUS
<1>2. crcAdd(crc, bytes) = f[L]
  BY DEF crcAdd
<1>3. \A c \in Register, b \in Byte : crcAddByte(c, b) \in Register
  BY ByteIs
<1> HIDE DEF L
<1>4. \E g : Is(g)
  <2> DEFINE next == [p \in (1 .. L) \X Register |-> crcAddByte(p[2], bytes[p[1]])]
  <2>1. Steps(next, L, Register)
    BY <1>1, <1>3 DEF Steps
  <2>2. \A k \in 1 .. L, c \in Register : next[<<k, c>>] = crcAddByte(c, bytes[k])
    OBVIOUS
  <2> HIDE DEF next
  <2>3. PICK g : Follows(g, next, L, Register, crc)
    BY <1>1, <2>1, Counts, Zenon
  <2>4. ASSUME NEW i \in 0 .. L
        PROVE  g[i] = IF i = 0 THEN crc ELSE crcAddByte(g[i - 1], bytes[i])
    <3>1. CASE i = 0
      BY <2>3, <3>1 DEF Follows
    <3>2. CASE i # 0
      <4>1. i \in 1 .. L /\ i - 1 \in 0 .. L
        BY <1>1, <3>2
      <4>2. g[i] = next[<<i, g[i - 1]>>] /\ g[i - 1] \in Register
        BY <2>3, <4>1 DEF Follows
      <4> QED
        BY <2>2, <3>2, <4>1, <4>2
    <3> QED
      BY <3>1, <3>2
  <2>5. Is(g)
    BY <2>3, <2>4 DEF Follows
  <2> QED
    BY <2>5
<1>5. Is(f)
  BY <1>4
<1> HIDE DEF f
<1>6. \A i \in 0 .. L : f[i] = IF i = 0 THEN crc ELSE crcAddByte(f[i - 1], bytes[i])
  BY <1>5
<1>7. f[0] = crc /\ \A i \in 1 .. L : f[i] = crcAddByte(f[i - 1], bytes[i])
  BY <1>1, <1>6
<1>8. \A i \in 0 .. L : f[i] \in Register
  <2> DEFINE S == {i \in 0 .. L : f[i] \in Register}
  <2>1. 0 \in S
    BY <1>1, <1>7
  <2>2. ASSUME NEW k \in 0 .. L, k < L, k \in S
        PROVE  k + 1 \in S
    <3>1. k + 1 \in 1 .. L /\ (k + 1) - 1 = k
      BY <1>1, <2>2
    <3> QED
      BY <1>1, <1>3, <1>7, <2>2, <3>1
  <2>3. \A k \in 0 .. L : k \in S
    <3> HIDE DEF S
    <3> QED
      BY <1>1, <2>1, <2>2, Counting
  <2> QED
    BY <2>3
<1>9. f \in [0 .. L -> Register]
  BY <1>5, <1>8
<1> QED
  BY <1>2, <1>7, <1>9 DEF L


-----------------------------------------------------------------------------
(* The CRC is the remainder of a division *)

Below(word, n) == {x \in word : x < n}

(* The bits of the stream are the bits of the bytes. *)
LEMMA StreamIs ==
    ASSUME NEW bytes \in Seq(Byte)
    PROVE  /\ Stream(bytes) \subseteq 0 .. 8 * Len(bytes) - 1
           /\ \A i \in 1 .. Len(bytes), v \in 0 .. 7 :
                 8 * (Len(bytes) - i) + v \in Stream(bytes) <=> v \in bytes[i]
           /\ \A x \in Stream(bytes) :
                 \E i \in 1 .. Len(bytes) : x - 8 * (Len(bytes) - i) \in bytes[i]
<1> DEFINE L == Len(bytes)
<1>1. L \in Nat /\ DOMAIN bytes = 1 .. L /\ \A i \in 1 .. L : bytes[i] \subseteq 0 .. 7
  BY DEF Byte
<1> HIDE DEF L
<1>2. ASSUME NEW x
      PROVE  x \in Stream(bytes) <=> \E i \in 1 .. L : \E v \in bytes[i] : x = v + 8 * (L - i)
  BY <1>1 DEF Stream, At, L
<1>3. ASSUME NEW i \in 1 .. L, NEW v \in bytes[i], NEW x, x = v + 8 * (L - i)
      PROVE  x \in 0 .. 8 * L - 1 /\ x - 8 * (L - i) = v
  <2>1. v \in 0 .. 7
    BY <1>1
  <2> QED
    BY <1>1, <1>3, <2>1
<1>4. ASSUME NEW i \in 1 .. L, NEW v \in 0 .. 7, 8 * (L - i) + v \in Stream(bytes)
      PROVE  v \in bytes[i]
  <2>0. PICK m \in 1 .. L : \E u \in bytes[m] : 8 * (L - i) + v = u + 8 * (L - m)
    BY <1>2, <1>4
  <2>1. PICK u \in bytes[m] : 8 * (L - i) + v = u + 8 * (L - m)
    BY <2>0
  <2>2. u \in 0 .. 7
    BY <1>1
  <2>3. i = m /\ u = v
    BY <1>1, <2>1, <2>2
  <2> QED
    BY <2>3
<1>5. ASSUME NEW i \in 1 .. L, NEW v \in 0 .. 7, v \in bytes[i]
      PROVE  8 * (L - i) + v \in Stream(bytes)
  <2>1. 8 * (L - i) + v = v + 8 * (L - i)
    BY <1>1
  <2> QED
    BY <1>2, <1>5, <2>1
<1>6. Stream(bytes) \subseteq 0 .. 8 * L - 1
  BY <1>2, <1>3
<1>7. \A x \in Stream(bytes) : \E i \in 1 .. L : x - 8 * (L - i) \in bytes[i]
  BY <1>2, <1>3
<1> QED
  BY <1>4, <1>5, <1>6, <1>7 DEF L

(* One step of the division is one shift of the register. *)
LEMMA ReducedIs ==
    ASSUME NEW crc \in Register, NEW s \in Int, NEW low \in SUBSET Int, \A y \in low : y < s + 15
    PROVE  Reduced(Xor(At(crc, s), low), s + 15) = Xor(At(CrcShift(crc), s - 1), low)
<1> DEFINE next == CrcShift(crc)
           a == At(crc, s)
           b == At(next, s - 1)
           d == At(Divisor, s - 1)
<1>1. crc \in SUBSET Int /\ next \in SUBSET Int /\ Divisor \in SUBSET Int /\ s - 1 \in Int
      /\ s + 15 \in Int
  BY ShiftIs DEF Register, Divisor, Polynomial
<1>2. \A x \in Int : x \in next <=>
         (x # 16 /\ x - 1 \in crc) # (15 \in crc /\ (x = 0 \/ x = 5 \/ x = 12))
  BY ShiftIs
<1> HIDE DEF next
<1>3. a \subseteq Int /\ \A y \in Int : y \in a <=> y - s \in crc
  BY <1>1, InAt
<1>4. b \subseteq Int /\ \A y \in Int : y \in b <=> y - (s - 1) \in next
  BY <1>1, InAt
<1>5. d \subseteq Int /\ \A y \in Int : y \in d <=> y - (s - 1) \in Divisor
  BY <1>1, InAt
<1>6. \A x : x \in Divisor <=> x = 0 \/ x = 5 \/ x = 12 \/ x = 16
  BY DEF Divisor, Polynomial
<1>7. (s + 15) - 16 = s - 1 /\ (s + 15) - s = 15
  OBVIOUS
<1> HIDE DEF a, b, d
<1>8. s + 15 \in Xor(a, low) <=> 15 \in crc
  <2>1. s + 15 \notin low
    BY <1>1
  <2>2. s + 15 \in a <=> 15 \in crc
    BY <1>1, <1>3, <1>7
  <2> QED
    BY <2>1, <2>2 DEF Xor
<1>9. Reduced(Xor(a, low), s + 15) = IF 15 \in crc THEN Xor(Xor(a, low), d) ELSE Xor(a, low)
  BY <1>7, <1>8 DEF Reduced, d
<1>10. ASSUME NEW y \in Int
       PROVE  y \in b <=> (y \in a) # (15 \in crc /\ y \in d)
  <2>1. PICK x \in Int : x = y - (s - 1)
    OBVIOUS
  <2>2. x - 1 = y - s /\ y - s \in Int
    BY <2>1
  <2>3. y \in b <=> (x # 16 /\ x - 1 \in crc) # (15 \in crc /\ (x = 0 \/ x = 5 \/ x = 12))
    BY <1>2, <1>4, <2>1
  <2>4. (y \in a <=> x - 1 \in crc)
    BY <1>3, <2>2
  <2>5. y \in d <=> x = 0 \/ x = 5 \/ x = 12 \/ x = 16
    BY <1>5, <1>6, <2>1
  <2>6. CASE x = 16
    BY <2>3, <2>4, <2>5, <2>6
  <2>7. CASE x # 16
    BY <2>3, <2>4, <2>5, <2>7
  <2> QED
    BY <2>6, <2>7
<1>11. CASE 15 \in crc
  <2>1. \A y \in Int : y \in Xor(Xor(a, low), d) <=> y \in Xor(b, low)
    BY <1>10, <1>11 DEF Xor
  <2>2. Xor(Xor(a, low), d) \subseteq Int /\ Xor(b, low) \subseteq Int
    BY <1>3, <1>4, <1>5 DEF Xor
  <2>3. Xor(Xor(a, low), d) = Xor(b, low)
    BY <2>1, <2>2
  <2> QED
    BY <1>9, <1>11, <2>3 DEF a, b, next
<1>12. CASE 15 \notin crc
  <2>1. \A y \in Int : y \in Xor(a, low) <=> y \in Xor(b, low)
    BY <1>10, <1>12 DEF Xor
  <2>2. Xor(a, low) \subseteq Int /\ Xor(b, low) \subseteq Int
    BY <1>3, <1>4 DEF Xor
  <2>3. Xor(a, low) = Xor(b, low)
    BY <2>1, <2>2
  <2> QED
    BY <1>9, <1>12, <2>3 DEF a, b, next
<1> QED
  BY <1>11, <1>12

(* The rests of the long division of `start' and the bytes. *)
Rests(r, start, bytes) ==
    LET width == 8 * Len(bytes)
    IN  /\ r[0] = Xor(At(start, width), At(Stream(bytes), 16))
        /\ \A n \in 1 .. width : r[n] = Reduced(r[n - 1], width + 16 - n)

(* After i bytes the rest is the register, with the bytes below it that are left. *)
AtByte(r, bytes, i, crc) ==
    LET m == 8 * (Len(bytes) - i)
    IN  r[8 * i] = Xor(At(crc, m), Below(At(Stream(bytes), 16), m + 16))

LEMMA EightSteps ==
    ASSUME NEW start, NEW bytes \in Seq(Byte), NEW r, NEW i \in 0 .. Len(bytes) - 1,
           NEW crc \in Register, Rests(r, start, bytes), AtByte(r, bytes, i, crc)
    PROVE  AtByte(r, bytes, i + 1, crcAddByte(crc, bytes[i + 1]))
<1> DEFINE all == At(Stream(bytes), 16)
           m == 8 * (Len(bytes) - i)
<1>a. /\ Rests(r, start, bytes) /\ all = At(Stream(bytes), 16)
      /\ i \in 0 .. Len(bytes) - 1 /\ m = 8 * (Len(bytes) - i)
      /\ r[8 * i] = Xor(At(crc, m), Below(all, m + 16))
  BY DEF AtByte
<1> HIDE DEF all, m
<1> DEFINE L == Len(bytes)
           byte == bytes[i + 1]
           low == Below(all, m + 8)
           first == Xor(crc, At(byte, 8))
<1>1. L \in Nat /\ i \in Nat /\ i + 1 \in 1 .. L /\ m \in Int /\ m = 8 * (L - i) /\ m >= 8
  BY <1>a
<1>0. low = Below(all, m + 8) /\ first = Xor(crc, At(byte, 8))
  OBVIOUS
<1> HIDE DEF L, low, first
<1>2. byte \in Byte /\ byte \in SUBSET Int
  BY <1>1 DEF Byte, L
<1>3. /\ Stream(bytes) \in SUBSET Int
      /\ \A v \in 0 .. 7 : 8 * (L - (i + 1)) + v \in Stream(bytes) <=> v \in byte
  BY <1>1, StreamIs DEF L
<1> HIDE DEF byte
<1>4. all \subseteq Int /\ \A x \in Int : x \in all <=> x - 16 \in Stream(bytes)
  <2> DEFINE stream == Stream(bytes)
  <2>1. stream \in SUBSET Int
    BY <1>3
  <2> HIDE DEF stream
  <2>2. At(stream, 16) \subseteq Int /\ \A x \in Int : x \in At(stream, 16) <=> x - 16 \in stream
    BY <2>1, InAt
  <2> QED
    BY <1>a, <2>2 DEF stream
<1>5. \A x \in Int : m + 8 <= x /\ x < m + 16 => (x \in all <=> x - m - 8 \in byte)
  <2>1. ASSUME NEW x \in Int, m + 8 <= x, x < m + 16
        PROVE  x \in all <=> x - m - 8 \in byte
    <3>1. PICK v \in 0 .. 7 : v = x - m - 8
      <4>1. x - m - 8 \in 0 .. 7
        BY <1>1, <2>1
      <4> QED
        BY <4>1
    <3>2. x - 16 = 8 * (L - (i + 1)) + v
      BY <1>1, <3>1
    <3> QED
      BY <1>3, <1>4, <3>1, <3>2
  <2> QED
    BY <2>1
<1>6. /\ At(byte, 8) \subseteq Int
      /\ \A x \in Int : x \in At(byte, 8) <=> x - 8 \in byte
  BY <1>2, InAt
<1>7. first \in SUBSET Int /\ crc \in SUBSET Int
  <2>1. crc \in SUBSET Int
    BY DEF Register
  <2>2. Xor(crc, At(byte, 8)) \subseteq Int
    <3> DEFINE shifted == At(byte, 8)
    <3>1. shifted \subseteq Int
      BY <1>6
    <3> HIDE DEF shifted
    <3>2. Xor(crc, shifted) \subseteq Int
      BY <2>1, <3>1 DEF Xor
    <3> QED
      BY <3>2 DEF shifted
  <2> QED
    BY <1>0, <2>1, <2>2
<1>8. r[8 * i] = Xor(At(first, m), low)
  <2>1. /\ At(first, m) \subseteq Int /\ \A x \in Int : x \in At(first, m) <=> x - m \in first
        /\ At(crc, m) \subseteq Int /\ \A x \in Int : x \in At(crc, m) <=> x - m \in crc
    <3>1. At(first, m) \subseteq Int /\ \A x \in Int : x \in At(first, m) <=> x - m \in first
      BY <1>1, <1>7, InAt
    <3>2. At(crc, m) \subseteq Int /\ \A x \in Int : x \in At(crc, m) <=> x - m \in crc
      BY <1>1, <1>7, InAt
    <3> QED
      BY <3>1, <3>2
  <2>2. \A x : x \in first <=> (x \in crc) # (x \in At(byte, 8))
    BY <1>0 DEF Xor
  <2>3. ASSUME NEW x \in Int
        PROVE  x \in Xor(At(crc, m), Below(all, m + 16)) <=> x \in Xor(At(first, m), low)
    <3>1. x - m \in Int /\ (x - m) - 8 = x - m - 8
      BY <1>1
    <3>2. x \in At(first, m) <=> (x \in At(crc, m)) # (x - m - 8 \in byte)
      <4>1. x - m \in At(byte, 8) <=> x - m - 8 \in byte
        BY <1>6, <3>1
      <4>2. (x \in At(first, m) <=> x - m \in first) /\ (x \in At(crc, m) <=> x - m \in crc)
        BY <2>1
      <4> QED
        BY <2>2, <4>1, <4>2
    <3>3. x - m - 8 \in byte => m + 8 <= x /\ x < m + 16
      <4>1. x - m - 8 \in byte => x - m - 8 \in 0 .. 7
        BY <1>2 DEF Byte
      <4> QED
        BY <1>1, <4>1
    <3>4. x \in Below(all, m + 16) <=> (x - m - 8 \in byte) # (x \in low)
      <4>1. CASE m + 8 <= x /\ x < m + 16
        <5>1. ~(x < m + 8) /\ x < m + 16
          BY <1>1, <4>1
        <5> QED
          BY <1>0, <1>5, <4>1, <5>1 DEF Below
      <4>2. CASE ~(m + 8 <= x /\ x < m + 16)
        <5>1. (x < m + 16) <=> (x < m + 8)
          BY <1>1, <4>2
        <5> QED
          BY <1>0, <3>3, <4>2, <5>1 DEF Below
      <4> QED
        BY <4>1, <4>2
    <3> QED
      BY <3>2, <3>4 DEF Xor
  <2>4. /\ Xor(At(crc, m), Below(all, m + 16)) \subseteq Int
        /\ Xor(At(first, m), low) \subseteq Int
    BY <1>0, <1>4, <2>1 DEF Xor, Below
  <2> QED
    BY <1>a, <2>3, <2>4
<1>9. PICK g \in [0 .. 8 -> Register] :
         /\ g[0] = first
         /\ \A j \in 1 .. 8 : g[j] = CrcShift(g[j - 1])
         /\ crcAddByte(crc, byte) = g[8]
  BY <1>0, <1>2, ByteIs
<1> DEFINE S == {j \in 0 .. 8 : r[8 * i + j] = Xor(At(g[j], m - j), low)}
<1>10. 0 \in S
  <2>1. 8 * i + 0 = 8 * i /\ m - 0 = m
    BY <1>1
  <2> QED
    BY <1>8, <1>9, <2>1
<1>11. ASSUME NEW j \in 0 .. 8, j < 8, j \in S
       PROVE  j + 1 \in S
  <2>1. /\ 8 * i + j + 1 \in 1 .. 8 * L /\ (8 * i + j + 1) - 1 = 8 * i + j
        /\ 8 * L + 16 - (8 * i + j + 1) = (m - j) + 15
        /\ m - j \in Int /\ m - (j + 1) = (m - j) - 1 /\ 8 * i + (j + 1) = 8 * i + j + 1
        /\ j + 1 \in 1 .. 8 /\ (j + 1) - 1 = j /\ j \in 0 .. 8
    BY <1>1, <1>11
  <2>2. r[8 * i + j + 1] = Reduced(r[8 * i + j], (m - j) + 15)
    BY <1>a, <2>1 DEF Rests, L
  <2>3. r[8 * i + j] = Xor(At(g[j], m - j), low)
    BY <1>11
  <2>4. low \in SUBSET Int /\ \A y \in low : y < (m - j) + 15
    <3>1. \A y \in Int : y < m + 8 => y < (m - j) + 15
      BY <1>1, <1>11
    <3> QED
      BY <1>0, <1>4, <3>1 DEF Below
  <2>5. g[j] \in Register /\ g[j + 1] = CrcShift(g[j])
    BY <1>9, <2>1
  <2>6. Reduced(Xor(At(g[j], m - j), low), (m - j) + 15)
           = Xor(At(CrcShift(g[j]), (m - j) - 1), low)
    BY <2>1, <2>4, <2>5, ReducedIs, Zenon
  <2>7. r[8 * i + (j + 1)] = Xor(At(g[j + 1], m - (j + 1)), low)
    BY <2>1, <2>2, <2>3, <2>5, <2>6
  <2>8. j + 1 \in 0 .. 8
    BY <1>11
  <2> QED
    BY <2>7, <2>8
<1>12. \A j \in 0 .. 8 : j \in S
  <2> HIDE DEF S
  <2> QED
    BY <1>10, <1>11, Counting
<1>13. 8 \in S
  <2> HIDE DEF S
  <2> QED
    BY <1>12
<1>14. r[8 * i + 8] = Xor(At(crcAddByte(crc, byte), m - 8), Below(all, m + 8))
  BY <1>0, <1>9, <1>13
<1>15. /\ 8 * (Len(bytes) - (i + 1)) = m - 8 /\ 8 * (i + 1) = 8 * i + 8
       /\ 8 * (Len(bytes) - (i + 1)) + 16 = m + 8
  BY <1>1 DEF L
<1> QED
  BY <1>a, <1>14, <1>15 DEF byte, AtByte

LEMMA LongDivision ==
    ASSUME NEW start \in Register, NEW bytes \in Seq(Byte), NEW r, Rests(r, start, bytes)
    PROVE  r[8 * Len(bytes)] = crcAdd(start, bytes)
<1> DEFINE L == Len(bytes)
           all == At(Stream(bytes), 16)
<1>a. Rests(r, start, bytes)
  OBVIOUS
<1>1. L \in Nat
  OBVIOUS
<1>2. Stream(bytes) \in SUBSET Int /\ \A x \in Stream(bytes) : x < 8 * L
  <2>1. Stream(bytes) \subseteq 0 .. 8 * L - 1
    BY StreamIs
  <2> HIDE DEF L
  <2> QED
    BY <1>1, <2>1
<1>3. all \subseteq Int /\ \A x \in Int : x \in all <=> x - 16 \in Stream(bytes)
  <2> DEFINE stream == Stream(bytes)
  <2>1. stream \in SUBSET Int
    BY <1>2
  <2> HIDE DEF stream
  <2>2. At(stream, 16) \subseteq Int /\ \A x \in Int : x \in At(stream, 16) <=> x - 16 \in stream
    BY <2>1, InAt
  <2> QED
    BY <2>2 DEF stream
<1>4. \A x \in all : x < 8 * L + 16
  <2>1. \A x \in all : x \in Int /\ x - 16 < 8 * L
    BY <1>2, <1>3
  <2> HIDE DEF L
  <2> QED
    BY <1>1, <2>1
<1>5. PICK g \in [0 .. L -> Register] :
         /\ g[0] = start
         /\ \A i \in 1 .. L : g[i] = crcAddByte(g[i - 1], bytes[i])
         /\ crcAdd(start, bytes) = g[L]
  BY AddedIs
<1> DEFINE S == {i \in 0 .. L : AtByte(r, bytes, i, g[i])}
<1>6. 0 \in S
  <2>1. 8 * 0 = 0 /\ 8 * (L - 0) = 8 * L
    BY <1>1
  <2>2. Below(all, 8 * L + 16) = all
    BY <1>4 DEF Below
  <2>3. r[0] = Xor(At(start, 8 * L), all)
    BY <1>a DEF Rests
  <2> HIDE DEF all
  <2>4. r[8 * 0] = Xor(At(g[0], 8 * (L - 0)), Below(all, 8 * (L - 0) + 16))
    BY <1>5, <2>1, <2>2, <2>3
  <2>5. 0 \in 0 .. L
    BY <1>1
  <2> QED
    BY <2>4, <2>5 DEF AtByte, all
<1>7. ASSUME NEW i \in 0 .. L, i < L, i \in S
      PROVE  i + 1 \in S
  <2>1. AtByte(r, bytes, i, g[i])
    BY <1>7
  <2>2. i \in 0 .. Len(bytes) - 1 /\ i + 1 \in 1 .. L /\ (i + 1) - 1 = i /\ i + 1 \in 0 .. L
    BY <1>1, <1>7
  <2>3. g[i] \in Register /\ g[i + 1] = crcAddByte(g[i], bytes[i + 1])
    BY <1>5, <2>2
  <2>4. AtByte(r, bytes, i + 1, crcAddByte(g[i], bytes[i + 1]))
    BY <1>a, <2>1, <2>2, <2>3, EightSteps, Zenon
  <2> QED
    BY <2>2, <2>3, <2>4
<1>8. L \in S
  <2> HIDE DEF S
  <2>1. \A i \in 0 .. L : i \in S
    BY <1>1, <1>6, <1>7, Counting
  <2> QED
    BY <1>1, <2>1
<1>9. r[8 * L] = Xor(At(g[L], 8 * (L - L)), Below(all, 8 * (L - L) + 16))
  BY <1>8 DEF AtByte
<1>10. 8 * (L - L) = 0 /\ 8 * (L - L) + 16 = 16
  BY <1>1
<1>11. Below(all, 16) = {}
  <2>1. \A x \in all : x \in Int /\ x - 16 >= 0
    BY <1>3, StreamIs
  <2> HIDE DEF all
  <2>2. \A x \in all : ~(x < 16)
    BY <2>1
  <2> QED
    BY <2>2 DEF Below
<1>12. At(g[L], 0) = g[L]
  <2>1. g[L] \in SUBSET Int
    <3>1. L \in 0 .. L
      BY <1>1
    <3> HIDE DEF L
    <3>2. g[L] \in Register
      BY <1>5, <3>1, Zenon
    <3>3. \A c \in Register : c \in SUBSET Int
      BY DEF Register
    <3> QED
      BY <3>2, <3>3, Zenon
  <2>2. \A x \in g[L] : x \in Int /\ x + 0 = x
    BY <2>1
  <2> QED
    BY <2>2 DEF At
<1>13. Xor(g[L], {}) = g[L]
  BY DEF Xor
<1> HIDE DEF all, L
<1>14. r[8 * L] = g[L]
  BY <1>9, <1>10, <1>11, <1>12, <1>13
<1> QED
  BY <1>5, <1>14 DEF L

(* The long division goes through. *)
LEMMA RestsExist ==
    ASSUME NEW start \in Register, NEW bytes \in Seq(Byte)
    PROVE  \E r \in [0 .. 8 * Len(bytes) -> SUBSET Int] : Rests(r, start, bytes)
<1> DEFINE W == 8 * Len(bytes)
           V == SUBSET Int
           first == Xor(At(start, W), At(Stream(bytes), 16))
           next == [p \in (1 .. W) \X V |-> Reduced(p[2], W + 16 - p[1])]
<1>1. W \in Nat
  OBVIOUS
<1> HIDE DEF W
<1>2. first \in V
  <2> DEFINE stream == Stream(bytes)
  <2>1. start \in SUBSET Int /\ stream \in SUBSET Int /\ 16 \in Int /\ W \in Int
    BY <1>1, StreamIs DEF Register
  <2> HIDE DEF stream
  <2>2. At(start, W) \subseteq Int
    BY <2>1, InAt
  <2>3. At(stream, 16) \subseteq Int
    BY <2>1, InAt
  <2>4. Xor(At(start, W), At(stream, 16)) \subseteq Int
    BY <2>2, <2>3, InXor
  <2> QED
    BY <2>4 DEF stream
<1> HIDE DEF first
<1>3. \A rest \in V, k \in Int : Reduced(rest, k) \in V
  <2>1. SUFFICES ASSUME NEW rest \in SUBSET Int, NEW k \in Int
                 PROVE  Reduced(rest, k) \in SUBSET Int
    OBVIOUS
  <2>2. Divisor \in SUBSET Int /\ k - 16 \in Int
    BY DEF Divisor, Polynomial
  <2>3. At(Divisor, k - 16) \subseteq Int
    BY <2>2, InAt
  <2>4. Xor(rest, At(Divisor, k - 16)) \subseteq Int
    BY <2>3 DEF Xor
  <2> QED
    BY <2>4 DEF Reduced
<1> HIDE DEF V
<1>4. Steps(next, W, V)
  <2>1. \A p \in (1 .. W) \X V : Reduced(p[2], W + 16 - p[1]) \in V
    BY <1>1, <1>3
  <2> QED
    BY <2>1 DEF Steps
<1>5. \A k \in 1 .. W, rest \in V : next[<<k, rest>>] = Reduced(rest, W + 16 - k)
  OBVIOUS
<1> HIDE DEF next
<1>6. PICK r : Follows(r, next, W, V, first)
  BY <1>1, <1>2, <1>4, Counts, Zenon
<1>7. /\ r \in [0 .. W -> V]
      /\ r[0] = first
      /\ \A k \in 1 .. W : r[k] = next[<<k, r[k - 1]>>]
  BY <1>6 DEF Follows
<1>8. \A k \in 1 .. W : r[k - 1] \in V
  <2>1. \A k \in 1 .. W : k - 1 \in 0 .. W
    BY <1>1
  <2> QED
    BY <1>7, <2>1
<1>9. \A k \in 1 .. W : r[k] = Reduced(r[k - 1], W + 16 - k)
  BY <1>5, <1>7, <1>8
<1>10. Rests(r, start, bytes)
  BY <1>7, <1>9 DEF Rests, first, W
<1> QED
  BY <1>7, <1>10 DEF W, V

(* The division of the bytes after 0xFFFF leaves what crc16_CCITT computes. *)
LEMMA CrcIsRemainder ==
    ASSUME NEW bytes \in Seq(Byte)
    PROVE  crc16_CCITT(bytes) = Remainder(bytes)
<1> DEFINE W == 8 * Len(bytes)
           start == 0 .. 15
           Is(r) == r = [n \in 0 .. W |->
                           IF n = 0 THEN Xor(At(0 .. 15, W), At(Stream(bytes), 16))
                           ELSE Reduced(r[n - 1], W + 16 - n)]
           rest == CHOOSE r : Is(r)
<1>1. W \in Nat
  OBVIOUS
<1>2. Remainder(bytes) = rest[W]
  BY DEF Remainder
<1>3. start \in Register
  BY DEF Register
<1>4. \E r : Is(r)
  <2> HIDE DEF start
  <2>1. PICK r \in [0 .. 8 * Len(bytes) -> SUBSET Int] : Rests(r, start, bytes)
    BY <1>3, RestsExist
  <2>2. /\ r[0] = Xor(At(0 .. 15, W), At(Stream(bytes), 16))
        /\ \A n \in 1 .. W : r[n] = Reduced(r[n - 1], W + 16 - n)
    BY <2>1 DEF Rests, start
  <2> HIDE DEF W
  <2>3. ASSUME NEW n \in 0 .. W
        PROVE  r[n] = IF n = 0 THEN Xor(At(0 .. 15, W), At(Stream(bytes), 16))
                      ELSE Reduced(r[n - 1], W + 16 - n)
    <3>1. CASE n = 0
      BY <2>2, <3>1
    <3>2. CASE n # 0
      <4>1. n \in 1 .. W
        BY <1>1, <3>2
      <4> QED
        BY <2>2, <3>2, <4>1
    <3> QED
      BY <3>1, <3>2
  <2>4. Is(r)
    BY <2>1, <2>3 DEF W
  <2> QED
    BY <2>4
<1>5. Is(rest)
  BY <1>4
<1> HIDE DEF rest
<1>6. /\ rest[0] = Xor(At(start, W), At(Stream(bytes), 16))
      /\ \A n \in 1 .. W : rest[n] = Reduced(rest[n - 1], W + 16 - n)
  <2> HIDE DEF W
  <2>1. \A n \in 1 .. W : n \in 0 .. W /\ n # 0
    BY <1>1
  <2>2. 0 \in 0 .. W
    BY <1>1
  <2> QED
    BY <1>5, <2>1, <2>2
<1>7. Rests(rest, start, bytes)
  BY <1>6 DEF Rests
<1>8. rest[8 * Len(bytes)] = crcAdd(start, bytes)
  <2> HIDE DEF start
  <2> QED
    BY <1>3, <1>7, LongDivision
<1> QED
  BY <1>2, <1>8 DEF crc16_CCITT
-----------------------------------------------------------------------------
(* Identifiers *)

LEMMA TransferIs ==
    ASSUME NEW t, NEW payload, IsTransfer(t, payload)
    PROVE  /\ t.priority \in SUBSET Int /\ t.type \in SUBSET Int
           /\ t.source \in SUBSET Int /\ t.destination \in SUBSET Int
           /\ \A w \in t.priority : w \in 0 .. 4
           /\ \A w \in t.type : w \in 0 .. 15
           /\ Service(t) => \A w \in t.type : w \in 0 .. 7
           /\ Anonymous(t) => \A w \in t.type : w \in 0 .. 1
           /\ \A w \in t.source : w \in 0 .. 6
           /\ \A w \in t.destination : w \in 0 .. 6
           /\ Service(t) => ~Anonymous(t)
           /\ Service(t) <=> t.kind = "request" \/ t.kind = "response"
           /\ t.source = {} <=> Anonymous(t)
<1>1. Anonymous(t) => t.type \subseteq {0, 1}
  BY DEF IsTransfer, AnonymousAllowed
<1>2. t.type \subseteq 0 .. 15 /\ (Service(t) => t.type \subseteq 0 .. 7)
  <2>1. t.type \subseteq 0 .. (IF Service(t) THEN 7 ELSE 15)
    BY DEF IsTransfer
  <2>2. CASE Service(t)
    BY <2>1, <2>2
  <2>3. CASE ~Service(t)
    BY <2>1, <2>3
  <2> QED
    BY <2>2, <2>3
<1>3. /\ Service(t) => ~Anonymous(t)
      /\ Service(t) <=> t.kind = "request" \/ t.kind = "response"
  BY DEF Service, Anonymous
<1> QED
  BY <1>1, <1>2, <1>3 DEF IsTransfer

(* The identifier, bit by bit. *)
LEMMA ServiceIdIs ==
    ASSUME NEW t, NEW payload, IsTransfer(t, payload), Service(t)
    PROVE  /\ CanId(t, payload) \in SUBSET Int
           /\ \A x \in Int : x \in CanId(t, payload) <=>
                 \/ x = 31 \/ x - 24 \in t.priority \/ x - 16 \in t.type
                 \/ x = 15 /\ t.kind = "request"
                 \/ x - 8 \in t.destination \/ x = 7 \/ x \in t.source
<1>1. /\ t.priority \in SUBSET Int /\ t.type \in SUBSET Int
      /\ t.source \in SUBSET Int /\ t.destination \in SUBSET Int
  BY TransferIs
<1>2. /\ At(t.priority, 24) \subseteq Int
      /\ \A x \in Int : x \in At(t.priority, 24) <=> x - 24 \in t.priority
      /\ At(t.type, 16) \subseteq Int /\ \A x \in Int : x \in At(t.type, 16) <=> x - 16 \in t.type
      /\ At(t.destination, 8) \subseteq Int
      /\ \A x \in Int : x \in At(t.destination, 8) <=> x - 8 \in t.destination
  BY <1>1, InAt
<1>3. CanId(t, payload) = At(t.priority, 24) \cup At(t.type, 16)
         \cup (IF t.kind = "request" THEN {15} ELSE {}) \cup At(t.destination, 8) \cup {7}
         \cup t.source \cup {31}
  BY DEF CanId, ServiceId, EFF
<1> QED
  BY <1>1, <1>2, <1>3

LEMMA MessageIdIs ==
    ASSUME NEW t, NEW payload, IsTransfer(t, payload), ~Service(t)
    PROVE  /\ CanId(t, payload) \in SUBSET Int
           /\ \A x \in Int : x \in CanId(t, payload) <=>
                 \/ x = 31 \/ x - 24 \in t.priority \/ x - 8 \in t.type \/ x \in t.source
                 \/ Anonymous(t) /\ x - 9 \in Discriminator(payload)
           /\ \A x \in Discriminator(payload) : x \in 1 .. 14
<1> DEFINE D == Discriminator(payload)
<1>1. /\ t.priority \in SUBSET Int /\ t.type \in SUBSET Int
      /\ t.source \in SUBSET Int /\ D \in SUBSET Int /\ \A x \in D : x \in 1 .. 14
      /\ Anonymous(t) => t.type \cap {0, 1} = t.type
  <2>1. D \in SUBSET Int /\ \A x \in D : x \in 1 .. 14
    BY DEF Discriminator
  <2>2. Anonymous(t) => t.type \cap {0, 1} = t.type
    BY TransferIs
  <2> QED
    BY <2>1, <2>2, TransferIs
<1> HIDE DEF D
<1>2. /\ At(t.priority, 24) \subseteq Int
      /\ \A x \in Int : x \in At(t.priority, 24) <=> x - 24 \in t.priority
      /\ At(t.type, 8) \subseteq Int /\ \A x \in Int : x \in At(t.type, 8) <=> x - 8 \in t.type
      /\ At(D, 9) \subseteq Int /\ \A x \in Int : x \in At(D, 9) <=> x - 9 \in D
  BY <1>1, InAt
<1>3. CanId(t, payload) = At(t.priority, 24)
         \cup (IF Anonymous(t) THEN At(D, 9) \cup At(t.type, 8) ELSE At(t.type, 8))
         \cup t.source \cup {31}
  BY <1>1 DEF CanId, MessageId, EFF, D
<1> QED
  BY <1>1, <1>2, <1>3 DEF D

LEMMA AVRFilterIs ==
    ASSUME NEW node, node \in SUBSET Int, NEW id
    PROVE  AVRPasses(node, id) <=>
              7 \notin id \/ \A y \in 7 .. 14 : y \in id <=> y = 7 \/ y - 8 \in node
<1> DEFINE f == [id |-> {}, mask |-> {7}]
           g == [id |-> At(node, 8) \cup {7}, mask |-> 7 .. 14]
<1>1. AVRPasses(node, id) <=> id \cap f.mask = f.id \cap f.mask \/ id \cap g.mask = g.id \cap g.mask
  BY DEF AVRPasses, AVRFilters
<1>2. id \cap f.mask = f.id \cap f.mask <=> 7 \notin id
  OBVIOUS
<1>3. \A x \in Int : x \in At(node, 8) <=> x - 8 \in node
  BY InAt
<1>4. id \cap g.mask = g.id \cap g.mask <=> \A y \in 7 .. 14 : y \in id <=> y \in At(node, 8) \cup {7}
  OBVIOUS
<1>5. \A y \in 7 .. 14 : y \in At(node, 8) \cup {7} <=> y = 7 \/ y - 8 \in node
  BY <1>3
<1> QED
  BY <1>1, <1>2, <1>4, <1>5

LEMMA AVRPassesWhatIsMeant ==
    ASSUME NEW t, NEW payload, IsTransfer(t, payload), NEW node, node \subseteq 0 .. 6
    PROVE  AVRPasses(node, CanId(t, payload)) <=> ~Service(t) \/ t.destination = node
<1> DEFINE id == CanId(t, payload)
<1>1. /\ \A w \in t.priority : w \in 0 .. 4
      /\ \A w \in t.source : w \in 0 .. 6
      /\ \A w \in t.type : w \in 0 .. 15
      /\ \A w \in t.destination : w \in 0 .. 6
      /\ node \in SUBSET Int
  BY TransferIs
<1>2. CASE ~Service(t)
  <2>1. 7 \notin id
    BY <1>1, <1>2, MessageIdIs, TransferIs
  <2> QED
    BY <1>1, <1>2, <2>1, AVRFilterIs
<1>3. CASE Service(t)
  <2>1. \A x \in Int : x \in id <=>
           \/ x = 31 \/ x - 24 \in t.priority \/ x - 16 \in t.type
           \/ x = 15 /\ t.kind = "request"
           \/ x - 8 \in t.destination \/ x = 7 \/ x \in t.source
    BY <1>3, ServiceIdIs
  <2> HIDE DEF id
  <2>2. 7 \in id
    BY <2>1
  <2>3. \A y \in 7 .. 14 : y \in id <=> y = 7 \/ y - 8 \in t.destination
    <3>1. \A y \in 7 .. 14 : y - 24 \notin t.priority /\ y - 16 \notin t.type /\ y \notin t.source
      BY <1>1, TransferIs
    <3> QED
      BY <2>1, <3>1
  <2>4. (\A y \in 7 .. 14 : y = 7 \/ y - 8 \in t.destination <=> y = 7 \/ y - 8 \in node)
           <=> t.destination = node
    <3>1. ASSUME \A y \in 7 .. 14 : y = 7 \/ y - 8 \in t.destination <=> y = 7 \/ y - 8 \in node,
                 NEW w \in 0 .. 6
          PROVE  w \in t.destination <=> w \in node
      <4>1. PICK y \in Int : y = w + 8
        OBVIOUS
      <4>2. y \in 7 .. 14 /\ y # 7 /\ y - 8 = w
        BY <4>1
      <4> QED
        BY <3>1, <4>2
    <3>2. t.destination \subseteq 0 .. 6 /\ node \subseteq 0 .. 6
      BY DEF IsTransfer
    <3>3. ASSUME \A y \in 7 .. 14 : y = 7 \/ y - 8 \in t.destination <=> y = 7 \/ y - 8 \in node
          PROVE  t.destination = node
      BY <3>1, <3>2, <3>3
    <3> QED
      BY <3>3, Zenon
  <2>5. AVRPasses(node, id) <=> \A y \in 7 .. 14 : y \in id <=> y = 7 \/ y - 8 \in node
    BY <1>1, <2>2, AVRFilterIs
  <2> QED
    BY <1>3, <2>3, <2>4, <2>5 DEF id
<1> QED
  BY <1>2, <1>3

(* The banks of the bxCAN controller, and the filters of the AVR driver, accept what they    *)
(* are configured for, whatever the configuration and the frame.                     *)
THEOREM FiltersPassWhatIsMeant == TablesSpec => []FiltersAsMeant
<1>1. ASSUME sample \in Samples
      PROVE  FiltersAsMeant
  <2>1. IsSample(sample)
    BY <1>1, TablesAssumption
  <2>2. ASSUME sample.table = "filter", EFF \in sample.id \/ ~ExtendedBank(sample.filter)
        PROVE  Passes(sample.filter, sample.id)
                  <=> /\ sample.id \cap sample.filter.mask = sample.filter.id \cap sample.filter.mask
                      /\ RTR \in sample.id => RTR \in sample.filter.id
    BY <2>1, <2>2, BankPasses DEF IsSample, EFF, RTR
  <2>3. ASSUME sample.table = "transfer"
        PROVE  AVRPasses(sample.node, CanId(sample.transfer, sample.payload))
                  <=> ~Service(sample.transfer) \/ sample.transfer.destination = sample.node
    BY <2>1, <2>3, AVRPassesWhatIsMeant DEF IsSample
  <2> QED
    BY <2>2, <2>3 DEF FiltersAsMeant
<1>2. TablesInit => sample \in Samples
  BY DEF TablesInit
<1>3. sample \in Samples /\ [UNCHANGED sample]_sample => (sample \in Samples)'
  OBVIOUS
<1> QED
  BY <1>1, <1>2, <1>3, PTL DEF TablesSpec


-----------------------------------------------------------------------------
(* Identifiers and descriptors *)

IsPart(word, shift, width, w) ==
    /\ w \in SUBSET Int
    /\ \A x \in w : 0 <= x /\ x < width
    /\ \A x \in Int : 0 <= x /\ x < width => (x + shift \in word <=> x \in w)

LEMMA PartIs ==
    ASSUME NEW word \in SUBSET Int, NEW shift \in Int, NEW width \in Int, NEW w,
           IsPart(word, shift, width, w)
    PROVE  Part(word, shift, width) = w
<1>1. /\ w \in SUBSET Int
      /\ \A x \in w : 0 <= x /\ x < width
      /\ \A x \in Int : 0 <= x /\ x < width => (x + shift \in word <=> x \in w)
  BY DEF IsPart
<1> DEFINE p == Part(word, shift, width)
<1>2. p \subseteq Int /\ \A x \in Int : x \in p <=> 0 <= x /\ x < width /\ x + shift \in word
  BY InPart
<1> HIDE DEF p
<1>3. \A x \in Int : x \in p <=> x \in w
  BY <1>1, <1>2
<1>4. \A x : x \in p <=> x \in w
  BY <1>1, <1>2, <1>3
<1>5. p = w
  BY <1>4
<1> QED
  BY <1>5 DEF p

(* MAKE_TRANSFER_DESCRIPTOR with arguments that fit. *)
Describes(descriptor, type, code, source, destination) ==
    /\ type \in SUBSET (0 .. 15) /\ code \in SUBSET (0 .. 1)
    /\ source \in SUBSET (0 .. 6) /\ destination \in SUBSET (0 .. 6)
    /\ descriptor = type \cup At(code, 16) \cup At(source, 18) \cup At(destination, 25)

LEMMA DescriptorIs ==
    ASSUME NEW type, NEW code, NEW source, NEW destination, NEW descriptor,
           Describes(descriptor, type, code, source, destination)
    PROVE  /\ descriptor \subseteq 0 .. 31
           /\ Part(descriptor, 0, 16) = type /\ Part(descriptor, 16, 2) = code
           /\ Part(descriptor, 18, 7) = source /\ Part(descriptor, 25, 7) = destination
<1>1. /\ type \in SUBSET Int /\ code \in SUBSET Int
      /\ source \in SUBSET Int /\ destination \in SUBSET Int
      /\ descriptor = type \cup At(code, 16) \cup At(source, 18) \cup At(destination, 25)
  BY DEF Describes
<1>2. /\ At(code, 16) \subseteq Int /\ \A x \in Int : x \in At(code, 16) <=> x - 16 \in code
      /\ At(source, 18) \subseteq Int /\ \A x \in Int : x \in At(source, 18) <=> x - 18 \in source
      /\ At(destination, 25) \subseteq Int
      /\ \A x \in Int : x \in At(destination, 25) <=> x - 25 \in destination
  BY <1>1, InAt
<1>3. /\ descriptor \subseteq Int
      /\ \A x \in Int : x \in descriptor <=>
            x \in type \/ x - 16 \in code \/ x - 18 \in source \/ x - 25 \in destination
  BY <1>1, <1>2
<1>4. /\ \A x \in type : 0 <= x /\ x < 16
      /\ \A x \in code : 0 <= x /\ x < 2
      /\ \A x \in source : 0 <= x /\ x < 7
      /\ \A x \in destination : 0 <= x /\ x < 7
  BY DEF Describes
<1>5. descriptor \subseteq 0 .. 31
  <2>1. ASSUME NEW x \in Int, x \in descriptor
        PROVE  x \in 0 .. 31
    BY <1>3, <1>4, <2>1
  <2> QED
    BY <1>3, <2>1
<1>6. \A x \in Int : 0 <= x /\ x < 16 => (x + 0 \in descriptor <=> x \in type)
  BY <1>3, <1>4
<1>7. \A x \in Int : 0 <= x /\ x < 2 => (x + 16 \in descriptor <=> x \in code)
  <2>1. ASSUME NEW x \in Int, 0 <= x, x < 2
        PROVE  x + 16 \in descriptor <=> x \in code
    <3>1. (x + 16) - 16 = x
      OBVIOUS
    <3> QED
      BY <1>3, <1>4, <2>1, <3>1
  <2> QED
    BY <2>1
<1>8. \A x \in Int : 0 <= x /\ x < 7 => (x + 18 \in descriptor <=> x \in source)
  <2>1. ASSUME NEW x \in Int, 0 <= x, x < 7
        PROVE  x + 18 \in descriptor <=> x \in source
    <3>1. (x + 18) - 18 = x
      OBVIOUS
    <3> QED
      BY <1>3, <1>4, <2>1, <3>1
  <2> QED
    BY <2>1
<1>9. \A x \in Int : 0 <= x /\ x < 7 => (x + 25 \in descriptor <=> x \in destination)
  <2>1. ASSUME NEW x \in Int, 0 <= x, x < 7
        PROVE  x + 25 \in descriptor <=> x \in destination
    <3>1. (x + 25) - 25 = x
      OBVIOUS
    <3> QED
      BY <1>3, <1>4, <2>1, <3>1
  <2> QED
    BY <2>1
<1>10. 0 \in Int /\ 16 \in Int /\ 2 \in Int /\ 18 \in Int /\ 7 \in Int /\ 25 \in Int
       /\ descriptor \in SUBSET Int
  BY <1>3
<1>11. Part(descriptor, 0, 16) = type
  <2>1. IsPart(descriptor, 0, 16, type)
    BY <1>1, <1>4, <1>6, <1>10 DEF IsPart
  <2> QED
    BY <1>10, <2>1, PartIs, Zenon
<1>12. Part(descriptor, 16, 2) = code
  <2>1. IsPart(descriptor, 16, 2, code)
    BY <1>1, <1>4, <1>7, <1>10 DEF IsPart
  <2> QED
    BY <1>10, <2>1, PartIs, Zenon
<1>13. Part(descriptor, 18, 7) = source
  <2>1. IsPart(descriptor, 18, 7, source)
    BY <1>1, <1>4, <1>8, <1>10 DEF IsPart
  <2> QED
    BY <1>10, <2>1, PartIs, Zenon
<1>14. Part(descriptor, 25, 7) = destination
  <2>1. IsPart(descriptor, 25, 7, destination)
    BY <1>1, <1>4, <1>9, <1>10 DEF IsPart
  <2> QED
    BY <1>10, <2>1, PartIs, Zenon
<1> QED
  BY <1>5, <1>11, <1>12, <1>13, <1>14

(* What is taken out of the identifier of a service, and of a message. *)
LEMMA ServiceExtracted ==
    ASSUME NEW t, NEW payload, IsTransfer(t, payload), Service(t),
           NEW id, id = CanId(t, payload)
    PROVE  /\ 31 \in id /\ 30 \notin id /\ 29 \notin id
           /\ 7 \in id /\ (15 \in id <=> t.kind = "request")
           /\ Part(id, 16, 8) = t.type /\ Part(id, 24, 5) = t.priority
           /\ Part(id, 0, 7) = t.source /\ Part(id, 8, 7) = t.destination
<1>1. /\ id \in SUBSET Int
      /\ \A x \in Int : x \in id <=>
            \/ x = 31 \/ x - 24 \in t.priority \/ x - 16 \in t.type
            \/ x = 15 /\ t.kind = "request"
            \/ x - 8 \in t.destination \/ x = 7 \/ x \in t.source
  BY ServiceIdIs
<1>2. /\ t.priority \in SUBSET Int /\ t.type \in SUBSET Int
      /\ t.source \in SUBSET Int /\ t.destination \in SUBSET Int
  BY TransferIs
<1>3. /\ \A w \in t.priority : 0 <= w /\ w < 5
      /\ \A w \in t.type : 0 <= w /\ w < 8
      /\ \A w \in t.source : 0 <= w /\ w < 7
      /\ \A w \in t.destination : 0 <= w /\ w < 7
  BY TransferIs
<1> DEFINE p == t.priority
           y == t.type
           s == t.source
           d == t.destination
           request == t.kind = "request"
<1>4. \A x \in Int : x \in id <=>
         \/ x = 31 \/ x - 24 \in p \/ x - 16 \in y \/ (x = 15 /\ request)
         \/ x - 8 \in d \/ x = 7 \/ x \in s
  BY <1>1
<1>5. /\ p \in SUBSET Int /\ y \in SUBSET Int /\ s \in SUBSET Int /\ d \in SUBSET Int
      /\ \A w \in p : 0 <= w /\ w < 5
      /\ \A w \in y : 0 <= w /\ w < 8
      /\ \A w \in s : 0 <= w /\ w < 7
      /\ \A w \in d : 0 <= w /\ w < 7
  BY <1>2, <1>3
<1> HIDE DEF p, y, s, d, request
<1>6. /\ 31 \in id /\ 30 \notin id /\ 29 \notin id
      /\ 7 \in id /\ (15 \in id <=> request)
  BY <1>4, <1>5
<1>7. ASSUME NEW x \in Int, 0 <= x
      PROVE  /\ x < 8 => (x + 16 \in id <=> x \in y)
             /\ x < 5 => (x + 24 \in id <=> x \in p)
             /\ x < 7 => (x + 0 \in id <=> x \in s)
             /\ x < 7 => (x + 8 \in id <=> x \in d)
  <2>1. ASSUME x < 8
        PROVE  x + 16 \in id <=> x \in y
    <3>1. (x + 16) - 16 = x
      OBVIOUS
    <3> QED
      BY <1>4, <1>5, <1>7, <2>1, <3>1
  <2>2. ASSUME x < 5
        PROVE  x + 24 \in id <=> x \in p
    <3>1. (x + 24) - 24 = x
      OBVIOUS
    <3> QED
      BY <1>4, <1>5, <1>7, <2>2, <3>1
  <2>3. ASSUME x < 7
        PROVE  x + 0 \in id <=> x \in s
    BY <1>4, <1>5, <1>7, <2>3
  <2>4. ASSUME x < 7
        PROVE  x + 8 \in id <=> x \in d
    <3>1. (x + 8) - 8 = x
      OBVIOUS
    <3> QED
      BY <1>4, <1>5, <1>7, <2>4, <3>1
  <2> QED
    BY <2>1, <2>2, <2>3, <2>4
<1>8. 0 \in Int /\ 5 \in Int /\ 7 \in Int /\ 8 \in Int /\ 16 \in Int /\ 24 \in Int
  OBVIOUS
<1>9. Part(id, 16, 8) = y
  <2>1. IsPart(id, 16, 8, y)
    BY <1>1, <1>5, <1>7, <1>8 DEF IsPart
  <2> QED
    BY <1>1, <1>8, <2>1, PartIs, Zenon
<1>10. Part(id, 24, 5) = p
  <2>1. IsPart(id, 24, 5, p)
    BY <1>1, <1>5, <1>7, <1>8 DEF IsPart
  <2> QED
    BY <1>1, <1>8, <2>1, PartIs, Zenon
<1>11. Part(id, 0, 7) = s
  <2>1. IsPart(id, 0, 7, s)
    BY <1>1, <1>5, <1>7, <1>8 DEF IsPart
  <2> QED
    BY <1>1, <1>8, <2>1, PartIs, Zenon
<1>12. Part(id, 8, 7) = d
  <2>1. IsPart(id, 8, 7, d)
    BY <1>1, <1>5, <1>7, <1>8 DEF IsPart
  <2> QED
    BY <1>1, <1>8, <2>1, PartIs, Zenon
<1> QED
  BY <1>6, <1>9, <1>10, <1>11, <1>12 DEF p, y, s, d, request

LEMMA MessageExtracted ==
    ASSUME NEW t, NEW payload, IsTransfer(t, payload), ~Service(t),
           NEW id, id = CanId(t, payload)
    PROVE  /\ 31 \in id /\ 30 \notin id /\ 29 \notin id /\ 7 \notin id
           /\ Anonymous(t) => Part(id, 8, 2) = t.type
           /\ ~Anonymous(t) => Part(id, 8, 16) = t.type
           /\ Part(id, 24, 5) = t.priority /\ Part(id, 0, 7) = t.source
           /\ Anonymous(t) => Part(id, 10, 14) = Part(crc16_CCITT(payload), 1, 14)
<1> DEFINE p == t.priority
           y == t.type
           s == t.source
           D == Discriminator(payload)
           anonymous == Anonymous(t)
<1>1. /\ id \in SUBSET Int
      /\ \A x \in Int : x \in id <=>
            x = 31 \/ x - 24 \in p \/ x - 8 \in y \/ x \in s \/ (anonymous /\ x - 9 \in D)
      /\ \A x \in D : x \in 1 .. 14
  BY MessageIdIs
<1>2. /\ p \in SUBSET Int /\ y \in SUBSET Int /\ s \in SUBSET Int
      /\ \A w \in p : 0 <= w /\ w < 5
      /\ \A w \in y : 0 <= w /\ w < 16
      /\ \A w \in s : 0 <= w /\ w < 7
      /\ anonymous => \A w \in y : 0 <= w /\ w < 2
      /\ anonymous => s = {}
  BY TransferIs
<1>3. \A x \in 1 .. 14 : x \in D <=> x \in crc16_CCITT(payload)
  BY DEF Discriminator, crc16_CCITT
<1>c. anonymous => payload \in Seq(Byte)
  BY DEF IsTransfer
<1> HIDE DEF p, y, s, D, anonymous
<1>4. 31 \in id /\ 30 \notin id /\ 29 \notin id /\ 7 \notin id
  BY <1>1, <1>2
<1>5. ASSUME NEW x \in Int, 0 <= x
      PROVE  /\ anonymous /\ x < 2 => (x + 8 \in id <=> x \in y)
             /\ ~anonymous /\ x < 16 => (x + 8 \in id <=> x \in y)
             /\ x < 5 => (x + 24 \in id <=> x \in p)
             /\ x < 7 => (x + 0 \in id <=> x \in s)
             /\ anonymous /\ x < 14 => (x + 10 \in id <=> x + 1 \in D)
  <2>1. ASSUME x < 16, anonymous => x < 2
        PROVE  x + 8 \in id <=> x \in y
    <3>1. (x + 8) - 8 = x /\ (x + 8) - 9 = x - 1
      OBVIOUS
    <3> QED
      BY <1>1, <1>2, <1>5, <2>1, <3>1
  <2>2. ASSUME x < 5
        PROVE  x + 24 \in id <=> x \in p
    <3>1. (x + 24) - 24 = x
      OBVIOUS
    <3> QED
      BY <1>1, <1>2, <1>5, <2>2, <3>1
  <2>3. ASSUME x < 7
        PROVE  x + 0 \in id <=> x \in s
    BY <1>1, <1>2, <1>5, <2>3
  <2>4. ASSUME anonymous, x < 14
        PROVE  x + 10 \in id <=> x + 1 \in D
    <3>1. (x + 10) - 9 = x + 1
      OBVIOUS
    <3> QED
      BY <1>1, <1>2, <1>5, <2>4, <3>1
  <2> QED
    BY <1>5, <2>1, <2>2, <2>3, <2>4
<1>6. /\ 0 \in Int /\ 1 \in Int /\ 2 \in Int /\ 5 \in Int /\ 7 \in Int /\ 8 \in Int /\ 10 \in Int
      /\ 14 \in Int /\ 16 \in Int /\ 24 \in Int
  OBVIOUS
<1>7. anonymous => Part(id, 8, 2) = y
  <2>1. anonymous => IsPart(id, 8, 2, y)
    BY <1>1, <1>2, <1>5, <1>6 DEF IsPart
  <2> QED
    BY <1>1, <1>6, <2>1, PartIs, Zenon
<1>8. ~anonymous => Part(id, 8, 16) = y
  <2>1. ~anonymous => IsPart(id, 8, 16, y)
    BY <1>1, <1>2, <1>5, <1>6 DEF IsPart
  <2> QED
    BY <1>1, <1>6, <2>1, PartIs, Zenon
<1>9. Part(id, 24, 5) = p
  <2>1. IsPart(id, 24, 5, p)
    BY <1>1, <1>2, <1>5, <1>6 DEF IsPart
  <2> QED
    BY <1>1, <1>6, <2>1, PartIs, Zenon
<1>10. Part(id, 0, 7) = s
  <2>1. IsPart(id, 0, 7, s)
    BY <1>1, <1>2, <1>5, <1>6 DEF IsPart
  <2> QED
    BY <1>1, <1>6, <2>1, PartIs, Zenon
<1>11. ASSUME anonymous
       PROVE  Part(id, 10, 14) = Part(crc16_CCITT(payload), 1, 14)
  <2> DEFINE crc == crc16_CCITT(payload)
             w == Part(crc, 1, 14)
  <2>0. payload \in Seq(Byte)
    BY <1>11, <1>c
  <2>1. crc \in SUBSET Int
    <3>1. 0 .. 15 \in Register
      BY DEF Register
    <3>2. crcAdd(0 .. 15, payload) \in Register
      <4> DEFINE start == 0 .. 15
      <4> HIDE DEF start
      <4>1. start \in Register
        BY <3>1 DEF start
      <4>2. PICK g \in [0 .. Len(payload) -> Register] : crcAdd(start, payload) = g[Len(payload)]
        BY <2>0, <4>1, AddedIs
      <4>3. Len(payload) \in 0 .. Len(payload)
        BY <2>0
      <4>4. crcAdd(start, payload) \in Register
        BY <4>2, <4>3
      <4> QED
        BY <4>4 DEF start
    <3> QED
      BY <3>2 DEF crc16_CCITT, Register
  <2> HIDE DEF crc
  <2>2. w \subseteq 0 .. 13 /\ w \subseteq Int
        /\ \A x \in Int : x \in w <=> 0 <= x /\ x < 14 /\ x + 1 \in crc
    BY <2>1, InPart
  <2> HIDE DEF w
  <2>3. \A x \in Int : 0 <= x /\ x < 14 => (x + 10 \in id <=> x \in w)
    <3>1. ASSUME NEW x \in Int, 0 <= x, x < 14
          PROVE  x + 10 \in id <=> x \in w
      <4>1. x + 1 \in 1 .. 14
        BY <3>1
      <4> QED
        BY <1>3, <1>5, <1>11, <2>2, <3>1, <4>1 DEF crc
    <3> QED
      BY <3>1
  <2>4. w \in SUBSET Int /\ \A x \in w : 0 <= x /\ x < 14
    BY <2>2
  <2>5. Part(id, 10, 14) = w
    <3>1. IsPart(id, 10, 14, w)
      BY <1>1, <1>6, <2>3, <2>4 DEF IsPart
    <3> QED
      BY <1>1, <1>6, <3>1, PartIs, Zenon
  <2> QED
    BY <2>5 DEF w, crc
<1> QED
  BY <1>4, <1>7, <1>8, <1>9, <1>10, <1>11 DEF p, y, s, anonymous

LEMMA IdentifierComesApart ==
    ASSUME NEW t, NEW payload, IsTransfer(t, payload), NEW id, id = CanId(t, payload)
    PROVE  LET kind == IF Service(t) THEN t.kind ELSE "broadcast"
           IN  /\ Compatible(id)
               /\ extractTransferType(id) = kind
               /\ extractDataType(id) = t.type
               /\ Priority(id) = t.priority
               /\ SourceNodeId(id) = t.source
               /\ DestinationNodeId(id) = IF Service(t) THEN t.destination ELSE {}
<1>1. CASE Service(t)
  <2>1. /\ 31 \in id /\ 30 \notin id /\ 29 \notin id
        /\ 7 \in id /\ (15 \in id <=> t.kind = "request")
        /\ Part(id, 16, 8) = t.type /\ Part(id, 24, 5) = t.priority
        /\ Part(id, 0, 7) = t.source /\ Part(id, 8, 7) = t.destination
    BY <1>1, ServiceExtracted
  <2>2. t.kind = "request" \/ t.kind = "response"
    BY <1>1 DEF Service
  <2>3. extractTransferType(id) = t.kind /\ t.kind # "broadcast"
    BY <2>1, <2>2 DEF extractTransferType
  <2> QED
    BY <1>1, <2>1, <2>3
       DEF Compatible, EFF, RTR, ERR, extractDataType, Priority, SourceNodeId, DestinationNodeId
<1>2. CASE ~Service(t)
  <2>1. /\ 31 \in id /\ 30 \notin id /\ 29 \notin id /\ 7 \notin id
        /\ Anonymous(t) => Part(id, 8, 2) = t.type
        /\ ~Anonymous(t) => Part(id, 8, 16) = t.type
        /\ Part(id, 24, 5) = t.priority /\ Part(id, 0, 7) = t.source
    BY <1>2, MessageExtracted
  <2>2. extractTransferType(id) = "broadcast"
    BY <2>1 DEF extractTransferType
  <2>3. t.source = {} <=> Anonymous(t)
    BY DEF IsTransfer
  <2> QED
    BY <1>2, <2>1, <2>2, <2>3
       DEF Compatible, EFF, RTR, ERR, extractDataType, Priority, SourceNodeId, DestinationNodeId
<1> QED
  BY <1>1, <1>2

(* A transfer comes out of its identifier as it went in, two that differ in type, kind,     *)
(* source or destination have different descriptors, and an anonymous one is told from      *)
(* others by the CRC of its payload: for every transfer that the library accepts.        *)
THEOREM IdentifiersAlwaysAgree == TablesSpec => []IdentifiersAgree
<1>1. ASSUME sample \in Samples
      PROVE  IdentifiersAgree
  <2> DEFINE t == sample.transfer
             payload == sample.payload
             id == CanId(t, payload)
             descriptor == TransferDescriptor(id)
             kind == IF Service(t) THEN t.kind ELSE "broadcast"
  <2>1. SUFFICES ASSUME sample.table = "transfer"
                 PROVE  IdentifiersAgree
    BY DEF IdentifiersAgree
  <2>2. IsTransfer(t, payload)
    <3>1. IsSample(sample)
      BY <1>1, TablesAssumption
    <3> QED
      BY <2>1, <3>1 DEF IsSample
  <2>3. /\ Compatible(id) /\ extractTransferType(id) = kind /\ extractDataType(id) = t.type
        /\ Priority(id) = t.priority /\ SourceNodeId(id) = t.source
        /\ DestinationNodeId(id) = IF Service(t) THEN t.destination ELSE {}
    BY <2>2, IdentifierComesApart
  <2> HIDE DEF id
  <2>4. /\ t.type \in SUBSET (0 .. 15) /\ t.source \in SUBSET (0 .. 6)
        /\ DestinationNodeId(id) \in SUBSET (0 .. 6) /\ TypeCode(kind) \in SUBSET (0 .. 1)
    <3>1. t.type \in SUBSET (0 .. 15) /\ t.source \in SUBSET (0 .. 6)
      BY <2>2, TransferIs
    <3>2. DestinationNodeId(id) \in SUBSET (0 .. 6)
      BY <2>2, <2>3 DEF IsTransfer
    <3>3. TypeCode(kind) \in SUBSET (0 .. 1)
      <4>1. kind = "response" \/ kind = "request" \/ kind = "broadcast"
        BY DEF Service
      <4> QED
        BY <4>1 DEF TypeCode
    <3> QED
      BY <3>1, <3>2, <3>3
  <2>5. descriptor = t.type \cup At(TypeCode(kind), 16) \cup At(t.source, 18)
                        \cup At(DestinationNodeId(id), 25)
    BY <2>3 DEF TransferDescriptor
  <2>6. /\ descriptor \subseteq 0 .. 31
        /\ Part(descriptor, 0, 16) = t.type /\ Part(descriptor, 16, 2) = TypeCode(kind)
        /\ Part(descriptor, 18, 7) = t.source
        /\ Part(descriptor, 25, 7) = DestinationNodeId(id)
    <3> HIDE DEF descriptor, t, kind
    <3>1. Describes(descriptor, t.type, TypeCode(kind), t.source, DestinationNodeId(id))
      BY <2>4, <2>5 DEF Describes
    <3> QED
      BY <3>1, DescriptorIs
  <2>7. Anonymous(t) => Part(id, 10, 14) = Part(Remainder(payload), 1, 14)
    <3>1. SUFFICES ASSUME Anonymous(t)
                   PROVE  Part(id, 10, 14) = Part(Remainder(payload), 1, 14)
      OBVIOUS
    <3>2. payload \in Seq(Byte)
      BY <2>2 DEF IsTransfer
    <3>3. ~Service(t)
      BY <3>1 DEF Service, Anonymous
    <3>4. Part(id, 10, 14) = Part(crc16_CCITT(payload), 1, 14)
      BY <2>2, <3>1, <3>3, MessageExtracted DEF id
    <3>5. crc16_CCITT(payload) = Remainder(payload)
      BY <3>2, CrcIsRemainder
    <3> QED
      BY <3>4, <3>5
  <2> QED
    BY <2>3, <2>6, <2>7 DEF IdentifiersAgree, id
<1>2. TablesInit => sample \in Samples
  BY DEF TablesInit
<1>3. sample \in Samples /\ [UNCHANGED sample]_sample => (sample \in Samples)'
  OBVIOUS
<1> QED
  BY <1>1, <1>2, <1>3, PTL DEF TablesSpec

-----------------------------------------------------------------------------
(* Errors under the CRC *)

LEMMA SameAsXor ==
    ASSUME NEW a, NEW b, NEW c, \A x : x \in c <=> (x \in a) # (x \in b)
    PROVE  c = Xor(a, b)
BY DEF Xor

LEMMA ShiftLinear ==
    ASSUME NEW a \in Register, NEW b \in Register
    PROVE  /\ Xor(a, b) \in Register
           /\ CrcShift(Xor(a, b)) = Xor(CrcShift(a), CrcShift(b))
<1> DEFINE c == Xor(a, b)
           sa == CrcShift(a)
           sb == CrcShift(b)
           sc == CrcShift(c)
<1>1. c \in Register /\ \A x : x \in c <=> (x \in a) # (x \in b)
  BY DEF Register, Xor
<1> HIDE DEF c
<1>2. /\ sa \in Register /\ sb \in Register /\ sc \in Register
      /\ \A x \in Int : x \in sa <=> (x # 16 /\ x - 1 \in a) # (15 \in a /\ (x = 0 \/ x = 5 \/ x = 12))
      /\ \A x \in Int : x \in sb <=> (x # 16 /\ x - 1 \in b) # (15 \in b /\ (x = 0 \/ x = 5 \/ x = 12))
      /\ \A x \in Int : x \in sc <=> (x # 16 /\ x - 1 \in c) # (15 \in c /\ (x = 0 \/ x = 5 \/ x = 12))
  BY <1>1, ShiftIs
<1> HIDE DEF sa, sb, sc
<1>3. ASSUME NEW x \in Int
      PROVE  x \in sc <=> (x \in sa) # (x \in sb)
  <2>1. x - 1 \in c <=> (x - 1 \in a) # (x - 1 \in b)
    BY <1>1
  <2>2. 15 \in c <=> (15 \in a) # (15 \in b)
    BY <1>1
  <2>3. CASE x = 16
    BY <1>2, <2>3
  <2>4. CASE x # 16 /\ (x = 0 \/ x = 5 \/ x = 12)
    BY <1>2, <2>1, <2>2, <2>4
  <2>5. CASE x # 16 /\ ~(x = 0 \/ x = 5 \/ x = 12)
    BY <1>2, <2>1, <2>5
  <2> QED
    BY <2>3, <2>4, <2>5
<1>4. sc = Xor(sa, sb)
  <2>1. sa \subseteq Int /\ sb \subseteq Int /\ sc \subseteq Int
    BY <1>2 DEF Register
  <2>2. \A x : x \in sc <=> (x \in sa) # (x \in sb)
    <3>1. SUFFICES ASSUME NEW x
                   PROVE  x \in sc <=> (x \in sa) # (x \in sb)
      OBVIOUS
    <3>2. CASE x \in Int
      BY <1>3, <3>2
    <3>3. CASE x \notin Int
      <4>1. x \notin sa /\ x \notin sb /\ x \notin sc
        BY <2>1, <3>3
      <4> QED
        BY <4>1
    <3> QED
      BY <3>2, <3>3
  <2> QED
    BY <2>2, SameAsXor
<1> QED
  BY <1>1, <1>4 DEF c, sa, sb, sc

LEMMA AtLinear ==
    ASSUME NEW a \in SUBSET Int, NEW b \in SUBSET Int, NEW shift \in Int
    PROVE  At(Xor(a, b), shift) = Xor(At(a, shift), At(b, shift))
<1> DEFINE c == Xor(a, b)
           sa == At(a, shift)
           sb == At(b, shift)
           sc == At(c, shift)
<1>1. c \in SUBSET Int /\ \A x : x \in c <=> (x \in a) # (x \in b)
  BY DEF Xor
<1> HIDE DEF c
<1>2. sa \subseteq Int /\ \A x \in Int : x \in sa <=> x - shift \in a
  BY InAt
<1>3. sb \subseteq Int /\ \A x \in Int : x \in sb <=> x - shift \in b
  BY InAt
<1>4. sc \subseteq Int /\ \A x \in Int : x \in sc <=> x - shift \in c
  BY <1>1, InAt
<1> HIDE DEF sa, sb, sc
<1>5. \A x \in Int : x \in sc <=> (x \in sa) # (x \in sb)
  BY <1>1, <1>2, <1>3, <1>4
<1>6. \A x : x \in sc <=> (x \in sa) # (x \in sb)
  <2>1. SUFFICES ASSUME NEW x
                 PROVE  x \in sc <=> (x \in sa) # (x \in sb)
    OBVIOUS
  <2>2. CASE x \in Int
    BY <1>5, <2>2
  <2>3. CASE x \notin Int
    <3>1. x \notin sa /\ x \notin sb /\ x \notin sc
      BY <1>2, <1>3, <1>4, <2>3
    <3> QED
      BY <3>1
  <2> QED
    BY <2>2, <2>3
<1>7. sc = Xor(sa, sb)
  BY <1>6, SameAsXor
<1> QED
  BY <1>7 DEF c, sa, sb, sc

LEMMA PartLinear ==
    ASSUME NEW a \in SUBSET Int, NEW b \in SUBSET Int, NEW shift \in Int, NEW width \in Int
    PROVE  Part(Xor(a, b), shift, width) = Xor(Part(a, shift, width), Part(b, shift, width))
<1> DEFINE c == Xor(a, b)
           sa == Part(a, shift, width)
           sb == Part(b, shift, width)
           sc == Part(c, shift, width)
<1>1. c \in SUBSET Int /\ \A x : x \in c <=> (x \in a) # (x \in b)
  BY DEF Xor
<1> HIDE DEF c
<1>2. sa \subseteq Int /\ \A x \in Int : x \in sa <=> 0 <= x /\ x < width /\ x + shift \in a
  BY InPart
<1>3. sb \subseteq Int /\ \A x \in Int : x \in sb <=> 0 <= x /\ x < width /\ x + shift \in b
  BY InPart
<1>4. sc \subseteq Int /\ \A x \in Int : x \in sc <=> 0 <= x /\ x < width /\ x + shift \in c
  BY <1>1, InPart
<1> HIDE DEF sa, sb, sc
<1>5. \A x \in Int : x \in sc <=> (x \in sa) # (x \in sb)
  BY <1>1, <1>2, <1>3, <1>4
<1>6. \A x : x \in sc <=> (x \in sa) # (x \in sb)
  <2>1. SUFFICES ASSUME NEW x
                 PROVE  x \in sc <=> (x \in sa) # (x \in sb)
    OBVIOUS
  <2>2. CASE x \in Int
    BY <1>5, <2>2
  <2>3. CASE x \notin Int
    <3>1. x \notin sa /\ x \notin sb /\ x \notin sc
      BY <1>2, <1>3, <1>4, <2>3
    <3> QED
      BY <3>1
  <2> QED
    BY <2>2, <2>3
<1>7. sc = Xor(sa, sb)
  BY <1>6, SameAsXor
<1> QED
  BY <1>7 DEF c, sa, sb, sc

LEMMA XorSwaps ==
    ASSUME NEW a, NEW b, NEW c, NEW d
    PROVE  /\ Xor(Xor(a, b), Xor(c, d)) = Xor(Xor(a, c), Xor(b, d))
           /\ Xor(a, {}) = a /\ Xor({}, a) = a /\ Xor(a, a) = {}
           /\ Xor(a, b) = Xor(a, c) => b = c
<1>1. Xor(Xor(a, b), Xor(c, d)) = Xor(Xor(a, c), Xor(b, d))
  BY DEF Xor
<1>2. Xor(a, {}) = a /\ Xor({}, a) = a /\ Xor(a, a) = {}
  BY DEF Xor
<1>3. Xor(a, b) = Xor(a, c) => b = c
  BY DEF Xor
<1> QED
  BY <1>1, <1>2, <1>3

LEMMA ByteLinear ==
    ASSUME NEW a \in Register, NEW b \in Register, NEW x \in Byte, NEW y \in Byte
    PROVE  /\ Xor(x, y) \in Byte
           /\ crcAddByte(Xor(a, b), Xor(x, y)) = Xor(crcAddByte(a, x), crcAddByte(b, y))
<1> DEFINE c == Xor(a, b)
           z == Xor(x, y)
<1>1. c \in Register /\ z \in Byte
  BY ShiftLinear DEF Byte, Xor
<1>2. PICK f \in [0 .. 8 -> Register] :
         /\ f[0] = Xor(a, At(x, 8))
         /\ \A j \in 1 .. 8 : f[j] = CrcShift(f[j - 1])
         /\ crcAddByte(a, x) = f[8]
  BY ByteIs
<1>3. PICK g \in [0 .. 8 -> Register] :
         /\ g[0] = Xor(b, At(y, 8))
         /\ \A j \in 1 .. 8 : g[j] = CrcShift(g[j - 1])
         /\ crcAddByte(b, y) = g[8]
  BY ByteIs
<1>4. PICK h \in [0 .. 8 -> Register] :
         /\ h[0] = Xor(c, At(z, 8))
         /\ \A j \in 1 .. 8 : h[j] = CrcShift(h[j - 1])
         /\ crcAddByte(c, z) = h[8]
  <2> HIDE DEF c, z
  <2> QED
    BY <1>1, ByteIs
<1> DEFINE S == {j \in 0 .. 8 : h[j] = Xor(f[j], g[j])}
<1>5. 0 \in S
  <2>1. x \in SUBSET Int /\ y \in SUBSET Int /\ 8 \in Int
    BY DEF Byte
  <2>2. At(z, 8) = Xor(At(x, 8), At(y, 8))
    BY <2>1, AtLinear, Zenon
  <2>3. h[0] = Xor(f[0], g[0])
    BY <1>2, <1>3, <1>4, <2>2, XorSwaps
  <2> QED
    BY <2>3
<1>6. ASSUME NEW j \in 0 .. 8, j < 8, j \in S
      PROVE  j + 1 \in S
  <2>1. j + 1 \in 1 .. 8 /\ (j + 1) - 1 = j /\ j + 1 \in 0 .. 8
    BY <1>6
  <2>2. f[j] \in Register /\ g[j] \in Register /\ h[j] = Xor(f[j], g[j])
    BY <1>2, <1>3, <1>6
  <2>3. /\ f[j + 1] = CrcShift(f[j]) /\ g[j + 1] = CrcShift(g[j])
        /\ h[j + 1] = CrcShift(h[j])
    BY <1>2, <1>3, <1>4, <2>1
  <2>4. h[j + 1] = Xor(f[j + 1], g[j + 1])
    BY <2>2, <2>3, ShiftLinear
  <2> QED
    BY <2>1, <2>4
<1>7. 8 \in S
  <2> HIDE DEF S
  <2>1. \A j \in 0 .. 8 : j \in S
    BY <1>5, <1>6, Counting
  <2> QED
    BY <2>1
<1> QED
  BY <1>1, <1>2, <1>3, <1>4, <1>7

(* The bytes, with errors. *)
WithErrors(damaged, bytes, errors) ==
    /\ Len(bytes) = Len(errors) /\ Len(damaged) = Len(errors)
    /\ \A i \in 1 .. Len(errors) : damaged[i] = Xor(bytes[i], errors[i])

LEMMA CrcLinear ==
    ASSUME NEW a \in Register, NEW b \in Register, NEW bytes \in Seq(Byte), NEW errors \in Seq(Byte),
           NEW damaged \in Seq(Byte), WithErrors(damaged, bytes, errors)
    PROVE  crcAdd(Xor(a, b), damaged) = Xor(crcAdd(a, bytes), crcAdd(b, errors))
<1> DEFINE c == Xor(a, b)
           L == Len(errors)
<1>1. c \in Register
  BY ShiftLinear
<1>2. /\ L \in Nat /\ Len(bytes) = L /\ Len(damaged) = L
      /\ \A i \in 1 .. L : damaged[i] = Xor(bytes[i], errors[i])
      /\ \A i \in 1 .. L : bytes[i] \in Byte /\ errors[i] \in Byte
  BY DEF WithErrors
<1> HIDE DEF c, L
<1>3. PICK f \in [0 .. L -> Register] :
         /\ f[0] = a
         /\ \A i \in 1 .. L : f[i] = crcAddByte(f[i - 1], bytes[i])
         /\ crcAdd(a, bytes) = f[L]
  <2>1. \E f \in [0 .. Len(bytes) -> Register] :
           /\ f[0] = a
           /\ \A i \in 1 .. Len(bytes) : f[i] = crcAddByte(f[i - 1], bytes[i])
           /\ crcAdd(a, bytes) = f[Len(bytes)]
    BY AddedIs
  <2> QED
    BY <1>2, <2>1
<1>4. PICK g \in [0 .. L -> Register] :
         /\ g[0] = b
         /\ \A i \in 1 .. L : g[i] = crcAddByte(g[i - 1], errors[i])
         /\ crcAdd(b, errors) = g[L]
  BY AddedIs DEF L
<1>5. PICK h \in [0 .. L -> Register] :
         /\ h[0] = c
         /\ \A i \in 1 .. L : h[i] = crcAddByte(h[i - 1], damaged[i])
         /\ crcAdd(c, damaged) = h[L]
  <2>1. \E h \in [0 .. Len(damaged) -> Register] :
           /\ h[0] = c
           /\ \A i \in 1 .. Len(damaged) : h[i] = crcAddByte(h[i - 1], damaged[i])
           /\ crcAdd(c, damaged) = h[Len(damaged)]
    BY <1>1, AddedIs
  <2> QED
    BY <1>2, <2>1
<1> DEFINE S == {i \in 0 .. L : h[i] = Xor(f[i], g[i])}
<1>6. 0 \in S
  BY <1>2, <1>3, <1>4, <1>5 DEF c
<1>7. ASSUME NEW i \in 0 .. L, i < L, i \in S
      PROVE  i + 1 \in S
  <2>1. i + 1 \in 1 .. L /\ (i + 1) - 1 = i /\ i + 1 \in 0 .. L
    BY <1>2, <1>7
  <2>2. f[i] \in Register /\ g[i] \in Register /\ h[i] = Xor(f[i], g[i])
    BY <1>3, <1>4, <1>7
  <2>3. /\ f[i + 1] = crcAddByte(f[i], bytes[i + 1])
        /\ g[i + 1] = crcAddByte(g[i], errors[i + 1])
        /\ h[i + 1] = crcAddByte(h[i], damaged[i + 1])
    BY <1>3, <1>4, <1>5, <2>1
  <2>4. /\ bytes[i + 1] \in Byte /\ errors[i + 1] \in Byte
        /\ damaged[i + 1] = Xor(bytes[i + 1], errors[i + 1])
    BY <1>2, <2>1
  <2>5. crcAddByte(Xor(f[i], g[i]), Xor(bytes[i + 1], errors[i + 1]))
           = Xor(crcAddByte(f[i], bytes[i + 1]), crcAddByte(g[i], errors[i + 1]))
    <3> DEFINE x == bytes[i + 1]
               y == errors[i + 1]
               u == f[i]
               v == g[i]
    <3>1. x \in Byte /\ y \in Byte /\ u \in Register /\ v \in Register
      BY <2>2, <2>4
    <3> HIDE DEF x, y, u, v
    <3>2. crcAddByte(Xor(u, v), Xor(x, y)) = Xor(crcAddByte(u, x), crcAddByte(v, y))
      BY <3>1, ByteLinear
    <3> QED
      BY <3>2 DEF x, y, u, v
  <2>6. h[i + 1] = Xor(f[i + 1], g[i + 1])
    BY <2>2, <2>3, <2>4, <2>5
  <2> QED
    BY <2>1, <2>6
<1>8. L \in S
  <2> HIDE DEF S
  <2>1. \A i \in 0 .. L : i \in S
    BY <1>2, <1>6, <1>7, Counting
  <2> QED
    BY <1>2, <2>1
<1> QED
  BY <1>3, <1>4, <1>5, <1>8 DEF c

(* No error leaves no trace in the CRC. *)
LEMMA NoErrorNoCrc ==
    ASSUME NEW bytes \in Seq(Byte), \A i \in 1 .. Len(bytes) : bytes[i] = {}
    PROVE  crcAdd({}, bytes) = {}
<1>1. {} \in Register
  BY DEF Register
<1>2. WithErrors(bytes, bytes, bytes)
  BY XorSwaps DEF WithErrors
<1>3. crcAdd(Xor({}, {}), bytes) = Xor(crcAdd({}, bytes), crcAdd({}, bytes))
  BY <1>1, <1>2, CrcLinear
<1> QED
  BY <1>3, XorSwaps

(* Errors within 16 bits change the CRC: the division cannot come out even.  From the step  *)
(* on that reaches the errors, the rest is not empty and within the 16 bits that come next.  *)
LEMMA BurstChangesCrc ==
    ASSUME NEW bytes \in Seq(Byte), NEW k \in Nat, Stream(bytes) # {}, Stream(bytes) \subseteq k .. k + 15
    PROVE  crcAdd({}, bytes) # {}
<1> DEFINE W == 8 * Len(bytes)
           all == At(Stream(bytes), 16)
<1>1. W \in Nat /\ k \in Nat
  OBVIOUS
<1>2. {} \in Register
  BY DEF Register
<1>3. PICK r \in [0 .. 8 * Len(bytes) -> SUBSET Int] : Rests(r, {}, bytes)
  BY <1>2, RestsExist
<1>4. r[W] = crcAdd({}, bytes)
  BY <1>2, <1>3, LongDivision
<1>5. /\ r[0] = all
      /\ \A n \in 1 .. W : r[n] = Reduced(r[n - 1], W + 16 - n)
  <2>1. At({}, W) = {}
    BY DEF At
  <2>2. r[0] = Xor(At({}, W), all) /\ \A n \in 1 .. W : r[n] = Reduced(r[n - 1], W + 16 - n)
    BY <1>3 DEF Rests
  <2> QED
    BY <2>1, <2>2, XorSwaps
<1>6. /\ all # {} /\ all \subseteq Int
      /\ \A x \in all : k + 16 <= x /\ x <= k + 31 /\ x <= W + 15
  <2> DEFINE stream == Stream(bytes)
  <2>0. stream \subseteq 0 .. W - 1
    BY StreamIs, Zenon
  <2>1. stream \in SUBSET Int /\ stream # {} /\ stream \subseteq 0 .. W - 1 /\ stream \subseteq k .. k + 15
    <3>1. stream # {} /\ stream \subseteq k .. k + 15
      OBVIOUS
    <3> HIDE DEF stream, W
    <3>2. stream \in SUBSET Int
      BY <1>1, <2>0
    <3> QED
      BY <2>0, <3>1, <3>2
  <2>a. all = At(stream, 16) /\ 16 \in Int
    OBVIOUS
  <2> HIDE DEF stream, all, W
  <2>2. all \subseteq Int /\ \A x \in Int : x \in all <=> x - 16 \in stream
    BY <2>1, <2>a, InAt
  <2>3. all # {}
    <3>1. PICK x \in stream : TRUE
      BY <2>1
    <3>2. x \in Int /\ x + 16 \in Int /\ (x + 16) - 16 = x
      BY <2>1
    <3> QED
      BY <2>2, <3>1, <3>2
  <2>4. ASSUME NEW x \in all
        PROVE  k + 16 <= x /\ x <= k + 31 /\ x <= W + 15
    <3>1. x \in Int /\ x - 16 \in 0 .. W - 1 /\ x - 16 \in k .. k + 15
      BY <2>1, <2>2
    <3> QED
      BY <1>1, <3>1
  <2> QED
    BY <2>2, <2>3, <2>4
<1> HIDE DEF all, W
<1> DEFINE Near(n) ==
             /\ r[n] \in SUBSET Int /\ r[n] # {}
             /\ W + 15 - n >= k + 31 => r[n] = all
             /\ W + 15 - n <= k + 31 => \A x \in r[n] : W - n <= x /\ x <= W + 15 - n
           S == {n \in 0 .. W : Near(n)}
<1>7. 0 \in S
  <2>1. W + 15 - 0 <= k + 31 => \A x \in r[0] : W - 0 <= x /\ x <= W + 15 - 0
    BY <1>1, <1>5, <1>6
  <2>2. 0 \in 0 .. W
    BY <1>1
  <2>3. r[0] \in SUBSET Int /\ r[0] # {} /\ r[0] = all
    BY <1>5, <1>6
  <2> QED
    BY <2>1, <2>2, <2>3
<1>8. ASSUME NEW n \in 0 .. W, n < W, n \in S
      PROVE  n + 1 \in S
  <2> DEFINE K == W + 15 - n
             rest == r[n]
  <2>1. /\ n + 1 \in 1 .. W /\ (n + 1) - 1 = n /\ n + 1 \in 0 .. W /\ W + 16 - (n + 1) = K
        /\ K \in Int /\ W - n = K - 15 /\ W + 15 - (n + 1) = K - 1 /\ W - (n + 1) = K - 16
    BY <1>1, <1>8
  <2>2. r[n + 1] = Reduced(rest, K)
    BY <1>5, <2>1
  <2>3. /\ rest \in SUBSET Int /\ rest # {}
        /\ K >= k + 31 => rest = all
        /\ K <= k + 31 => \A x \in rest : K - 15 <= x /\ x <= K
    BY <1>8, <2>1
  <2> HIDE DEF K, rest
  <2>4. CASE K > k + 31
    <3>1. K \notin all /\ rest = all
      BY <1>1, <1>6, <2>1, <2>3, <2>4
    <3>2. r[n + 1] = all
      BY <2>2, <3>1 DEF Reduced
    <3>3. K - 1 <= k + 31 => \A x \in all : K - 16 <= x /\ x <= K - 1
      BY <1>1, <1>6, <2>1, <2>4
    <3>4. /\ r[n + 1] \in SUBSET Int /\ r[n + 1] # {}
          /\ W + 15 - (n + 1) <= k + 31 =>
                \A x \in r[n + 1] : W - (n + 1) <= x /\ x <= W + 15 - (n + 1)
      BY <1>6, <2>1, <3>2, <3>3
    <3> QED
      BY <2>1, <3>2, <3>4
  <2>5. CASE K <= k + 31
    <3>1. \A x \in rest : K - 15 <= x /\ x <= K
      BY <2>3, <2>5
    <3> DEFINE next == Reduced(rest, K)
    <3>2. next \in SUBSET Int /\ next # {} /\ \A x \in next : K - 16 <= x /\ x <= K - 1
      <4>1. CASE K \in rest
        <5> DEFINE d == At(Divisor, K - 16)
        <5>1. next = Xor(rest, d)
          BY <4>1 DEF Reduced
        <5>2. Divisor \in SUBSET Int /\ K - 16 \in Int
          BY <2>1 DEF Divisor, Polynomial
        <5>3. d \subseteq Int /\ \A x \in Int : x \in d <=> x - (K - 16) \in Divisor
          BY <5>2, InAt
        <5>4. \A x : x \in Divisor <=> x = 0 \/ x = 5 \/ x = 12 \/ x = 16
          BY DEF Divisor, Polynomial
        <5> HIDE DEF d, next
        <5>5. K \in d /\ K - 16 \in d
          <6>1. K - (K - 16) = 16 /\ (K - 16) - (K - 16) = 0
            BY <2>1
          <6> QED
            BY <2>1, <5>2, <5>3, <5>4, <6>1
        <5>6. K - 16 \notin rest
          BY <2>1, <3>1
        <5>7. \A x \in d : K - 16 <= x /\ x <= K
          <6>1. ASSUME NEW x \in d
                PROVE  K - 16 <= x /\ x <= K
            <7>1. x \in Int /\ x - (K - 16) \in {0, 5, 12, 16}
              BY <5>3, <5>4
            <7> QED
              BY <2>1, <7>1
          <6> QED
            BY <6>1
        <5>8. K - 16 \in next /\ K \notin next
          BY <4>1, <5>1, <5>5, <5>6, InXor
        <5>9. \A x \in next : x \in Int /\ K - 16 <= x /\ x <= K
          <6>1. \A x \in next : x \in rest \/ x \in d
            BY <5>1 DEF Xor
          <6>2. \A x \in rest : x \in Int /\ K - 16 <= x /\ x <= K
            BY <2>1, <2>3, <3>1
          <6> QED
            BY <5>3, <5>7, <6>1, <6>2
        <5>10. \A x \in next : K - 16 <= x /\ x <= K - 1
          <6>1. ASSUME NEW x \in next
                PROVE  K - 16 <= x /\ x <= K - 1
            <7>0. x # K
              BY <5>8
            <7>1. x \in Int /\ x # K /\ K - 16 <= x /\ x <= K
              BY <5>9, <7>0
            <7> QED
              BY <2>1, <7>1
          <6> QED
            BY <6>1
        <5> QED
          BY <5>8, <5>9, <5>10
      <4>2. CASE K \notin rest
        <5>1. next = rest
          BY <4>2 DEF Reduced
        <5>3. ASSUME NEW x \in rest
              PROVE  K - 16 <= x /\ x <= K - 1
          <6>1. x \in Int /\ x # K /\ K - 15 <= x /\ x <= K
            BY <2>3, <3>1, <4>2
          <6> QED
            BY <2>1, <6>1
        <5> QED
          BY <2>3, <5>1, <5>3
      <4> QED
        BY <4>1, <4>2
    <3> HIDE DEF next
    <3>3. r[n + 1] = next
      BY <2>2 DEF next
    <3>4. ~(W + 15 - (n + 1) >= k + 31)
      BY <1>1, <2>1, <2>5
    <3> QED
      BY <2>1, <3>2, <3>3, <3>4
  <2> QED
    BY <1>1, <2>1, <2>4, <2>5
<1>9. W \in S
  <2> HIDE DEF S
  <2>1. \A n \in 0 .. W : n \in S
    BY <1>1, <1>7, <1>8, Counting
  <2> QED
    BY <1>1, <2>1
<1> QED
  BY <1>4, <1>9

LEMMA SeqIs ==
    ASSUME NEW n \in Nat, NEW S, NEW f \in [1 .. n -> S]
    PROVE  f \in Seq(S) /\ Len(f) = n
OBVIOUS

(* The covered bytes, one by one. *)
LEMMA CoveredIs ==
    ASSUME NEW packet, packet.flags \in SUBSET Int, packet.id \in SUBSET Int, packet.data \in Seq(Byte)
    PROVE  /\ Covered(packet) \in Seq(Byte)
           /\ Len(Covered(packet)) = 6 + Len(packet.data)
           /\ Covered(packet)[1] = Part(packet.flags, 0, 8)
           /\ Covered(packet)[2] = Part(packet.flags, 8, 8)
           /\ Covered(packet)[3] = Part(packet.id, 0, 8)
           /\ Covered(packet)[4] = Part(packet.id, 8, 8)
           /\ Covered(packet)[5] = Part(packet.id, 16, 8)
           /\ Covered(packet)[6] = Part(packet.id, 24, 8)
           /\ \A i \in 1 .. Len(packet.data) : Covered(packet)[6 + i] = packet.data[i]
<1> DEFINE flags == packet.flags
           id == packet.id
           data == packet.data
           a == Words(flags, 2)
           b == Words(id, 4)
<1>1. flags \in SUBSET Int /\ id \in SUBSET Int /\ data \in Seq(Byte)
  OBVIOUS
<1>2. Covered(packet) = (a \o b) \o data
  BY DEF Covered
<1> HIDE DEF flags, id, data
<1>3. \A word \in SUBSET Int, shift \in Int : Part(word, shift, 8) \in Byte
  <2>1. SUFFICES ASSUME NEW word \in SUBSET Int, NEW shift \in Int
                 PROVE  Part(word, shift, 8) \in Byte
    OBVIOUS
  <2>2. PICK width \in Int : width = 8
    OBVIOUS
  <2>3. Part(word, shift, width) \subseteq 0 .. width - 1
    BY InPart
  <2>4. width - 1 = 7
    BY <2>2
  <2> QED
    BY <2>2, <2>3, <2>4 DEF Byte
<1>4. /\ a \in Seq(Byte) /\ Len(a) = 2
      /\ a[1] = Part(flags, 0, 8) /\ a[2] = Part(flags, 8, 8)
  <2>1. a = [i \in 1 .. 2 |-> Part(flags, 8 * (i - 1), 8)]
    BY DEF Words
  <2>2. \A i \in 1 .. 2 : Part(flags, 8 * (i - 1), 8) \in Byte
    BY <1>1, <1>3
  <2> HIDE DEF a
  <2>3. a \in [1 .. 2 -> Byte] /\ a[1] = Part(flags, 0, 8) /\ a[2] = Part(flags, 8, 8)
    BY <2>1, <2>2
  <2>4. 2 \in Nat
    OBVIOUS
  <2>5. a \in Seq(Byte) /\ Len(a) = 2
    BY <2>3, <2>4, SeqIs, Zenon
  <2> QED
    BY <2>3, <2>5
<1>5. /\ b \in Seq(Byte) /\ Len(b) = 4
      /\ b[1] = Part(id, 0, 8) /\ b[2] = Part(id, 8, 8)
      /\ b[3] = Part(id, 16, 8) /\ b[4] = Part(id, 24, 8)
  <2>1. b = [i \in 1 .. 4 |-> Part(id, 8 * (i - 1), 8)]
    BY DEF Words
  <2>2. \A i \in 1 .. 4 : Part(id, 8 * (i - 1), 8) \in Byte
    BY <1>1, <1>3
  <2> HIDE DEF b
  <2>3. /\ b \in [1 .. 4 -> Byte]
        /\ b[1] = Part(id, 0, 8) /\ b[2] = Part(id, 8, 8)
        /\ b[3] = Part(id, 16, 8) /\ b[4] = Part(id, 24, 8)
    BY <2>1, <2>2
  <2>4. 4 \in Nat
    OBVIOUS
  <2>5. b \in Seq(Byte) /\ Len(b) = 4
    BY <2>3, <2>4, SeqIs, Zenon
  <2> QED
    BY <2>3, <2>5
<1> HIDE DEF a, b
<1> DEFINE ab == a \o b
<1>6. /\ ab \in Seq(Byte) /\ Len(ab) = 6
      /\ ab[1] = a[1] /\ ab[2] = a[2]
      /\ ab[3] = b[1] /\ ab[4] = b[2] /\ ab[5] = b[3] /\ ab[6] = b[4]
  <2>1. /\ ab \in Seq(Byte) /\ Len(ab) = Len(a) + Len(b)
        /\ \A i \in Int : 1 <= i /\ i <= Len(a) => ab[i] = a[i]
        /\ \A i \in Int : 1 <= i /\ i <= Len(b) => ab[Len(a) + i] = b[i]
    <3>1. a \in Seq(Byte) /\ b \in Seq(Byte)
      BY <1>4, <1>5
    <3> QED
      BY <3>1
  <2> HIDE DEF ab
  <2>2. /\ Len(ab) = 6
        /\ \A i \in Int : 1 <= i /\ i <= 2 => ab[i] = a[i]
        /\ \A i \in Int : 1 <= i /\ i <= 4 => ab[2 + i] = b[i]
    BY <1>4, <1>5, <2>1
  <2>3. ab[1] = a[1] /\ ab[2] = a[2]
    BY <2>2
  <2>4. ab[2 + 1] = b[1] /\ ab[2 + 2] = b[2] /\ ab[2 + 3] = b[3] /\ ab[2 + 4] = b[4]
    BY <2>2
  <2>5. 2 + 1 = 3 /\ 2 + 2 = 4 /\ 2 + 3 = 5 /\ 2 + 4 = 6
    OBVIOUS
  <2>6. ab[3] = b[1] /\ ab[4] = b[2] /\ ab[5] = b[3] /\ ab[6] = b[4]
    BY <2>4, <2>5
  <2> QED
    BY <2>1, <2>2, <2>3, <2>6
<1>7. Covered(packet) = ab \o data
  BY <1>2
<1> HIDE DEF ab
<1>8. /\ ab \o data \in Seq(Byte) /\ Len(ab \o data) = 6 + Len(data)
      /\ \A i \in 1 .. 6 : (ab \o data)[i] = ab[i]
      /\ \A i \in 1 .. Len(data) : (ab \o data)[6 + i] = data[i]
  <2> DEFINE all == ab \o data
  <2>1. /\ all \in Seq(Byte) /\ Len(all) = Len(ab) + Len(data)
        /\ \A i \in Int : 1 <= i /\ i <= Len(ab) => all[i] = ab[i]
        /\ \A i \in Int : 1 <= i /\ i <= Len(data) => all[Len(ab) + i] = data[i]
    <3>1. ab \in Seq(Byte) /\ data \in Seq(Byte)
      BY <1>1, <1>6
    <3> QED
      BY <3>1
  <2>2. Len(data) \in Nat
    BY <1>1
  <2> HIDE DEF all
  <2>3. \A i \in 1 .. 6 : all[i] = ab[i]
    BY <1>6, <2>1
  <2>4. \A i \in 1 .. Len(data) : all[6 + i] = data[i]
    BY <1>6, <2>1, <2>2
  <2>5. Len(all) = 6 + Len(data)
    BY <1>6, <2>1
  <2> QED
    BY <2>1, <2>3, <2>4, <2>5 DEF all
<1> DEFINE bytes == Covered(packet)
<1>9. /\ bytes \in Seq(Byte) /\ Len(bytes) = 6 + Len(data)
      /\ \A i \in 1 .. Len(data) : bytes[6 + i] = data[i]
      /\ \A i \in 1 .. 6 : bytes[i] = ab[i]
  BY <1>7, <1>8
<1> HIDE DEF bytes
<1>10. /\ bytes[1] = ab[1] /\ bytes[2] = ab[2] /\ bytes[3] = ab[3]
       /\ bytes[4] = ab[4] /\ bytes[5] = ab[5] /\ bytes[6] = ab[6]
  BY <1>9
<1>11. /\ bytes[1] = Part(flags, 0, 8) /\ bytes[2] = Part(flags, 8, 8)
       /\ bytes[3] = Part(id, 0, 8) /\ bytes[4] = Part(id, 8, 8)
       /\ bytes[5] = Part(id, 16, 8) /\ bytes[6] = Part(id, 24, 8)
  BY <1>4, <1>5, <1>6, <1>10
<1> QED
  BY <1>9, <1>11 DEF flags, id, data, bytes

LEMMA EmptyStream ==
    ASSUME NEW bytes \in Seq(Byte), Stream(bytes) = {}
    PROVE  \A i \in 1 .. Len(bytes) : bytes[i] = {}
<1>1. ASSUME NEW i \in 1 .. Len(bytes), NEW v \in bytes[i]
      PROVE  FALSE
  <2>1. v \in 0 .. 7
    BY DEF Byte
  <2>2. 8 * (Len(bytes) - i) + v \in Stream(bytes)
    BY <2>1, StreamIs
  <2> QED
    BY <2>2
<1> QED
  BY <1>1

LEMMA EmptyParts ==
    ASSUME NEW word \in SUBSET Int
    PROVE  /\ word \subseteq 0 .. 15 /\ Part(word, 0, 8) = {} /\ Part(word, 8, 8) = {} => word = {}
           /\ word \subseteq 0 .. 31 /\ Part(word, 0, 8) = {} /\ Part(word, 8, 8) = {}
                 /\ Part(word, 16, 8) = {} /\ Part(word, 24, 8) = {}
                 => word = {}
<1>1. ASSUME NEW shift \in Int, Part(word, shift, 8) = {}, NEW x \in word
      PROVE  ~(shift <= x /\ x < shift + 8)
  <2>1. \A y \in Int : ~(0 <= y /\ y < 8 /\ y + shift \in word)
    <3>1. 8 \in Int
      OBVIOUS
    <3>2. \A y \in Int : y \in Part(word, shift, 8) <=> 0 <= y /\ y < 8 /\ y + shift \in word
      BY <3>1, InPart, Zenon
    <3> QED
      BY <1>1, <3>2
  <2>2. x \in Int /\ x - shift \in Int /\ (x - shift) + shift = x
    OBVIOUS
  <2>3. ~(0 <= x - shift /\ x - shift < 8)
    BY <2>1, <2>2
  <2> QED
    BY <2>2, <2>3
<1>2. 0 \in Int /\ 8 \in Int /\ 16 \in Int /\ 24 \in Int
  OBVIOUS
<1>3. /\ Part(word, 0, 8) = {} => \A x \in word : ~(0 <= x /\ x < 0 + 8)
      /\ Part(word, 8, 8) = {} => \A x \in word : ~(8 <= x /\ x < 8 + 8)
      /\ Part(word, 16, 8) = {} => \A x \in word : ~(16 <= x /\ x < 16 + 8)
      /\ Part(word, 24, 8) = {} => \A x \in word : ~(24 <= x /\ x < 24 + 8)
  BY <1>1, <1>2, Zenon
<1>4. ASSUME word \subseteq 0 .. 15, Part(word, 0, 8) = {}, Part(word, 8, 8) = {}, NEW x \in word
      PROVE  FALSE
  <2>1. ~(0 <= x /\ x < 0 + 8) /\ ~(8 <= x /\ x < 8 + 8)
    BY <1>3, <1>4
  <2> QED
    BY <1>4, <2>1
<1>5. ASSUME word \subseteq 0 .. 31, Part(word, 0, 8) = {}, Part(word, 8, 8) = {},
             Part(word, 16, 8) = {}, Part(word, 24, 8) = {}, NEW x \in word
      PROVE  FALSE
  <2>1. /\ ~(0 <= x /\ x < 0 + 8) /\ ~(8 <= x /\ x < 8 + 8)
        /\ ~(16 <= x /\ x < 16 + 8) /\ ~(24 <= x /\ x < 24 + 8)
    BY <1>3, <1>5
  <2> QED
    BY <1>5, <2>1
<1> QED
  BY <1>4, <1>5

(* Errors that the packet's CRC does not show are none. *)
LEMMA UnseenErrorsAreNone ==
    ASSUME NEW frame, frame.data \in Seq(Byte), NEW errors, IsErrors(errors, frame),
           errors.crc = crcAdd({}, Covered(errors))
    PROVE  /\ errors.crc = {} /\ errors.flags = {} /\ errors.id = {}
           /\ \A i \in 1 .. Len(errors.data) : errors.data[i] = {}
<1> DEFINE bytes == Covered(errors)
           flags == errors.flags
           id == errors.id
           data == errors.data
<1>1. /\ flags \in SUBSET Int /\ id \in SUBSET Int /\ data \in Seq(Byte)
      /\ flags \subseteq 0 .. 15 /\ id \subseteq 0 .. 31
  <2>1. flags \subseteq 0 .. 15 /\ id \subseteq 0 .. 31 /\ data \in Seq(Byte)
    BY DEF IsErrors
  <2> HIDE DEF flags, id, data
  <2> QED
    BY <2>1
<1>2. /\ bytes \in Seq(Byte) /\ Len(bytes) = 6 + Len(data)
      /\ bytes[1] = Part(flags, 0, 8) /\ bytes[2] = Part(flags, 8, 8)
      /\ bytes[3] = Part(id, 0, 8) /\ bytes[4] = Part(id, 8, 8)
      /\ bytes[5] = Part(id, 16, 8) /\ bytes[6] = Part(id, 24, 8)
      /\ \A i \in 1 .. Len(data) : bytes[6 + i] = data[i]
  BY <1>1, CoveredIs
<1>3. Stream(bytes) = {} /\ errors.crc = {}
  <2>1. \/ Stream(bytes) = {}
        \/ errors.crc = {} /\ \E k \in 0 .. 8 * Len(bytes) : Stream(bytes) \subseteq k .. k + 15
    BY DEF IsErrors, IsBurst
  <2>2. ASSUME errors.crc = {}, NEW k \in 0 .. 8 * Len(bytes), Stream(bytes) \subseteq k .. k + 15,
               Stream(bytes) # {}
        PROVE  FALSE
    <3>1. k \in Nat
      BY <2>2
    <3>2. crcAdd({}, bytes) # {}
      <4> HIDE DEF bytes
      <4> QED
        BY <1>2, <2>2, <3>1, BurstChangesCrc
    <3> QED
      BY <2>2, <3>2
  <2>3. ASSUME Stream(bytes) = {}
        PROVE  errors.crc = {}
    <3> HIDE DEF bytes
    <3>1. \A i \in 1 .. Len(bytes) : bytes[i] = {}
      BY <1>2, <2>3, EmptyStream
    <3>2. crcAdd({}, bytes) = {}
      BY <1>2, <3>1, NoErrorNoCrc
    <3> QED
      BY <3>2 DEF bytes
  <2> QED
    BY <2>1, <2>2, <2>3
<1> HIDE DEF bytes
<1>4. \A i \in 1 .. Len(bytes) : bytes[i] = {}
  BY <1>2, <1>3, EmptyStream
<1> HIDE DEF flags, id, data
<1>5. \A i \in 1 .. 6 : bytes[i] = {}
  <2>1. Len(data) \in Nat
    BY <1>1
  <2>2. \A i \in 1 .. 6 : i \in 1 .. Len(bytes)
    BY <1>2, <2>1
  <2> QED
    BY <1>4, <2>2
<1>6. \A i \in 1 .. Len(data) : data[i] = {}
  <2>1. Len(data) \in Nat
    BY <1>1
  <2>2. \A i \in 1 .. Len(data) : 6 + i \in 1 .. Len(bytes)
    BY <1>2, <2>1
  <2> QED
    BY <1>2, <1>4, <2>2
<1>a. /\ Part(flags, 0, 8) = {} /\ Part(flags, 8, 8) = {}
      /\ Part(id, 0, 8) = {} /\ Part(id, 8, 8) = {}
      /\ Part(id, 16, 8) = {} /\ Part(id, 24, 8) = {}
  <2>1. /\ bytes[1] = {} /\ bytes[2] = {} /\ bytes[3] = {}
        /\ bytes[4] = {} /\ bytes[5] = {} /\ bytes[6] = {}
    BY <1>5
  <2> QED
    BY <1>2, <2>1
<1>7. flags = {}
  BY <1>1, <1>a, EmptyParts, Zenon
<1>8. id = {}
  BY <1>1, <1>a, EmptyParts, Zenon
<1> QED
  BY <1>3, <1>6, <1>7, <1>8 DEF flags, id, data

(* A packet as it is sent, and as it arrives. *)
LEMMA PacketIs ==
    ASSUME NEW frame, frame.id \in SUBSET Int, frame.data \in Seq(Byte), NEW errors,
           IsErrors(errors, frame), NEW packet, packet = mcastPacket(frame)
    PROVE  LET delivered == Damaged(packet, errors)
               crc == crc16_CCITT(Covered(packet))
           IN  /\ packet.magic = Magic /\ packet.id = frame.id /\ packet.data = frame.data
               /\ packet.flags = IF frame.canfd THEN {0} ELSE {}
               /\ packet.crc = crc
               /\ delivered.magic = Magic /\ delivered.id = Xor(packet.id, errors.id)
               /\ delivered.flags = Xor(packet.flags, errors.flags)
               /\ delivered.crc = Xor(packet.crc, errors.crc)
               /\ delivered.data = [i \in 1 .. Len(frame.data) |-> Xor(frame.data[i], errors.data[i])]
<1> DEFINE first == [magic |-> Magic, flags |-> IF frame.canfd THEN {0} ELSE {},
                     id |-> frame.id, data |-> frame.data]
           crc == crc16_CCITT(Covered(first))
<1>1. packet = [magic |-> Magic, flags |-> IF frame.canfd THEN {0} ELSE {}, id |-> frame.id,
                data |-> frame.data, crc |-> crc]
  BY DEF mcastPacket
<1>2. Covered(first) = Covered(packet)
  <2>1. first.flags = packet.flags /\ first.id = packet.id /\ first.data = packet.data
    BY <1>1
  <2> HIDE DEF first
  <2> QED
    BY <2>1 DEF Covered
<1>3. DOMAIN frame.data = 1 .. Len(frame.data)
  OBVIOUS
<1> HIDE DEF crc
<1>4. /\ packet.magic = Magic /\ packet.id = frame.id /\ packet.data = frame.data
      /\ packet.flags = IF frame.canfd THEN {0} ELSE {}
      /\ packet.crc = crc
  BY <1>1
<1>5. LET delivered == Damaged(packet, errors)
      IN  /\ delivered.magic = Magic /\ delivered.id = Xor(packet.id, errors.id)
          /\ delivered.flags = Xor(packet.flags, errors.flags)
          /\ delivered.crc = Xor(packet.crc, errors.crc)
          /\ delivered.data = [i \in 1 .. Len(frame.data) |-> Xor(frame.data[i], errors.data[i])]
  BY <1>1, <1>3 DEF Damaged
<1> QED
  BY <1>2, <1>4, <1>5 DEF crc

LEMMA WordsOfSum ==
    ASSUME NEW a \in SUBSET Int, NEW b \in SUBSET Int
    PROVE  /\ Part(Xor(a, b), 0, 8) = Xor(Part(a, 0, 8), Part(b, 0, 8))
           /\ Part(Xor(a, b), 8, 8) = Xor(Part(a, 8, 8), Part(b, 8, 8))
           /\ Part(Xor(a, b), 16, 8) = Xor(Part(a, 16, 8), Part(b, 16, 8))
           /\ Part(Xor(a, b), 24, 8) = Xor(Part(a, 24, 8), Part(b, 24, 8))
<1>1. 0 \in Int /\ 8 \in Int /\ 16 \in Int /\ 24 \in Int
  OBVIOUS
<1>2. ASSUME NEW shift \in Int
      PROVE  Part(Xor(a, b), shift, 8) = Xor(Part(a, shift, 8), Part(b, shift, 8))
  <2>1. PICK width \in Int : width = 8
    OBVIOUS
  <2>2. Part(Xor(a, b), shift, width) = Xor(Part(a, shift, width), Part(b, shift, width))
    BY PartLinear
  <2> QED
    BY <2>1, <2>2
<1> QED
  BY <1>1, <1>2, Zenon

(* The CRC of what arrives is the CRC of what was sent, with the errors' CRC on it. *)
LEMMA DamagedCrc ==
    ASSUME NEW frame, frame.id \in SUBSET Int, frame.data \in Seq(Byte), NEW errors,
           IsErrors(errors, frame), NEW packet, packet = mcastPacket(frame)
    PROVE  /\ Covered(packet) \in Seq(Byte)
           /\ crc16_CCITT(Covered(Damaged(packet, errors)))
                = Xor(crc16_CCITT(Covered(packet)), crcAdd({}, Covered(errors)))
<1> DEFINE delivered == Damaged(packet, errors)
           p == Covered(packet)
           e == Covered(errors)
           d == Covered(delivered)
           L == Len(frame.data)
<1>1. /\ packet.id = frame.id /\ packet.data = frame.data
      /\ packet.flags = IF frame.canfd THEN {0} ELSE {}
      /\ delivered.id = Xor(packet.id, errors.id)
      /\ delivered.flags = Xor(packet.flags, errors.flags)
      /\ delivered.data = [i \in 1 .. L |-> Xor(frame.data[i], errors.data[i])]
  BY PacketIs
<1>2. /\ errors.flags \subseteq 0 .. 15 /\ errors.id \subseteq 0 .. 31
      /\ errors.data \in Seq(Byte) /\ Len(errors.data) = L
  BY DEF IsErrors
<1> HIDE DEF delivered
<1>3. /\ packet.flags \in SUBSET Int /\ packet.id \in SUBSET Int /\ packet.data \in Seq(Byte)
      /\ errors.flags \in SUBSET Int /\ errors.id \in SUBSET Int
  <2>1. packet.flags \in SUBSET Int
    BY <1>1
  <2>2. errors.flags \in SUBSET Int /\ errors.id \in SUBSET Int
    <3>1. \A w : w \subseteq 0 .. 15 => w \in SUBSET Int
      OBVIOUS
    <3>2. \A w : w \subseteq 0 .. 31 => w \in SUBSET Int
      OBVIOUS
    <3> QED
      BY <1>2, <3>1, <3>2
  <2> QED
    BY <1>1, <2>1, <2>2
<1>4. L \in Nat /\ Len(packet.data) = L
  BY <1>1
<1>5. /\ delivered.flags \in SUBSET Int /\ delivered.id \in SUBSET Int
      /\ delivered.data \in Seq(Byte) /\ Len(delivered.data) = L
  <2>1. delivered.flags \in SUBSET Int /\ delivered.id \in SUBSET Int
    BY <1>1, <1>3 DEF Xor
  <2>2. \A i \in 1 .. L : Xor(frame.data[i], errors.data[i]) \in Byte
    <3>1. \A i \in 1 .. L : frame.data[i] \in Byte /\ errors.data[i] \in Byte
      BY <1>2
    <3>2. \A x, y \in Byte : Xor(x, y) \in Byte
      BY DEF Byte, Xor
    <3> QED
      BY <3>1, <3>2
  <2> DEFINE f == delivered.data
  <2>3. f \in [1 .. L -> Byte]
    BY <1>1, <2>2
  <2> HIDE DEF f, L
  <2>4. f \in Seq(Byte) /\ Len(f) = L
    BY <1>4, <2>3, SeqIs
  <2> QED
    BY <2>1, <2>4 DEF f
<1> HIDE DEF L
<1>6. /\ p \in Seq(Byte) /\ Len(p) = 6 + L
      /\ p[1] = Part(packet.flags, 0, 8) /\ p[2] = Part(packet.flags, 8, 8)
      /\ p[3] = Part(packet.id, 0, 8) /\ p[4] = Part(packet.id, 8, 8)
      /\ p[5] = Part(packet.id, 16, 8) /\ p[6] = Part(packet.id, 24, 8)
      /\ \A i \in 1 .. L : p[6 + i] = packet.data[i]
  BY <1>3, <1>4, CoveredIs
<1>7. /\ e \in Seq(Byte) /\ Len(e) = 6 + L
      /\ e[1] = Part(errors.flags, 0, 8) /\ e[2] = Part(errors.flags, 8, 8)
      /\ e[3] = Part(errors.id, 0, 8) /\ e[4] = Part(errors.id, 8, 8)
      /\ e[5] = Part(errors.id, 16, 8) /\ e[6] = Part(errors.id, 24, 8)
      /\ \A i \in 1 .. L : e[6 + i] = errors.data[i]
  BY <1>2, <1>3, CoveredIs
<1>8. /\ d \in Seq(Byte) /\ Len(d) = 6 + L
      /\ d[1] = Part(delivered.flags, 0, 8) /\ d[2] = Part(delivered.flags, 8, 8)
      /\ d[3] = Part(delivered.id, 0, 8) /\ d[4] = Part(delivered.id, 8, 8)
      /\ d[5] = Part(delivered.id, 16, 8) /\ d[6] = Part(delivered.id, 24, 8)
      /\ \A i \in 1 .. L : d[6 + i] = delivered.data[i]
  BY <1>5, CoveredIs
<1> HIDE DEF p, e, d
<1>9. /\ d[1] = Xor(p[1], e[1]) /\ d[2] = Xor(p[2], e[2])
  <2>1. /\ Part(delivered.flags, 0, 8) = Xor(Part(packet.flags, 0, 8), Part(errors.flags, 0, 8))
        /\ Part(delivered.flags, 8, 8) = Xor(Part(packet.flags, 8, 8), Part(errors.flags, 8, 8))
    BY <1>1, <1>3, WordsOfSum
  <2> QED
    BY <1>6, <1>7, <1>8, <2>1
<1>10. /\ d[3] = Xor(p[3], e[3]) /\ d[4] = Xor(p[4], e[4])
       /\ d[5] = Xor(p[5], e[5]) /\ d[6] = Xor(p[6], e[6])
  <2>1. /\ Part(delivered.id, 0, 8) = Xor(Part(packet.id, 0, 8), Part(errors.id, 0, 8))
        /\ Part(delivered.id, 8, 8) = Xor(Part(packet.id, 8, 8), Part(errors.id, 8, 8))
        /\ Part(delivered.id, 16, 8) = Xor(Part(packet.id, 16, 8), Part(errors.id, 16, 8))
        /\ Part(delivered.id, 24, 8) = Xor(Part(packet.id, 24, 8), Part(errors.id, 24, 8))
    BY <1>1, <1>3, WordsOfSum
  <2> QED
    BY <1>6, <1>7, <1>8, <2>1
<1>11. ASSUME NEW i \in 1 .. L
       PROVE  d[6 + i] = Xor(p[6 + i], e[6 + i])
  <2>1. /\ d[6 + i] = delivered.data[i] /\ p[6 + i] = packet.data[i]
        /\ e[6 + i] = errors.data[i]
    BY <1>6, <1>7, <1>8
  <2>2. delivered.data[i] = Xor(packet.data[i], errors.data[i])
    BY <1>1
  <2> QED
    BY <2>1, <2>2
<1>12. WithErrors(d, p, e)
  <2>1. ASSUME NEW i \in 1 .. 6 + L
        PROVE  d[i] = Xor(p[i], e[i])
    <3>1. CASE i \in 1 .. 6
      <4>1. i = 1 \/ i = 2 \/ i = 3 \/ i = 4 \/ i = 5 \/ i = 6
        BY <3>1
      <4> QED
        BY <1>9, <1>10, <4>1
    <3>2. CASE i \notin 1 .. 6
      <4>1. PICK j \in 1 .. L : i = 6 + j
        <5>1. i - 6 \in 1 .. L /\ i = 6 + (i - 6)
          BY <1>4, <3>2
        <5> QED
          BY <5>1
      <4> QED
        BY <1>11, <4>1
    <3> QED
      BY <3>1, <3>2
  <2> QED
    BY <1>6, <1>7, <1>8, <2>1 DEF WithErrors
<1>13. crcAdd(0 .. 15, d) = Xor(crcAdd(0 .. 15, p), crcAdd({}, e))
  <2> DEFINE start == 0 .. 15
             none == {}
  <2>1. start \in Register /\ none \in Register /\ Xor(start, none) = start
    BY XorSwaps DEF Register
  <2> HIDE DEF start, none
  <2>2. crcAdd(Xor(start, none), d) = Xor(crcAdd(start, p), crcAdd(none, e))
    BY <1>6, <1>7, <1>8, <1>12, <2>1, CrcLinear
  <2> QED
    BY <2>1, <2>2 DEF start, none
<1> QED
  BY <1>6, <1>13 DEF crc16_CCITT, p, e, d, delivered

(* The multicast driver takes a packet exactly when it arrives as it was sent, for every    *)
(* frame and every error of up to 16 bits in a row under the CRC, or in the CRC itself;      *)
(* and its CRC is the remainder of the division.                                    *)
THEOREM ErrorsAreDetected == TablesSpec => []ErrorsDetected
<1>1. ASSUME sample \in Samples
      PROVE  ErrorsDetected
  <2> DEFINE frame == sample.frame
             errors == sample.errors
             packet == mcastPacket(frame)
             delivered == Damaged(packet, errors)
             crc == crc16_CCITT(Covered(packet))
  <2>1. SUFFICES ASSUME sample.table = "packet"
                 PROVE  ErrorsDetected
    BY DEF ErrorsDetected
  <2>2. /\ frame \in [id : SUBSET (0 .. 31), canfd : BOOLEAN, data : Seq(Byte)]
        /\ IsErrors(errors, frame)
    <3>1. IsSample(sample)
      BY <1>1, TablesAssumption
    <3> QED
      BY <2>1, <3>1 DEF IsSample
  <2> HIDE DEF frame, errors
  <2>3. frame.id \in SUBSET Int /\ frame.data \in Seq(Byte)
    <3>1. frame.id \in SUBSET (0 .. 31) /\ frame.data \in Seq(Byte)
      BY <2>2
    <3>2. \A w \in SUBSET (0 .. 31) : w \in SUBSET Int
      OBVIOUS
    <3> QED
      BY <3>1, <3>2
  <2>4. /\ packet.magic = Magic /\ packet.id = frame.id /\ packet.data = frame.data
        /\ packet.flags = IF frame.canfd THEN {0} ELSE {}
        /\ packet.crc = crc
        /\ delivered.magic = Magic /\ delivered.id = Xor(packet.id, errors.id)
        /\ delivered.flags = Xor(packet.flags, errors.flags)
        /\ delivered.crc = Xor(packet.crc, errors.crc)
        /\ delivered.data = [i \in 1 .. Len(frame.data) |-> Xor(frame.data[i], errors.data[i])]
    BY <2>2, <2>3, PacketIs
  <2>5. /\ Covered(packet) \in Seq(Byte)
        /\ crc16_CCITT(Covered(delivered)) = Xor(crc, crcAdd({}, Covered(errors)))
    BY <2>2, <2>3, DamagedCrc
  <2>6. packet.crc = Remainder(Covered(packet))
    BY <2>4, <2>5, CrcIsRemainder
  <2>7. NoErrors(packet, errors) <=> delivered = packet
    BY DEF NoErrors
  <2>a. delivered = [packet EXCEPT
                       !.data = [i \in DOMAIN @ |-> Xor(@[i], errors.data[i])],
                       !.id = Xor(@, errors.id), !.flags = Xor(@, errors.flags),
                       !.crc = Xor(@, errors.crc)]
    BY DEF Damaged
  <2>b. DOMAIN packet = {"magic", "flags", "id", "data", "crc"}
    BY DEF mcastPacket
  <2>8. ASSUME mcastAccepts(delivered)
        PROVE  delivered = packet
    <3> HIDE DEF packet, delivered, crc
    <3>1. Xor(crc, errors.crc) = Xor(crc, crcAdd({}, Covered(errors)))
      BY <2>4, <2>5, <2>8 DEF mcastAccepts
    <3>2. errors.crc = crcAdd({}, Covered(errors))
      <4> DEFINE y == errors.crc
                 z == crcAdd({}, Covered(errors))
      <4>1. Xor(crc, y) = Xor(crc, z)
        BY <3>1
      <4> HIDE DEF y, z
      <4>2. y = z
        BY <4>1 DEF Xor
      <4> QED
        BY <4>2 DEF y, z
    <3>3. /\ errors.crc = {} /\ errors.flags = {} /\ errors.id = {}
          /\ \A i \in 1 .. Len(errors.data) : errors.data[i] = {}
      BY <2>2, <2>3, <3>2, UnseenErrorsAreNone
    <3>4. Len(errors.data) = Len(frame.data)
      BY <2>2 DEF IsErrors
    <3>5. delivered.data = frame.data
      <4>1. \A i \in 1 .. Len(frame.data) : Xor(frame.data[i], errors.data[i]) = frame.data[i]
        BY <3>3, <3>4, XorSwaps
      <4>2. delivered.data = [i \in 1 .. Len(frame.data) |-> frame.data[i]]
        BY <2>4, <4>1
      <4> QED
        BY <2>3, <4>2
    <3>6. /\ delivered.id = packet.id /\ delivered.flags = packet.flags
          /\ delivered.crc = packet.crc /\ delivered.data = packet.data
          /\ delivered.magic = packet.magic
      <4>1. \A x : Xor(x, {}) = x
        BY XorSwaps, Zenon
      <4> QED
        BY <2>4, <3>3, <3>5, <4>1
    <3>7. DOMAIN delivered = DOMAIN packet
      BY <2>a
    <3>8. delivered = [magic |-> packet.magic, flags |-> packet.flags, id |-> packet.id,
                       data |-> packet.data, crc |-> packet.crc]
      BY <2>a, <2>b, <3>6, <3>7
    <3>9. packet = [magic |-> packet.magic, flags |-> packet.flags, id |-> packet.id,
                    data |-> packet.data, crc |-> packet.crc]
      BY DEF packet, mcastPacket
    <3> QED
      BY <3>8, <3>9
  <2>9. delivered = packet => mcastAccepts(delivered)
    <3> HIDE DEF packet, delivered, crc
    <3>1. Received(packet) >= 10
      <4>1. Len(packet.data) \in Nat
        BY <2>3, <2>4
      <4> QED
        BY <4>1 DEF Received
    <3> QED
      BY <2>4, <2>5, <3>1 DEF mcastAccepts, crc
  <2>10. mcastFrame(packet) = frame
    <3>1. 0 \in packet.flags <=> frame.canfd
      BY <2>4
    <3> HIDE DEF packet
    <3>2. mcastFrame(packet) = [id |-> frame.id, canfd |-> 0 \in packet.flags, data |-> frame.data]
      BY <2>4 DEF mcastFrame
    <3>3. (0 \in packet.flags) = frame.canfd
      BY <2>2, <3>1
    <3> QED
      BY <2>2, <3>2, <3>3
  <2> QED
    BY <2>6, <2>7, <2>8, <2>9, <2>10 DEF ErrorsDetected, frame, errors
<1>2. TablesInit => sample \in Samples
  BY DEF TablesInit
<1>3. sample \in Samples /\ [UNCHANGED sample]_sample => (sample \in Samples)'
  OBVIOUS
<1> QED
  BY <1>1, <1>2, <1>3, PTL DEF TablesSpec

-----------------------------------------------------------------------------
(* Descriptors of the operating system *)

LEMMA SocketSteps ==
    /\ Len(socketcanSteps) = 5
    /\ socketcanSteps[1] = "name"
    /\ socketcanSteps[2] = "socket"
    /\ socketcanSteps[3] = "ioctl"
    /\ socketcanSteps[4] = "setsockopt"
    /\ socketcanSteps[5] = "bind"
BY DEF socketcanSteps

LEMMA McastSteps ==
    /\ Len(mcastSteps) = 10
    /\ mcastSteps[1] = "name"
    /\ mcastSteps[2] = "bus"
    /\ mcastSteps[3] = "socketIn"
    /\ mcastSteps[4] = "fcntlIn"
    /\ mcastSteps[5] = "setsockopt"
    /\ mcastSteps[6] = "bind"
    /\ mcastSteps[7] = "membership"
    /\ mcastSteps[8] = "socketOut"
    /\ mcastSteps[9] = "fcntlOut"
    /\ mcastSteps[10] = "connect"
BY DEF mcastSteps

LEMMA SocketIsClosed ==
    ASSUME NEW k \in 1 .. 6
    PROVE  LET state == socketcanInit(k)
           IN  IF state.result < 0 THEN state.open = {} ELSE socketcanClose(state).open = {}
<1> DEFINE open == OpenBefore(socketcanSteps, k)
           state == socketcanInit(k)
<1>1. open \subseteq {"socket"} /\ (k <= 2 => open = {})
  <2>1. ASSUME NEW x \in open
        PROVE  x = "socket" /\ k > 2
    <3>1. PICK i \in 1 .. k - 1 : x = socketcanSteps[i] /\ x \in Opening
      BY DEF OpenBefore
    <3>2. i = 1 \/ i = 2 \/ i = 3 \/ i = 4 \/ i = 5
      OBVIOUS
    <3>3. i = 2 /\ x = "socket"
      BY <3>1, <3>2, SocketSteps DEF Opening
    <3> QED
      BY <3>1, <3>3
  <2> HIDE DEF open
  <2> QED
    BY <2>1
<1> HIDE DEF open
<1>2. state = IF k > 5 THEN [result |-> 0, open |-> open, fields |-> {"socket"}]
              ELSE [result |-> -1, open |-> socketcanFail(socketcanSteps[k], open), fields |-> {}]
  BY SocketSteps DEF socketcanInit, Outcome, open
<1> HIDE DEF state
<1>3. CASE k > 5
  <2>1. state.result = 0 /\ state.open = open
    BY <1>2, <1>3
  <2>2. socketcanClose(state).open = state.open \ {"socket"}
    BY DEF socketcanClose, Outcome
  <2>3. socketcanClose(state).open = {}
    BY <1>1, <2>1, <2>2
  <2> QED
    BY <2>1, <2>3 DEF state
<1>4. CASE k <= 5
  <2>1. state.result = -1 /\ state.open = socketcanFail(socketcanSteps[k], open)
    BY <1>2, <1>4
  <2>2. k <= 2 \/ ~(socketcanSteps[k] \in {"name", "socket"})
    <3>1. k = 1 \/ k = 2 \/ k = 3 \/ k = 4 \/ k = 5
      BY <1>4
    <3> QED
      BY <3>1, SocketSteps
  <2>3. state.open = {}
    BY <1>1, <2>1, <2>2 DEF socketcanFail
  <2> QED
    BY <2>1, <2>3 DEF state
<1> QED
  BY <1>3, <1>4

LEMMA MulticastIsClosed ==
    ASSUME NEW k \in 1 .. 11
    PROVE  LET state == mcastInit(k)
           IN  IF state.result < 0 THEN state.open = {} ELSE mcastClose(state).open = {}
<1> DEFINE open == OpenBefore(mcastSteps, k)
           state == mcastInit(k)
<1>1. open \subseteq {"socketIn", "socketOut"} /\ (k <= 2 => open = {})
  <2>1. ASSUME NEW x \in open
        PROVE  x \in {"socketIn", "socketOut"} /\ k > 2
    <3>1. PICK i \in 1 .. k - 1 : x = mcastSteps[i] /\ x \in Opening
      BY DEF OpenBefore
    <3>2. \/ i = 1 \/ i = 2 \/ i = 3 \/ i = 4 \/ i = 5 \/ i = 6 \/ i = 7 \/ i = 8 \/ i = 9
          \/ i = 10
      OBVIOUS
    <3>3. (i = 3 \/ i = 8) /\ x \in {"socketIn", "socketOut"}
      BY <3>1, <3>2, McastSteps DEF Opening
    <3> QED
      BY <3>1, <3>3
  <2> HIDE DEF open
  <2> QED
    BY <2>1
<1> HIDE DEF open
<1>2. state = IF k > 10 THEN [result |-> 0, open |-> open, fields |-> open]
              ELSE [result |-> -1, open |-> mcastFail(mcastSteps[k], open), fields |-> {}]
  BY McastSteps DEF mcastInit, Outcome, open
<1> HIDE DEF state
<1>3. CASE k > 10
  <2>1. state.result = 0 /\ state.open = open
    BY <1>2, <1>3
  <2>2. mcastClose(state).open = state.open \ {"socketIn", "socketOut"}
    BY DEF mcastClose, Outcome
  <2>3. mcastClose(state).open = {}
    BY <1>1, <2>1, <2>2
  <2> QED
    BY <2>1, <2>3 DEF state
<1>4. CASE k <= 10
  <2>1. state.result = -1 /\ state.open = mcastFail(mcastSteps[k], open)
    BY <1>2, <1>4
  <2>2. k <= 2 \/ ~(mcastSteps[k] \in {"name", "bus"})
    <3>1. \/ k = 1 \/ k = 2 \/ k = 3 \/ k = 4 \/ k = 5 \/ k = 6 \/ k = 7 \/ k = 8 \/ k = 9
          \/ k = 10
      BY <1>4
    <3> QED
      BY <3>1, McastSteps
  <2>3. state.open = {}
    BY <1>1, <2>1, <2>2 DEF mcastFail
  <2> QED
    BY <2>1, <2>3 DEF state
<1> QED
  BY <1>3, <1>4

(* An initialisation that fails at any step closes what it opened, and what a successful   *)
(* one opened the driver's close function closes: no descriptor is ever lost.           *)
THEOREM NoDescriptorLost == TablesSpec => []DescriptorsClosed
<1>1. ASSUME sample \in Samples
      PROVE  DescriptorsClosed
  <2> DEFINE multicast == sample.multicast
             k == sample.step
             state == LinuxCANInit(multicast, k)
  <2>1. SUFFICES ASSUME sample.table = "open"
                 PROVE  IF state.result < 0 THEN state.open = {}
                        ELSE LinuxCANClose(multicast, state).open = {}
    BY DEF DescriptorsClosed
  <2>2. /\ multicast \in BOOLEAN
        /\ k \in 1 .. 1 + Len(IF multicast THEN mcastSteps ELSE socketcanSteps)
    <3>1. IsSample(sample)
      BY <1>1, TablesAssumption
    <3> QED
      BY <2>1, <3>1 DEF IsSample
  <2> HIDE DEF multicast, k
  <2>3. CASE multicast
    <3>1. k \in 1 .. 11
      <4>1. (IF multicast THEN mcastSteps ELSE socketcanSteps) = mcastSteps
        BY <2>3, Zenon
      <4>2. k \in 1 .. 1 + Len(mcastSteps)
        BY <2>2, <4>1, Zenon
      <4> QED
        BY <4>2, McastSteps
    <3>2. IF mcastInit(k).result < 0 THEN mcastInit(k).open = {}
          ELSE mcastClose(mcastInit(k)).open = {}
      BY <3>1, MulticastIsClosed
    <3> QED
      BY <2>3, <3>2 DEF LinuxCANInit, LinuxCANClose
  <2>4. CASE ~multicast
    <3>1. k \in 1 .. 6
      <4>1. (IF multicast THEN mcastSteps ELSE socketcanSteps) = socketcanSteps
        BY <2>4, Zenon
      <4>2. k \in 1 .. 1 + Len(socketcanSteps)
        BY <2>2, <4>1, Zenon
      <4> QED
        BY <4>2, SocketSteps
    <3>2. IF socketcanInit(k).result < 0 THEN socketcanInit(k).open = {}
          ELSE socketcanClose(socketcanInit(k)).open = {}
      BY <3>1, SocketIsClosed
    <3> QED
      BY <2>4, <3>2 DEF LinuxCANInit, LinuxCANClose
  <2> QED
    BY <2>3, <2>4
<1>2. TablesInit => sample \in Samples
  BY DEF TablesInit
<1>3. sample \in Samples /\ [UNCHANGED sample]_sample => (sample \in Samples)'
  OBVIOUS
<1> QED
  BY <1>1, <1>2, <1>3, PTL DEF TablesSpec

-----------------------------------------------------------------------------
(* Bit timings *)

LEMMA GreatestOf ==
    ASSUME NEW D, D \subseteq 3 .. 17, D # {}
    PROVE  Max(D) \in D
<1> DEFINE Gaps == {n \in 0 .. 14 : 17 - n \in D}
<1>1. Gaps \subseteq Nat /\ Gaps # {}
  <2>1. PICK d \in D : d \in 3 .. 17
    OBVIOUS
  <2>2. 17 - d \in 0 .. 14 /\ 17 - (17 - d) = d
    BY <2>1
  <2>3. 17 - d \in Gaps
    BY <2>2
  <2>4. \A n \in Gaps : n \in Nat
    OBVIOUS
  <2> HIDE DEF Gaps
  <2> QED
    BY <2>3, <2>4
<1>2. PICK n \in Gaps : \A m \in Gaps : n <= m
  <2> HIDE DEF Gaps
  <2> QED
    BY <1>1, Least
<1>3. 17 - n \in D /\ n \in 0 .. 14
  BY <1>2
<1>4. ASSUME NEW d \in D
      PROVE  17 - n >= d
  <2>1. d \in 3 .. 17
    OBVIOUS
  <2>2. PICK m \in 0 .. 14 : m = 17 - d
    <3>1. 17 - d \in 0 .. 14
      BY <2>1
    <3> QED
      BY <3>1
  <2>3. 17 - m = d
    BY <2>1, <2>2
  <2>4. m \in Gaps
    BY <2>3
  <2>5. n <= m
    BY <1>2, <2>4
  <2> QED
    BY <1>3, <2>1, <2>2, <2>5
<1>5. \E x \in D : \A y \in D : x >= y
  BY <1>3, <1>4
<1> QED
  BY <1>5 DEF Max

(* The split of a bit of sum + 1 quanta. *)
Distance(bs1, sum) == LET d == 8 * (1 + bs1) - 7 * (1 + sum) IN IF d < 0 THEN -d ELSE d
BestOf(sum, bs1) ==
    /\ bs1 \in Int
    /\ SamplePoint(bs1, sum - bs1) <= 900
    /\ \A b \in 1 .. sum - 1 :
           SamplePoint(b, sum - b) <= 900 => Distance(bs1, sum) <= Distance(b, sum)

(* The limit of the sample point, without the division. *)
LEMMA PointIs ==
    ASSUME NEW sum \in 2 .. 16, NEW b \in Int
    PROVE  SamplePoint(b, sum - b) <= 900 <=> 1000 * (1 + b) < 901 * (1 + sum)
<1>1. 1 + b + (sum - b) = 1 + sum
  OBVIOUS
<1>2. SamplePoint(b, sum - b) = (1000 * (1 + b)) \div (1 + sum)
  BY <1>1 DEF SamplePoint
<1>3. \/ sum = 2 \/ sum = 3 \/ sum = 4 \/ sum = 5 \/ sum = 6 \/ sum = 7 \/ sum = 8 \/ sum = 9
      \/ sum = 10 \/ sum = 11 \/ sum = 12 \/ sum = 13 \/ sum = 14 \/ sum = 15 \/ sum = 16
  OBVIOUS
<1>4. (1000 * (1 + b)) \div (1 + sum) <= 900 <=> 1000 * (1 + b) < 901 * (1 + sum)
  BY <1>3
<1> QED
  BY <1>2, <1>4

LEMMA SegmentIs ==
    ASSUME NEW sum \in 2 .. 16
    PROVE  BestOf(sum, Segment1(sum))
<1> DEFINE near == (7 * sum + 3) \div 8
           below == (7 * sum - 1) \div 8
           allowed(b) == 1000 * (1 + b) < 901 * (1 + sum)
<1>1. near \in Int /\ 8 * near <= 7 * sum + 3 /\ 7 * sum + 3 < 8 * near + 8
  OBVIOUS
<1>2. below \in Int /\ 8 * below <= 7 * sum - 1 /\ 7 * sum - 1 < 8 * below + 8
  OBVIOUS
<1>3. Segment1(sum) = IF SamplePoint(near, sum - near) > 900 THEN below ELSE near
  <2>1. 7 * sum - 1 + 4 = 7 * sum + 3
    OBVIOUS
  <2> QED
    BY <2>1 DEF Segment1
<1> HIDE DEF near, below
<1>4. \A b \in Int : SamplePoint(b, sum - b) <= 900 <=> allowed(b)
  BY PointIs
<1>5. \A b \in Int : SamplePoint(b, sum - b) \in Int
  <2>1. \A b \in Int : SamplePoint(b, sum - b) = (1000 * (1 + b)) \div (1 + sum)
    <3>1. \A b \in Int : 1 + b + (sum - b) = 1 + sum
      OBVIOUS
    <3> QED
      BY <3>1 DEF SamplePoint
  <2> QED
    BY <2>1
<1>6. Segment1(sum) = IF allowed(near) THEN near ELSE below
  BY <1>1, <1>3, <1>4, <1>5
<1>7. CASE allowed(near)
  <2>1. \A b \in Int : Distance(near, sum) <= Distance(b, sum)
    BY <1>1 DEF Distance
  <2> QED
    BY <1>1, <1>4, <1>6, <1>7, <2>1 DEF BestOf
<1>8. CASE ~allowed(near)
  <2>1. allowed(below) /\ below < near
    BY <1>1, <1>2, <1>8
  <2>2. below = near - 1
    BY <1>1, <1>2, <2>1
  <2>3. \A b \in Int : allowed(b) => b <= below
    BY <1>1, <1>8, <2>2
  <2>4. \A b \in Int : b <= below => Distance(below, sum) <= Distance(b, sum)
    BY <1>2 DEF Distance
  <2> QED
    BY <1>2, <1>4, <1>6, <1>8, <2>1, <2>3, <2>4 DEF BestOf
<1> QED
  BY <1>7, <1>8

(* Whatever the clock and the rate: timings that are returned pass the check of        *)
(* canardSTM32Init, the clock divided by them is the rate that was asked for, and no other   *)
(* split with a sample point up to 90 % has it nearer to 7/8.                          *)
THEOREM TimingsAreExact == TablesSpec => []TimingsExact
<1>1. ASSUME sample \in Samples
      PROVE  TimingsExact
  <2> DEFINE clock == sample.clock
             rate == sample.rate
             t == canardSTM32ComputeCANTimings(clock, rate)
             D == Dividers(clock, rate)
             quanta == Max(D)
             prescaler == (clock \div rate) \div quanta
             first == Segment1(quanta - 1)
             second == quanta - 1 - first
  <2>1. SUFFICES ASSUME sample.table = "timing", t # NoTimings
                 PROVE  LET sum == t.bs1 + t.bs2
                        IN  /\ TimingsValid(t)
                            /\ clock \div (t.prescaler * (1 + sum)) = rate
                            /\ SamplePoint(t.bs1, t.bs2) <= 900
                            /\ \A bs1 \in 1 .. sum - 1 :
                                  SamplePoint(bs1, sum - bs1) <= 900
                                      => Distance(t.bs1, sum) <= Distance(bs1, sum)
    BY DEF TimingsExact, Distance
  <2> DEFINE tried == IF /\ prescaler \in 1 .. 1024
                         /\ rate = clock \div (prescaler * (1 + first + second))
                         /\ first \in 1 .. 16 /\ second \in 1 .. 8
                      THEN [prescaler |-> prescaler, bs1 |-> first, bs2 |-> second]
                      ELSE NoTimings
             slow == rate < 1000
  <2>2. t = IF slow \/ D = {} THEN NoTimings ELSE tried
    BY Zenon DEF canardSTM32ComputeCANTimings
  <2>3. D \subseteq 3 .. 17
    BY DEF Dividers, MaxQuanta
  <2>4. D # {} /\ t = tried
    <3> HIDE DEF slow, tried, t, D
    <3> QED
      BY <2>1, <2>2, Zenon
  <2> HIDE DEF D, t
  <2>5. quanta \in 3 .. 17
    <3>1. D # {}
      BY <2>4, Zenon
    <3>2. Max(D) \in D
      BY <2>3, <3>1, GreatestOf, Zenon
    <3> QED
      BY <2>3, <3>2
  <2> HIDE DEF quanta
  <2> DEFINE sum == quanta - 1
  <2>6. sum \in 2 .. 16
    BY <2>5
  <2>7. BestOf(sum, first)
    <3> HIDE DEF sum
    <3>1. BestOf(sum, Segment1(sum))
      BY <2>6, SegmentIs
    <3> QED
      BY <3>1 DEF sum
  <2> HIDE DEF first, prescaler, clock, rate
  <2>8. second \in Int /\ first + second = sum /\ second = sum - first /\ first \in Int
    BY <2>6, <2>7 DEF BestOf
  <2> HIDE DEF second, sum
  <2>9. /\ prescaler \in 1 .. 1024
        /\ rate = clock \div (prescaler * (1 + first + second))
        /\ first \in 1 .. 16
        /\ second \in 1 .. 8
        /\ t = [prescaler |-> prescaler, bs1 |-> first, bs2 |-> second]
    BY <2>1, <2>4
  <2>10. t.prescaler = prescaler /\ t.bs1 = first /\ t.bs2 = second
    BY <2>9
  <2>11. TimingsValid(t)
    BY <2>9, <2>10 DEF TimingsValid
  <2>12. clock \div (prescaler * (1 + (first + second))) = rate
    <3>1. 1 + first + second = 1 + (first + second)
      BY <2>8
    <3> QED
      BY <2>9, <3>1
  <2>13. SamplePoint(first, second) <= 900
    BY <2>7, <2>8 DEF BestOf
  <2>14. \A bs1 \in 1 .. sum - 1 :
             SamplePoint(bs1, sum - bs1) <= 900 => Distance(first, sum) <= Distance(bs1, sum)
    BY <2>7 DEF BestOf
  <2>15. t.bs1 + t.bs2 = sum /\ first + second = sum
    BY <2>8, <2>10, Zenon
  <2>16. clock \div (t.prescaler * (1 + (t.bs1 + t.bs2))) = rate
    BY <2>10, <2>12, Zenon
  <2>17. SamplePoint(t.bs1, t.bs2) <= 900
    BY <2>10, <2>13, Zenon
  <2> DEFINE nearest(f, s) ==
                 \A bs1 \in 1 .. s - 1 :
                     SamplePoint(bs1, s - bs1) <= 900 => Distance(f, s) <= Distance(bs1, s)
  <2>18. nearest(t.bs1, t.bs1 + t.bs2)
    <3>1. t.bs1 = first
      BY <2>10, Zenon
    <3>2. nearest(first, sum)
      BY <2>14, Zenon
    <3> HIDE DEF nearest
    <3> QED
      BY <2>15, <3>1, <3>2, Zenon
  <2> QED
    BY <2>11, <2>16, <2>17, <2>18, Zenon
<1>2. TablesInit => sample \in Samples
  BY DEF TablesInit
<1>3. sample \in Samples /\ [UNCHANGED sample]_sample => (sample \in Samples)'
  OBVIOUS
<1> QED
  BY <1>1, <1>2, <1>3, PTL DEF TablesSpec

-----------------------------------------------------------------------------
(* Numbers and words *)

Bit(word, w) == IF w \in word THEN 1 ELSE 0

(* The numbers of the n highest of the bits 17 .. 0. *)
Uppers(f, word) ==
    /\ f \in [0 .. 18 -> Nat]
    /\ f[0] = 0
    /\ \A n \in 1 .. 18 : f[n] = 2 * f[n - 1] + Bit(word, 18 - n)

LEMMA ValueIs ==
    ASSUME NEW word
    PROVE  \E f : Uppers(f, word) /\ Value(word) = f[18]
<1> DEFINE Is(f) == f = [n \in 0 .. 18 |->
                            IF n = 0 THEN 0
                            ELSE 2 * f[n - 1] + (IF 18 - n \in word THEN 1 ELSE 0)]
           upper == CHOOSE f : Is(f)
           next == [p \in (1 .. 18) \X Nat |-> 2 * p[2] + Bit(word, 18 - p[1])]
<1>1. Value(word) = upper[18]
  BY DEF Value
<1>2. PICK f : Uppers(f, word)
  <2>0. \A w : Bit(word, w) \in Nat
    BY DEF Bit
  <2>1. Steps(next, 18, Nat)
    <3>1. \A p \in (1 .. 18) \X Nat : 2 * p[2] + Bit(word, 18 - p[1]) \in Nat
      BY <2>0
    <3> QED
      BY <3>1 DEF Steps
  <2>2. \A k \in 1 .. 18, v \in Nat : next[<<k, v>>] = 2 * v + Bit(word, 18 - k)
    OBVIOUS
  <2> HIDE DEF next
  <2>3. PICK f : Follows(f, next, 18, Nat, 0)
    <3>1. 18 \in Nat /\ 0 \in Nat
      OBVIOUS
    <3> QED
      BY <2>1, <3>1, Counts, Zenon
  <2>4. f \in [0 .. 18 -> Nat] /\ f[0] = 0 /\ \A k \in 1 .. 18 : f[k] = next[<<k, f[k - 1]>>]
    BY <2>3 DEF Follows
  <2>5. \A k \in 1 .. 18 : k - 1 \in 0 .. 18 /\ f[k - 1] \in Nat
    BY <2>4
  <2>6. \A k \in 1 .. 18 : f[k] = 2 * f[k - 1] + Bit(word, 18 - k)
    BY <2>2, <2>4, <2>5
  <2> QED
    BY <2>4, <2>6 DEF Uppers
<1>3. /\ f \in [0 .. 18 -> Nat]
      /\ f[0] = 0
      /\ \A n \in 1 .. 18 : f[n] = 2 * f[n - 1] + (IF 18 - n \in word THEN 1 ELSE 0)
  BY <1>2 DEF Uppers, Bit
<1>4. Is(f)
  BY <1>3
<1>5. Is(upper)
  <2> HIDE DEF Is
  <2> QED
    BY <1>4
<1>6. /\ upper[0] = 0
      /\ \A n \in 1 .. 18 : upper[n] = 2 * upper[n - 1] + (IF 18 - n \in word THEN 1 ELSE 0)
      /\ DOMAIN upper = 0 .. 18
  <2> HIDE DEF upper
  <2> QED
    BY <1>5
<1> HIDE DEF upper
<1> DEFINE S == {n \in 0 .. 18 : upper[n] = f[n]}
<1>7. 0 \in S
  BY <1>3, <1>6
<1>8. ASSUME NEW n \in 0 .. 18, n < 18, n \in S
      PROVE  n + 1 \in S
  <2>1. n + 1 \in 1 .. 18 /\ n + 1 - 1 = n
    BY <1>8
  <2>2. /\ upper[n + 1] = 2 * upper[n] + (IF 18 - (n + 1) \in word THEN 1 ELSE 0)
        /\ f[n + 1] = 2 * f[n] + (IF 18 - (n + 1) \in word THEN 1 ELSE 0)
    BY <1>3, <1>6, <2>1
  <2> QED
    BY <1>8, <2>1, <2>2
<1>9. \A n \in 0 .. 18 : n \in S
  <2> HIDE DEF S
  <2>1. 18 \in Nat
    OBVIOUS
  <2> QED
    BY <1>7, <1>8, <2>1, Counting
<1>10. upper[18] = f[18]
  BY <1>9
<1> QED
  BY <1>1, <1>2, <1>10

(* From bit n on, the words are the same, or the highest bit in which they differ is b's. *)
SameFrom(a, b, n) == \A v \in n .. 17 : v \in a <=> v \in b
LessFrom(a, b, n) ==
    \E w \in n .. 17 : w \in b /\ w \notin a /\ \A v \in n .. 17 : v > w => (v \in a <=> v \in b)

LEMMA OneMoreBit ==
    ASSUME NEW a, NEW b, NEW n \in 0 .. 17
    PROVE  /\ SameFrom(a, b, n + 1) /\ Bit(a, n) = Bit(b, n) => SameFrom(a, b, n)
           /\ SameFrom(a, b, n + 1) /\ Bit(a, n) < Bit(b, n) => LessFrom(a, b, n)
           /\ LessFrom(a, b, n + 1) => LessFrom(a, b, n)
<1>1. \A v \in n .. 17 : v = n \/ v \in n + 1 .. 17
  OBVIOUS
<1>2. \A v \in n + 1 .. 17 : v \in n .. 17 /\ v > n
  OBVIOUS
<1>3. ASSUME SameFrom(a, b, n + 1), Bit(a, n) = Bit(b, n)
      PROVE  SameFrom(a, b, n)
  <2>1. n \in a <=> n \in b
    BY <1>3 DEF Bit
  <2> QED
    BY <1>1, <1>3, <2>1 DEF SameFrom
<1>4. ASSUME SameFrom(a, b, n + 1), Bit(a, n) < Bit(b, n)
      PROVE  LessFrom(a, b, n)
  <2>1. n \in b /\ n \notin a
    BY <1>4 DEF Bit
  <2>2. \A v \in n .. 17 : v > n => (v \in a <=> v \in b)
    BY <1>1, <1>4 DEF SameFrom
  <2>3. n \in n .. 17
    OBVIOUS
  <2> QED
    BY <2>1, <2>2, <2>3 DEF LessFrom
<1>5. ASSUME LessFrom(a, b, n + 1)
      PROVE  LessFrom(a, b, n)
  <2>1. PICK w \in n + 1 .. 17 :
            w \in b /\ w \notin a /\ \A v \in n + 1 .. 17 : v > w => (v \in a <=> v \in b)
    BY <1>5 DEF LessFrom
  <2>2. \A v \in n .. 17 : v > w => v \in n + 1 .. 17
    OBVIOUS
  <2>3. w \in n .. 17
    BY <1>2
  <2> QED
    BY <2>1, <2>2, <2>3 DEF LessFrom
<1> QED
  BY <1>3, <1>4, <1>5

LEMMA SameIsSymmetric ==
    ASSUME NEW a, NEW b, NEW n, SameFrom(a, b, n)
    PROVE  SameFrom(b, a, n)
BY DEF SameFrom

LEMMA ValuesCompare ==
    ASSUME NEW a, NEW b
    PROVE  /\ Value(a) \in Nat /\ Value(b) \in Nat
           /\ \/ Value(a) = Value(b) /\ SameFrom(a, b, 0)
              \/ Value(a) < Value(b) /\ LessFrom(a, b, 0)
              \/ Value(b) < Value(a) /\ LessFrom(b, a, 0)
<1>1. PICK f : Uppers(f, a) /\ Value(a) = f[18]
  BY ValueIs
<1>2. PICK g : Uppers(g, b) /\ Value(b) = g[18]
  BY ValueIs
<1>3. /\ f \in [0 .. 18 -> Nat] /\ f[0] = 0
      /\ \A n \in 1 .. 18 : f[n] = 2 * f[n - 1] + Bit(a, 18 - n)
  BY <1>1 DEF Uppers
<1>4. /\ g \in [0 .. 18 -> Nat] /\ g[0] = 0
      /\ \A n \in 1 .. 18 : g[n] = 2 * g[n - 1] + Bit(b, 18 - n)
  BY <1>2 DEF Uppers
<1> DEFINE Agree(n) == \/ f[n] = g[n] /\ SameFrom(a, b, 18 - n)
                       \/ f[n] < g[n] /\ LessFrom(a, b, 18 - n)
                       \/ g[n] < f[n] /\ LessFrom(b, a, 18 - n)
           S == {n \in 0 .. 18 : Agree(n)}
<1>5. 0 \in S
  <2>1. SameFrom(a, b, 18)
    <3>1. 18 .. 17 = {}
      OBVIOUS
    <3> QED
      BY <3>1 DEF SameFrom
  <2>2. 18 - 0 = 18 /\ 0 \in 0 .. 18
    OBVIOUS
  <2> QED
    BY <1>3, <1>4, <2>1, <2>2
<1>6. ASSUME NEW n \in 0 .. 18, n < 18, n \in S
      PROVE  n + 1 \in S
  <2> DEFINE w == 17 - n
  <2>1. /\ n + 1 \in 1 .. 18 /\ n + 1 \in 0 .. 18 /\ n + 1 - 1 = n
        /\ 18 - (n + 1) = w /\ 18 - n = w + 1 /\ w \in 0 .. 17
    BY <1>6
  <2> HIDE DEF w
  <2>2. f[n + 1] = 2 * f[n] + Bit(a, w) /\ g[n + 1] = 2 * g[n] + Bit(b, w)
    BY <1>3, <1>4, <2>1
  <2>3. f[n] \in Nat /\ g[n] \in Nat
    BY <1>3, <1>4
  <2>4. Bit(a, w) \in {0, 1} /\ Bit(b, w) \in {0, 1}
    BY DEF Bit
  <2>5. /\ SameFrom(a, b, w + 1) /\ Bit(a, w) = Bit(b, w) => SameFrom(a, b, w)
        /\ SameFrom(a, b, w + 1) /\ Bit(a, w) < Bit(b, w) => LessFrom(a, b, w)
        /\ LessFrom(a, b, w + 1) => LessFrom(a, b, w)
    BY <2>1, OneMoreBit
  <2>6. /\ SameFrom(a, b, w + 1) /\ Bit(b, w) < Bit(a, w) => LessFrom(b, a, w)
        /\ LessFrom(b, a, w + 1) => LessFrom(b, a, w)
    BY <2>1, OneMoreBit, SameIsSymmetric
  <2>7. \/ f[n] = g[n] /\ SameFrom(a, b, w + 1)
        \/ f[n] < g[n] /\ LessFrom(a, b, w + 1)
        \/ g[n] < f[n] /\ LessFrom(b, a, w + 1)
    BY <1>6, <2>1
  <2>8. \/ f[n + 1] = g[n + 1] /\ SameFrom(a, b, w)
        \/ f[n + 1] < g[n + 1] /\ LessFrom(a, b, w)
        \/ g[n + 1] < f[n + 1] /\ LessFrom(b, a, w)
    BY <2>2, <2>3, <2>4, <2>5, <2>6, <2>7
  <2> QED
    BY <2>1, <2>8
<1>7. \A n \in 0 .. 18 : n \in S
  <2> HIDE DEF S
  <2>1. 18 \in Nat
    OBVIOUS
  <2> QED
    BY <1>5, <1>6, <2>1, Counting
<1>8. Agree(18) /\ 18 - 18 = 0
  BY <1>7
<1>9. f[18] \in Nat /\ g[18] \in Nat
  BY <1>3, <1>4
<1> QED
  BY <1>1, <1>2, <1>8, <1>9

(* The order of words is that of their numbers. *)
LEMMA LessIs ==
    ASSUME NEW a, NEW b, a \subseteq 0 .. 17, b \subseteq 0 .. 17
    PROVE  /\ a = b <=> Value(a) = Value(b)
           /\ Less(a, b) <=> Value(a) < Value(b)
<1>1. /\ Value(a) \in Nat /\ Value(b) \in Nat
      /\ \/ Value(a) = Value(b) /\ SameFrom(a, b, 0)
         \/ Value(a) < Value(b) /\ LessFrom(a, b, 0)
         \/ Value(b) < Value(a) /\ LessFrom(b, a, 0)
  BY ValuesCompare
<1>2. SameFrom(a, b, 0) => a = b
  BY DEF SameFrom
<1>3. LessFrom(a, b, 0) => Less(a, b)
  <2>1. SUFFICES ASSUME LessFrom(a, b, 0)
                 PROVE  Less(a, b)
    OBVIOUS
  <2>2. PICK w \in 0 .. 17 :
            w \in b /\ w \notin a /\ \A v \in 0 .. 17 : v > w => (v \in a <=> v \in b)
    BY <2>1 DEF LessFrom
  <2>3. \A v \in Xor(a, b) : v <= w
    BY <2>2 DEF Xor
  <2> QED
    BY <2>2, <2>3 DEF Less
<1>4. LessFrom(b, a, 0) => Less(b, a)
  <2>1. SUFFICES ASSUME LessFrom(b, a, 0)
                 PROVE  Less(b, a)
    OBVIOUS
  <2>2. PICK w \in 0 .. 17 :
            w \in a /\ w \notin b /\ \A v \in 0 .. 17 : v > w => (v \in b <=> v \in a)
    BY <2>1 DEF LessFrom
  <2>3. \A v \in Xor(b, a) : v <= w
    BY <2>2 DEF Xor
  <2> QED
    BY <2>2, <2>3 DEF Less
<1>5. ~(Less(a, b) /\ Less(b, a))
  <2>1. SUFFICES ASSUME Less(a, b), Less(b, a)
                 PROVE  FALSE
    OBVIOUS
  <2>2. PICK w \in b \ a : \A v \in Xor(a, b) : v <= w
    BY <2>1 DEF Less
  <2>3. PICK u \in a \ b : \A v \in Xor(b, a) : v <= u
    BY <2>1 DEF Less
  <2>4. u <= w /\ w <= u
    BY <2>2, <2>3 DEF Xor
  <2>5. u \in 0 .. 17 /\ w \in 0 .. 17
    OBVIOUS
  <2> QED
    BY <2>4, <2>5
<1>6. Less(a, b) => a # b
  BY DEF Less
<1>7. Less(b, a) => a # b
  BY DEF Less
<1> QED
  BY <1>1, <1>2, <1>3, <1>4, <1>5, <1>6, <1>7

(* An extended identifier is compared by its eleven highest bits, and then by the others. *)
LEMMA HighThenLow ==
    ASSUME NEW a, NEW b, a \subseteq Int, b \subseteq Int
    PROVE  LET whole(id) == Part(id, 0, 29)
               high(id) == Part(id, 18, 11)
               low(id) == Part(id, 0, 18)
           IN  /\ whole(a) = whole(b) <=> high(a) = high(b) /\ low(a) = low(b)
               /\ Less(whole(a), whole(b))
                      <=> \/ Less(high(a), high(b))
                          \/ high(a) = high(b) /\ Less(low(a), low(b))
<1> DEFINE A == Part(a, 0, 29)
           B == Part(b, 0, 29)
           HA == Part(a, 18, 11)
           HB == Part(b, 18, 11)
           LA == Part(a, 0, 18)
           LB == Part(b, 0, 18)
<1>0. 0 \in Int /\ 11 \in Int /\ 18 \in Int /\ 29 \in Int
  OBVIOUS
<1>1. /\ A \subseteq Int
      /\ \A x \in Int : x \in A <=> 0 <= x /\ x < 29 /\ x + 0 \in a
  BY <1>0, InPart
<1>2. /\ B \subseteq Int
      /\ \A x \in Int : x \in B <=> 0 <= x /\ x < 29 /\ x + 0 \in b
  BY <1>0, InPart
<1>3. /\ HA \subseteq Int
      /\ \A x \in Int : x \in HA <=> 0 <= x /\ x < 11 /\ x + 18 \in a
  BY <1>0, InPart
<1>4. /\ HB \subseteq Int
      /\ \A x \in Int : x \in HB <=> 0 <= x /\ x < 11 /\ x + 18 \in b
  BY <1>0, InPart
<1>5. /\ LA \subseteq Int
      /\ \A x \in Int : x \in LA <=> 0 <= x /\ x < 18 /\ x + 0 \in a
  BY <1>0, InPart
<1>6. /\ LB \subseteq Int
      /\ \A x \in Int : x \in LB <=> 0 <= x /\ x < 18 /\ x + 0 \in b
  BY <1>0, InPart
<1> HIDE DEF A, B, HA, HB, LA, LB
<1>7. \A x \in Int : /\ x < 18 => (x \in A <=> x \in LA)
                     /\ x >= 18 => (x \in A <=> x - 18 \in HA)
                     /\ x < 18 => (x \in B <=> x \in LB)
                     /\ x >= 18 => (x \in B <=> x - 18 \in HB)
  <2>1. \A x \in Int : x + 0 = x /\ x - 18 \in Int /\ (x - 18) + 18 = x
    OBVIOUS
  <2> QED
    BY <1>1, <1>2, <1>3, <1>4, <1>5, <1>6, <2>1
<1>8. /\ \A x \in HA : x \in Int /\ x + 18 \in Int /\ x + 18 >= 18 /\ (x + 18) - 18 = x
      /\ \A x \in HB : x \in Int /\ x + 18 \in Int /\ x + 18 >= 18 /\ (x + 18) - 18 = x
      /\ \A x \in LA : x \in Int /\ x < 18
      /\ \A x \in LB : x \in Int /\ x < 18
  BY <1>3, <1>4, <1>5, <1>6
<1>9. A = B <=> HA = HB /\ LA = LB
  <2>1. ASSUME A = B
        PROVE  HA = HB /\ LA = LB
    <3>1. \A x \in HA : x \in HB
      BY <1>7, <1>8, <2>1
    <3>2. \A x \in HB : x \in HA
      BY <1>7, <1>8, <2>1
    <3>3. \A x \in LA : x \in LB
      BY <1>7, <1>8, <2>1
    <3>4. \A x \in LB : x \in LA
      BY <1>7, <1>8, <2>1
    <3> QED
      BY <3>1, <3>2, <3>3, <3>4
  <2>2. ASSUME HA = HB, LA = LB
        PROVE  A = B
    <3>1. \A x \in Int : x \in A <=> x \in B
      BY <1>7, <2>2
    <3> QED
      BY <1>1, <1>2, <3>1
  <2> QED
    BY <2>1, <2>2
<1>10. ASSUME Less(HA, HB)
       PROVE  Less(A, B)
  <2>1. PICK w \in HB \ HA : \A v \in Xor(HA, HB) : v <= w
    BY <1>10 DEF Less
  <2>2. w + 18 \in B /\ w + 18 \notin A /\ w \in Int /\ w >= 0
    BY <1>4, <1>7, <1>8, <2>1
  <2>3. ASSUME NEW v \in Xor(A, B)
        PROVE  v <= w + 18
    <3>1. v \in Int /\ (v \in A) # (v \in B)
      BY <1>1, <1>2 DEF Xor
    <3>2. CASE v >= 18
      <4>1. v - 18 \in Xor(HA, HB)
        BY <1>7, <3>1, <3>2 DEF Xor
      <4>2. v - 18 <= w
        BY <2>1, <4>1
      <4> QED
        BY <2>2, <3>1, <4>2
    <3> QED
      BY <2>2, <3>1, <3>2
  <2> QED
    BY <2>2, <2>3 DEF Less
<1>11. ASSUME HA = HB, Less(LA, LB)
       PROVE  Less(A, B)
  <2>1. PICK w \in LB \ LA : \A v \in Xor(LA, LB) : v <= w
    BY <1>11 DEF Less
  <2>2. w \in B /\ w \notin A /\ w \in Int
    BY <1>7, <1>8, <2>1
  <2>3. ASSUME NEW v \in Xor(A, B)
        PROVE  v <= w
    <3>1. v \in Int /\ (v \in A) # (v \in B)
      BY <1>1, <1>2 DEF Xor
    <3>2. v < 18
      BY <1>7, <1>11, <3>1
    <3>3. v \in Xor(LA, LB)
      BY <1>7, <3>1, <3>2 DEF Xor
    <3> QED
      BY <2>1, <3>3
  <2> QED
    BY <2>2, <2>3 DEF Less
<1>12. ASSUME Less(A, B)
       PROVE  Less(HA, HB) \/ (HA = HB /\ Less(LA, LB))
  <2>1. PICK w \in B \ A : \A v \in Xor(A, B) : v <= w
    BY <1>12 DEF Less
  <2>2. w \in Int
    BY <1>2
  <2>3. CASE w >= 18
    <3>1. w - 18 \in HB /\ w - 18 \notin HA
      BY <1>7, <2>1, <2>2, <2>3
    <3>2. ASSUME NEW v \in Xor(HA, HB)
          PROVE  v <= w - 18
      <4>1. v \in Int /\ v + 18 \in Int /\ v + 18 >= 18 /\ (v + 18) - 18 = v
        BY <1>8 DEF Xor
      <4>2. v + 18 \in Xor(A, B)
        BY <1>7, <4>1 DEF Xor
      <4>3. v + 18 <= w
        BY <2>1, <4>2
      <4> QED
        BY <2>2, <4>1, <4>3
    <3>3. Less(HA, HB)
      BY <3>1, <3>2 DEF Less
    <3> QED
      BY <3>3
  <2>4. CASE w < 18
    <3>1. w \in LB /\ w \notin LA
      BY <1>7, <2>1, <2>2, <2>4
    <3>2. ASSUME NEW v \in Xor(HA, HB)
          PROVE  FALSE
      <4>1. v \in Int /\ v + 18 \in Int /\ v + 18 >= 18 /\ (v + 18) - 18 = v
        BY <1>8 DEF Xor
      <4>2. v + 18 \in Xor(A, B)
        BY <1>7, <4>1 DEF Xor
      <4>3. v + 18 <= w
        BY <2>1, <4>2
      <4> QED
        BY <2>2, <2>4, <4>1, <4>3
    <3>3. HA = HB
      BY <3>2 DEF Xor
    <3>4. ASSUME NEW v \in Xor(LA, LB)
          PROVE  v <= w
      <4>1. v \in Int /\ v < 18
        BY <1>8 DEF Xor
      <4>2. v \in Xor(A, B)
        BY <1>7, <4>1 DEF Xor
      <4> QED
        BY <2>1, <4>2
    <3>5. Less(LA, LB)
      BY <3>1, <3>4 DEF Less
    <3> QED
      BY <3>3, <3>5
  <2> QED
    BY <2>2, <2>3, <2>4
<1>13. Less(A, B) <=> Less(HA, HB) \/ (HA = HB /\ Less(LA, LB))
  BY <1>10, <1>11, <1>12
<1> QED
  BY <1>9, <1>13 DEF A, B, HA, HB, LA, LB

(* The identifier comes back from the register. *)
LEMMA RegisterComesBack ==
    ASSUME NEW id, IsFrameId(id)
    PROVE  convertFrameIDRegisterToCanard(convertFrameIDCanardToRegister(id)) = id
<1> DEFINE word == convertFrameIDCanardToRegister(id)
           long == Part(word, 3, 29)
           short == Part(word, 21, 11)
<1>1. /\ id \subseteq Int
      /\ \A w \in id : w \in 0 .. 28 \/ w = 30 \/ w = 31
      /\ 31 \notin id => \A w \in id : w \in 0 .. 10 \/ w = 30
  BY FrameIdIs
<1>2. /\ word \subseteq Int
      /\ \A x \in Int : x \in word <=>
            \/ x = 1 /\ 30 \in id
            \/ 31 \in id /\ (x = 2 \/ (x \in 3 .. 31 /\ x - 3 \in id))
            \/ 31 \notin id /\ x \in 21 .. 31 /\ x - 21 \in id
  BY <1>1, RegisterIs
<1> HIDE DEF word
<1>3. 3 \in Int /\ 29 \in Int /\ 21 \in Int /\ 11 \in Int
  OBVIOUS
<1>4. /\ long \subseteq Int
      /\ \A x \in Int : x \in long <=> 0 <= x /\ x < 29 /\ x + 3 \in word
  BY <1>2, <1>3, InPart
<1>5. /\ short \subseteq Int
      /\ \A x \in Int : x \in short <=> 0 <= x /\ x < 11 /\ x + 21 \in word
  BY <1>2, <1>3, InPart
<1> HIDE DEF long, short
<1>6. 1 \in word <=> 30 \in id
  BY <1>2
<1>7. 2 \in word <=> 31 \in id
  BY <1>2
<1>8. CASE 31 \in id
  <2>1. \A x \in Int : x \in long <=> 0 <= x /\ x < 29 /\ x \in id
    <3>1. \A x \in Int : 0 <= x /\ x < 29 =>
              x + 3 \in 3 .. 31 /\ (x + 3) - 3 = x /\ x + 3 # 1 /\ x + 3 # 2 /\ x + 3 \in Int
      OBVIOUS
    <3> QED
      BY <1>2, <1>4, <1>8, <3>1
  <2>2. id = (long \cup {31}) \cup (IF 1 \in word THEN {30} ELSE {})
    <3>1. \A x \in id : x \in long \/ x = 31 \/ (x = 30 /\ 1 \in word)
      BY <1>1, <1>6, <2>1
    <3>2. \A x \in long : x \in id
      BY <1>4, <2>1
    <3> QED
      BY <1>6, <1>8, <3>1, <3>2
  <2> QED
    BY <1>7, <1>8, <2>2 DEF convertFrameIDRegisterToCanard, IDE, RTRBit, EFF, RTR, word, long
<1>9. CASE 31 \notin id
  <2>1. \A x \in Int : x \in short <=> 0 <= x /\ x < 11 /\ x \in id
    <3>1. \A x \in Int : 0 <= x /\ x < 11 =>
              x + 21 \in 21 .. 31 /\ (x + 21) - 21 = x /\ x + 21 # 1 /\ x + 21 \in Int
      OBVIOUS
    <3> QED
      BY <1>2, <1>5, <1>9, <3>1
  <2>2. id = short \cup (IF 1 \in word THEN {30} ELSE {})
    <3>1. \A x \in id : x \in short \/ (x = 30 /\ 1 \in word)
      BY <1>1, <1>6, <1>9, <2>1
    <3>2. \A x \in short : x \in id
      BY <1>5, <2>1
    <3> QED
      BY <1>6, <3>1, <3>2
  <2> QED
    BY <1>7, <1>9, <2>2 DEF convertFrameIDRegisterToCanard, IDE, RTRBit, RTR, word, short
<1> QED
  BY <1>8, <1>9

LEMMA NarrowParts ==
    ASSUME NEW id, id \subseteq Int
    PROVE  /\ Part(id, 18, 11) \subseteq 0 .. 17
           /\ Part(id, 0, 18) \subseteq 0 .. 17
           /\ Part(id, 0, 11) \subseteq 0 .. 17
<1>1. /\ 0 \in Int /\ 11 \in Int /\ 18 \in Int
      /\ 0 .. 18 - 1 \subseteq 0 .. 17
      /\ 0 .. 11 - 1 \subseteq 0 .. 17
  OBVIOUS
<1>2. Part(id, 18, 11) \subseteq 0 .. 11 - 1
  BY <1>1, InPart
<1>3. Part(id, 0, 18) \subseteq 0 .. 18 - 1
  BY <1>1, InPart
<1>4. Part(id, 0, 11) \subseteq 0 .. 11 - 1
  BY <1>1, InPart
<1> QED
  BY <1>1, <1>2, <1>3, <1>4

(* A standard identifier has no more than its eleven bits. *)
LEMMA StandardId ==
    ASSUME NEW id, IsFrameId(id), 31 \notin id
    PROVE  ArbitrationId(id) = Part(id, 0, 11)
<1>1. id \subseteq Int /\ \A w \in id : w \in 0 .. 10 \/ w = 30
  BY FrameIdIs
<1>2. 0 \in Int /\ 11 \in Int /\ 29 \in Int
  OBVIOUS
<1> DEFINE A == Part(id, 0, 29)
           B == Part(id, 0, 11)
<1>3. /\ A \subseteq Int
      /\ \A x \in Int : x \in A <=> 0 <= x /\ x < 29 /\ x + 0 \in id
  BY <1>1, <1>2, InPart
<1>4. /\ B \subseteq Int
      /\ \A x \in Int : x \in B <=> 0 <= x /\ x < 11 /\ x + 0 \in id
  BY <1>1, <1>2, InPart
<1> HIDE DEF A, B
<1>5. \A x \in Int : x \in A <=> x \in B
  <2>1. \A x \in Int : x + 0 = x /\ (x < 11 => x < 29)
    OBVIOUS
  <2>2. \A x \in Int : 0 <= x /\ x < 29 /\ x \in id => x < 11
    BY <1>1
  <2> QED
    BY <1>3, <1>4, <2>1, <2>2
<1>6. A = B
  BY <1>3, <1>4, <1>5
<1> QED
  BY <1>6 DEF A, B, ArbitrationId

LEMMA SeenIs ==
    ASSUME NEW id
    PROVE  /\ 31 \in id => Seen(id) = [ext |-> TRUE, rtr |-> 30 \in id,
                                       arb |-> Value(Part(id, 18, 11)),
                                       low |-> Value(Part(id, 0, 18))]
           /\ 31 \notin id => Seen(id) = [ext |-> FALSE, rtr |-> 30 \in id,
                                          arb |-> Value(Part(id, 0, 11)), low |-> 0]
BY DEF Seen, EFF, RTR

LEMMA SeenFlags ==
    ASSUME NEW id
    PROVE  /\ 30 \in id => Seen(id).rtr = TRUE
           /\ 30 \notin id => Seen(id).rtr = FALSE
           /\ 31 \in id => Seen(id).ext = TRUE
           /\ 31 \notin id => Seen(id).ext = FALSE
<1>1. Seen(id).rtr = (30 \in id)
  <2> DEFINE flag == 30 \in id
             long == [ext |-> TRUE, rtr |-> flag, arb |-> Value(Part(id, 18, 11)),
                      low |-> Value(Part(id, 0, 18))]
             short == [ext |-> FALSE, rtr |-> flag, arb |-> Value(Part(id, 0, 11)), low |-> 0]
  <2>1. (31 \in id => Seen(id) = long) /\ (31 \notin id => Seen(id) = short)
    BY SeenIs, Zenon
  <2> HIDE DEF flag
  <2>2. long.rtr = flag /\ short.rtr = flag
    OBVIOUS
  <2> HIDE DEF long, short
  <2>3. Seen(id).rtr = flag
    BY <2>1, <2>2, Zenon
  <2> QED
    BY <2>3 DEF flag
<1>2. 30 \in id => (30 \in id) = TRUE
  OBVIOUS
<1>3. 30 \notin id => (30 \in id) = FALSE
  OBVIOUS
<1>4. /\ 31 \in id => Seen(id).ext = TRUE
      /\ 31 \notin id => Seen(id).ext = FALSE
  BY SeenIs
<1> QED
  BY <1>1, <1>2, <1>3, <1>4, Zenon

(* Both orders are truth values. *)
LEMMA OrdersAreBoolean ==
    ASSUME NEW a, NEW b
    PROVE  /\ isFramePriorityHigher(a, b) \in BOOLEAN
           /\ P!isPriorityHigher(Seen(b), Seen(a)) \in BOOLEAN
<1>1. isFramePriorityHigher(a, b) \in BOOLEAN
  <2>1. \A x, y : Less(x, y) \in BOOLEAN
    BY DEF Less
  <2> DEFINE arb(id) == IF EFF \in id THEN Part(id, 18, 11) ELSE ArbitrationId(id)
             mixed == (EFF \in a) # (EFF \in b)
             flags == ArbitrationId(a) = ArbitrationId(b) /\ (RTR \in a) # (RTR \in b)
             differ == arb(a) # arb(b)
             first == Less(arb(a), arb(b))
             second == EFF \in b
             third == RTR \in b
             fourth == Less(ArbitrationId(a), ArbitrationId(b))
  <2>2. isFramePriorityHigher(a, b)
           = IF mixed THEN IF differ THEN first ELSE second ELSE IF flags THEN third ELSE fourth
    BY Zenon DEF isFramePriorityHigher
  <2>3. first \in BOOLEAN /\ fourth \in BOOLEAN
    BY <2>1, Zenon
  <2>4. second \in BOOLEAN /\ third \in BOOLEAN
    OBVIOUS
  <2> HIDE DEF arb, mixed, flags, differ, first, second, third, fourth
  <2> QED
    BY <2>2, <2>3, <2>4, Zenon
<1>2. Seen(b).ext \in BOOLEAN /\ Seen(b).rtr \in BOOLEAN
  BY SeenFlags
<1>3. P!isPriorityHigher(Seen(b), Seen(a)) \in BOOLEAN
  BY <1>2 DEF P!isPriorityHigher, P!LesserNumber
<1> QED
  BY <1>1, <1>3

(* The driver's order and that of the queue, each over its own form of the identifier. *)
LEMMA OrdersAgree ==
    ASSUME NEW a, NEW b, IsFrameId(a), IsFrameId(b)
    PROVE  isFramePriorityHigher(a, b) <=> P!isPriorityHigher(Seen(b), Seen(a))
<1>1. a \subseteq Int /\ b \subseteq Int
  BY FrameIdIs
<1> DEFINE A == Part(a, 0, 29)
           B == Part(b, 0, 29)
           HA == IF 31 \in a THEN Part(a, 18, 11) ELSE Part(a, 0, 11)
           HB == IF 31 \in b THEN Part(b, 18, 11) ELSE Part(b, 0, 11)
           LA == Part(a, 0, 18)
           LB == Part(b, 0, 18)
<1>2. HA \subseteq 0 .. 17 /\ HB \subseteq 0 .. 17 /\ LA \subseteq 0 .. 17 /\ LB \subseteq 0 .. 17
  BY <1>1, NarrowParts
<1>3. /\ 31 \notin a => A = HA
      /\ 31 \notin b => B = HB
  BY StandardId DEF ArbitrationId
<1>4. 31 \in a /\ 31 \in b =>
         /\ A = B <=> HA = HB /\ LA = LB
         /\ Less(A, B) <=> Less(HA, HB) \/ (HA = HB /\ Less(LA, LB))
  BY <1>1, HighThenLow
<1>5. isFramePriorityHigher(a, b) <=>
         IF (31 \in a) # (31 \in b)
         THEN IF HA # HB THEN Less(HA, HB) ELSE 31 \in b
         ELSE IF A = B /\ (30 \in a) # (30 \in b) THEN 30 \in b ELSE Less(A, B)
  BY <1>3 DEF isFramePriorityHigher, ArbitrationId, EFF, RTR
<1>6. /\ 31 \in a => Seen(a) = [ext |-> TRUE, rtr |-> 30 \in a, arb |-> Value(HA), low |-> Value(LA)]
      /\ 31 \notin a => Seen(a) = [ext |-> FALSE, rtr |-> 30 \in a, arb |-> Value(HA), low |-> 0]
  BY SeenIs
<1>7. /\ 31 \in b => Seen(b) = [ext |-> TRUE, rtr |-> 30 \in b, arb |-> Value(HB), low |-> Value(LB)]
      /\ 31 \notin b => Seen(b) = [ext |-> FALSE, rtr |-> 30 \in b, arb |-> Value(HB), low |-> 0]
  BY SeenIs
<1> HIDE DEF A, B, HA, HB, LA, LB
<1>8. /\ Value(HA) \in Nat /\ Value(HB) \in Nat
      /\ HA = HB <=> Value(HA) = Value(HB)
      /\ Less(HA, HB) <=> Value(HA) < Value(HB)
  BY <1>2, LessIs, ValuesCompare
<1>9. /\ LA = LB <=> Value(LA) = Value(LB)
      /\ Less(LA, LB) <=> Value(LA) < Value(LB)
  BY <1>2, LessIs
<1>14. /\ 30 \in a => Seen(a).rtr = TRUE
       /\ 30 \notin a => Seen(a).rtr = FALSE
       /\ 30 \in b => Seen(b).rtr = TRUE
       /\ 30 \notin b => Seen(b).rtr = FALSE
  BY SeenFlags
<1>15. /\ (30 \in a <=> 30 \in b) => Seen(a).rtr = Seen(b).rtr
       /\ (30 \in a /\ 30 \notin b) => Seen(a).rtr # Seen(b).rtr
       /\ (30 \notin a /\ 30 \in b) => Seen(a).rtr # Seen(b).rtr
  BY <1>14, Zenon
<1> DEFINE va == Value(HA)
           vb == Value(HB)
           wa == Value(LA)
           wb == Value(LB)
<1> HIDE DEF va, vb, wa, wb
<1>10. CASE 31 \in a /\ 31 \in b
  <2>1. P!isPriorityHigher(Seen(b), Seen(a)) <=>
           IF (va = vb /\ wa = wb) /\ (30 \in a) # (30 \in b) THEN 30 \in b
           ELSE va < vb \/ (va = vb /\ wa < wb)
    <3>1. /\ Seen(a).ext = TRUE /\ Seen(a).arb = va /\ Seen(a).low = wa
          /\ Seen(b).ext = TRUE /\ Seen(b).arb = vb /\ Seen(b).low = wb
      BY <1>6, <1>7, <1>10 DEF va, vb, wa, wb
    <3>2. CASE 30 \in a /\ 30 \in b
      <4>1. Seen(a).rtr = Seen(b).rtr /\ Seen(b).rtr = TRUE
        BY <1>14, <1>15, <3>2, Zenon
      <4>2. Seen(a).ext = Seen(b).ext
        BY <3>1, Zenon
      <4>3. P!isPriorityHigher(Seen(b), Seen(a)) <=> P!LesserNumber(Seen(a), Seen(b))
        BY <4>1, <4>2, Zenon DEF P!isPriorityHigher
      <4>4. ~((30 \in a) # (30 \in b))
        BY <3>2
      <4> QED
        BY <3>1, <4>3, <4>4 DEF P!LesserNumber
    <3>3. CASE 30 \in a /\ 30 \notin b
      <4>1. Seen(a).rtr # Seen(b).rtr /\ Seen(b).rtr = FALSE
        BY <1>14, <1>15, <3>3, Zenon
      <4> QED
        BY <3>1, <3>3, <4>1 DEF P!isPriorityHigher, P!SameNumber, P!LesserNumber
    <3>4. CASE 30 \notin a /\ 30 \in b
      <4>1. Seen(a).rtr # Seen(b).rtr /\ Seen(b).rtr = TRUE
        BY <1>14, <1>15, <3>4, Zenon
      <4> QED
        BY <3>1, <3>4, <4>1 DEF P!isPriorityHigher, P!SameNumber, P!LesserNumber
    <3>5. CASE 30 \notin a /\ 30 \notin b
      <4>1. Seen(a).rtr = Seen(b).rtr /\ Seen(b).rtr = FALSE
        BY <1>14, <1>15, <3>5, Zenon
      <4>2. Seen(a).ext = Seen(b).ext
        BY <3>1, Zenon
      <4>3. P!isPriorityHigher(Seen(b), Seen(a)) <=> P!LesserNumber(Seen(a), Seen(b))
        BY <4>1, <4>2, Zenon DEF P!isPriorityHigher
      <4>4. ~((30 \in a) # (30 \in b))
        BY <3>5
      <4> QED
        BY <3>1, <4>3, <4>4 DEF P!LesserNumber
    <3> QED
      BY <3>2, <3>3, <3>4, <3>5
  <2> QED
    BY <1>4, <1>5, <1>8, <1>9, <1>10, <2>1 DEF va, vb, wa, wb
<1>11. CASE 31 \notin a /\ 31 \notin b
  <2>1. P!isPriorityHigher(Seen(b), Seen(a)) <=>
           IF va = vb /\ (30 \in a) # (30 \in b) THEN 30 \in b ELSE va < vb
    <3>1. /\ Seen(a).ext = FALSE /\ Seen(a).arb = va /\ Seen(a).low = 0
          /\ Seen(b).ext = FALSE /\ Seen(b).arb = vb /\ Seen(b).low = 0
      BY <1>6, <1>7, <1>11 DEF va, vb
    <3>2. CASE 30 \in a /\ 30 \in b
      <4>1. Seen(a).rtr = Seen(b).rtr /\ Seen(b).rtr = TRUE
        BY <1>14, <1>15, <3>2, Zenon
      <4>2. Seen(a).ext = Seen(b).ext
        BY <3>1, Zenon
      <4>3. P!isPriorityHigher(Seen(b), Seen(a)) <=> P!LesserNumber(Seen(a), Seen(b))
        BY <4>1, <4>2, Zenon DEF P!isPriorityHigher
      <4>4. ~((30 \in a) # (30 \in b))
        BY <3>2
      <4> QED
        BY <3>1, <4>3, <4>4 DEF P!LesserNumber
    <3>3. CASE 30 \in a /\ 30 \notin b
      <4>1. Seen(a).rtr # Seen(b).rtr /\ Seen(b).rtr = FALSE
        BY <1>14, <1>15, <3>3, Zenon
      <4> QED
        BY <3>1, <3>3, <4>1 DEF P!isPriorityHigher, P!SameNumber, P!LesserNumber
    <3>4. CASE 30 \notin a /\ 30 \in b
      <4>1. Seen(a).rtr # Seen(b).rtr /\ Seen(b).rtr = TRUE
        BY <1>14, <1>15, <3>4, Zenon
      <4> QED
        BY <3>1, <3>4, <4>1 DEF P!isPriorityHigher, P!SameNumber, P!LesserNumber
    <3>5. CASE 30 \notin a /\ 30 \notin b
      <4>1. Seen(a).rtr = Seen(b).rtr /\ Seen(b).rtr = FALSE
        BY <1>14, <1>15, <3>5, Zenon
      <4>2. Seen(a).ext = Seen(b).ext
        BY <3>1, Zenon
      <4>3. P!isPriorityHigher(Seen(b), Seen(a)) <=> P!LesserNumber(Seen(a), Seen(b))
        BY <4>1, <4>2, Zenon DEF P!isPriorityHigher
      <4>4. ~((30 \in a) # (30 \in b))
        BY <3>5
      <4> QED
        BY <3>1, <4>3, <4>4 DEF P!LesserNumber
    <3> QED
      BY <3>2, <3>3, <3>4, <3>5
  <2> QED
    BY <1>3, <1>5, <1>8, <1>11, <2>1 DEF va, vb
<1>12. CASE 31 \in a /\ 31 \notin b
  <2>1. P!isPriorityHigher(Seen(b), Seen(a)) <=> va < vb
    BY <1>6, <1>7, <1>12
       DEF P!isPriorityHigher, va, vb
  <2> QED
    BY <1>5, <1>8, <1>12, <2>1 DEF va, vb
<1>13. CASE 31 \notin a /\ 31 \in b
  <2>1. P!isPriorityHigher(Seen(b), Seen(a)) <=> va < vb \/ va = vb
    BY <1>6, <1>7, <1>13
       DEF P!isPriorityHigher, va, vb
  <2> QED
    BY <1>5, <1>8, <1>13, <2>1 DEF va, vb
<1> QED
  BY <1>10, <1>11, <1>12, <1>13

(* For every two frames: the STM32 driver prefers the one that the queue of canard.c sends    *)
(* first, and the registers give an identifier back as it was.                           *)
THEOREM RegistersAlwaysAgree == TablesSpec => []RegistersAgree
<1>1. ASSUME sample \in Samples
      PROVE  RegistersAgree
  <2>1. SUFFICES ASSUME sample.table = "order"
                 PROVE  /\ convertFrameIDRegisterToCanard(
                               convertFrameIDCanardToRegister(sample.a)) = sample.a
                        /\ isFramePriorityHigher(sample.a, sample.b)
                               = P!isPriorityHigher(Seen(sample.b), Seen(sample.a))
    BY DEF RegistersAgree
  <2>2. IsFrameId(sample.a) /\ IsFrameId(sample.b)
    <3>1. IsSample(sample)
      BY <1>1, TablesAssumption
    <3> QED
      BY <2>1, <3>1 DEF IsSample
  <2>3. convertFrameIDRegisterToCanard(convertFrameIDCanardToRegister(sample.a)) = sample.a
    BY <2>2, RegisterComesBack, Zenon
  <2>4. isFramePriorityHigher(sample.a, sample.b) <=> P!isPriorityHigher(Seen(sample.b), Seen(sample.a))
    BY <2>2, OrdersAgree, Zenon
  <2>5. /\ isFramePriorityHigher(sample.a, sample.b) \in BOOLEAN
        /\ P!isPriorityHigher(Seen(sample.b), Seen(sample.a)) \in BOOLEAN
    BY OrdersAreBoolean, Zenon
  <2> QED
    BY <2>3, <2>4, <2>5
<1>2. TablesInit => sample \in Samples
  BY DEF TablesInit
<1>3. sample \in Samples /\ [UNCHANGED sample]_sample => (sample \in Samples)'
  OBVIOUS
<1> QED
  BY <1>1, <1>2, <1>3, PTL DEF TablesSpec

-----------------------------------------------------------------------------
(* Half-precision numbers.  A product with a power of two is exact or rounds at a place    *)
(* that depends on the exponent of the float: most lemmas take one exponent at a time.  *)

PowerOfTwo(k) == 2^k
(* The powers of two that the conversions use. *)
PowerRow(k, p) ==
    \/ k = 0 /\ p = 1
    \/ k = 1 /\ p = 2
    \/ k = 2 /\ p = 4
    \/ k = 3 /\ p = 8
    \/ k = 4 /\ p = 16
    \/ k = 5 /\ p = 32
    \/ k = 6 /\ p = 64
    \/ k = 7 /\ p = 128
    \/ k = 8 /\ p = 256
    \/ k = 9 /\ p = 512
    \/ k = 10 /\ p = 1024
    \/ k = 11 /\ p = 2048
    \/ k = 12 /\ p = 4096
    \/ k = 13 /\ p = 8192
    \/ k = 14 /\ p = 16384
    \/ k = 15 /\ p = 32768
    \/ k = 16 /\ p = 65536
    \/ k = 17 /\ p = 131072
    \/ k = 18 /\ p = 262144
    \/ k = 19 /\ p = 524288
    \/ k = 20 /\ p = 1048576
    \/ k = 21 /\ p = 2097152
    \/ k = 22 /\ p = 4194304
    \/ k = 23 /\ p = 8388608
    \/ k = 24 /\ p = 16777216
    \/ k = 25 /\ p = 33554432
LEMMA PowerIs ==
    \A k \in 0 .. 25 : PowerRow(k, PowerOfTwo(k))
<1>1. SUFFICES ASSUME NEW k \in 0 .. 25
               PROVE  PowerRow(k, PowerOfTwo(k))
  OBVIOUS
<1>2. k \in {0, 1, 2, 3, 4, 5, 6, 7, 8, 9, 10, 11, 12, 13, 14, 15, 16, 17, 18, 19, 20, 21, 22, 23, 24, 25}
  OBVIOUS
<1>a0. CASE k = 0
  BY <1>a0 DEF PowerRow, PowerOfTwo
<1>a1. CASE k = 1
  BY <1>a1 DEF PowerRow, PowerOfTwo
<1>a2. CASE k = 2
  BY <1>a2 DEF PowerRow, PowerOfTwo
<1>a3. CASE k = 3
  BY <1>a3 DEF PowerRow, PowerOfTwo
<1>a4. CASE k = 4
  BY <1>a4 DEF PowerRow, PowerOfTwo
<1>a5. CASE k = 5
  BY <1>a5 DEF PowerRow, PowerOfTwo
<1>a6. CASE k = 6
  BY <1>a6 DEF PowerRow, PowerOfTwo
<1>a7. CASE k = 7
  BY <1>a7 DEF PowerRow, PowerOfTwo
<1>a8. CASE k = 8
  BY <1>a8 DEF PowerRow, PowerOfTwo
<1>a9. CASE k = 9
  BY <1>a9 DEF PowerRow, PowerOfTwo
<1>a10. CASE k = 10
  BY <1>a10 DEF PowerRow, PowerOfTwo
<1>a11. CASE k = 11
  BY <1>a11 DEF PowerRow, PowerOfTwo
<1>a12. CASE k = 12
  BY <1>a12 DEF PowerRow, PowerOfTwo
<1>a13. CASE k = 13
  BY <1>a13 DEF PowerRow, PowerOfTwo
<1>a14. CASE k = 14
  BY <1>a14 DEF PowerRow, PowerOfTwo
<1>a15. CASE k = 15
  BY <1>a15 DEF PowerRow, PowerOfTwo
<1>a16. CASE k = 16
  BY <1>a16 DEF PowerRow, PowerOfTwo
<1>a17. CASE k = 17
  BY <1>a17 DEF PowerRow, PowerOfTwo
<1>a18. CASE k = 18
  BY <1>a18 DEF PowerRow, PowerOfTwo
<1>a19. CASE k = 19
  BY <1>a19 DEF PowerRow, PowerOfTwo
<1>a20. CASE k = 20
  BY <1>a20 DEF PowerRow, PowerOfTwo
<1>a21. CASE k = 21
  BY <1>a21 DEF PowerRow, PowerOfTwo
<1>a22. CASE k = 22
  BY <1>a22 DEF PowerRow, PowerOfTwo
<1>a23. CASE k = 23
  BY <1>a23 DEF PowerRow, PowerOfTwo
<1>a24. CASE k = 24
  BY <1>a24 DEF PowerRow, PowerOfTwo
<1>a25. CASE k = 25
  BY <1>a25 DEF PowerRow, PowerOfTwo
<1> QED
  BY <1>2, <1>a0, <1>a1, <1>a2, <1>a3, <1>a4, <1>a5, <1>a6, <1>a7, <1>a8, <1>a9, <1>a10, <1>a11, <1>a12, <1>a13, <1>a14, <1>a15, <1>a16, <1>a17, <1>a18, <1>a19, <1>a20, <1>a21, <1>a22, <1>a23, <1>a24, <1>a25

LEMMA PowersGrow ==
    \A i, k \in 0 .. 25 : /\ PowerOfTwo(k) \in Nat
                          /\ i < k => 2 * PowerOfTwo(i) <= PowerOfTwo(k)
  BY PowerIs DEF PowerRow
LEMMA PowersDouble ==
    \A k \in 0 .. 24 : PowerOfTwo(k + 1) = 2 * PowerOfTwo(k)
<1>1. SUFFICES ASSUME NEW k \in 0 .. 24
               PROVE  PowerOfTwo(k + 1) = 2 * PowerOfTwo(k)
  OBVIOUS
<1>2. PowerRow(k, PowerOfTwo(k)) /\ PowerRow(k + 1, PowerOfTwo(k + 1))
  BY PowerIs
<1> QED
  BY <1>2 DEF PowerRow

LEMMA ScaledIs ==
    \A m, e \in Nat, k \in 0 .. 23 :
        PowerOfTwo(k) <= m /\ m < PowerOfTwo(k + 1) =>
            Scaled(m, e) = (k + e - 22) * PowerOfTwo(23) + (m - PowerOfTwo(k)) * PowerOfTwo(23 - k)
<1>1. SUFFICES ASSUME NEW m \in Nat, NEW e \in Nat, NEW k \in 0 .. 23,
                      PowerOfTwo(k) <= m, m < PowerOfTwo(k + 1)
               PROVE  Scaled(m, e) = (k + e - 22) * PowerOfTwo(23) + (m - PowerOfTwo(k)) * PowerOfTwo(23 - k)
  OBVIOUS
<1>2. m # 0
  BY <1>1, PowerIs DEF PowerRow
<1>3. ASSUME NEW i \in 0 .. 23, PowerOfTwo(i) <= m, m < PowerOfTwo(i + 1)
      PROVE  i = k
  <2>1. CASE i < k
    <3>3. i \in 0 .. 24 /\ i \in 0 .. 25 /\ k \in 0 .. 25
      OBVIOUS
    <3>4. 2 * PowerOfTwo(i) <= PowerOfTwo(k)
      BY <2>1, <3>3, PowersGrow
    <3>5. PowerOfTwo(i + 1) = 2 * PowerOfTwo(i)
      BY <3>3, PowersDouble
    <3>1. 2 * PowerOfTwo(i) <= PowerOfTwo(k) /\ PowerOfTwo(i + 1) = 2 * PowerOfTwo(i)
      BY <3>4, <3>5
    <3>2. PowerOfTwo(i) \in Nat /\ PowerOfTwo(k) \in Nat
      BY <3>3, PowersGrow
    <3> QED
      BY <1>1, <1>3, <3>1, <3>2
  <2>2. CASE k < i
    <3>3. k \in 0 .. 24 /\ k \in 0 .. 25 /\ i \in 0 .. 25
      OBVIOUS
    <3>4. 2 * PowerOfTwo(k) <= PowerOfTwo(i)
      BY <2>2, <3>3, PowersGrow
    <3>5. PowerOfTwo(k + 1) = 2 * PowerOfTwo(k)
      BY <3>3, PowersDouble
    <3>1. 2 * PowerOfTwo(k) <= PowerOfTwo(i) /\ PowerOfTwo(k + 1) = 2 * PowerOfTwo(k)
      BY <3>4, <3>5
    <3>2. PowerOfTwo(k) \in Nat /\ PowerOfTwo(i) \in Nat
      BY <3>3, PowersGrow
    <3> QED
      BY <1>1, <1>3, <3>1, <3>2
  <2> QED
    BY <2>1, <2>2
<1>4. (CHOOSE i \in 0 .. 23 : PowerOfTwo(i) <= m /\ m < PowerOfTwo(i + 1)) = k
  BY <1>1, <1>3
<1> QED
  <2>1. Scaled(m, e) = LET j == CHOOSE i \in 0 .. 23 : PowerOfTwo(i) <= m /\ m < PowerOfTwo(i + 1)
                       IN (j + e - 22) * PowerOfTwo(23) + (m - PowerOfTwo(j)) * PowerOfTwo(23 - j)
    BY <1>2 DEF Scaled, PowerOfTwo
  <2> QED
    BY <1>4, <2>1

(* Sets are named where a prover need not see their bounds. *)
Halves == 1 .. 2047
Denormals == 1 .. 1023
Normals == 2^10 .. 31 * 2^10 - 1
Midpoints == 0 .. 31 * 2^10 - 2

LEMMA PowerBetween ==
    ASSUME NEW n \in Halves
    PROVE  \E k \in 0 .. 10 : PowerOfTwo(k) <= n /\ n < PowerOfTwo(k + 1)
<1>1. n \in 1 .. 2047
  BY DEF Halves
<1>2. \A k \in 0 .. 11 : PowerRow(k, PowerOfTwo(k))
  BY PowerIs
<1>3. ASSUME \A k \in 0 .. 10 : ~(PowerOfTwo(k) <= n /\ n < PowerOfTwo(k + 1))
      PROVE  FALSE
  <2>a0. PowerOfTwo(0) = 1 /\ PowerOfTwo(1) = 2
    BY DEF PowerOfTwo
  <2>a1. PowerOfTwo(1) = 2 /\ PowerOfTwo(2) = 4
    BY DEF PowerOfTwo
  <2>a2. PowerOfTwo(2) = 4 /\ PowerOfTwo(3) = 8
    BY DEF PowerOfTwo
  <2>a3. PowerOfTwo(3) = 8 /\ PowerOfTwo(4) = 16
    BY DEF PowerOfTwo
  <2>a4. PowerOfTwo(4) = 16 /\ PowerOfTwo(5) = 32
    BY DEF PowerOfTwo
  <2>a5. PowerOfTwo(5) = 32 /\ PowerOfTwo(6) = 64
    BY DEF PowerOfTwo
  <2>a6. PowerOfTwo(6) = 64 /\ PowerOfTwo(7) = 128
    BY DEF PowerOfTwo
  <2>a7. PowerOfTwo(7) = 128 /\ PowerOfTwo(8) = 256
    BY DEF PowerOfTwo
  <2>a8. PowerOfTwo(8) = 256 /\ PowerOfTwo(9) = 512
    BY DEF PowerOfTwo
  <2>a9. PowerOfTwo(9) = 512 /\ PowerOfTwo(10) = 1024
    BY DEF PowerOfTwo
  <2>a10. PowerOfTwo(10) = 1024 /\ PowerOfTwo(11) = 2048
    BY DEF PowerOfTwo
  <2>b0. n >= 2
    BY SMT, <1>1, <1>3, <2>a0
  <2>b1. n >= 4
    BY SMT, <1>1, <2>b0, <1>3, <2>a1
  <2>b2. n >= 8
    BY SMT, <1>1, <2>b1, <1>3, <2>a2
  <2>b3. n >= 16
    BY SMT, <1>1, <2>b2, <1>3, <2>a3
  <2>b4. n >= 32
    BY SMT, <1>1, <2>b3, <1>3, <2>a4
  <2>b5. n >= 64
    BY SMT, <1>1, <2>b4, <1>3, <2>a5
  <2>b6. n >= 128
    BY SMT, <1>1, <2>b5, <1>3, <2>a6
  <2>b7. n >= 256
    BY SMT, <1>1, <2>b6, <1>3, <2>a7
  <2>b8. n >= 512
    BY SMT, <1>1, <2>b7, <1>3, <2>a8
  <2>b9. n >= 1024
    BY SMT, <1>1, <2>b8, <1>3, <2>a9
  <2>b10. n >= 2048
    BY SMT, <1>1, <2>b9, <1>3, <2>a10
  <2>1. n \in Nat /\ n <= 2047
    BY SMT, <1>1
  <2> QED
    BY SMT, <2>1, <2>b10
<1> QED
  BY <1>3


(* The half-precision numbers below 1024 are n * 2^(-25) for even n, and n is odd half-way  *)
(* between two of them.                                                     *)
Tiny(n, k) == (k + 102) * 8388608 + (n - PowerOfTwo(k)) * PowerOfTwo(23 - k)


LEMMA TinyIs ==
    ASSUME NEW n \in Halves, NEW k \in 0 .. 10,
           PowerOfTwo(k) <= n, n < PowerOfTwo(k + 1)
    PROVE  Scaled(n, 124) = Tiny(n, k)
<1>1. PowerOfTwo(23) = 8388608
  BY DEF PowerOfTwo
<1>2. Scaled(n, 124) = (k + 124 - 22) * PowerOfTwo(23) + (n - PowerOfTwo(k)) * PowerOfTwo(23 - k)
  <2>1. k \in 0 .. 23 /\ n \in Nat
    BY DEF Halves
  <2> QED
    BY <2>1, ScaledIs
<1>3. k + 124 - 22 = k + 102 /\ n \in Nat
  BY DEF Halves
<1> QED
  BY SMT, <1>1, <1>2, <1>3 DEF Tiny

IsTiny(u) == /\ u \in Nat
             /\ 102 * 8388608 <= u /\ u < 113 * 8388608
             /\ u % 4096 = 0
IsExact(n, x) == x = 4096 * n
IsJustBelow(n, x) == /\ x \in Int
                     /\ 4096 * n - 2048 <= x /\ x < 4096 * n
Rounds(n, k) ==
    /\ IsTiny(Tiny(n, k))
    /\ IsExact(n, TimesTwoToMinus112(Tiny(n, k)))
    /\ IsJustBelow(n, TimesTwoToMinus112(Tiny(n, k) - 4096))

LEMMA TinyConverts ==
    ASSUME NEW n \in Halves, NEW k \in 0 .. 10,
           PowerOfTwo(k) <= n, n < PowerOfTwo(k + 1)
    PROVE  Rounds(n, k)
<1>1. PowerOfTwo(k) <= n /\ n < PowerOfTwo(k + 1)
  OBVIOUS
<1>2. k \in {0, 1, 2, 3, 4, 5, 6, 7, 8, 9, 10}
  BY SMT
<1>a0. CASE k = 0
  <2>1. n \in 1 .. 1
    BY SMT, <1>1, <1>a0 DEF PowerOfTwo, Halves
  <2>2. Tiny(n, k) = 102 * 8388608 + (n - 1) * 8388608
    BY SMT, <1>a0 DEF Tiny, PowerOfTwo
  <2>3. /\ Exponent(Tiny(n, k)) = 102
        /\ Significand(Tiny(n, k)) = (n - 1) * 8388608
    BY SMT, <2>1, <2>2 DEF Exponent, Significand
  <2>4. TimesTwoToMinus112(Tiny(n, k)) = RoundedQuotient(n * 8388608, 11)
    BY SMT, <2>1, <2>3 DEF TimesTwoToMinus112
  <2>5. RoundedQuotient(n * 8388608, 11) = 4096 * n
    BY SMT, <2>1 DEF RoundedQuotient
  <2>6. ASSUME n = 1
        PROVE  IsJustBelow(n, TimesTwoToMinus112(Tiny(n, k) - 4096))
    <3>1. /\ Exponent(Tiny(n, k) - 4096) = 101
          /\ Significand(Tiny(n, k) - 4096) = 8384512
      BY SMT, <2>2, <2>6 DEF Exponent, Significand
    <3>2. TimesTwoToMinus112(Tiny(n, k) - 4096) = RoundedQuotient(16773120, 12)
      BY SMT, <3>1 DEF TimesTwoToMinus112
    <3>3. RoundedQuotient(16773120, 12) = 4095
      BY SMT DEF RoundedQuotient
    <3> QED
      BY SMT, <2>6, <3>2, <3>3 DEF IsJustBelow
  <2>7. ASSUME n # 1
        PROVE  IsJustBelow(n, TimesTwoToMinus112(Tiny(n, k) - 4096))
    <3>1. /\ Exponent(Tiny(n, k) - 4096) = 102
          /\ Significand(Tiny(n, k) - 4096) = (n - 1) * 8388608 - 4096
      BY SMT, <2>1, <2>2, <2>7 DEF Exponent, Significand
    <3>2. TimesTwoToMinus112(Tiny(n, k) - 4096) = RoundedQuotient(n * 8388608 - 4096, 11)
      BY SMT, <2>1, <3>1 DEF TimesTwoToMinus112
    <3>3. RoundedQuotient(n * 8388608 - 4096, 11) = 4096 * n - 2
      BY SMT, <2>1 DEF RoundedQuotient
    <3> QED
      BY SMT, <2>1, <3>2, <3>3 DEF IsJustBelow
  <2>9. Tiny(n, k) = 4096 * (208896 + (n - 1) * 2048)
    BY SMT, <2>1, <2>2
  <2>10. IsTiny(Tiny(n, k))
    BY SMT, <2>1, <2>9 DEF IsTiny
  <2>11. IsJustBelow(n, TimesTwoToMinus112(Tiny(n, k) - 4096))
    BY SMT, <2>6, <2>7
  <2>12. IsExact(n, TimesTwoToMinus112(Tiny(n, k)))
    BY SMT, <2>4, <2>5 DEF IsExact
  <2> QED
    BY SMT, <2>10, <2>11, <2>12 DEF Rounds
<1>a1. CASE k = 1
  <2>1. n \in 2 .. 3
    BY SMT, <1>1, <1>a1 DEF PowerOfTwo, Halves
  <2>2. Tiny(n, k) = 103 * 8388608 + (n - 2) * 4194304
    BY SMT, <1>a1 DEF Tiny, PowerOfTwo
  <2>3. /\ Exponent(Tiny(n, k)) = 103
        /\ Significand(Tiny(n, k)) = (n - 2) * 4194304
    BY SMT, <2>1, <2>2 DEF Exponent, Significand
  <2>4. TimesTwoToMinus112(Tiny(n, k)) = RoundedQuotient(n * 4194304, 10)
    BY SMT, <2>1, <2>3 DEF TimesTwoToMinus112
  <2>5. RoundedQuotient(n * 4194304, 10) = 4096 * n
    BY SMT, <2>1 DEF RoundedQuotient
  <2>6. ASSUME n = 2
        PROVE  IsJustBelow(n, TimesTwoToMinus112(Tiny(n, k) - 4096))
    <3>1. /\ Exponent(Tiny(n, k) - 4096) = 102
          /\ Significand(Tiny(n, k) - 4096) = 8384512
      BY SMT, <2>2, <2>6 DEF Exponent, Significand
    <3>2. TimesTwoToMinus112(Tiny(n, k) - 4096) = RoundedQuotient(16773120, 11)
      BY SMT, <3>1 DEF TimesTwoToMinus112
    <3>3. RoundedQuotient(16773120, 11) = 8190
      BY SMT DEF RoundedQuotient
    <3> QED
      BY SMT, <2>6, <3>2, <3>3 DEF IsJustBelow
  <2>7. ASSUME n # 2
        PROVE  IsJustBelow(n, TimesTwoToMinus112(Tiny(n, k) - 4096))
    <3>1. /\ Exponent(Tiny(n, k) - 4096) = 103
          /\ Significand(Tiny(n, k) - 4096) = (n - 2) * 4194304 - 4096
      BY SMT, <2>1, <2>2, <2>7 DEF Exponent, Significand
    <3>2. TimesTwoToMinus112(Tiny(n, k) - 4096) = RoundedQuotient(n * 4194304 - 4096, 10)
      BY SMT, <2>1, <3>1 DEF TimesTwoToMinus112
    <3>3. RoundedQuotient(n * 4194304 - 4096, 10) = 4096 * n - 4
      BY SMT, <2>1 DEF RoundedQuotient
    <3> QED
      BY SMT, <2>1, <3>2, <3>3 DEF IsJustBelow
  <2>9. Tiny(n, k) = 4096 * (210944 + (n - 2) * 1024)
    BY SMT, <2>1, <2>2
  <2>10. IsTiny(Tiny(n, k))
    BY SMT, <2>1, <2>9 DEF IsTiny
  <2>11. IsJustBelow(n, TimesTwoToMinus112(Tiny(n, k) - 4096))
    BY SMT, <2>6, <2>7
  <2>12. IsExact(n, TimesTwoToMinus112(Tiny(n, k)))
    BY SMT, <2>4, <2>5 DEF IsExact
  <2> QED
    BY SMT, <2>10, <2>11, <2>12 DEF Rounds
<1>a2. CASE k = 2
  <2>1. n \in 4 .. 7
    BY SMT, <1>1, <1>a2 DEF PowerOfTwo, Halves
  <2>2. Tiny(n, k) = 104 * 8388608 + (n - 4) * 2097152
    BY SMT, <1>a2 DEF Tiny, PowerOfTwo
  <2>3. /\ Exponent(Tiny(n, k)) = 104
        /\ Significand(Tiny(n, k)) = (n - 4) * 2097152
    BY SMT, <2>1, <2>2 DEF Exponent, Significand
  <2>4. TimesTwoToMinus112(Tiny(n, k)) = RoundedQuotient(n * 2097152, 9)
    BY SMT, <2>1, <2>3 DEF TimesTwoToMinus112
  <2>5. RoundedQuotient(n * 2097152, 9) = 4096 * n
    BY SMT, <2>1 DEF RoundedQuotient
  <2>6. ASSUME n = 4
        PROVE  IsJustBelow(n, TimesTwoToMinus112(Tiny(n, k) - 4096))
    <3>1. /\ Exponent(Tiny(n, k) - 4096) = 103
          /\ Significand(Tiny(n, k) - 4096) = 8384512
      BY SMT, <2>2, <2>6 DEF Exponent, Significand
    <3>2. TimesTwoToMinus112(Tiny(n, k) - 4096) = RoundedQuotient(16773120, 10)
      BY SMT, <3>1 DEF TimesTwoToMinus112
    <3>3. RoundedQuotient(16773120, 10) = 16380
      BY SMT DEF RoundedQuotient
    <3> QED
      BY SMT, <2>6, <3>2, <3>3 DEF IsJustBelow
  <2>7. ASSUME n # 4
        PROVE  IsJustBelow(n, TimesTwoToMinus112(Tiny(n, k) - 4096))
    <3>1. /\ Exponent(Tiny(n, k) - 4096) = 104
          /\ Significand(Tiny(n, k) - 4096) = (n - 4) * 2097152 - 4096
      BY SMT, <2>1, <2>2, <2>7 DEF Exponent, Significand
    <3>2. TimesTwoToMinus112(Tiny(n, k) - 4096) = RoundedQuotient(n * 2097152 - 4096, 9)
      BY SMT, <2>1, <3>1 DEF TimesTwoToMinus112
    <3>3. RoundedQuotient(n * 2097152 - 4096, 9) = 4096 * n - 8
      BY SMT, <2>1 DEF RoundedQuotient
    <3> QED
      BY SMT, <2>1, <3>2, <3>3 DEF IsJustBelow
  <2>9. Tiny(n, k) = 4096 * (212992 + (n - 4) * 512)
    BY SMT, <2>1, <2>2
  <2>10. IsTiny(Tiny(n, k))
    BY SMT, <2>1, <2>9 DEF IsTiny
  <2>11. IsJustBelow(n, TimesTwoToMinus112(Tiny(n, k) - 4096))
    BY SMT, <2>6, <2>7
  <2>12. IsExact(n, TimesTwoToMinus112(Tiny(n, k)))
    BY SMT, <2>4, <2>5 DEF IsExact
  <2> QED
    BY SMT, <2>10, <2>11, <2>12 DEF Rounds
<1>a3. CASE k = 3
  <2>1. n \in 8 .. 15
    BY SMT, <1>1, <1>a3 DEF PowerOfTwo, Halves
  <2>2. Tiny(n, k) = 105 * 8388608 + (n - 8) * 1048576
    BY SMT, <1>a3 DEF Tiny, PowerOfTwo
  <2>3. /\ Exponent(Tiny(n, k)) = 105
        /\ Significand(Tiny(n, k)) = (n - 8) * 1048576
    BY SMT, <2>1, <2>2 DEF Exponent, Significand
  <2>4. TimesTwoToMinus112(Tiny(n, k)) = RoundedQuotient(n * 1048576, 8)
    BY SMT, <2>1, <2>3 DEF TimesTwoToMinus112
  <2>5. RoundedQuotient(n * 1048576, 8) = 4096 * n
    BY SMT, <2>1 DEF RoundedQuotient
  <2>6. ASSUME n = 8
        PROVE  IsJustBelow(n, TimesTwoToMinus112(Tiny(n, k) - 4096))
    <3>1. /\ Exponent(Tiny(n, k) - 4096) = 104
          /\ Significand(Tiny(n, k) - 4096) = 8384512
      BY SMT, <2>2, <2>6 DEF Exponent, Significand
    <3>2. TimesTwoToMinus112(Tiny(n, k) - 4096) = RoundedQuotient(16773120, 9)
      BY SMT, <3>1 DEF TimesTwoToMinus112
    <3>3. RoundedQuotient(16773120, 9) = 32760
      BY SMT DEF RoundedQuotient
    <3> QED
      BY SMT, <2>6, <3>2, <3>3 DEF IsJustBelow
  <2>7. ASSUME n # 8
        PROVE  IsJustBelow(n, TimesTwoToMinus112(Tiny(n, k) - 4096))
    <3>1. /\ Exponent(Tiny(n, k) - 4096) = 105
          /\ Significand(Tiny(n, k) - 4096) = (n - 8) * 1048576 - 4096
      BY SMT, <2>1, <2>2, <2>7 DEF Exponent, Significand
    <3>2. TimesTwoToMinus112(Tiny(n, k) - 4096) = RoundedQuotient(n * 1048576 - 4096, 8)
      BY SMT, <2>1, <3>1 DEF TimesTwoToMinus112
    <3>3. RoundedQuotient(n * 1048576 - 4096, 8) = 4096 * n - 16
      BY SMT, <2>1 DEF RoundedQuotient
    <3> QED
      BY SMT, <2>1, <3>2, <3>3 DEF IsJustBelow
  <2>9. Tiny(n, k) = 4096 * (215040 + (n - 8) * 256)
    BY SMT, <2>1, <2>2
  <2>10. IsTiny(Tiny(n, k))
    BY SMT, <2>1, <2>9 DEF IsTiny
  <2>11. IsJustBelow(n, TimesTwoToMinus112(Tiny(n, k) - 4096))
    BY SMT, <2>6, <2>7
  <2>12. IsExact(n, TimesTwoToMinus112(Tiny(n, k)))
    BY SMT, <2>4, <2>5 DEF IsExact
  <2> QED
    BY SMT, <2>10, <2>11, <2>12 DEF Rounds
<1>a4. CASE k = 4
  <2>1. n \in 16 .. 31
    BY SMT, <1>1, <1>a4 DEF PowerOfTwo, Halves
  <2>2. Tiny(n, k) = 106 * 8388608 + (n - 16) * 524288
    BY SMT, <1>a4 DEF Tiny, PowerOfTwo
  <2>3. /\ Exponent(Tiny(n, k)) = 106
        /\ Significand(Tiny(n, k)) = (n - 16) * 524288
    BY SMT, <2>1, <2>2 DEF Exponent, Significand
  <2>4. TimesTwoToMinus112(Tiny(n, k)) = RoundedQuotient(n * 524288, 7)
    BY SMT, <2>1, <2>3 DEF TimesTwoToMinus112
  <2>5. RoundedQuotient(n * 524288, 7) = 4096 * n
    BY SMT, <2>1 DEF RoundedQuotient
  <2>6. ASSUME n = 16
        PROVE  IsJustBelow(n, TimesTwoToMinus112(Tiny(n, k) - 4096))
    <3>1. /\ Exponent(Tiny(n, k) - 4096) = 105
          /\ Significand(Tiny(n, k) - 4096) = 8384512
      BY SMT, <2>2, <2>6 DEF Exponent, Significand
    <3>2. TimesTwoToMinus112(Tiny(n, k) - 4096) = RoundedQuotient(16773120, 8)
      BY SMT, <3>1 DEF TimesTwoToMinus112
    <3>3. RoundedQuotient(16773120, 8) = 65520
      BY SMT DEF RoundedQuotient
    <3> QED
      BY SMT, <2>6, <3>2, <3>3 DEF IsJustBelow
  <2>7. ASSUME n # 16
        PROVE  IsJustBelow(n, TimesTwoToMinus112(Tiny(n, k) - 4096))
    <3>1. /\ Exponent(Tiny(n, k) - 4096) = 106
          /\ Significand(Tiny(n, k) - 4096) = (n - 16) * 524288 - 4096
      BY SMT, <2>1, <2>2, <2>7 DEF Exponent, Significand
    <3>2. TimesTwoToMinus112(Tiny(n, k) - 4096) = RoundedQuotient(n * 524288 - 4096, 7)
      BY SMT, <2>1, <3>1 DEF TimesTwoToMinus112
    <3>3. RoundedQuotient(n * 524288 - 4096, 7) = 4096 * n - 32
      BY SMT, <2>1 DEF RoundedQuotient
    <3> QED
      BY SMT, <2>1, <3>2, <3>3 DEF IsJustBelow
  <2>9. Tiny(n, k) = 4096 * (217088 + (n - 16) * 128)
    BY SMT, <2>1, <2>2
  <2>10. IsTiny(Tiny(n, k))
    BY SMT, <2>1, <2>9 DEF IsTiny
  <2>11. IsJustBelow(n, TimesTwoToMinus112(Tiny(n, k) - 4096))
    BY SMT, <2>6, <2>7
  <2>12. IsExact(n, TimesTwoToMinus112(Tiny(n, k)))
    BY SMT, <2>4, <2>5 DEF IsExact
  <2> QED
    BY SMT, <2>10, <2>11, <2>12 DEF Rounds
<1>a5. CASE k = 5
  <2>1. n \in 32 .. 63
    BY SMT, <1>1, <1>a5 DEF PowerOfTwo, Halves
  <2>2. Tiny(n, k) = 107 * 8388608 + (n - 32) * 262144
    BY SMT, <1>a5 DEF Tiny, PowerOfTwo
  <2>3. /\ Exponent(Tiny(n, k)) = 107
        /\ Significand(Tiny(n, k)) = (n - 32) * 262144
    BY SMT, <2>1, <2>2 DEF Exponent, Significand
  <2>4. TimesTwoToMinus112(Tiny(n, k)) = RoundedQuotient(n * 262144, 6)
    BY SMT, <2>1, <2>3 DEF TimesTwoToMinus112
  <2>5. RoundedQuotient(n * 262144, 6) = 4096 * n
    BY SMT, <2>1 DEF RoundedQuotient
  <2>6. ASSUME n = 32
        PROVE  IsJustBelow(n, TimesTwoToMinus112(Tiny(n, k) - 4096))
    <3>1. /\ Exponent(Tiny(n, k) - 4096) = 106
          /\ Significand(Tiny(n, k) - 4096) = 8384512
      BY SMT, <2>2, <2>6 DEF Exponent, Significand
    <3>2. TimesTwoToMinus112(Tiny(n, k) - 4096) = RoundedQuotient(16773120, 7)
      BY SMT, <3>1 DEF TimesTwoToMinus112
    <3>3. RoundedQuotient(16773120, 7) = 131040
      BY SMT DEF RoundedQuotient
    <3> QED
      BY SMT, <2>6, <3>2, <3>3 DEF IsJustBelow
  <2>7. ASSUME n # 32
        PROVE  IsJustBelow(n, TimesTwoToMinus112(Tiny(n, k) - 4096))
    <3>1. /\ Exponent(Tiny(n, k) - 4096) = 107
          /\ Significand(Tiny(n, k) - 4096) = (n - 32) * 262144 - 4096
      BY SMT, <2>1, <2>2, <2>7 DEF Exponent, Significand
    <3>2. TimesTwoToMinus112(Tiny(n, k) - 4096) = RoundedQuotient(n * 262144 - 4096, 6)
      BY SMT, <2>1, <3>1 DEF TimesTwoToMinus112
    <3>3. RoundedQuotient(n * 262144 - 4096, 6) = 4096 * n - 64
      BY SMT, <2>1 DEF RoundedQuotient
    <3> QED
      BY SMT, <2>1, <3>2, <3>3 DEF IsJustBelow
  <2>9. Tiny(n, k) = 4096 * (219136 + (n - 32) * 64)
    BY SMT, <2>1, <2>2
  <2>10. IsTiny(Tiny(n, k))
    BY SMT, <2>1, <2>9 DEF IsTiny
  <2>11. IsJustBelow(n, TimesTwoToMinus112(Tiny(n, k) - 4096))
    BY SMT, <2>6, <2>7
  <2>12. IsExact(n, TimesTwoToMinus112(Tiny(n, k)))
    BY SMT, <2>4, <2>5 DEF IsExact
  <2> QED
    BY SMT, <2>10, <2>11, <2>12 DEF Rounds
<1>a6. CASE k = 6
  <2>1. n \in 64 .. 127
    BY SMT, <1>1, <1>a6 DEF PowerOfTwo, Halves
  <2>2. Tiny(n, k) = 108 * 8388608 + (n - 64) * 131072
    BY SMT, <1>a6 DEF Tiny, PowerOfTwo
  <2>3. /\ Exponent(Tiny(n, k)) = 108
        /\ Significand(Tiny(n, k)) = (n - 64) * 131072
    BY SMT, <2>1, <2>2 DEF Exponent, Significand
  <2>4. TimesTwoToMinus112(Tiny(n, k)) = RoundedQuotient(n * 131072, 5)
    BY SMT, <2>1, <2>3 DEF TimesTwoToMinus112
  <2>5. RoundedQuotient(n * 131072, 5) = 4096 * n
    BY SMT, <2>1 DEF RoundedQuotient
  <2>6. ASSUME n = 64
        PROVE  IsJustBelow(n, TimesTwoToMinus112(Tiny(n, k) - 4096))
    <3>1. /\ Exponent(Tiny(n, k) - 4096) = 107
          /\ Significand(Tiny(n, k) - 4096) = 8384512
      BY SMT, <2>2, <2>6 DEF Exponent, Significand
    <3>2. TimesTwoToMinus112(Tiny(n, k) - 4096) = RoundedQuotient(16773120, 6)
      BY SMT, <3>1 DEF TimesTwoToMinus112
    <3>3. RoundedQuotient(16773120, 6) = 262080
      BY SMT DEF RoundedQuotient
    <3> QED
      BY SMT, <2>6, <3>2, <3>3 DEF IsJustBelow
  <2>7. ASSUME n # 64
        PROVE  IsJustBelow(n, TimesTwoToMinus112(Tiny(n, k) - 4096))
    <3>1. /\ Exponent(Tiny(n, k) - 4096) = 108
          /\ Significand(Tiny(n, k) - 4096) = (n - 64) * 131072 - 4096
      BY SMT, <2>1, <2>2, <2>7 DEF Exponent, Significand
    <3>2. TimesTwoToMinus112(Tiny(n, k) - 4096) = RoundedQuotient(n * 131072 - 4096, 5)
      BY SMT, <2>1, <3>1 DEF TimesTwoToMinus112
    <3>3. RoundedQuotient(n * 131072 - 4096, 5) = 4096 * n - 128
      BY SMT, <2>1 DEF RoundedQuotient
    <3> QED
      BY SMT, <2>1, <3>2, <3>3 DEF IsJustBelow
  <2>9. Tiny(n, k) = 4096 * (221184 + (n - 64) * 32)
    BY SMT, <2>1, <2>2
  <2>10. IsTiny(Tiny(n, k))
    BY SMT, <2>1, <2>9 DEF IsTiny
  <2>11. IsJustBelow(n, TimesTwoToMinus112(Tiny(n, k) - 4096))
    BY SMT, <2>6, <2>7
  <2>12. IsExact(n, TimesTwoToMinus112(Tiny(n, k)))
    BY SMT, <2>4, <2>5 DEF IsExact
  <2> QED
    BY SMT, <2>10, <2>11, <2>12 DEF Rounds
<1>a7. CASE k = 7
  <2>1. n \in 128 .. 255
    BY SMT, <1>1, <1>a7 DEF PowerOfTwo, Halves
  <2>2. Tiny(n, k) = 109 * 8388608 + (n - 128) * 65536
    BY SMT, <1>a7 DEF Tiny, PowerOfTwo
  <2>3. /\ Exponent(Tiny(n, k)) = 109
        /\ Significand(Tiny(n, k)) = (n - 128) * 65536
    BY SMT, <2>1, <2>2 DEF Exponent, Significand
  <2>4. TimesTwoToMinus112(Tiny(n, k)) = RoundedQuotient(n * 65536, 4)
    BY SMT, <2>1, <2>3 DEF TimesTwoToMinus112
  <2>5. RoundedQuotient(n * 65536, 4) = 4096 * n
    BY SMT, <2>1 DEF RoundedQuotient
  <2>6. ASSUME n = 128
        PROVE  IsJustBelow(n, TimesTwoToMinus112(Tiny(n, k) - 4096))
    <3>1. /\ Exponent(Tiny(n, k) - 4096) = 108
          /\ Significand(Tiny(n, k) - 4096) = 8384512
      BY SMT, <2>2, <2>6 DEF Exponent, Significand
    <3>2. TimesTwoToMinus112(Tiny(n, k) - 4096) = RoundedQuotient(16773120, 5)
      BY SMT, <3>1 DEF TimesTwoToMinus112
    <3>3. RoundedQuotient(16773120, 5) = 524160
      BY SMT DEF RoundedQuotient
    <3> QED
      BY SMT, <2>6, <3>2, <3>3 DEF IsJustBelow
  <2>7. ASSUME n # 128
        PROVE  IsJustBelow(n, TimesTwoToMinus112(Tiny(n, k) - 4096))
    <3>1. /\ Exponent(Tiny(n, k) - 4096) = 109
          /\ Significand(Tiny(n, k) - 4096) = (n - 128) * 65536 - 4096
      BY SMT, <2>1, <2>2, <2>7 DEF Exponent, Significand
    <3>2. TimesTwoToMinus112(Tiny(n, k) - 4096) = RoundedQuotient(n * 65536 - 4096, 4)
      BY SMT, <2>1, <3>1 DEF TimesTwoToMinus112
    <3>3. RoundedQuotient(n * 65536 - 4096, 4) = 4096 * n - 256
      BY SMT, <2>1 DEF RoundedQuotient
    <3> QED
      BY SMT, <2>1, <3>2, <3>3 DEF IsJustBelow
  <2>9. Tiny(n, k) = 4096 * (223232 + (n - 128) * 16)
    BY SMT, <2>1, <2>2
  <2>10. IsTiny(Tiny(n, k))
    BY SMT, <2>1, <2>9 DEF IsTiny
  <2>11. IsJustBelow(n, TimesTwoToMinus112(Tiny(n, k) - 4096))
    BY SMT, <2>6, <2>7
  <2>12. IsExact(n, TimesTwoToMinus112(Tiny(n, k)))
    BY SMT, <2>4, <2>5 DEF IsExact
  <2> QED
    BY SMT, <2>10, <2>11, <2>12 DEF Rounds
<1>a8. CASE k = 8
  <2>1. n \in 256 .. 511
    BY SMT, <1>1, <1>a8 DEF PowerOfTwo, Halves
  <2>2. Tiny(n, k) = 110 * 8388608 + (n - 256) * 32768
    BY SMT, <1>a8 DEF Tiny, PowerOfTwo
  <2>3. /\ Exponent(Tiny(n, k)) = 110
        /\ Significand(Tiny(n, k)) = (n - 256) * 32768
    BY SMT, <2>1, <2>2 DEF Exponent, Significand
  <2>4. TimesTwoToMinus112(Tiny(n, k)) = RoundedQuotient(n * 32768, 3)
    BY SMT, <2>1, <2>3 DEF TimesTwoToMinus112
  <2>5. RoundedQuotient(n * 32768, 3) = 4096 * n
    BY SMT, <2>1 DEF RoundedQuotient
  <2>6. ASSUME n = 256
        PROVE  IsJustBelow(n, TimesTwoToMinus112(Tiny(n, k) - 4096))
    <3>1. /\ Exponent(Tiny(n, k) - 4096) = 109
          /\ Significand(Tiny(n, k) - 4096) = 8384512
      BY SMT, <2>2, <2>6 DEF Exponent, Significand
    <3>2. TimesTwoToMinus112(Tiny(n, k) - 4096) = RoundedQuotient(16773120, 4)
      BY SMT, <3>1 DEF TimesTwoToMinus112
    <3>3. RoundedQuotient(16773120, 4) = 1048320
      BY SMT DEF RoundedQuotient
    <3> QED
      BY SMT, <2>6, <3>2, <3>3 DEF IsJustBelow
  <2>7. ASSUME n # 256
        PROVE  IsJustBelow(n, TimesTwoToMinus112(Tiny(n, k) - 4096))
    <3>1. /\ Exponent(Tiny(n, k) - 4096) = 110
          /\ Significand(Tiny(n, k) - 4096) = (n - 256) * 32768 - 4096
      BY SMT, <2>1, <2>2, <2>7 DEF Exponent, Significand
    <3>2. TimesTwoToMinus112(Tiny(n, k) - 4096) = RoundedQuotient(n * 32768 - 4096, 3)
      BY SMT, <2>1, <3>1 DEF TimesTwoToMinus112
    <3>3. RoundedQuotient(n * 32768 - 4096, 3) = 4096 * n - 512
      BY SMT, <2>1 DEF RoundedQuotient
    <3> QED
      BY SMT, <2>1, <3>2, <3>3 DEF IsJustBelow
  <2>9. Tiny(n, k) = 4096 * (225280 + (n - 256) * 8)
    BY SMT, <2>1, <2>2
  <2>10. IsTiny(Tiny(n, k))
    BY SMT, <2>1, <2>9 DEF IsTiny
  <2>11. IsJustBelow(n, TimesTwoToMinus112(Tiny(n, k) - 4096))
    BY SMT, <2>6, <2>7
  <2>12. IsExact(n, TimesTwoToMinus112(Tiny(n, k)))
    BY SMT, <2>4, <2>5 DEF IsExact
  <2> QED
    BY SMT, <2>10, <2>11, <2>12 DEF Rounds
<1>a9. CASE k = 9
  <2>1. n \in 512 .. 1023
    BY SMT, <1>1, <1>a9 DEF PowerOfTwo, Halves
  <2>2. Tiny(n, k) = 111 * 8388608 + (n - 512) * 16384
    BY SMT, <1>a9 DEF Tiny, PowerOfTwo
  <2>3. /\ Exponent(Tiny(n, k)) = 111
        /\ Significand(Tiny(n, k)) = (n - 512) * 16384
    BY SMT, <2>1, <2>2 DEF Exponent, Significand
  <2>4. TimesTwoToMinus112(Tiny(n, k)) = RoundedQuotient(n * 16384, 2)
    BY SMT, <2>1, <2>3 DEF TimesTwoToMinus112
  <2>5. RoundedQuotient(n * 16384, 2) = 4096 * n
    BY SMT, <2>1 DEF RoundedQuotient
  <2>6. ASSUME n = 512
        PROVE  IsJustBelow(n, TimesTwoToMinus112(Tiny(n, k) - 4096))
    <3>1. /\ Exponent(Tiny(n, k) - 4096) = 110
          /\ Significand(Tiny(n, k) - 4096) = 8384512
      BY SMT, <2>2, <2>6 DEF Exponent, Significand
    <3>2. TimesTwoToMinus112(Tiny(n, k) - 4096) = RoundedQuotient(16773120, 3)
      BY SMT, <3>1 DEF TimesTwoToMinus112
    <3>3. RoundedQuotient(16773120, 3) = 2096640
      BY SMT DEF RoundedQuotient
    <3> QED
      BY SMT, <2>6, <3>2, <3>3 DEF IsJustBelow
  <2>7. ASSUME n # 512
        PROVE  IsJustBelow(n, TimesTwoToMinus112(Tiny(n, k) - 4096))
    <3>1. /\ Exponent(Tiny(n, k) - 4096) = 111
          /\ Significand(Tiny(n, k) - 4096) = (n - 512) * 16384 - 4096
      BY SMT, <2>1, <2>2, <2>7 DEF Exponent, Significand
    <3>2. TimesTwoToMinus112(Tiny(n, k) - 4096) = RoundedQuotient(n * 16384 - 4096, 2)
      BY SMT, <2>1, <3>1 DEF TimesTwoToMinus112
    <3>3. RoundedQuotient(n * 16384 - 4096, 2) = 4096 * n - 1024
      BY SMT, <2>1 DEF RoundedQuotient
    <3> QED
      BY SMT, <2>1, <3>2, <3>3 DEF IsJustBelow
  <2>9. Tiny(n, k) = 4096 * (227328 + (n - 512) * 4)
    BY SMT, <2>1, <2>2
  <2>10. IsTiny(Tiny(n, k))
    BY SMT, <2>1, <2>9 DEF IsTiny
  <2>11. IsJustBelow(n, TimesTwoToMinus112(Tiny(n, k) - 4096))
    BY SMT, <2>6, <2>7
  <2>12. IsExact(n, TimesTwoToMinus112(Tiny(n, k)))
    BY SMT, <2>4, <2>5 DEF IsExact
  <2> QED
    BY SMT, <2>10, <2>11, <2>12 DEF Rounds
<1>a10. CASE k = 10
  <2>1. n \in 1024 .. 2047
    BY SMT, <1>1, <1>a10 DEF PowerOfTwo, Halves
  <2>2. Tiny(n, k) = 112 * 8388608 + (n - 1024) * 8192
    BY SMT, <1>a10 DEF Tiny, PowerOfTwo
  <2>3. /\ Exponent(Tiny(n, k)) = 112
        /\ Significand(Tiny(n, k)) = (n - 1024) * 8192
    BY SMT, <2>1, <2>2 DEF Exponent, Significand
  <2>4. TimesTwoToMinus112(Tiny(n, k)) = RoundedQuotient(n * 8192, 1)
    BY SMT, <2>1, <2>3 DEF TimesTwoToMinus112
  <2>5. RoundedQuotient(n * 8192, 1) = 4096 * n
    BY SMT, <2>1 DEF RoundedQuotient
  <2>6. ASSUME n = 1024
        PROVE  IsJustBelow(n, TimesTwoToMinus112(Tiny(n, k) - 4096))
    <3>1. /\ Exponent(Tiny(n, k) - 4096) = 111
          /\ Significand(Tiny(n, k) - 4096) = 8384512
      BY SMT, <2>2, <2>6 DEF Exponent, Significand
    <3>2. TimesTwoToMinus112(Tiny(n, k) - 4096) = RoundedQuotient(16773120, 2)
      BY SMT, <3>1 DEF TimesTwoToMinus112
    <3>3. RoundedQuotient(16773120, 2) = 4193280
      BY SMT DEF RoundedQuotient
    <3> QED
      BY SMT, <2>6, <3>2, <3>3 DEF IsJustBelow
  <2>7. ASSUME n # 1024
        PROVE  IsJustBelow(n, TimesTwoToMinus112(Tiny(n, k) - 4096))
    <3>1. /\ Exponent(Tiny(n, k) - 4096) = 112
          /\ Significand(Tiny(n, k) - 4096) = (n - 1024) * 8192 - 4096
      BY SMT, <2>1, <2>2, <2>7 DEF Exponent, Significand
    <3>2. TimesTwoToMinus112(Tiny(n, k) - 4096) = RoundedQuotient(n * 8192 - 4096, 1)
      BY SMT, <2>1, <3>1 DEF TimesTwoToMinus112
    <3>3. RoundedQuotient(n * 8192 - 4096, 1) = 4096 * n - 2048
      BY SMT, <2>1 DEF RoundedQuotient
    <3> QED
      BY SMT, <2>1, <3>2, <3>3 DEF IsJustBelow
  <2>9. Tiny(n, k) = 4096 * (229376 + (n - 1024) * 2)
    BY SMT, <2>1, <2>2
  <2>10. IsTiny(Tiny(n, k))
    BY SMT, <2>1, <2>9 DEF IsTiny
  <2>11. IsJustBelow(n, TimesTwoToMinus112(Tiny(n, k) - 4096))
    BY SMT, <2>6, <2>7
  <2>12. IsExact(n, TimesTwoToMinus112(Tiny(n, k)))
    BY SMT, <2>4, <2>5 DEF IsExact
  <2> QED
    BY SMT, <2>10, <2>11, <2>12 DEF Rounds
<1> QED
  BY <1>2, <1>a0, <1>a1, <1>a2, <1>a3, <1>a4, <1>a5, <1>a6, <1>a7, <1>a8, <1>a9, <1>a10

(* What the conversion to half precision makes of such a number and its neighbours. *)
LEMMA TinyRounds ==
    ASSUME NEW n \in Halves, NEW k \in 0 .. 10, Rounds(n, k), NEW u, u = Tiny(n, k)
    PROVE  /\ canardConvertNativeFloatToFloat16(u) = (n + 1) \div 2
           /\ canardConvertNativeFloatToFloat16(u + 1) = (n + 1) \div 2
           /\ n % 2 = 1 => canardConvertNativeFloatToFloat16(u - 1) = n \div 2
<1>0. n \in 1 .. 2047
  BY SMT DEF Halves
<1>1. IsTiny(u) /\ IsExact(n, TimesTwoToMinus112(u)) /\ IsJustBelow(n, TimesTwoToMinus112(u - 4096))
  BY SMT DEF Rounds
<1>2. u - (u % 4096) = u /\ (u + 1) - ((u + 1) % 4096) = u /\ (u - 1) - ((u - 1) % 4096) = u - 4096
  BY SMT, <1>1 DEF IsTiny
<1>3. /\ u \in Nat /\ u < 2139095040 /\ u + 1 < 2139095040 /\ u - 1 < 2139095040
      /\ u - 1 \in Int
  BY SMT, <1>1 DEF IsTiny
<1>4. Infinity32 = 2139095040 /\ Infinity16 = 260046848
  BY SMT DEF Infinity32, Infinity16
<1>5. \A v \in Int, x \in Int :
          v < 2139095040 /\ TimesTwoToMinus112(v - (v % 4096)) = x /\ x + 4096 <= 260046848
              => canardConvertNativeFloatToFloat16(v) = (x + 4096) \div 8192
  BY SMT, <1>4 DEF canardConvertNativeFloatToFloat16
<1>6. PICK x \in Int : /\ x = TimesTwoToMinus112(u - 4096)
                      /\ 4096 * n - 2048 <= x /\ x < 4096 * n
  BY SMT, <1>1 DEF IsJustBelow
<1>7. TimesTwoToMinus112(u) = 4096 * n
  BY SMT, <1>1 DEF IsExact
<1>8. canardConvertNativeFloatToFloat16(u) = (4096 * n + 4096) \div 8192
  BY SMT, <1>2, <1>0, <1>3, <1>5, <1>7
<1>9. canardConvertNativeFloatToFloat16(u + 1) = (4096 * n + 4096) \div 8192
  BY SMT, <1>2, <1>0, <1>3, <1>5, <1>7
<1>10. canardConvertNativeFloatToFloat16(u - 1) = (x + 4096) \div 8192
  <2>3. n \in Nat /\ n <= 2047
    BY SMT, <1>0
  <2>4. x < 8384512
    BY SMT, <1>6, <2>3
  <2>1. x + 4096 <= 260046848 /\ u - 1 < 2139095040
    BY SMT, <1>3, <1>6, <2>4
  <2>2. TimesTwoToMinus112((u - 1) - ((u - 1) % 4096)) = x
    BY SMT, <1>2, <1>6
  <2> QED
    BY SMT, <1>3, <1>5, <2>1, <2>2
<1>11. (4096 * n + 4096) \div 8192 = (n + 1) \div 2
  BY SMT, <1>0
<1>12. n % 2 = 1 => (x + 4096) \div 8192 = n \div 2
  BY SMT, <1>0, <1>6
<1> QED
  BY SMT, <1>0, <1>8, <1>9, <1>10, <1>11, <1>12

(* The half-precision numbers as floats: zero, the denormal and the normal ones, infinity. *)
LEMMA DenormalIsScaled ==
    ASSUME NEW h \in Denormals, NEW k \in 0 .. 10,
           PowerOfTwo(k) <= 2 * h, 2 * h < PowerOfTwo(k + 1)
    PROVE  Scaled(h * 2^13, 112) = Tiny(2 * h, k)
<1>0. h \in 1 .. 1023
  BY DEF Denormals
<1>1. k \in 0 .. 25 /\ k + 1 \in 0 .. 25 /\ k + 12 \in 0 .. 25 /\ k + 13 \in 0 .. 25
      /\ 23 - k \in 0 .. 25 /\ 11 - k \in 0 .. 25 /\ k + 12 \in 0 .. 23
  OBVIOUS
<1>2. PowerOfTwo(k + 12) = 4096 * PowerOfTwo(k) /\ PowerOfTwo(k + 13) = 4096 * PowerOfTwo(k + 1)
  BY SMT, <1>1, PowerIs DEF PowerRow
<1>3. PowerOfTwo(23 - k) = 4096 * PowerOfTwo(11 - k)
  BY SMT, <1>1, PowerIs DEF PowerRow
<1>4. PowerOfTwo(k) \in Nat /\ PowerOfTwo(11 - k) \in Nat /\ PowerOfTwo(k + 1) \in Nat
  BY <1>1, PowersGrow
<1>5. PowerOfTwo(k + 12) <= 8192 * h /\ 8192 * h < PowerOfTwo((k + 12) + 1)
  BY SMT, <1>0, <1>2, <1>4
<1>6. Scaled(8192 * h, 112) = ((k + 12) + 112 - 22) * PowerOfTwo(23)
                                + (8192 * h - PowerOfTwo(k + 12)) * PowerOfTwo(23 - (k + 12))
  <2>1. 8192 * h \in Nat
    BY <1>0
  <2> QED
    BY SMT, <2>1, <1>1, <1>5, ScaledIs
<1>7. (8192 * h - PowerOfTwo(k + 12)) * PowerOfTwo(11 - k)
        = (2 * h - PowerOfTwo(k)) * PowerOfTwo(23 - k)
  <2>1. 8192 * h - PowerOfTwo(k + 12) = 4096 * (2 * h - PowerOfTwo(k))
    BY SMT, <1>0, <1>2, <1>4
  <2>2. \A a, b \in Int : (4096 * a) * b = a * (4096 * b)
    BY SMT
  <2>3. 2 * h - PowerOfTwo(k) \in Int
    BY SMT, <1>0, <1>4
  <2> QED
    BY SMT, <2>1, <2>2, <2>3, <1>3, <1>4
<1>8. PowerOfTwo(23) = 8388608
  BY DEF PowerOfTwo
<1>9. 23 - (k + 12) = 11 - k /\ (k + 12) + 112 - 22 = k + 102
  OBVIOUS
<1>10. h * 2^13 = 8192 * h
  BY SMT, <1>0
<1> QED
  BY SMT, <1>0, <1>6, <1>7, <1>8, <1>9, <1>10 DEF Tiny

LEMMA DenormalIs ==
    ASSUME NEW h \in Denormals, NEW k \in 0 .. 10,
           PowerOfTwo(k) <= 2 * h, 2 * h < PowerOfTwo(k + 1)
    PROVE  canardConvertFloat16ToNativeFloat(h) = Tiny(2 * h, k)
<1>0. h \in 1 .. 1023
  BY DEF Denormals
<1>1. Exponent(h * 2^13) = 0 /\ Significand(h * 2^13) = 8192 * h
  BY SMT, <1>0 DEF Exponent, Significand
<1>2. TimesTwoTo112(h * 2^13) = Tiny(2 * h, k)
  <2>1. Scaled(h * 2^13, 112) = Tiny(2 * h, k)
    BY Zenon, DenormalIsScaled
  <2>2. h * 2^13 = 8192 * h
    BY SMT, <1>0
  <2> QED
    BY SMT, <1>1, <2>1, <2>2 DEF TimesTwoTo112
<1>3. 2 * h \in Halves /\ Rounds(2 * h, k)
  <2>1. 2 * h \in Halves
    BY SMT, <1>0 DEF Halves
  <2> QED
    BY Zenon, <2>1, TinyConverts
<1>4. Tiny(2 * h, k) \in Nat /\ Tiny(2 * h, k) < 947912704
  BY SMT, <1>3 DEF Rounds, IsTiny
<1> QED
  BY SMT, <1>0, <1>2, <1>4 DEF canardConvertFloat16ToNativeFloat

LEMMA NormalIs ==
    ASSUME NEW h \in Normals
    PROVE  canardConvertFloat16ToNativeFloat(h) = 8192 * h + 939524096
<1>0. h \in Nat /\ 1024 <= h /\ h <= 31743
  BY SMT DEF Normals
<1>1. Exponent(h * 2^13) # 0
  BY SMT, <1>0 DEF Exponent
<1>2. TimesTwoTo112(h * 2^13) = 8192 * h + 939524096
  BY SMT, <1>0, <1>1 DEF TimesTwoTo112
<1>3. 8192 * h + 939524096 < 1199570944
  BY SMT, <1>0
<1> QED
  BY SMT, <1>0, <1>2, <1>3 DEF canardConvertFloat16ToNativeFloat

LEMMA ZeroAndInfinity ==
    /\ canardConvertFloat16ToNativeFloat(0) = 0
    /\ canardConvertFloat16ToNativeFloat(31744) = Infinity32
    /\ Infinity32 = 2139095040
    /\ canardConvertNativeFloatToFloat16(0) = 0
<1>1. canardConvertFloat16ToNativeFloat(0) = 0
  BY SMT DEF canardConvertFloat16ToNativeFloat, TimesTwoTo112, Exponent, Significand, Scaled
<1>2. canardConvertFloat16ToNativeFloat(31744) = Infinity32
  <2>1. Exponent(31744 * 2^13) # 0
    BY SMT DEF Exponent
  <2>2. TimesTwoTo112(31744 * 2^13) = 1199570944
    BY SMT, <2>1 DEF TimesTwoTo112
  <2>3. Significand(1199570944) = 0
    BY SMT DEF Significand
  <2> QED
    BY SMT, <2>2, <2>3 DEF canardConvertFloat16ToNativeFloat, Infinity32
<1>3. Infinity32 = 2139095040
  BY SMT DEF Infinity32
<1>4. canardConvertNativeFloatToFloat16(0) = 0
  <2>1. TimesTwoToMinus112(0) = 0
    BY SMT DEF TimesTwoToMinus112, Exponent, Significand
  <2> QED
    BY SMT, <2>1 DEF canardConvertNativeFloatToFloat16, Infinity32, Infinity16
<1> QED
  BY SMT, <1>1, <1>2, <1>3, <1>4

LEMMA NormalRounds ==
    ASSUME NEW u \in Nat, u % 4096 = 0, u >= 947912704, u < 1199570944
    PROVE  \A d \in {0, 1} :
               canardConvertNativeFloatToFloat16(u + d) = (u - 939524096 + 4096) \div 8192
<1>1. Exponent(u) > 112
  BY SMT DEF Exponent
<1>2. TimesTwoToMinus112(u) = u - 939524096
  BY SMT, <1>1 DEF TimesTwoToMinus112
<1>3. \A d \in {0, 1} : (u + d) - ((u + d) % 4096) = u
  BY SMT
<1>4. Infinity32 = 2139095040 /\ Infinity16 = 260046848
  BY SMT DEF Infinity32, Infinity16
<1>5. u - 939524096 + 4096 <= 260046848
  BY SMT
<1> QED
  BY SMT, <1>2, <1>3, <1>4, <1>5 DEF canardConvertNativeFloatToFloat16

-----------------------------------------------------------------------------
(* The conversion to half precision keeps the order of floats: within one exponent, and  *)
(* because the results for one exponent end where those for the next begin.      *)

Grid(e) == IF e <= 89 THEN 0 ELSE PowerOfTwo(e - 90)

LEMMA GridGrows ==
    ASSUME NEW d \in 0 .. 112, NEW e \in 0 .. 113, d < e
    PROVE  Grid(d) \in Nat /\ Grid(d + 1) \in Nat /\ Grid(e) \in Nat /\ Grid(d + 1) <= Grid(e)
<1>1. \A i \in 0 .. 25 : PowerOfTwo(i) \in Nat
  BY PowersGrow
<1>2. \A i, k \in 0 .. 25 : i < k => 2 * PowerOfTwo(i) <= PowerOfTwo(k)
  BY PowersGrow
<1>3. \A i, k \in 0 .. 25 : i < k => PowerOfTwo(i) <= PowerOfTwo(k)
  BY SMT, <1>1, <1>2
<1> QED
  BY SMT, <1>1, <1>3 DEF Grid

KeepsOrder(e) ==
    \A u, v \in Nat : Exponent(u) = e /\ Exponent(v) = e =>
        /\ TimesTwoToMinus112(u) \in Nat
        /\ Grid(e) <= TimesTwoToMinus112(u) /\ TimesTwoToMinus112(u) <= Grid(e + 1)
        /\ u <= v => TimesTwoToMinus112(u) <= TimesTwoToMinus112(v)

LEMMA SmallestKeepOrder ==
    ASSUME NEW e \in 0 .. 87
    PROVE  KeepsOrder(e)
<1>1. Grid(e) = 0 /\ Grid(e + 1) = 0
  BY SMT DEF Grid
<1>2. \A u \in Nat : Exponent(u) = e => TimesTwoToMinus112(u) = 0
  BY SMT DEF TimesTwoToMinus112
<1> QED
  BY SMT, <1>1, <1>2 DEF KeepsOrder

LEMMA EachKeepsOrder ==
    ASSUME NEW e \in 88 .. 112
    PROVE  KeepsOrder(e)
<1>1. e \in {88, 89, 90, 91, 92, 93, 94, 95, 96, 97, 98, 99, 100, 101, 102, 103, 104, 105, 106, 107, 108, 109, 110, 111, 112}
  BY SMT
<1>a88. CASE e = 88
  <2>1. Grid(e) = 0 /\ Grid(e + 1) = 0
    BY SMT, <1>a88 DEF Grid, PowerOfTwo
  <2>2. \A u \in Nat : Exponent(u) = 88 =>
            TimesTwoToMinus112(u) = RoundedQuotient(u - 87 * 8388608, 25)
    BY SMT DEF TimesTwoToMinus112, Exponent, Significand
  <2>3. \A u \in Nat : Exponent(u) = 88 =>
            u - 87 * 8388608 >= 8388608 /\ u - 87 * 8388608 < 16777216
    BY SMT DEF Exponent
  <2>4. \A n \in Nat : 8388608 <= n /\ n < 16777216 =>
            /\ RoundedQuotient(n, 25) \in Nat
            /\ 0 <= RoundedQuotient(n, 25) /\ RoundedQuotient(n, 25) <= 0
    BY SMT DEF RoundedQuotient
  <2>5. \A n, m \in Nat : n <= m => RoundedQuotient(n, 25) <= RoundedQuotient(m, 25)
    BY SMT DEF RoundedQuotient
  <2> QED
    BY SMT, <1>a88, <2>1, <2>2, <2>3, <2>4, <2>5 DEF KeepsOrder
<1>a89. CASE e = 89
  <2>1. Grid(e) = 0 /\ Grid(e + 1) = 1
    BY SMT, <1>a89 DEF Grid, PowerOfTwo
  <2>2. \A u \in Nat : Exponent(u) = 89 =>
            TimesTwoToMinus112(u) = RoundedQuotient(u - 88 * 8388608, 24)
    BY SMT DEF TimesTwoToMinus112, Exponent, Significand
  <2>3. \A u \in Nat : Exponent(u) = 89 =>
            u - 88 * 8388608 >= 8388608 /\ u - 88 * 8388608 < 16777216
    BY SMT DEF Exponent
  <2>4. \A n \in Nat : 8388608 <= n /\ n < 16777216 =>
            /\ RoundedQuotient(n, 24) \in Nat
            /\ 0 <= RoundedQuotient(n, 24) /\ RoundedQuotient(n, 24) <= 1
    BY SMT DEF RoundedQuotient
  <2>5. \A n, m \in Nat : n <= m => RoundedQuotient(n, 24) <= RoundedQuotient(m, 24)
    BY SMT DEF RoundedQuotient
  <2> QED
    BY SMT, <1>a89, <2>1, <2>2, <2>3, <2>4, <2>5 DEF KeepsOrder
<1>a90. CASE e = 90
  <2>1. Grid(e) = 1 /\ Grid(e + 1) = 2
    BY SMT, <1>a90 DEF Grid, PowerOfTwo
  <2>2. \A u \in Nat : Exponent(u) = 90 =>
            TimesTwoToMinus112(u) = RoundedQuotient(u - 89 * 8388608, 23)
    BY SMT DEF TimesTwoToMinus112, Exponent, Significand
  <2>3. \A u \in Nat : Exponent(u) = 90 =>
            u - 89 * 8388608 >= 8388608 /\ u - 89 * 8388608 < 16777216
    BY SMT DEF Exponent
  <2>4. \A n \in Nat : 8388608 <= n /\ n < 16777216 =>
            /\ RoundedQuotient(n, 23) \in Nat
            /\ 1 <= RoundedQuotient(n, 23) /\ RoundedQuotient(n, 23) <= 2
    BY SMT DEF RoundedQuotient
  <2>5. \A n, m \in Nat : n <= m => RoundedQuotient(n, 23) <= RoundedQuotient(m, 23)
    BY SMT DEF RoundedQuotient
  <2> QED
    BY SMT, <1>a90, <2>1, <2>2, <2>3, <2>4, <2>5 DEF KeepsOrder
<1>a91. CASE e = 91
  <2>1. Grid(e) = 2 /\ Grid(e + 1) = 4
    BY SMT, <1>a91 DEF Grid, PowerOfTwo
  <2>2. \A u \in Nat : Exponent(u) = 91 =>
            TimesTwoToMinus112(u) = RoundedQuotient(u - 90 * 8388608, 22)
    BY SMT DEF TimesTwoToMinus112, Exponent, Significand
  <2>3. \A u \in Nat : Exponent(u) = 91 =>
            u - 90 * 8388608 >= 8388608 /\ u - 90 * 8388608 < 16777216
    BY SMT DEF Exponent
  <2>4. \A n \in Nat : 8388608 <= n /\ n < 16777216 =>
            /\ RoundedQuotient(n, 22) \in Nat
            /\ 2 <= RoundedQuotient(n, 22) /\ RoundedQuotient(n, 22) <= 4
    BY SMT DEF RoundedQuotient
  <2>5. \A n, m \in Nat : n <= m => RoundedQuotient(n, 22) <= RoundedQuotient(m, 22)
    BY SMT DEF RoundedQuotient
  <2> QED
    BY SMT, <1>a91, <2>1, <2>2, <2>3, <2>4, <2>5 DEF KeepsOrder
<1>a92. CASE e = 92
  <2>1. Grid(e) = 4 /\ Grid(e + 1) = 8
    BY SMT, <1>a92 DEF Grid, PowerOfTwo
  <2>2. \A u \in Nat : Exponent(u) = 92 =>
            TimesTwoToMinus112(u) = RoundedQuotient(u - 91 * 8388608, 21)
    BY SMT DEF TimesTwoToMinus112, Exponent, Significand
  <2>3. \A u \in Nat : Exponent(u) = 92 =>
            u - 91 * 8388608 >= 8388608 /\ u - 91 * 8388608 < 16777216
    BY SMT DEF Exponent
  <2>4. \A n \in Nat : 8388608 <= n /\ n < 16777216 =>
            /\ RoundedQuotient(n, 21) \in Nat
            /\ 4 <= RoundedQuotient(n, 21) /\ RoundedQuotient(n, 21) <= 8
    BY SMT DEF RoundedQuotient
  <2>5. \A n, m \in Nat : n <= m => RoundedQuotient(n, 21) <= RoundedQuotient(m, 21)
    BY SMT DEF RoundedQuotient
  <2> QED
    BY SMT, <1>a92, <2>1, <2>2, <2>3, <2>4, <2>5 DEF KeepsOrder
<1>a93. CASE e = 93
  <2>1. Grid(e) = 8 /\ Grid(e + 1) = 16
    BY SMT, <1>a93 DEF Grid, PowerOfTwo
  <2>2. \A u \in Nat : Exponent(u) = 93 =>
            TimesTwoToMinus112(u) = RoundedQuotient(u - 92 * 8388608, 20)
    BY SMT DEF TimesTwoToMinus112, Exponent, Significand
  <2>3. \A u \in Nat : Exponent(u) = 93 =>
            u - 92 * 8388608 >= 8388608 /\ u - 92 * 8388608 < 16777216
    BY SMT DEF Exponent
  <2>4. \A n \in Nat : 8388608 <= n /\ n < 16777216 =>
            /\ RoundedQuotient(n, 20) \in Nat
            /\ 8 <= RoundedQuotient(n, 20) /\ RoundedQuotient(n, 20) <= 16
    BY SMT DEF RoundedQuotient
  <2>5. \A n, m \in Nat : n <= m => RoundedQuotient(n, 20) <= RoundedQuotient(m, 20)
    BY SMT DEF RoundedQuotient
  <2> QED
    BY SMT, <1>a93, <2>1, <2>2, <2>3, <2>4, <2>5 DEF KeepsOrder
<1>a94. CASE e = 94
  <2>1. Grid(e) = 16 /\ Grid(e + 1) = 32
    BY SMT, <1>a94 DEF Grid, PowerOfTwo
  <2>2. \A u \in Nat : Exponent(u) = 94 =>
            TimesTwoToMinus112(u) = RoundedQuotient(u - 93 * 8388608, 19)
    BY SMT DEF TimesTwoToMinus112, Exponent, Significand
  <2>3. \A u \in Nat : Exponent(u) = 94 =>
            u - 93 * 8388608 >= 8388608 /\ u - 93 * 8388608 < 16777216
    BY SMT DEF Exponent
  <2>4. \A n \in Nat : 8388608 <= n /\ n < 16777216 =>
            /\ RoundedQuotient(n, 19) \in Nat
            /\ 16 <= RoundedQuotient(n, 19) /\ RoundedQuotient(n, 19) <= 32
    BY SMT DEF RoundedQuotient
  <2>5. \A n, m \in Nat : n <= m => RoundedQuotient(n, 19) <= RoundedQuotient(m, 19)
    BY SMT DEF RoundedQuotient
  <2> QED
    BY SMT, <1>a94, <2>1, <2>2, <2>3, <2>4, <2>5 DEF KeepsOrder
<1>a95. CASE e = 95
  <2>1. Grid(e) = 32 /\ Grid(e + 1) = 64
    BY SMT, <1>a95 DEF Grid, PowerOfTwo
  <2>2. \A u \in Nat : Exponent(u) = 95 =>
            TimesTwoToMinus112(u) = RoundedQuotient(u - 94 * 8388608, 18)
    BY SMT DEF TimesTwoToMinus112, Exponent, Significand
  <2>3. \A u \in Nat : Exponent(u) = 95 =>
            u - 94 * 8388608 >= 8388608 /\ u - 94 * 8388608 < 16777216
    BY SMT DEF Exponent
  <2>4. \A n \in Nat : 8388608 <= n /\ n < 16777216 =>
            /\ RoundedQuotient(n, 18) \in Nat
            /\ 32 <= RoundedQuotient(n, 18) /\ RoundedQuotient(n, 18) <= 64
    BY SMT DEF RoundedQuotient
  <2>5. \A n, m \in Nat : n <= m => RoundedQuotient(n, 18) <= RoundedQuotient(m, 18)
    BY SMT DEF RoundedQuotient
  <2> QED
    BY SMT, <1>a95, <2>1, <2>2, <2>3, <2>4, <2>5 DEF KeepsOrder
<1>a96. CASE e = 96
  <2>1. Grid(e) = 64 /\ Grid(e + 1) = 128
    BY SMT, <1>a96 DEF Grid, PowerOfTwo
  <2>2. \A u \in Nat : Exponent(u) = 96 =>
            TimesTwoToMinus112(u) = RoundedQuotient(u - 95 * 8388608, 17)
    BY SMT DEF TimesTwoToMinus112, Exponent, Significand
  <2>3. \A u \in Nat : Exponent(u) = 96 =>
            u - 95 * 8388608 >= 8388608 /\ u - 95 * 8388608 < 16777216
    BY SMT DEF Exponent
  <2>4. \A n \in Nat : 8388608 <= n /\ n < 16777216 =>
            /\ RoundedQuotient(n, 17) \in Nat
            /\ 64 <= RoundedQuotient(n, 17) /\ RoundedQuotient(n, 17) <= 128
    BY SMT DEF RoundedQuotient
  <2>5. \A n, m \in Nat : n <= m => RoundedQuotient(n, 17) <= RoundedQuotient(m, 17)
    BY SMT DEF RoundedQuotient
  <2> QED
    BY SMT, <1>a96, <2>1, <2>2, <2>3, <2>4, <2>5 DEF KeepsOrder
<1>a97. CASE e = 97
  <2>1. Grid(e) = 128 /\ Grid(e + 1) = 256
    BY SMT, <1>a97 DEF Grid, PowerOfTwo
  <2>2. \A u \in Nat : Exponent(u) = 97 =>
            TimesTwoToMinus112(u) = RoundedQuotient(u - 96 * 8388608, 16)
    BY SMT DEF TimesTwoToMinus112, Exponent, Significand
  <2>3. \A u \in Nat : Exponent(u) = 97 =>
            u - 96 * 8388608 >= 8388608 /\ u - 96 * 8388608 < 16777216
    BY SMT DEF Exponent
  <2>4. \A n \in Nat : 8388608 <= n /\ n < 16777216 =>
            /\ RoundedQuotient(n, 16) \in Nat
            /\ 128 <= RoundedQuotient(n, 16) /\ RoundedQuotient(n, 16) <= 256
    BY SMT DEF RoundedQuotient
  <2>5. \A n, m \in Nat : n <= m => RoundedQuotient(n, 16) <= RoundedQuotient(m, 16)
    BY SMT DEF RoundedQuotient
  <2> QED
    BY SMT, <1>a97, <2>1, <2>2, <2>3, <2>4, <2>5 DEF KeepsOrder
<1>a98. CASE e = 98
  <2>1. Grid(e) = 256 /\ Grid(e + 1) = 512
    BY SMT, <1>a98 DEF Grid, PowerOfTwo
  <2>2. \A u \in Nat : Exponent(u) = 98 =>
            TimesTwoToMinus112(u) = RoundedQuotient(u - 97 * 8388608, 15)
    BY SMT DEF TimesTwoToMinus112, Exponent, Significand
  <2>3. \A u \in Nat : Exponent(u) = 98 =>
            u - 97 * 8388608 >= 8388608 /\ u - 97 * 8388608 < 16777216
    BY SMT DEF Exponent
  <2>4. \A n \in Nat : 8388608 <= n /\ n < 16777216 =>
            /\ RoundedQuotient(n, 15) \in Nat
            /\ 256 <= RoundedQuotient(n, 15) /\ RoundedQuotient(n, 15) <= 512
    BY SMT DEF RoundedQuotient
  <2>5. \A n, m \in Nat : n <= m => RoundedQuotient(n, 15) <= RoundedQuotient(m, 15)
    BY SMT DEF RoundedQuotient
  <2> QED
    BY SMT, <1>a98, <2>1, <2>2, <2>3, <2>4, <2>5 DEF KeepsOrder
<1>a99. CASE e = 99
  <2>1. Grid(e) = 512 /\ Grid(e + 1) = 1024
    BY SMT, <1>a99 DEF Grid, PowerOfTwo
  <2>2. \A u \in Nat : Exponent(u) = 99 =>
            TimesTwoToMinus112(u) = RoundedQuotient(u - 98 * 8388608, 14)
    BY SMT DEF TimesTwoToMinus112, Exponent, Significand
  <2>3. \A u \in Nat : Exponent(u) = 99 =>
            u - 98 * 8388608 >= 8388608 /\ u - 98 * 8388608 < 16777216
    BY SMT DEF Exponent
  <2>4. \A n \in Nat : 8388608 <= n /\ n < 16777216 =>
            /\ RoundedQuotient(n, 14) \in Nat
            /\ 512 <= RoundedQuotient(n, 14) /\ RoundedQuotient(n, 14) <= 1024
    BY SMT DEF RoundedQuotient
  <2>5. \A n, m \in Nat : n <= m => RoundedQuotient(n, 14) <= RoundedQuotient(m, 14)
    BY SMT DEF RoundedQuotient
  <2> QED
    BY SMT, <1>a99, <2>1, <2>2, <2>3, <2>4, <2>5 DEF KeepsOrder
<1>a100. CASE e = 100
  <2>1. Grid(e) = 1024 /\ Grid(e + 1) = 2048
    BY SMT, <1>a100 DEF Grid, PowerOfTwo
  <2>2. \A u \in Nat : Exponent(u) = 100 =>
            TimesTwoToMinus112(u) = RoundedQuotient(u - 99 * 8388608, 13)
    BY SMT DEF TimesTwoToMinus112, Exponent, Significand
  <2>3. \A u \in Nat : Exponent(u) = 100 =>
            u - 99 * 8388608 >= 8388608 /\ u - 99 * 8388608 < 16777216
    BY SMT DEF Exponent
  <2>4. \A n \in Nat : 8388608 <= n /\ n < 16777216 =>
            /\ RoundedQuotient(n, 13) \in Nat
            /\ 1024 <= RoundedQuotient(n, 13) /\ RoundedQuotient(n, 13) <= 2048
    BY SMT DEF RoundedQuotient
  <2>5. \A n, m \in Nat : n <= m => RoundedQuotient(n, 13) <= RoundedQuotient(m, 13)
    BY SMT DEF RoundedQuotient
  <2> QED
    BY SMT, <1>a100, <2>1, <2>2, <2>3, <2>4, <2>5 DEF KeepsOrder
<1>a101. CASE e = 101
  <2>1. Grid(e) = 2048 /\ Grid(e + 1) = 4096
    BY SMT, <1>a101 DEF Grid, PowerOfTwo
  <2>2. \A u \in Nat : Exponent(u) = 101 =>
            TimesTwoToMinus112(u) = RoundedQuotient(u - 100 * 8388608, 12)
    BY SMT DEF TimesTwoToMinus112, Exponent, Significand
  <2>3. \A u \in Nat : Exponent(u) = 101 =>
            u - 100 * 8388608 >= 8388608 /\ u - 100 * 8388608 < 16777216
    BY SMT DEF Exponent
  <2>4. \A n \in Nat : 8388608 <= n /\ n < 16777216 =>
            /\ RoundedQuotient(n, 12) \in Nat
            /\ 2048 <= RoundedQuotient(n, 12) /\ RoundedQuotient(n, 12) <= 4096
    BY SMT DEF RoundedQuotient
  <2>5. \A n, m \in Nat : n <= m => RoundedQuotient(n, 12) <= RoundedQuotient(m, 12)
    BY SMT DEF RoundedQuotient
  <2> QED
    BY SMT, <1>a101, <2>1, <2>2, <2>3, <2>4, <2>5 DEF KeepsOrder
<1>a102. CASE e = 102
  <2>1. Grid(e) = 4096 /\ Grid(e + 1) = 8192
    BY SMT, <1>a102 DEF Grid, PowerOfTwo
  <2>2. \A u \in Nat : Exponent(u) = 102 =>
            TimesTwoToMinus112(u) = RoundedQuotient(u - 101 * 8388608, 11)
    BY SMT DEF TimesTwoToMinus112, Exponent, Significand
  <2>3. \A u \in Nat : Exponent(u) = 102 =>
            u - 101 * 8388608 >= 8388608 /\ u - 101 * 8388608 < 16777216
    BY SMT DEF Exponent
  <2>4. \A n \in Nat : 8388608 <= n /\ n < 16777216 =>
            /\ RoundedQuotient(n, 11) \in Nat
            /\ 4096 <= RoundedQuotient(n, 11) /\ RoundedQuotient(n, 11) <= 8192
    BY SMT DEF RoundedQuotient
  <2>5. \A n, m \in Nat : n <= m => RoundedQuotient(n, 11) <= RoundedQuotient(m, 11)
    BY SMT DEF RoundedQuotient
  <2> QED
    BY SMT, <1>a102, <2>1, <2>2, <2>3, <2>4, <2>5 DEF KeepsOrder
<1>a103. CASE e = 103
  <2>1. Grid(e) = 8192 /\ Grid(e + 1) = 16384
    BY SMT, <1>a103 DEF Grid, PowerOfTwo
  <2>2. \A u \in Nat : Exponent(u) = 103 =>
            TimesTwoToMinus112(u) = RoundedQuotient(u - 102 * 8388608, 10)
    BY SMT DEF TimesTwoToMinus112, Exponent, Significand
  <2>3. \A u \in Nat : Exponent(u) = 103 =>
            u - 102 * 8388608 >= 8388608 /\ u - 102 * 8388608 < 16777216
    BY SMT DEF Exponent
  <2>4. \A n \in Nat : 8388608 <= n /\ n < 16777216 =>
            /\ RoundedQuotient(n, 10) \in Nat
            /\ 8192 <= RoundedQuotient(n, 10) /\ RoundedQuotient(n, 10) <= 16384
    BY SMT DEF RoundedQuotient
  <2>5. \A n, m \in Nat : n <= m => RoundedQuotient(n, 10) <= RoundedQuotient(m, 10)
    BY SMT DEF RoundedQuotient
  <2> QED
    BY SMT, <1>a103, <2>1, <2>2, <2>3, <2>4, <2>5 DEF KeepsOrder
<1>a104. CASE e = 104
  <2>1. Grid(e) = 16384 /\ Grid(e + 1) = 32768
    BY SMT, <1>a104 DEF Grid, PowerOfTwo
  <2>2. \A u \in Nat : Exponent(u) = 104 =>
            TimesTwoToMinus112(u) = RoundedQuotient(u - 103 * 8388608, 9)
    BY SMT DEF TimesTwoToMinus112, Exponent, Significand
  <2>3. \A u \in Nat : Exponent(u) = 104 =>
            u - 103 * 8388608 >= 8388608 /\ u - 103 * 8388608 < 16777216
    BY SMT DEF Exponent
  <2>4. \A n \in Nat : 8388608 <= n /\ n < 16777216 =>
            /\ RoundedQuotient(n, 9) \in Nat
            /\ 16384 <= RoundedQuotient(n, 9) /\ RoundedQuotient(n, 9) <= 32768
    BY SMT DEF RoundedQuotient
  <2>5. \A n, m \in Nat : n <= m => RoundedQuotient(n, 9) <= RoundedQuotient(m, 9)
    BY SMT DEF RoundedQuotient
  <2> QED
    BY SMT, <1>a104, <2>1, <2>2, <2>3, <2>4, <2>5 DEF KeepsOrder
<1>a105. CASE e = 105
  <2>1. Grid(e) = 32768 /\ Grid(e + 1) = 65536
    BY SMT, <1>a105 DEF Grid, PowerOfTwo
  <2>2. \A u \in Nat : Exponent(u) = 105 =>
            TimesTwoToMinus112(u) = RoundedQuotient(u - 104 * 8388608, 8)
    BY SMT DEF TimesTwoToMinus112, Exponent, Significand
  <2>3. \A u \in Nat : Exponent(u) = 105 =>
            u - 104 * 8388608 >= 8388608 /\ u - 104 * 8388608 < 16777216
    BY SMT DEF Exponent
  <2>4. \A n \in Nat : 8388608 <= n /\ n < 16777216 =>
            /\ RoundedQuotient(n, 8) \in Nat
            /\ 32768 <= RoundedQuotient(n, 8) /\ RoundedQuotient(n, 8) <= 65536
    BY SMT DEF RoundedQuotient
  <2>5. \A n, m \in Nat : n <= m => RoundedQuotient(n, 8) <= RoundedQuotient(m, 8)
    BY SMT DEF RoundedQuotient
  <2> QED
    BY SMT, <1>a105, <2>1, <2>2, <2>3, <2>4, <2>5 DEF KeepsOrder
<1>a106. CASE e = 106
  <2>1. Grid(e) = 65536 /\ Grid(e + 1) = 131072
    BY SMT, <1>a106 DEF Grid, PowerOfTwo
  <2>2. \A u \in Nat : Exponent(u) = 106 =>
            TimesTwoToMinus112(u) = RoundedQuotient(u - 105 * 8388608, 7)
    BY SMT DEF TimesTwoToMinus112, Exponent, Significand
  <2>3. \A u \in Nat : Exponent(u) = 106 =>
            u - 105 * 8388608 >= 8388608 /\ u - 105 * 8388608 < 16777216
    BY SMT DEF Exponent
  <2>4. \A n \in Nat : 8388608 <= n /\ n < 16777216 =>
            /\ RoundedQuotient(n, 7) \in Nat
            /\ 65536 <= RoundedQuotient(n, 7) /\ RoundedQuotient(n, 7) <= 131072
    BY SMT DEF RoundedQuotient
  <2>5. \A n, m \in Nat : n <= m => RoundedQuotient(n, 7) <= RoundedQuotient(m, 7)
    BY SMT DEF RoundedQuotient
  <2> QED
    BY SMT, <1>a106, <2>1, <2>2, <2>3, <2>4, <2>5 DEF KeepsOrder
<1>a107. CASE e = 107
  <2>1. Grid(e) = 131072 /\ Grid(e + 1) = 262144
    BY SMT, <1>a107 DEF Grid, PowerOfTwo
  <2>2. \A u \in Nat : Exponent(u) = 107 =>
            TimesTwoToMinus112(u) = RoundedQuotient(u - 106 * 8388608, 6)
    BY SMT DEF TimesTwoToMinus112, Exponent, Significand
  <2>3. \A u \in Nat : Exponent(u) = 107 =>
            u - 106 * 8388608 >= 8388608 /\ u - 106 * 8388608 < 16777216
    BY SMT DEF Exponent
  <2>4. \A n \in Nat : 8388608 <= n /\ n < 16777216 =>
            /\ RoundedQuotient(n, 6) \in Nat
            /\ 131072 <= RoundedQuotient(n, 6) /\ RoundedQuotient(n, 6) <= 262144
    BY SMT DEF RoundedQuotient
  <2>5. \A n, m \in Nat : n <= m => RoundedQuotient(n, 6) <= RoundedQuotient(m, 6)
    BY SMT DEF RoundedQuotient
  <2> QED
    BY SMT, <1>a107, <2>1, <2>2, <2>3, <2>4, <2>5 DEF KeepsOrder
<1>a108. CASE e = 108
  <2>1. Grid(e) = 262144 /\ Grid(e + 1) = 524288
    BY SMT, <1>a108 DEF Grid, PowerOfTwo
  <2>2. \A u \in Nat : Exponent(u) = 108 =>
            TimesTwoToMinus112(u) = RoundedQuotient(u - 107 * 8388608, 5)
    BY SMT DEF TimesTwoToMinus112, Exponent, Significand
  <2>3. \A u \in Nat : Exponent(u) = 108 =>
            u - 107 * 8388608 >= 8388608 /\ u - 107 * 8388608 < 16777216
    BY SMT DEF Exponent
  <2>4. \A n \in Nat : 8388608 <= n /\ n < 16777216 =>
            /\ RoundedQuotient(n, 5) \in Nat
            /\ 262144 <= RoundedQuotient(n, 5) /\ RoundedQuotient(n, 5) <= 524288
    BY SMT DEF RoundedQuotient
  <2>5. \A n, m \in Nat : n <= m => RoundedQuotient(n, 5) <= RoundedQuotient(m, 5)
    BY SMT DEF RoundedQuotient
  <2> QED
    BY SMT, <1>a108, <2>1, <2>2, <2>3, <2>4, <2>5 DEF KeepsOrder
<1>a109. CASE e = 109
  <2>1. Grid(e) = 524288 /\ Grid(e + 1) = 1048576
    BY SMT, <1>a109 DEF Grid, PowerOfTwo
  <2>2. \A u \in Nat : Exponent(u) = 109 =>
            TimesTwoToMinus112(u) = RoundedQuotient(u - 108 * 8388608, 4)
    BY SMT DEF TimesTwoToMinus112, Exponent, Significand
  <2>3. \A u \in Nat : Exponent(u) = 109 =>
            u - 108 * 8388608 >= 8388608 /\ u - 108 * 8388608 < 16777216
    BY SMT DEF Exponent
  <2>4. \A n \in Nat : 8388608 <= n /\ n < 16777216 =>
            /\ RoundedQuotient(n, 4) \in Nat
            /\ 524288 <= RoundedQuotient(n, 4) /\ RoundedQuotient(n, 4) <= 1048576
    BY SMT DEF RoundedQuotient
  <2>5. \A n, m \in Nat : n <= m => RoundedQuotient(n, 4) <= RoundedQuotient(m, 4)
    BY SMT DEF RoundedQuotient
  <2> QED
    BY SMT, <1>a109, <2>1, <2>2, <2>3, <2>4, <2>5 DEF KeepsOrder
<1>a110. CASE e = 110
  <2>1. Grid(e) = 1048576 /\ Grid(e + 1) = 2097152
    BY SMT, <1>a110 DEF Grid, PowerOfTwo
  <2>2. \A u \in Nat : Exponent(u) = 110 =>
            TimesTwoToMinus112(u) = RoundedQuotient(u - 109 * 8388608, 3)
    BY SMT DEF TimesTwoToMinus112, Exponent, Significand
  <2>3. \A u \in Nat : Exponent(u) = 110 =>
            u - 109 * 8388608 >= 8388608 /\ u - 109 * 8388608 < 16777216
    BY SMT DEF Exponent
  <2>4. \A n \in Nat : 8388608 <= n /\ n < 16777216 =>
            /\ RoundedQuotient(n, 3) \in Nat
            /\ 1048576 <= RoundedQuotient(n, 3) /\ RoundedQuotient(n, 3) <= 2097152
    BY SMT DEF RoundedQuotient
  <2>5. \A n, m \in Nat : n <= m => RoundedQuotient(n, 3) <= RoundedQuotient(m, 3)
    BY SMT DEF RoundedQuotient
  <2> QED
    BY SMT, <1>a110, <2>1, <2>2, <2>3, <2>4, <2>5 DEF KeepsOrder
<1>a111. CASE e = 111
  <2>1. Grid(e) = 2097152 /\ Grid(e + 1) = 4194304
    BY SMT, <1>a111 DEF Grid, PowerOfTwo
  <2>2. \A u \in Nat : Exponent(u) = 111 =>
            TimesTwoToMinus112(u) = RoundedQuotient(u - 110 * 8388608, 2)
    BY SMT DEF TimesTwoToMinus112, Exponent, Significand
  <2>3. \A u \in Nat : Exponent(u) = 111 =>
            u - 110 * 8388608 >= 8388608 /\ u - 110 * 8388608 < 16777216
    BY SMT DEF Exponent
  <2>4. \A n \in Nat : 8388608 <= n /\ n < 16777216 =>
            /\ RoundedQuotient(n, 2) \in Nat
            /\ 2097152 <= RoundedQuotient(n, 2) /\ RoundedQuotient(n, 2) <= 4194304
    BY SMT DEF RoundedQuotient
  <2>5. \A n, m \in Nat : n <= m => RoundedQuotient(n, 2) <= RoundedQuotient(m, 2)
    BY SMT DEF RoundedQuotient
  <2> QED
    BY SMT, <1>a111, <2>1, <2>2, <2>3, <2>4, <2>5 DEF KeepsOrder
<1>a112. CASE e = 112
  <2>1. Grid(e) = 4194304 /\ Grid(e + 1) = 8388608
    BY SMT, <1>a112 DEF Grid, PowerOfTwo
  <2>2. \A u \in Nat : Exponent(u) = 112 =>
            TimesTwoToMinus112(u) = RoundedQuotient(u - 111 * 8388608, 1)
    BY SMT DEF TimesTwoToMinus112, Exponent, Significand
  <2>3. \A u \in Nat : Exponent(u) = 112 =>
            u - 111 * 8388608 >= 8388608 /\ u - 111 * 8388608 < 16777216
    BY SMT DEF Exponent
  <2>4. \A n \in Nat : 8388608 <= n /\ n < 16777216 =>
            /\ RoundedQuotient(n, 1) \in Nat
            /\ 4194304 <= RoundedQuotient(n, 1) /\ RoundedQuotient(n, 1) <= 8388608
    BY SMT DEF RoundedQuotient
  <2>5. \A n, m \in Nat : n <= m => RoundedQuotient(n, 1) <= RoundedQuotient(m, 1)
    BY SMT DEF RoundedQuotient
  <2> QED
    BY SMT, <1>a112, <2>1, <2>2, <2>3, <2>4, <2>5 DEF KeepsOrder
<1> QED
  BY <1>1, <1>a88, <1>a89, <1>a90, <1>a91, <1>a92, <1>a93, <1>a94, <1>a95, <1>a96, <1>a97, <1>a98, <1>a99, <1>a100, <1>a101, <1>a102, <1>a103, <1>a104, <1>a105, <1>a106, <1>a107, <1>a108, <1>a109, <1>a110, <1>a111, <1>a112

LEMMA ProductKeepsOrder ==
    ASSUME NEW u \in Nat, NEW v \in Nat, u <= v
    PROVE  /\ TimesTwoToMinus112(u) \in Nat /\ TimesTwoToMinus112(v) \in Nat
           /\ TimesTwoToMinus112(u) <= TimesTwoToMinus112(v)
<1>1. Exponent(u) \in Nat /\ Exponent(v) \in Nat /\ Exponent(u) <= Exponent(v)
  BY SMT DEF Exponent
<1>2. \A e \in 0 .. 112 : KeepsOrder(e)
  <2>1. \A e \in 0 .. 87 : KeepsOrder(e)
    BY SmallestKeepOrder
  <2>2. \A e \in 88 .. 112 : KeepsOrder(e)
    BY EachKeepsOrder
  <2> QED
    BY SMT, <2>1, <2>2
<1>9. ASSUME NEW w \in Nat, Exponent(w) <= 112
      PROVE  /\ TimesTwoToMinus112(w) \in Nat
             /\ Grid(Exponent(w)) <= TimesTwoToMinus112(w)
             /\ TimesTwoToMinus112(w) <= Grid(Exponent(w) + 1)
  <2>1. Exponent(w) \in 0 .. 112
    BY SMT, <1>9 DEF Exponent
  <2>2. KeepsOrder(Exponent(w))
    BY <1>2, <2>1
  <2> QED
    BY <2>2 DEF KeepsOrder
<1>3. Grid(113) = 8388608
  BY SMT DEF Grid, PowerOfTwo
<1>4. \A w \in Nat : Exponent(w) > 112 =>
          TimesTwoToMinus112(w) = w - 939524096 /\ w - 939524096 >= 8388608
  BY SMT DEF TimesTwoToMinus112, Exponent
<1>5. CASE Exponent(v) <= 112 /\ Exponent(u) = Exponent(v)
  <2>1. Exponent(v) \in 0 .. 112
    BY SMT, <1>1, <1>5
  <2>2. KeepsOrder(Exponent(v))
    BY <1>2, <2>1
  <2> QED
    BY <1>5, <2>2 DEF KeepsOrder
<1>6. CASE Exponent(v) <= 112 /\ Exponent(u) # Exponent(v)
  <2>1. Exponent(u) \in 0 .. 112 /\ Exponent(v) \in 0 .. 113 /\ Exponent(u) < Exponent(v)
    BY SMT, <1>1, <1>6
  <2>2. Grid(Exponent(u) + 1) <= Grid(Exponent(v))
        /\ Grid(Exponent(u) + 1) \in Nat /\ Grid(Exponent(v)) \in Nat
    BY <2>1, GridGrows
  <2>3. /\ TimesTwoToMinus112(u) \in Nat /\ TimesTwoToMinus112(u) <= Grid(Exponent(u) + 1)
        /\ TimesTwoToMinus112(v) \in Nat /\ Grid(Exponent(v)) <= TimesTwoToMinus112(v)
    BY SMT, <1>1, <1>6, <1>9
  <2> QED
    BY SMT, <2>2, <2>3
<1>7. CASE Exponent(v) > 112 /\ Exponent(u) <= 112
  <2>1. Grid(Exponent(u) + 1) <= Grid(113) /\ Grid(Exponent(u) + 1) \in Nat
    <3>1. Exponent(u) \in 0 .. 112 /\ 113 \in 0 .. 113 /\ Exponent(u) < 113
      BY SMT, <1>1, <1>7
    <3> QED
      BY <3>1, GridGrows
  <2>2. TimesTwoToMinus112(u) \in Nat /\ TimesTwoToMinus112(u) <= Grid(Exponent(u) + 1)
    BY SMT, <1>1, <1>7, <1>9
  <2> QED
    BY SMT, <1>3, <1>4, <1>7, <2>1, <2>2
<1>8. CASE Exponent(u) > 112
  BY SMT, <1>1, <1>4, <1>8
<1> QED
  BY SMT, <1>1, <1>5, <1>6, <1>7, <1>8

LEMMA FloatsKeepOrder ==
    ASSUME NEW u \in Nat, NEW v \in Nat, u <= v
    PROVE  /\ canardConvertNativeFloatToFloat16(u) \in Nat
           /\ canardConvertNativeFloatToFloat16(v) \in Nat
           /\ canardConvertNativeFloatToFloat16(u) <= canardConvertNativeFloatToFloat16(v)
<1> DEFINE Cut(w) == w - (w % 4096)
<1>1. Cut(u) \in Nat /\ Cut(v) \in Nat /\ Cut(u) <= Cut(v)
  BY SMT
<1>2. /\ TimesTwoToMinus112(Cut(u)) \in Nat /\ TimesTwoToMinus112(Cut(v)) \in Nat
      /\ TimesTwoToMinus112(Cut(u)) <= TimesTwoToMinus112(Cut(v))
  <2> HIDE DEF Cut
  <2> QED
    BY <1>1, ProductKeepsOrder
<1>3. Infinity32 = 2139095040 /\ Infinity16 = 260046848
  BY SMT DEF Infinity32, Infinity16
<1>4. PICK x, y \in Nat : /\ x = TimesTwoToMinus112(u - (u % 4096))
                          /\ y = TimesTwoToMinus112(v - (v % 4096))
                          /\ x <= y
  BY <1>2
<1> HIDE DEF Cut
<1> DEFINE Half(z) == (IF z + 4096 > 260046848 THEN 260046848 ELSE z + 4096) \div 8192
<1>5. /\ Half(x) \in Nat /\ Half(y) \in Nat /\ Half(x) <= Half(y)
      /\ Half(x) <= 31744 /\ Half(y) <= 31744
  BY SMT, <1>4
<1>6. /\ u < 2139095040 => canardConvertNativeFloatToFloat16(u) = Half(x)
      /\ v < 2139095040 => canardConvertNativeFloatToFloat16(v) = Half(y)
      /\ u >= 2139095040 => canardConvertNativeFloatToFloat16(u) = IF u > 2139095040 THEN 32767 ELSE 31744
      /\ v >= 2139095040 => canardConvertNativeFloatToFloat16(v) = IF v > 2139095040 THEN 32767 ELSE 31744
  BY SMT, <1>3, <1>4 DEF canardConvertNativeFloatToFloat16
<1> HIDE DEF Half
<1> QED
  BY SMT, <1>5, <1>6

-----------------------------------------------------------------------------
(* Every half-precision number and the floats next to its midpoint. *)

LEMMA ThereAndBack ==
    ASSUME NEW h \in FiniteHalves
    PROVE  /\ canardConvertFloat16ToNativeFloat(h) \in Nat
           /\ canardConvertFloat16ToNativeFloat(h) < Infinity32
           /\ canardConvertNativeFloatToFloat16(canardConvertFloat16ToNativeFloat(h)) = h
<1>1. CASE h = 0
  BY SMT, <1>1, ZeroAndInfinity
<1>2. CASE h \in Nat /\ 1 <= h /\ h <= 1023
  <2>1. h \in Denormals /\ 2 * h \in Halves
    BY SMT, <1>2 DEF Denormals, Halves
  <2>2. PICK k \in 0 .. 10 : PowerOfTwo(k) <= 2 * h /\ 2 * h < PowerOfTwo(k + 1)
    BY <2>1, PowerBetween
  <2>3. canardConvertFloat16ToNativeFloat(h) = Tiny(2 * h, k)
    BY <2>1, <2>2, DenormalIs
  <2>4. Rounds(2 * h, k)
    BY <2>1, <2>2, TinyConverts
  <2>5. canardConvertNativeFloatToFloat16(Tiny(2 * h, k)) = (2 * h + 1) \div 2
    BY <2>1, <2>4, TinyRounds
  <2>6. Tiny(2 * h, k) \in Nat /\ Tiny(2 * h, k) < 947912704
    BY SMT, <2>4 DEF Rounds, IsTiny
  <2>7. (2 * h + 1) \div 2 = h
    BY SMT, <1>2
  <2> QED
    BY SMT, <2>3, <2>5, <2>6, <2>7, ZeroAndInfinity
<1>3. CASE h \in Nat /\ 1024 <= h /\ h <= 31743
  <2>1. canardConvertFloat16ToNativeFloat(h) = 8192 * h + 939524096
    <3>1. h \in Normals
      BY SMT, <1>3 DEF Normals
    <3> QED
      BY <3>1, NormalIs
  <2> DEFINE u == 8192 * h + 939524096
  <2>2. u \in Nat /\ u % 4096 = 0 /\ u >= 947912704 /\ u < 1199570944
    BY SMT, <1>3
  <2>3. (u - 939524096 + 4096) \div 8192 = h /\ u + 0 = u
    BY SMT, <1>3
  <2>4. canardConvertNativeFloatToFloat16(u + 0) = (u - 939524096 + 4096) \div 8192
    <3> HIDE DEF u
    <3> QED
      BY SMT, <2>2, NormalRounds
  <2> QED
    BY SMT, <2>1, <2>2, <2>3, <2>4, ZeroAndInfinity
<1>4. h \in Nat /\ h <= 31743
  BY SMT DEF FiniteHalves
<1> QED
  BY SMT, <1>1, <1>2, <1>3, <1>4

LEMMA AroundMidpoints ==
    ASSUME NEW h \in Midpoints
    PROVE  /\ Midpoint(h) \in Nat \ {0}
           /\ canardConvertNativeFloatToFloat16(Midpoint(h) - 1) = h
           /\ canardConvertNativeFloatToFloat16(Midpoint(h)) = h + 1
           /\ canardConvertNativeFloatToFloat16(Midpoint(h) + 1) = h + 1
<1>1. CASE h \in Nat /\ h <= 1023
  <2>1. 2 * h + 1 \in Halves
    BY SMT, <1>1 DEF Halves
  <2>2. PICK k \in 0 .. 10 : PowerOfTwo(k) <= 2 * h + 1 /\ 2 * h + 1 < PowerOfTwo(k + 1)
    BY <2>1, PowerBetween
  <2>3. Midpoint(h) = Tiny(2 * h + 1, k)
    <3>1. Scaled(2 * h + 1, 124) = Tiny(2 * h + 1, k)
      BY <2>1, <2>2, TinyIs
    <3> QED
      BY SMT, <1>1, <3>1 DEF Midpoint
  <2>4. Rounds(2 * h + 1, k)
    BY <2>1, <2>2, TinyConverts
  <2>5. /\ canardConvertNativeFloatToFloat16(Tiny(2 * h + 1, k)) = (2 * h + 1 + 1) \div 2
        /\ canardConvertNativeFloatToFloat16(Tiny(2 * h + 1, k) + 1) = (2 * h + 1 + 1) \div 2
        /\ (2 * h + 1) % 2 = 1 =>
               canardConvertNativeFloatToFloat16(Tiny(2 * h + 1, k) - 1) = (2 * h + 1) \div 2
    BY <2>1, <2>4, TinyRounds
  <2>6. Tiny(2 * h + 1, k) \in Nat /\ Tiny(2 * h + 1, k) > 0
    BY SMT, <2>4 DEF Rounds, IsTiny
  <2>7. (2 * h + 1 + 1) \div 2 = h + 1 /\ (2 * h + 1) % 2 = 1 /\ (2 * h + 1) \div 2 = h
    BY SMT, <1>1
  <2> QED
    BY SMT, <2>3, <2>5, <2>6, <2>7
<1>2. CASE h \in Nat /\ 1024 <= h /\ h <= 31742
  <2>1. Midpoint(h) = 8192 * h + 939528192
    <3>1. h \in Normals
      BY SMT, <1>2 DEF Normals
    <3>2. canardConvertFloat16ToNativeFloat(h) = 8192 * h + 939524096
      BY <3>1, NormalIs
    <3> QED
      BY SMT, <1>2, <3>2 DEF Midpoint
  <2> DEFINE u == 8192 * h + 939528192
             w == 8192 * h + 939524096
  <2>2. u \in Nat /\ u % 4096 = 0 /\ u >= 947912704 /\ u < 1199570944
    <3>1. u = 4096 * (2 * h + 229377)
      BY SMT, <1>2
    <3>2. u \in Nat /\ u >= 947912704 /\ u < 1199570944
      BY SMT, <1>2
    <3> HIDE DEF u
    <3>3. u % 4096 = 0
      BY SMT, <1>2, <3>1, <3>2
    <3> QED
      BY SMT, <3>2, <3>3
  <2>3. w \in Nat /\ w % 4096 = 0 /\ w >= 947912704 /\ w < 1199570944
    <3>1. w = 4096 * (2 * h + 229376)
      BY SMT, <1>2
    <3>2. w \in Nat /\ w >= 947912704 /\ w < 1199570944
      BY SMT, <1>2
    <3> HIDE DEF w
    <3>3. w % 4096 = 0
      BY SMT, <1>2, <3>1, <3>2
    <3> QED
      BY SMT, <3>2, <3>3
  <2>4. (u - 939524096 + 4096) \div 8192 = h + 1 /\ (w - 939524096 + 4096) \div 8192 = h
    BY SMT, <1>2
  <2>5. \A d \in {0, 1} : canardConvertNativeFloatToFloat16(u + d) = (u - 939524096 + 4096) \div 8192
    <3> HIDE DEF u
    <3> QED
      BY SMT, <2>2, NormalRounds
  <2>6. canardConvertNativeFloatToFloat16(u - 1) = h
    <3>1. (u - 1) - ((u - 1) % 4096) = w
      BY SMT, <1>2
    <3>2. Exponent(w) > 112 /\ TimesTwoToMinus112(w) = w - 939524096
      <4>1. Exponent(w) > 112
        BY SMT, <1>2 DEF Exponent
      <4> HIDE DEF w
      <4> QED
        BY SMT, <2>3, <4>1 DEF TimesTwoToMinus112
    <3>3. Infinity32 = 2139095040 /\ Infinity16 = 260046848
      BY SMT DEF Infinity32, Infinity16
    <3>4. u - 1 < 2139095040 /\ w - 939524096 + 4096 <= 260046848
      BY SMT, <1>2
    <3> HIDE DEF u, w
    <3> QED
      BY SMT, <2>2, <2>3, <2>4, <3>1, <3>2, <3>3, <3>4 DEF canardConvertNativeFloatToFloat16
  <2>7. u + 0 = u /\ u > 0 /\ Midpoint(h) = u
    BY SMT, <1>2, <2>1
  <2>8. canardConvertNativeFloatToFloat16(u) = h + 1 /\ canardConvertNativeFloatToFloat16(u + 1) = h + 1
    <3> HIDE DEF u, w
    <3> QED
      BY SMT, <2>4, <2>5, <2>7
  <2> HIDE DEF u, w
  <2> QED
    BY SMT, <2>2, <2>6, <2>7, <2>8
<1>3. h \in Nat /\ h <= 31742
  BY SMT DEF Midpoints
<1> QED
  BY SMT, <1>1, <1>2, <1>3

(* canard.c:1025-1092, canardConvertNativeFloatToFloat16 and back: every float between two   *)
(* neighbouring midpoints becomes the half-precision number between them, every half-precision *)
(* number comes back from its conversion, and no two floats change their order.  *)
THEOREM EveryFloatRoundsToTheNearest ==
    /\ \A h \in FiniteHalves : canardConvertNativeFloatToFloat16(canardConvertFloat16ToNativeFloat(h)) = h
    /\ \A u \in Nat : u < Midpoint(0) => canardConvertNativeFloatToFloat16(u) = 0
    /\ \A h \in Midpoints, u \in Nat :
           h + 1 \in Midpoints /\ Midpoint(h) <= u /\ u < Midpoint(h + 1) => canardConvertNativeFloatToFloat16(u) = h + 1
    /\ \A u, v \in Nat : u <= v =>
           canardConvertNativeFloatToFloat16(u) <= canardConvertNativeFloatToFloat16(v)
<1>1. \A h \in FiniteHalves : canardConvertNativeFloatToFloat16(canardConvertFloat16ToNativeFloat(h)) = h
  BY ThereAndBack
<1>2. ASSUME NEW u \in Nat, u < Midpoint(0)
      PROVE  canardConvertNativeFloatToFloat16(u) = 0
  <2>1. /\ Midpoint(0) \in Nat \ {0} /\ Midpoint(0) - 1 \in Nat /\ u <= Midpoint(0) - 1
        /\ canardConvertNativeFloatToFloat16(Midpoint(0) - 1) = 0
    <3>1. 0 \in Midpoints
      BY SMT DEF Midpoints
    <3>2. /\ Midpoint(0) \in Nat \ {0}
          /\ canardConvertNativeFloatToFloat16(Midpoint(0) - 1) = 0
      BY <3>1, AroundMidpoints
    <3> QED
      BY SMT, <1>2, <3>2
  <2>2. /\ canardConvertNativeFloatToFloat16(u) \in Nat
        /\ canardConvertNativeFloatToFloat16(u) <= canardConvertNativeFloatToFloat16(Midpoint(0) - 1)
    BY <2>1, FloatsKeepOrder
  <2> QED
    BY SMT, <2>1, <2>2
<1>3. ASSUME NEW h \in Midpoints, NEW u \in Nat, h + 1 \in Midpoints, Midpoint(h) <= u, u < Midpoint(h + 1)
      PROVE  canardConvertNativeFloatToFloat16(u) = h + 1
  <2>1. /\ Midpoint(h) \in Nat /\ canardConvertNativeFloatToFloat16(Midpoint(h)) = h + 1
        /\ Midpoint(h + 1) \in Nat \ {0} /\ Midpoint(h + 1) - 1 \in Nat /\ u <= Midpoint(h + 1) - 1
        /\ canardConvertNativeFloatToFloat16(Midpoint(h + 1) - 1) = h + 1
    <3>1. /\ Midpoint(h) \in Nat \ {0} /\ canardConvertNativeFloatToFloat16(Midpoint(h)) = h + 1
          /\ Midpoint(h + 1) \in Nat \ {0}
          /\ canardConvertNativeFloatToFloat16(Midpoint(h + 1) - 1) = h + 1
      BY <1>3, AroundMidpoints
    <3> QED
      BY SMT, <1>3, <3>1
  <2>2. /\ canardConvertNativeFloatToFloat16(u) \in Nat
        /\ canardConvertNativeFloatToFloat16(Midpoint(h)) <= canardConvertNativeFloatToFloat16(u)
    BY <1>3, <2>1, FloatsKeepOrder
  <2>3. canardConvertNativeFloatToFloat16(u) <= canardConvertNativeFloatToFloat16(Midpoint(h + 1) - 1)
    BY <2>1, FloatsKeepOrder
  <2>4. h + 1 \in Int
    BY SMT DEF Midpoints
  <2> QED
    BY SMT, <2>1, <2>2, <2>3, <2>4
<1>4. \A u, v \in Nat : u <= v =>
          canardConvertNativeFloatToFloat16(u) <= canardConvertNativeFloatToFloat16(v)
  BY FloatsKeepOrder
<1> QED
  BY <1>1, <1>2, <1>3, <1>4

LEMMA HalfIsFaithful ==
    ASSUME NEW h \in FiniteHalves
    PROVE  /\ canardConvertNativeFloatToFloat16(canardConvertFloat16ToNativeFloat(h)) = h
           /\ h < 31743 =>
               /\ canardConvertNativeFloatToFloat16(Midpoint(h) - 1) = h
               /\ canardConvertNativeFloatToFloat16(Midpoint(h) + 1) = h + 1
           /\ canardConvertFloat16ToNativeFloat(h) < canardConvertFloat16ToNativeFloat(h + 1)
<1>1. /\ canardConvertFloat16ToNativeFloat(h) \in Nat
      /\ canardConvertFloat16ToNativeFloat(h) < Infinity32
      /\ canardConvertNativeFloatToFloat16(canardConvertFloat16ToNativeFloat(h)) = h
  BY ThereAndBack
<1>2. h \in Nat /\ h <= 31743
  BY SMT DEF FiniteHalves
<1>3. CASE h = 31743
  <2>1. h + 1 = 31744
    BY SMT, <1>3
  <2>2. canardConvertFloat16ToNativeFloat(h + 1) = Infinity32
    BY SMT, <2>1, ZeroAndInfinity
  <2> QED
    BY SMT, <1>1, <1>3, <2>2
<1>4. CASE h # 31743
  <2>5. h \in Nat /\ h <= 31742
    BY SMT, <1>2, <1>4
  <2>6. h \in Midpoints
    BY SMT, <2>5 DEF Midpoints
  <2>7. h + 1 \in FiniteHalves
    BY SMT, <2>5 DEF FiniteHalves
  <2>1. h \in Midpoints /\ h + 1 \in FiniteHalves
    BY <2>6, <2>7
  <2>2. /\ canardConvertNativeFloatToFloat16(Midpoint(h) - 1) = h
        /\ canardConvertNativeFloatToFloat16(Midpoint(h) + 1) = h + 1
    BY <2>1, AroundMidpoints
  <2>3. /\ canardConvertFloat16ToNativeFloat(h + 1) \in Nat
        /\ canardConvertNativeFloatToFloat16(canardConvertFloat16ToNativeFloat(h + 1)) = h + 1
    BY <2>1, ThereAndBack
  <2>4. canardConvertFloat16ToNativeFloat(h + 1) <= canardConvertFloat16ToNativeFloat(h) => h + 1 <= h
    BY <1>1, <2>3, FloatsKeepOrder
  <2> QED
    BY SMT, <1>1, <1>2, <2>2, <2>3, <2>4
<1> QED
  BY <1>3, <1>4

(* For every half-precision number: it comes back from its conversion, the floats next to    *)
(* its midpoint with the next one go to either side, and the next one is greater. *)
THEOREM HalvesAreFaithful == TablesSpec => []Float16Faithful
<1>1. ASSUME sample \in Samples
      PROVE  Float16Faithful
  <2>1. IsSample(sample)
    BY <1>1, TablesAssumption
  <2>2. sample.table = "half" => sample.half \in FiniteHalves
    BY <2>1 DEF IsSample
  <2> QED
    BY <2>2, HalfIsFaithful DEF Float16Faithful
<1>2. TablesInit => sample \in Samples
  BY DEF TablesInit
<1>3. sample \in Samples /\ [UNCHANGED sample]_sample => (sample \in Samples)'
  OBVIOUS
<1> QED
  BY <1>1, <1>2, <1>3, PTL DEF TablesSpec
=============================================================================
