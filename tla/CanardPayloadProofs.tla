-------------------------- MODULE CanardPayloadProofs --------------------------
(***************************************************************************)
(* The payload, for every message and all sizes of the storages: encoding a       *)
(* scalar changes no other; the frames carry the payload and its CRC, whoever cut   *)
(* it; the storages hold it; and every scalar is read back as it was encoded.      *)
(***************************************************************************)
EXTENDS CanardPayload, FiniteSetTheorems, SequenceTheorems, WellFoundedInduction, TLAPS

-----------------------------------------------------------------------------
(* Counting *)

LEMMA Least ==
    ASSUME NEW S, S \subseteq Nat, S # {}
    PROVE  \E n \in S : \A k \in S : n <= k
<1>1. IsWellFoundedOn(OpToRel(<, Nat), Nat)
  BY NatLessThanWellFounded, Zenon
<1>2. \E n \in S : \A k \in S : ~(<<k, n>> \in OpToRel(<, Nat))
  BY <1>1, WFMin, Zenon
<1>3. PICK n \in S : \A k \in S : ~(<<k, n>> \in OpToRel(<, Nat))
  BY <1>2, Zenon
<1>4. \A k \in S : k \in Nat /\ n \in Nat /\ ~(k < n)
  BY <1>3 DEF OpToRel
<1> QED
  BY <1>4

LEMMA Counting ==
    ASSUME NEW N \in Nat, NEW S, 0 \in S, \A k \in 0 .. N : k < N /\ k \in S => k + 1 \in S
    PROVE  \A k \in 0 .. N : k \in S
<1> DEFINE Bad == {k \in 0 .. N : k \notin S}
<1>1. SUFFICES ASSUME Bad # {}
               PROVE  FALSE
  OBVIOUS
<1>2. Bad \subseteq Nat
  OBVIOUS
<1>3. PICK n \in Bad : \A k \in Bad : n <= k
  <2> HIDE DEF Bad
  <2> QED
    BY <1>1, <1>2, Least
<1>4. n \in 0 .. N /\ n \notin S /\ n # 0
  OBVIOUS
<1>5. PICK m \in 0 .. N : m + 1 = n
  BY <1>4
<1>6. m \in S
  BY <1>3, <1>5
<1> QED
  BY <1>4, <1>5, <1>6

(* There is a function that takes as many steps as it is asked for. *)
Steps(next, N, V) == next \in [(1 .. N) \X V -> V]
Follows(g, next, N, V, v) ==
    g \in [0 .. N -> V] /\ g[0] = v /\ \A k \in 1 .. N : g[k] = next[<<k, g[k - 1]>>]

LEMMA Counts ==
    ASSUME NEW N \in Nat, NEW V, NEW v \in V, NEW next, Steps(next, N, V)
    PROVE  \E g : Follows(g, next, N, V, v)
<1> DEFINE Is(g, n) == Follows(g, next, n, V, v)
           S == {n \in 0 .. N : \E g : Is(g, n)}
<1>1. 0 \in S
  <2> DEFINE g0 == [k \in 0 .. 0 |-> v]
  <2>1. g0 \in [0 .. 0 -> V] /\ g0[0] = v
    OBVIOUS
  <2> HIDE DEF g0
  <2>2. Is(g0, 0)
    BY <2>1 DEF Follows
  <2> HIDE DEF Is
  <2> QED
    BY <2>2
<1>2. ASSUME NEW n \in 0 .. N, n < N, n \in S
      PROVE  n + 1 \in S
  <2>0. PICK g : Is(g, n)
    BY <1>2
  <2>1. g \in [0 .. n -> V] /\ g[0] = v /\ \A k \in 1 .. n : g[k] = next[<<k, g[k - 1]>>]
    BY <2>0 DEF Follows
  <2> DEFINE h == [k \in 0 .. n + 1 |-> IF k <= n THEN g[k] ELSE next[<<n + 1, g[n]>>]]
  <2>2. n + 1 \in 1 .. N /\ n \in Nat
    BY <1>2
  <2>3. next[<<n + 1, g[n]>>] \in V
    BY <2>1, <2>2 DEF Steps
  <2>4. h \in [0 .. n + 1 -> V]
    BY <2>1, <2>3
  <2>5. /\ \A k \in 0 .. n : h[k] = g[k]
        /\ h[n + 1] = next[<<n + 1, g[n]>>]
    BY <2>2
  <2> HIDE DEF h
  <2>6. ASSUME NEW k \in 1 .. n + 1
        PROVE  h[k] = next[<<k, h[k - 1]>>]
    <3>1. k - 1 \in 0 .. n /\ h[k - 1] = g[k - 1]
      BY <2>2, <2>5
    <3>2. CASE k = n + 1
      <4>1. k - 1 = n
        BY <2>2, <3>2
      <4>2. h[k - 1] = g[n]
        BY <3>1, <4>1
      <4>3. h[k] = next[<<k, g[n]>>]
        BY <2>5, <3>2
      <4> QED
        BY <4>2, <4>3
    <3>3. CASE k # n + 1
      <4>1. k \in 1 .. n /\ k \in 0 .. n
        BY <2>2, <3>3
      <4>2. h[k] = g[k] /\ g[k] = next[<<k, g[k - 1]>>]
        BY <2>1, <2>5, <4>1
      <4> QED
        BY <3>1, <4>2
    <3> QED
      BY <3>2, <3>3
  <2>7. h[0] = v
    BY <2>1, <2>2, <2>5
  <2>8. Is(h, n + 1)
    BY <2>4, <2>6, <2>7 DEF Follows
  <2>9. n + 1 \in 0 .. N
    BY <2>2
  <2> HIDE DEF Is
  <2> QED
    BY <2>8, <2>9
<1>3. \A k \in 0 .. N : k \in S
  <2> HIDE DEF S
  <2> QED
    BY <1>1, <1>2, Counting
<1>4. N \in S
  <2> HIDE DEF S
  <2> QED
    BY <1>3
<1> QED
  BY <1>4

-----------------------------------------------------------------------------
(* Bits and bytes *)

LEMMA ByteOf ==
    \A p \in Int : /\ p \div 8 \in Int
                   /\ p % 8 \in 0 .. 7
                   /\ p = 8 * (p \div 8) + (p % 8)
                   /\ p >= 0 => p \div 8 >= 0
OBVIOUS

LEMMA OneByte ==
    \A p, b \in Int : 8 * b <= p /\ p < 8 * b + 8 => p \div 8 = b /\ p % 8 = p - 8 * b
OBVIOUS

LEMMA InSlice ==
    \A array \in SUBSET Int, first, count \in Int :
        /\ Slice(array, first, count) \in SUBSET Int
        /\ \A x \in Int : x \in Slice(array, first, count)
                            <=> 0 <= x /\ x < 8 * count /\ x + 8 * first \in array
<1>1. SUFFICES ASSUME NEW array \in SUBSET Int, NEW first \in Int, NEW count \in Int
               PROVE  /\ Slice(array, first, count) \in SUBSET Int
                      /\ \A x \in Int : x \in Slice(array, first, count)
                            <=> 0 <= x /\ x < 8 * count /\ x + 8 * first \in array
  OBVIOUS
<1>2. ASSUME NEW x
      PROVE  x \in Slice(array, first, count)
                <=> \E q \in array : 8 * first <= q /\ q < 8 * (first + count) /\ x = q - 8 * first
  BY DEF Slice
<1>3. \A x \in Int : 0 <= x /\ x < 8 * count /\ x + 8 * first \in array =>
         /\ 8 * first <= x + 8 * first
         /\ x + 8 * first < 8 * (first + count)
         /\ x = (x + 8 * first) - 8 * first
  OBVIOUS
<1>4. \A q \in array : \A x :
         8 * first <= q /\ q < 8 * (first + count) /\ x = q - 8 * first =>
             x \in Int /\ 0 <= x /\ x < 8 * count /\ x + 8 * first = q
  OBVIOUS
<1> QED
  BY <1>2, <1>3, <1>4

LEMMA InMoved ==
    \A array \in SUBSET Int, first \in Int :
        /\ Moved(array, first) \in SUBSET Int
        /\ \A x \in Int : x \in Moved(array, first) <=> x - 8 * first \in array
<1>1. SUFFICES ASSUME NEW array \in SUBSET Int, NEW first \in Int
               PROVE  /\ Moved(array, first) \in SUBSET Int
                      /\ \A x \in Int : x \in Moved(array, first) <=> x - 8 * first \in array
  OBVIOUS
<1>2. ASSUME NEW x
      PROVE  x \in Moved(array, first) <=> \E q \in array : x = q + 8 * first
  BY DEF Moved
<1>3. \A x \in Int : x = (x - 8 * first) + 8 * first
  OBVIOUS
<1>4. \A q \in array : q + 8 * first \in Int /\ (q + 8 * first) - 8 * first = q
  OBVIOUS
<1> QED
  BY <1>2, <1>3, <1>4

LEMMA LesserIs ==
    \A a, b \in Int : Lesser(a, b) \in {a, b} /\ Lesser(a, b) <= a /\ Lesser(a, b) <= b
BY DEF Lesser

-----------------------------------------------------------------------------
(* Copying bits *)

(* What a copy of `count' bits from bit `s' to bit `d' makes of an array. *)
Pasted(src, s, count, dst, d) ==
    {p \in Nat : IF d <= p /\ p < d + count THEN p - d + s \in src ELSE p \in dst}

LEMMA InPasted ==
    ASSUME NEW src, NEW s, NEW count, NEW dst, NEW d
    PROVE  /\ Pasted(src, s, count, dst, d) \in SUBSET Nat
           /\ \A p \in Nat : p \in Pasted(src, s, count, dst, d)
                <=> IF d <= p /\ p < d + count THEN p - d + s \in src ELSE p \in dst
BY DEF Pasted

(* A turn of the loop copies up to the end of a byte. *)
Chunk(s, d, rest, count) ==
    count \in Nat /\ count <= rest /\ count <= 8 - (s % 8) /\ count <= 8 - (d % 8)

LEMMA ChunkIs ==
    ASSUME NEW s \in Nat, NEW d \in Nat, NEW rest \in Nat \ {0}
    PROVE  Chunk(s, d, rest, ChunkLength(s, d, rest)) /\ ChunkLength(s, d, rest) >= 1
<1>1. s % 8 \in 0 .. 7 /\ d % 8 \in 0 .. 7
  BY ByteOf
<1> QED
  BY <1>1 DEF Chunk, ChunkLength, Lesser, Greater

LEMMA ChunkCopies ==
    ASSUME NEW src \in SUBSET Int, NEW s \in Nat, NEW d \in Nat, NEW rest \in Nat, NEW count,
           Chunk(s, d, rest, count), NEW dst \in SUBSET Nat
    PROVE  CopyWithinByte(src, s, count, dst, d) = Pasted(src, s, count, dst, d)
<1> DEFINE b == d \div 8
           a == s \div 8
           mask == {p \in 8 * b .. 8 * b + 7 : d <= p /\ p < d + count}
           byte == Slice(src, a, 1)
<1>1. /\ a \in Int /\ b \in Int /\ b >= 0 /\ a >= 0
      /\ s % 8 \in 0 .. 7 /\ d % 8 \in 0 .. 7
      /\ s = 8 * a + (s % 8) /\ d = 8 * b + (d % 8)
  BY ByteOf
<1>2. count \in Nat /\ count <= 8 - (s % 8) /\ count <= 8 - (d % 8)
  BY DEF Chunk
<1>3. \A x \in Int : x \in byte <=> 0 <= x /\ x < 8 /\ x + 8 * a \in src
  <2>1. 1 \in Int /\ 8 * 1 = 8
    OBVIOUS
  <2> HIDE DEF a
  <2> QED
    BY <1>1, <2>1, InSlice
<1>4. CopyWithinByte(src, s, count, dst, d)
        = (dst \ mask) \cup {p \in mask : (p % 8) - (d % 8) + (s % 8) \in byte}
  BY DEF CopyWithinByte
<1> HIDE DEF a, b, byte
<1>5. ASSUME NEW p \in Nat
      PROVE  p \in mask <=> d <= p /\ p < d + count
  BY <1>1, <1>2
<1>6. ASSUME NEW p \in Nat, d <= p, p < d + count
      PROVE  (p % 8) - (d % 8) + (s % 8) \in byte <=> p - d + s \in src
  <2>1. 8 * b <= p /\ p < 8 * b + 8
    BY <1>1, <1>2, <1>6
  <2>2. p % 8 = p - 8 * b
    BY <1>1, <2>1, OneByte
  <2> DEFINE x == (p % 8) - (d % 8) + (s % 8)
  <2>3. x \in Int /\ 0 <= x /\ x < 8 /\ x + 8 * a = p - d + s
    BY <1>1, <1>2, <1>6, <2>2
  <2> HIDE DEF x
  <2>4. x \in byte <=> x + 8 * a \in src
    BY <1>3, <2>3
  <2>5. x \in byte <=> p - d + s \in src
    BY <2>3, <2>4, Zenon
  <2> QED
    BY <2>5 DEF x
<1>7. mask \in SUBSET Nat
  BY <1>1
<1> HIDE DEF mask
<1>8. \A p : p \in CopyWithinByte(src, s, count, dst, d) => p \in Nat
  BY <1>4, <1>7
<1>9. ASSUME NEW p \in Nat
      PROVE  p \in CopyWithinByte(src, s, count, dst, d) <=> p \in Pasted(src, s, count, dst, d)
  <2>1. CASE d <= p /\ p < d + count
    BY <1>4, <1>5, <1>6, <2>1, InPasted
  <2>2. CASE ~(d <= p /\ p < d + count)
    BY <1>4, <1>5, <2>2, InPasted
  <2> QED
    BY <2>1, <2>2
<1>10. \A p : p \in Pasted(src, s, count, dst, d) => p \in Nat
  BY DEF Pasted
<1> QED
  BY <1>8, <1>9, <1>10

Adjacent(a, count, b) == b = a + count

LEMMA PastedTwice ==
    ASSUME NEW src, NEW dst, NEW s \in Nat, NEW d \in Nat, NEW rest \in Nat, NEW count \in Nat,
           NEW first, first = Pasted(src, s, count, dst, d),
           NEW s2 \in Nat, NEW d2 \in Nat, NEW rest2 \in Nat,
           Adjacent(s, count, s2), Adjacent(d, count, d2), Adjacent(count, rest2, rest)
    PROVE  Pasted(src, s2, rest2, first, d2) = Pasted(src, s, rest, dst, d)
<1> DEFINE second == Pasted(src, s2, rest2, first, d2)
           both == Pasted(src, s, rest, dst, d)
<1>1. second \in SUBSET Nat /\ both \in SUBSET Nat
  BY DEF Pasted
<1>2. ASSUME NEW p \in Nat
      PROVE  p \in second <=> p \in both
  <2>1. p \in first <=> IF d <= p /\ p < d + count THEN p - d + s \in src ELSE p \in dst
    BY InPasted, Zenon
  <2>2. p \in both <=> IF d <= p /\ p < d + rest THEN p - d + s \in src ELSE p \in dst
    BY InPasted, Zenon
  <2>3. p \in second <=> IF d2 <= p /\ p < d2 + rest2
                         THEN p - d2 + s2 \in src ELSE p \in first
    BY InPasted
  <2> HIDE DEF second, both
  <2>4. p - d2 + s2 = p - d + s /\ d2 + rest2 = d + rest
        /\ d2 = d + count /\ s2 = s + count
    BY DEF Adjacent
  <2> QED
    BY <2>1, <2>2, <2>3, <2>4
<1> HIDE DEF second, both
<1>3. second = both
  BY <1>1, <1>2
<1> QED
  BY <1>3 DEF second, both

(* The loop of copyBitArray, whole. *)
LEMMA CopyIs ==
    ASSUME NEW src \in SUBSET Int, NEW s \in Nat, NEW n \in Nat, NEW dst \in SUBSET Nat, NEW d \in Nat
    PROVE  copyBitArray(src, s, n, dst, d) = Pasted(src, s, n, dst, d)
<1> DEFINE D == (0 .. n) \X SUBSET Nat
           count(done) == ChunkLength(s + done, d + done, n - done)
           turned(done, out) == CopyWithinByte(src, s + done, count(done), out, d + done)
           Is(f) == f = [turn \in D |->
                           IF turn[1] = n THEN turn[2]
                           ELSE f[<<turn[1] + count(turn[1]), turned(turn[1], turn[2])>>]]
           from == CHOOSE f : Is(f)
           whole(done, out) == Pasted(src, s + done, n - done, out, d + done)
           g == [turn \in D |-> whole(turn[1], turn[2])]
<1>1. copyBitArray(src, s, n, dst, d) = from[<<0, dst>>]
  BY Zenon DEF copyBitArray
<1>2. ASSUME NEW done \in 0 .. n, done # n
      PROVE  /\ count(done) \in Nat /\ count(done) >= 1 /\ done + count(done) \in 0 .. n
             /\ Chunk(s + done, d + done, n - done, count(done))
  <2>1. s + done \in Nat /\ d + done \in Nat /\ n - done \in Nat \ {0}
    BY <1>2
  <2> HIDE DEF count
  <2>2. Chunk(s + done, d + done, n - done, count(done)) /\ count(done) >= 1
    BY <2>1, ChunkIs DEF count
  <2> QED
    BY <2>2 DEF Chunk
<1>3. ASSUME NEW done \in 0 .. n, done # n, NEW out \in SUBSET Nat
      PROVE  /\ turned(done, out) = Pasted(src, s + done, count(done), out, d + done)
             /\ turned(done, out) \in SUBSET Nat
  <2>1. s + done \in Nat /\ d + done \in Nat /\ n - done \in Nat
    BY <1>3
  <2>2. Chunk(s + done, d + done, n - done, count(done))
    BY <1>2, <1>3
  <2> HIDE DEF count
  <2>3. turned(done, out) = Pasted(src, s + done, count(done), out, d + done)
    BY <2>1, <2>2, ChunkCopies
  <2> QED
    BY <2>3 DEF Pasted
<1>4. ASSUME NEW out \in SUBSET Nat
      PROVE  whole(n, out) = out
  <2>1. \A p \in Nat : ~(d + n <= p /\ p < (d + n) + (n - n))
    OBVIOUS
  <2> QED
    BY <2>1 DEF Pasted
<1>5. ASSUME NEW done \in 0 .. n, done # n, NEW out \in SUBSET Nat
      PROVE  whole(done + count(done), turned(done, out)) = whole(done, out)
  <2>1. count(done) \in Nat /\ done + count(done) <= n /\ done \in Nat
    BY <1>2, <1>5
  <2>2. turned(done, out) = Pasted(src, s + done, count(done), out, d + done)
    BY <1>3, <1>5
  <2> HIDE DEF count, turned
  <2> DEFINE c == count(done)
             s1 == s + done
             d1 == d + done
             n1 == n - done
             s2 == s + (done + count(done))
             d2 == d + (done + count(done))
             n2 == n - (done + count(done))
  <2>4. /\ c \in Nat /\ s1 \in Nat /\ d1 \in Nat /\ n1 \in Nat
        /\ s2 \in Nat /\ d2 \in Nat /\ n2 \in Nat
        /\ Adjacent(s1, c, s2) /\ Adjacent(d1, c, d2) /\ Adjacent(c, n2, n1)
    BY <2>1 DEF Adjacent
  <2>5. turned(done, out) = Pasted(src, s1, c, out, d1)
    BY <2>2, Zenon
  <2>7. whole(done + count(done), turned(done, out)) = Pasted(src, s2, n2, turned(done, out), d2)
        /\ whole(done, out) = Pasted(src, s1, n1, out, d1)
    BY Zenon
  <2> HIDE DEF c, s1, d1, n1, s2, d2, n2, whole
  <2>6. Pasted(src, s2, n2, turned(done, out), d2) = Pasted(src, s1, n1, out, d1)
    BY <2>4, <2>5, PastedTwice
  <2> QED
    BY <2>6, <2>7, Zenon
<1>6. \A done \in 0 .. n, out \in SUBSET Nat : <<done, out>> \in D
  OBVIOUS
<1>7. \A turn \in D : /\ turn[1] \in 0 .. n /\ turn[2] \in SUBSET Nat
                      /\ turn = <<turn[1], turn[2]>>
  OBVIOUS
<1>8. Is(g)
  <2>1. ASSUME NEW turn \in D
        PROVE  g[turn] = IF turn[1] = n THEN turn[2]
                         ELSE g[<<turn[1] + count(turn[1]), turned(turn[1], turn[2])>>]
    <3>1. turn[1] \in 0 .. n /\ turn[2] \in SUBSET Nat
      BY <1>7
    <3>2. g[turn] = whole(turn[1], turn[2])
      BY Zenon
    <3>3. CASE turn[1] = n
      <4>1. whole(turn[1], turn[2]) = turn[2]
        <5> HIDE DEF whole
        <5> QED
          BY <1>4, <3>1, <3>3
      <4> QED
        BY <3>2, <3>3, <4>1, Zenon
    <3>4. CASE turn[1] # n
      <4> DEFINE next == <<turn[1] + count(turn[1]), turned(turn[1], turn[2])>>
      <4>1. next \in D
        <5> HIDE DEF count, turned
        <5> QED
          BY <1>2, <1>3, <3>1, <3>4
      <4>2. g[next] = whole(turn[1] + count(turn[1]), turned(turn[1], turn[2]))
        <5>1. next[1] = turn[1] + count(turn[1]) /\ next[2] = turned(turn[1], turn[2])
          <6> HIDE DEF count, turned
          <6> QED
            OBVIOUS
        <5>2. g[next] = whole(next[1], next[2])
          <6> HIDE DEF next, whole, D
          <6> QED
            BY <4>1, Zenon
        <5> HIDE DEF g, next, whole, count, turned
        <5> QED
          BY <5>1, <5>2, Zenon
      <4>3. whole(turn[1] + count(turn[1]), turned(turn[1], turn[2])) = whole(turn[1], turn[2])
        <5> HIDE DEF count, turned, whole
        <5> QED
          BY <1>5, <3>1, <3>4
      <4>4. g[turn] = g[next]
        <5> HIDE DEF g, next, whole, count, turned
        <5> QED
          BY <3>2, <4>2, <4>3, Zenon
      <4> HIDE DEF g, count, turned
      <4> QED
        BY <3>4, <4>4, Zenon DEF next
    <3> QED
      BY <3>3, <3>4
  <2> HIDE DEF whole, count, turned
  <2>2. g = [turn \in D |-> g[turn]]
    OBVIOUS
  <2> HIDE DEF g, D
  <2>3. [turn \in D |-> g[turn]]
          = [turn \in D |-> IF turn[1] = n THEN turn[2]
                           ELSE g[<<turn[1] + count(turn[1]), turned(turn[1], turn[2])>>]]
    BY <2>1, Zenon
  <2> QED
    BY <2>2, <2>3, Zenon
<1>9. Is(from)
  <2> HIDE DEF Is, g
  <2> QED
    BY <1>8, Zenon
<1>10. ASSUME NEW turn \in D
       PROVE  from[turn] = IF turn[1] = n THEN turn[2]
                           ELSE from[<<turn[1] + count(turn[1]), turned(turn[1], turn[2])>>]
  <2> HIDE DEF from, D, count, turned
  <2> QED
    BY <1>9, Zenon
<1> HIDE DEF from
<1> DEFINE S == {k \in 0 .. n : \A done \in 0 .. n, out \in SUBSET Nat :
                                    done >= n - k => from[<<done, out>>] = whole(done, out)}
<1>11. ASSUME NEW out \in SUBSET Nat
       PROVE  from[<<n, out>>] = whole(n, out)
  <2>1. <<n, out>> \in D /\ <<n, out>>[1] = n /\ <<n, out>>[2] = out
    BY <1>6
  <2>2. from[<<n, out>>] = out
    <3> HIDE DEF D, count, turned
    <3> QED
      BY <1>10, <2>1
  <2> HIDE DEF whole
  <2> QED
    BY <1>4, <2>2
<1>12. 0 \in S
  <2> HIDE DEF whole
  <2>1. \A done \in 0 .. n : done >= n - 0 => done = n
    OBVIOUS
  <2> QED
    BY <1>11, <2>1
<1>13. ASSUME NEW k \in 0 .. n, k < n, k \in S
       PROVE  k + 1 \in S
  <2>1. SUFFICES ASSUME NEW done \in 0 .. n, NEW out \in SUBSET Nat, done >= n - (k + 1)
                 PROVE  from[<<done, out>>] = whole(done, out)
    BY <1>13
  <2>2. CASE done = n
    <3> HIDE DEF whole
    <3> QED
      BY <1>11, <2>2
  <2>3. CASE done # n
    <3> DEFINE next == done + count(done)
               out2 == turned(done, out)
    <3>1. next \in 0 .. n /\ count(done) >= 1 /\ count(done) \in Nat /\ out2 \in SUBSET Nat
      <4> HIDE DEF count, turned
      <4> QED
        BY <1>2, <1>3, <2>3
    <3>2. from[<<done, out>>] = from[<<next, out2>>]
      <4>1. <<done, out>> \in D /\ <<done, out>>[1] = done /\ <<done, out>>[2] = out
        BY <1>6
      <4> HIDE DEF count, turned, D
      <4> QED
        BY <1>10, <2>3, <4>1
    <3>3. next >= n - k
      <4> HIDE DEF count
      <4> QED
        BY <2>1, <3>1
    <3>4. whole(next, out2) = whole(done, out)
      <4> HIDE DEF count, turned, whole
      <4> QED
        BY <1>5, <2>3
    <3> HIDE DEF next, out2, whole
    <3>5. from[<<next, out2>>] = whole(next, out2)
      BY <1>13, <3>1, <3>3
    <3> QED
      BY <3>2, <3>4, <3>5
  <2> QED
    BY <2>2, <2>3
<1>14. n \in S
  <2> HIDE DEF S
  <2>1. \A k \in 0 .. n : k \in S
    BY <1>12, <1>13, Counting
  <2> QED
    BY <2>1
<1>15. from[<<0, dst>>] = whole(0, dst)
  <2> HIDE DEF whole
  <2> QED
    BY <1>14
<1>16. s + 0 = s /\ d + 0 = d /\ n - 0 = n
  OBVIOUS
<1> QED
  BY <1>1, <1>15, <1>16, Zenon

LEMMA Copies ==
    ASSUME NEW src \in SUBSET Int, NEW s \in Nat, NEW n \in Nat, NEW dst \in SUBSET Nat, NEW d \in Nat
    PROVE  /\ copyBitArray(src, s, n, dst, d) \in SUBSET Nat
           /\ \A p \in Nat : p \in copyBitArray(src, s, n, dst, d)
                <=> IF d <= p /\ p < d + n THEN p - d + s \in src ELSE p \in dst
<1>1. copyBitArray(src, s, n, dst, d) = Pasted(src, s, n, dst, d)
  BY CopyIs
<1>2. /\ Pasted(src, s, n, dst, d) \in SUBSET Nat
      /\ \A p \in Nat : p \in Pasted(src, s, n, dst, d)
           <=> IF d <= p /\ p < d + n THEN p - d + s \in src ELSE p \in dst
  BY InPasted
<1> QED
  BY <1>1, <1>2, Zenon
-----------------------------------------------------------------------------
(* Numbers in memory *)

(* The weight of a bit of a byte array that holds a number, the low byte first. *)
Flip(p) == 8 * (p \div 8) + 7 - (p % 8)

LEMMA FlipIs ==
    \A p \in Int : /\ Flip(p) \in Int
                   /\ Flip(p) \div 8 = p \div 8
                   /\ Flip(p) % 8 = 7 - (p % 8)
                   /\ Flip(Flip(p)) = p
                   /\ p \div 8 \in Int /\ p % 8 \in 0 .. 7 /\ p = 8 * (p \div 8) + (p % 8)
<1>1. SUFFICES ASSUME NEW p \in Int
               PROVE  /\ Flip(p) \in Int
                      /\ Flip(p) \div 8 = p \div 8
                      /\ Flip(p) % 8 = 7 - (p % 8)
                      /\ Flip(Flip(p)) = p
  BY ByteOf
<1> DEFINE b == p \div 8
           f == Flip(p)
<1>2. b \in Int /\ p % 8 \in 0 .. 7 /\ p = 8 * b + (p % 8)
  BY ByteOf
<1>3. f = 8 * b + 7 - (p % 8) /\ f \in Int
  BY <1>2 DEF Flip
<1> HIDE DEF b, f
<1>4. 8 * b <= f /\ f < 8 * b + 8
  BY <1>2, <1>3
<1>5. f \div 8 = b /\ f % 8 = f - 8 * b
  BY <1>2, <1>3, <1>4, OneByte
<1>6. Flip(f) = 8 * b + 7 - (f % 8)
  BY <1>5 DEF Flip
<1>7. Flip(f) = p /\ f % 8 = 7 - (p % 8)
  BY <1>2, <1>3, <1>5, <1>6
<1> QED
  BY <1>3, <1>5, <1>7 DEF f, b

LEMMA FlipInBytes ==
    \A n \in Int, p \in Int : (0 <= p /\ p < 8 * n) <=> (0 <= Flip(p) /\ Flip(p) < 8 * n)
<1>1. SUFFICES ASSUME NEW n \in Int, NEW p \in Int
               PROVE  (0 <= p /\ p < 8 * n) <=> (0 <= Flip(p) /\ Flip(p) < 8 * n)
  OBVIOUS
<1> DEFINE b == p \div 8
<1>2. b \in Int /\ p % 8 \in 0 .. 7 /\ p = 8 * b + (p % 8)
  BY ByteOf
<1>3. Flip(p) = 8 * b + 7 - (p % 8)
  BY DEF Flip
<1> HIDE DEF b
<1>4. (0 <= p /\ p < 8 * n) <=> (0 <= b /\ b < n)
  BY <1>2
<1>5. (0 <= Flip(p) /\ Flip(p) < 8 * n) <=> (0 <= b /\ b < n)
  BY <1>2, <1>3
<1> QED
  BY <1>4, <1>5

LEMMA StdBytes ==
    ASSUME NEW length \in 1 .. 64
    PROVE  StdByteLength(length) \in {1, 2, 4, 8} /\ length <= 8 * StdByteLength(length)
<1> DEFINE Enough(n) == length <= 8 * n /\ \A m \in {1, 2, 4, 8} : m < n => length > 8 * m
<1>1. \E n \in {1, 2, 4, 8} : Enough(n)
  <2>1. CASE length <= 8
    <3>1. Enough(1)
      BY <2>1
    <3> QED
      BY <3>1
  <2>2. CASE length > 8 /\ length <= 16
    <3>1. Enough(2)
      BY <2>2
    <3> QED
      BY <3>1
  <2>3. CASE length > 16 /\ length <= 32
    <3>1. Enough(4)
      BY <2>3
    <3> QED
      BY <3>1
  <2>4. CASE length > 32
    <3>1. Enough(8)
      BY <2>4
    <3> QED
      BY <3>1
  <2> QED
    BY <2>1, <2>2, <2>3, <2>4
<1>2. StdByteLength(length) = CHOOSE n \in {1, 2, 4, 8} : Enough(n)
  BY Zenon DEF StdByteLength
<1>3. StdByteLength(length) \in {1, 2, 4, 8} /\ Enough(StdByteLength(length))
  <2> HIDE DEF Enough
  <2> QED
    BY <1>1, <1>2, Zenon
<1> QED
  BY <1>3

LEMMA InLittleEndian ==
    ASSUME NEW number \in SUBSET Int
    PROVE  /\ LittleEndian(number) \in SUBSET Int
           /\ \A p \in Int : p \in LittleEndian(number) <=> Flip(p) \in number
<1>1. ASSUME NEW x
      PROVE  x \in LittleEndian(number) <=> \E w \in number : x = Flip(w)
  BY Zenon DEF LittleEndian, Flip
<1>2. \A w \in number : Flip(w) \in Int /\ Flip(Flip(w)) = w
  BY FlipIs
<1>3. \A x \in LittleEndian(number) : x \in Int
  BY <1>1, <1>2
<1>4. ASSUME NEW p \in Int, p \in LittleEndian(number)
      PROVE  Flip(p) \in number
  <2>1. PICK w \in number : p = Flip(w)
    BY <1>1, <1>4
  <2>2. Flip(p) = w
    BY <1>2, <2>1, Zenon
  <2> QED
    BY <2>2
<1>5. ASSUME NEW p \in Int, Flip(p) \in number
      PROVE  p \in LittleEndian(number)
  <2>1. p = Flip(Flip(p))
    BY FlipIs
  <2> QED
    BY <1>1, <1>5, <2>1
<1> QED
  BY <1>3, <1>4, <1>5

(* The position of a bit when the order of the bytes is turned round. *)
Mirror(p, size) == 8 * (size - 1 - (p \div 8)) + (p % 8)

LEMMA MirrorIs ==
    ASSUME NEW size \in Nat, NEW p \in Int, 0 <= p, p < 8 * size
    PROVE  /\ Mirror(p, size) \in Int /\ 0 <= Mirror(p, size) /\ Mirror(p, size) < 8 * size
           /\ Mirror(Mirror(p, size), size) = p
<1> DEFINE b == p \div 8
           c == size - 1 - b
           m == Mirror(p, size)
<1>1. b \in Int /\ p % 8 \in 0 .. 7 /\ p = 8 * b + (p % 8)
  BY ByteOf
<1>2. m = 8 * c + (p % 8)
  BY DEF Mirror
<1> HIDE DEF b, m
<1>3. 0 <= b /\ b < size
  BY <1>1
<1>4. c \in Int /\ 0 <= c /\ c < size /\ size - 1 - c = b
  BY <1>1, <1>3
<1> HIDE DEF c
<1>5. m \in Int /\ 8 * c <= m /\ m < 8 * c + 8 /\ m < 8 * size /\ 0 <= m
  BY <1>1, <1>2, <1>4
<1>6. m \div 8 = c /\ m % 8 = m - 8 * c
  BY <1>4, <1>5, OneByte
<1>7. Mirror(m, size) = 8 * b + (m % 8)
  BY <1>4, <1>6, Zenon DEF Mirror
<1>8. Mirror(m, size) = p
  BY <1>1, <1>2, <1>4, <1>6, <1>7
<1> QED
  BY <1>5, <1>8 DEF m

LEMMA InSwapped ==
    ASSUME NEW array \in SUBSET Nat, NEW size \in Nat
    PROVE  /\ swapByteOrder(array, size) \in SUBSET Nat
           /\ \A p \in Nat : p \in swapByteOrder(array, size)
                               <=> p < 8 * size /\ Mirror(p, size) \in array
<1>1. ASSUME NEW x
      PROVE  x \in swapByteOrder(array, size)
                <=> \E q \in array : q < 8 * size /\ x = Mirror(q, size)
  BY DEF swapByteOrder, Mirror
<1>2. ASSUME NEW q \in Nat, q < 8 * size
      PROVE  /\ Mirror(q, size) \in Int /\ 0 <= Mirror(q, size) /\ Mirror(q, size) < 8 * size
             /\ Mirror(Mirror(q, size), size) = q
  BY <1>2, MirrorIs
<1>3. \A q \in array : q \in Nat
  OBVIOUS
<1>4. \A x \in swapByteOrder(array, size) : x \in Nat
  BY <1>1, <1>2, <1>3
<1>5. ASSUME NEW p \in Nat, p \in swapByteOrder(array, size)
      PROVE  p < 8 * size /\ Mirror(p, size) \in array
  <2>1. PICK q \in array : q < 8 * size /\ p = Mirror(q, size)
    BY <1>1, <1>5
  <2> QED
    BY <1>2, <1>3, <2>1
<1>6. ASSUME NEW p \in Nat, p < 8 * size, Mirror(p, size) \in array
      PROVE  p \in swapByteOrder(array, size)
  <2>1. Mirror(p, size) < 8 * size /\ p = Mirror(Mirror(p, size), size)
    BY <1>2, <1>6
  <2> QED
    BY <1>1, <1>6, <2>1
<1> QED
  BY <1>4, <1>5, <1>6

LEMMA SwappedTwice ==
    ASSUME NEW array \in SUBSET Nat, NEW size \in Nat
    PROVE  /\ swapByteOrder(swapByteOrder(array, size), size) \in SUBSET Nat
           /\ \A p \in Nat : p \in swapByteOrder(swapByteOrder(array, size), size)
                               <=> p < 8 * size /\ p \in array
<1> DEFINE s == swapByteOrder(array, size)
<1>1. s \in SUBSET Nat /\ \A p \in Nat : p \in s <=> p < 8 * size /\ Mirror(p, size) \in array
  BY InSwapped
<1> HIDE DEF s
<1>2. /\ swapByteOrder(s, size) \in SUBSET Nat
      /\ \A p \in Nat : p \in swapByteOrder(s, size) <=> p < 8 * size /\ Mirror(p, size) \in s
  BY <1>1, InSwapped
<1>3. ASSUME NEW p \in Nat, p < 8 * size
      PROVE  /\ Mirror(p, size) \in Nat /\ Mirror(p, size) < 8 * size
             /\ Mirror(Mirror(p, size), size) = p
  BY <1>3, MirrorIs
<1>4. \A p \in Nat : p \in swapByteOrder(s, size) <=> p < 8 * size /\ p \in array
  BY <1>1, <1>2, <1>3
<1> QED
  BY <1>2, <1>4 DEF s

LEMMA InShifted ==
    ASSUME NEW array \in SUBSET Nat, NEW length \in Nat, NEW by \in Int
    PROVE  /\ ShiftLastByte(array, length, by) \in SUBSET Int
           /\ length % 8 = 0 => ShiftLastByte(array, length, by) = array
           /\ length % 8 # 0 => \A p \in Int : p \in ShiftLastByte(array, length, by) <=>
                 IF p \div 8 = length \div 8
                 THEN p - by \in array /\ (p - by) \div 8 = length \div 8
                 ELSE p \in array
<1>1. CASE length % 8 = 0
  BY <1>1 DEF ShiftLastByte
<1>2. CASE length % 8 # 0
  <2> DEFINE last == length \div 8
             kept == {p \in array : p \div 8 # last}
             moved == {p + by : p \in {q \in array : q \div 8 = last /\ (q + by) \div 8 = last}}
  <2>1. ShiftLastByte(array, length, by) = kept \cup moved
    BY <1>2 DEF ShiftLastByte
  <2>2. ASSUME NEW x
        PROVE  x \in moved <=> \E q \in array : q \div 8 = last /\ (q + by) \div 8 = last /\ x = q + by
    OBVIOUS
  <2> HIDE DEF last
  <2>3. \A q \in array : q + by \in Int /\ (q + by) - by = q
    OBVIOUS
  <2>4. \A p \in Int : (p - by) + by = p
    OBVIOUS
  <2> HIDE DEF moved
  <2>5. \A p \in Int : p \in moved <=> p - by \in array /\ (p - by) \div 8 = last /\ p \div 8 = last
    BY <2>2, <2>3, <2>4
  <2>6. moved \in SUBSET Int
    BY <2>2, <2>3
  <2>7. \A p \in Int : p \in kept <=> p \in array /\ p \div 8 # last
    OBVIOUS
  <2>8. \A p \in kept : p \in Int
    OBVIOUS
  <2> HIDE DEF kept
  <2>9. \A p \in Int : p \in ShiftLastByte(array, length, by) <=>
          IF p \div 8 = last THEN p - by \in array /\ (p - by) \div 8 = last ELSE p \in array
    BY <2>1, <2>5, <2>7
  <2>10. ShiftLastByte(array, length, by) \in SUBSET Int
    BY <2>1, <2>6, <2>8
  <2> QED
    BY <1>2, <2>9, <2>10 DEF last
<1> QED
  BY <1>1, <1>2

-----------------------------------------------------------------------------
(* Encoding a scalar *)

(* The weight of the bit of the scalar that travels as bit `j' of its field. *)
Weight(j, length) ==
    IF j \div 8 < length \div 8 THEN Flip(j)
    ELSE 8 * (j \div 8) + (length % 8) - 1 - (j % 8)

(* A boolean of more than one bit in memory is sent as one. *)
FieldValue(length, number) == IF length = 1 /\ number # {} THEN {0} ELSE number

LEMMA WeightIs ==
    ASSUME NEW length \in Nat, NEW j \in Nat, j < length
    PROVE  /\ Weight(j, length) \in Nat /\ Weight(j, length) < length
           /\ Weight(Weight(j, length), length) = j
<1> DEFINE b == j \div 8
           last == length \div 8
           r == length % 8
           w == Weight(j, length)
<1>1. /\ b \in Int /\ j % 8 \in 0 .. 7 /\ j = 8 * b + (j % 8) /\ b >= 0
      /\ last \in Int /\ r \in 0 .. 7 /\ length = 8 * last + r
  BY ByteOf
<1>2. w = IF b < last THEN Flip(j) ELSE 8 * b + r - 1 - (j % 8)
  BY DEF Weight
<1>3. Flip(j) = 8 * b + 7 - (j % 8)
  BY DEF Flip
<1> HIDE DEF w, b, last, r
<1>4. w \in Int /\ w < length /\ 8 * b <= w /\ w < 8 * b + 8
  BY <1>1, <1>2, <1>3
<1>5. w \div 8 = b /\ w % 8 = w - 8 * b
  BY <1>1, <1>4, OneByte
<1>6. Weight(w, length) = IF w \div 8 < last THEN Flip(w) ELSE 8 * (w \div 8) + r - 1 - (w % 8)
  BY DEF Weight, last, r
<1>7. Flip(w) = 8 * (w \div 8) + 7 - (w % 8)
  BY DEF Flip
<1>8. Weight(w, length) = j
  BY <1>1, <1>2, <1>3, <1>4, <1>5, <1>6, <1>7
<1> QED
  BY <1>1, <1>4, <1>8 DEF w

LEMMA StorageIs ==
    ASSUME NEW value \in SUBSET Nat, NEW size \in Nat, NEW bigEndian \in BOOLEAN,
           NEW storage,
           storage = IF bigEndian THEN swapByteOrder(InMemory(value, size, bigEndian), size)
                     ELSE InMemory(value, size, bigEndian)
    PROVE  /\ storage \in SUBSET Nat
           /\ \A p \in Nat : p \in storage <=> p < 8 * size /\ Flip(p) \in value
<1> DEFINE cut == {w \in value : w < 8 * size}
           le == LittleEndian(cut)
<1>0. \A w \in value : w \in Nat /\ 0 <= w
  OBVIOUS
<1>1. cut \in SUBSET Int
  <2>1. \A w \in cut : w \in Int
    BY <1>0
  <2> HIDE DEF cut
  <2> QED
    BY <2>1
<1>2. \A w \in Int : w \in cut <=> w \in value /\ w < 8 * size
  OBVIOUS
<1>3. le \in SUBSET Int /\ \A p \in Int : p \in le <=> Flip(p) \in cut
  <2> HIDE DEF cut
  <2> QED
    BY <1>1, InLittleEndian
<1>4. storage = IF bigEndian THEN swapByteOrder(swapByteOrder(le, size), size) ELSE le
  BY DEF InMemory
<1> HIDE DEF le, cut
<1>5. ASSUME NEW p \in Int
      PROVE  p \in le <=> 0 <= p /\ p < 8 * size /\ Flip(p) \in value
  <2>1. Flip(p) \in Int
    BY FlipIs
  <2>2. (0 <= p /\ p < 8 * size) <=> (0 <= Flip(p) /\ Flip(p) < 8 * size)
    BY FlipInBytes
  <2>3. Flip(p) \in value => 0 <= Flip(p)
    BY <1>0, Zenon
  <2> QED
    BY <1>2, <1>3, <2>1, <2>2, <2>3
<1>6. le \in SUBSET Nat
  BY <1>3, <1>5
<1>7. CASE bigEndian
  <2>1. storage = swapByteOrder(swapByteOrder(le, size), size)
    BY <1>4, <1>7
  <2>2. /\ swapByteOrder(swapByteOrder(le, size), size) \in SUBSET Nat
        /\ \A p \in Nat : p \in swapByteOrder(swapByteOrder(le, size), size)
                               <=> p < 8 * size /\ p \in le
    BY <1>6, SwappedTwice
  <2> QED
    BY <1>5, <2>1, <2>2
<1>8. CASE ~bigEndian
  <2>1. storage = le
    BY <1>4, <1>8, Zenon
  <2>2. \A p \in Nat : p \in Int /\ 0 <= p
    OBVIOUS
  <2>3. \A p \in Nat : p \in le <=> p < 8 * size /\ Flip(p) \in value
    BY <1>5, <2>2
  <2> QED
    BY <1>6, <2>1, <2>3, Zenon
<1> QED
  BY <1>7, <1>8

(* The last byte is moved up, so that the scalar's bits are the first of the array. *)
LEMMA AlignedIs ==
    ASSUME NEW value \in SUBSET Nat, NEW size \in Nat, NEW length \in Nat, length <= 8 * size,
           NEW storage \in SUBSET Nat,
           \A p \in Nat : p \in storage <=> p < 8 * size /\ Flip(p) \in value
    PROVE  LET aligned == ShiftLastByte(storage, length, -((8 - (length % 8)) % 8))
           IN  /\ aligned \in SUBSET Int
               /\ \A j \in Nat : j < length => (j \in aligned <=> Weight(j, length) \in value)
<1> DEFINE last == length \div 8
           r == length % 8
           by == -((8 - r) % 8)
           aligned == ShiftLastByte(storage, length, by)
<1>1. last \in Int /\ r \in 0 .. 7 /\ length = 8 * last + r /\ last >= 0
  BY ByteOf
<1>2. r # 0 => by = r - 8
  <2> HIDE DEF r
  <2>1. r # 0 => (8 - r) % 8 = 8 - r
    BY <1>1
  <2> QED
    BY <1>1, <2>1
<1>3. by \in Int
  <2> HIDE DEF r
  <2>1. 8 - r \in Int
    BY <1>1
  <2>2. (8 - r) % 8 \in Int
    BY <2>1, ByteOf
  <2> QED
    BY <2>2
<1> HIDE DEF by
<1>4. /\ aligned \in SUBSET Int
      /\ r = 0 => aligned = storage
      /\ r # 0 => \A p \in Int : p \in aligned <=>
                     IF p \div 8 = last THEN p - by \in storage /\ (p - by) \div 8 = last
                     ELSE p \in storage
  BY <1>3, InShifted
<1> HIDE DEF aligned, last, r
<1>5. ASSUME NEW j \in Nat, j < length
      PROVE  j \in aligned <=> Weight(j, length) \in value
  <2> DEFINE b == j \div 8
  <2>1. b \in Int /\ j % 8 \in 0 .. 7 /\ j = 8 * b + (j % 8) /\ b >= 0
    BY ByteOf
  <2>2. Weight(j, length) = IF b < last THEN Flip(j) ELSE 8 * b + r - 1 - (j % 8)
    BY DEF Weight, last, r
  <2>3. j < 8 * size
    BY <1>5
  <2>4. j \in storage <=> Flip(j) \in value
    BY <2>3
  <2>5. r = 0 => b < last
    <3> HIDE DEF b
    <3> QED
      BY <1>1, <1>5, <2>1
  <2>6. CASE b < last
    <3>1. b # last
      BY <1>1, <2>1, <2>6
    <3>2. j \in aligned <=> j \in storage
      BY <1>4, <3>1
    <3> QED
      BY <2>2, <2>4, <2>6, <3>2
  <2>7. CASE ~(b < last)
    <3> DEFINE k == j - by
    <3>1. r # 0 /\ by = r - 8
      BY <1>2, <2>5, <2>7
    <3> HIDE DEF b
    <3>2. b = last /\ j % 8 < r
      BY <1>1, <1>5, <2>1, <2>7
    <3>3. k \in Nat /\ 8 * last <= k /\ k < 8 * last + 8 /\ k = 8 * last + (j % 8) + 8 - r
      BY <1>1, <2>1, <3>1, <3>2
    <3> HIDE DEF k
    <3>4. k \div 8 = last /\ k % 8 = k - 8 * last
      BY <1>1, <3>3, OneByte
    <3>5. k < 8 * size
      BY <1>1, <3>1, <3>3
    <3>6. k \in storage <=> Flip(k) \in value
      BY <3>3, <3>5
    <3>7. j \in aligned <=> k \in storage
      BY <1>4, <3>1, <3>2, <3>4 DEF k, b
    <3>8. Flip(k) = Weight(j, length)
      <4>1. Flip(k) = 8 * last + 7 - (k % 8)
        BY <3>4 DEF Flip
      <4> QED
        BY <1>1, <2>1, <2>2, <2>7, <3>2, <3>3, <3>4, <4>1
    <3> QED
      BY <3>6, <3>7, <3>8
  <2> QED
    BY <2>6, <2>7
<1> QED
  BY <1>4, <1>5 DEF aligned, by, r

LEMMA EncodedIs ==
    ASSUME NEW destination \in SUBSET Nat, NEW offset \in Nat, NEW length \in 1 .. 64,
           NEW number \in SUBSET Nat, NEW bigEndian \in BOOLEAN
    PROVE  /\ canardEncodeScalar(destination, offset, length, number, bigEndian) \in SUBSET Nat
           /\ \A p \in Nat :
                 p \in canardEncodeScalar(destination, offset, length, number, bigEndian)
                   <=> IF offset <= p /\ p < offset + length
                       THEN Weight(p - offset, length) \in FieldValue(length, number)
                       ELSE p \in destination
<1> DEFINE size == StdByteLength(length)
           value == FieldValue(length, number)
           memory == InMemory(value, size, bigEndian)
           storage == IF bigEndian THEN swapByteOrder(memory, size) ELSE memory
           aligned == ShiftLastByte(storage, length, -((8 - (length % 8)) % 8))
<1>1. canardEncodeScalar(destination, offset, length, number, bigEndian)
        = copyBitArray(aligned, 0, length, destination, offset)
  BY Zenon DEF canardEncodeScalar, FieldValue
<1>2. size \in Nat /\ length \in Nat /\ length <= 8 * size
  <2>1. StdByteLength(length) \in {1, 2, 4, 8} /\ length <= 8 * StdByteLength(length)
    BY StdBytes
  <2> QED
    BY <2>1
<1>3. value \in SUBSET Nat
  BY DEF FieldValue
<1> HIDE DEF size, value
<1>4. storage \in SUBSET Nat /\ \A p \in Nat : p \in storage <=> p < 8 * size /\ Flip(p) \in value
  BY <1>2, <1>3, StorageIs
<1> HIDE DEF storage
<1>5. /\ aligned \in SUBSET Int
      /\ \A j \in Nat : j < length => (j \in aligned <=> Weight(j, length) \in value)
  BY <1>2, <1>3, <1>4, AlignedIs
<1> HIDE DEF aligned
<1>6. /\ copyBitArray(aligned, 0, length, destination, offset) \in SUBSET Nat
      /\ \A p \in Nat : p \in copyBitArray(aligned, 0, length, destination, offset)
           <=> IF offset <= p /\ p < offset + length THEN p - offset + 0 \in aligned
               ELSE p \in destination
  BY <1>2, <1>5, Copies
<1>7. ASSUME NEW p \in Nat, offset <= p, p < offset + length
      PROVE  p - offset + 0 \in aligned <=> Weight(p - offset, length) \in value
  <2>1. p - offset \in Nat /\ p - offset < length /\ p - offset + 0 = p - offset
    BY <1>2, <1>7
  <2> QED
    BY <1>5, <2>1
<1> QED
  BY <1>1, <1>6, <1>7 DEF value

-----------------------------------------------------------------------------
(* Decoding a scalar *)

(* `read' holds the bits of a field as canardEncodeScalar makes them. *)
IsField(read, length, value) ==
    \A j \in Nat : j \in read <=> j < length /\ Weight(j, length) \in value

LEMMA RestoredIs ==
    ASSUME NEW value \in SUBSET Nat, NEW length \in Nat, NEW read \in SUBSET Nat,
           IsField(read, length, value)
    PROVE  LET storage == ShiftLastByte(read, length, (8 - (length % 8)) % 8)
           IN  /\ storage \in SUBSET Nat
               /\ \A w \in Nat : Flip(w) \in storage <=> w < length /\ w \in value
<1> DEFINE last == length \div 8
           r == length % 8
           by == (8 - r) % 8
           storage == ShiftLastByte(read, length, by)
<1>1. last \in Int /\ r \in 0 .. 7 /\ length = 8 * last + r /\ last >= 0
  BY ByteOf
<1>2. r # 0 => by = 8 - r
  <2> HIDE DEF r
  <2> QED
    BY <1>1
<1>3. by \in Int
  <2> HIDE DEF r
  <2>1. 8 - r \in Int
    BY <1>1
  <2> QED
    BY <2>1, ByteOf
<1> HIDE DEF by
<1>4. /\ storage \in SUBSET Int
      /\ r = 0 => storage = read
      /\ r # 0 => \A p \in Int : p \in storage <=>
                     IF p \div 8 = last THEN p - by \in read /\ (p - by) \div 8 = last
                     ELSE p \in read
  BY <1>3, InShifted
<1> HIDE DEF storage, last, r
<1>5. storage \in SUBSET Nat
  <2>1. CASE r = 0
    BY <1>4, <2>1
  <2>2. ASSUME r # 0, NEW p \in storage
        PROVE  p \in Nat
    <3>1. p \in Int
      BY <1>4
    <3>2. p \div 8 \in Int /\ p % 8 \in 0 .. 7 /\ p = 8 * (p \div 8) + (p % 8)
      BY <3>1, ByteOf
    <3>3. CASE p \div 8 = last
      BY <1>1, <3>1, <3>2, <3>3
    <3>4. CASE p \div 8 # last
      BY <1>4, <2>2, <3>1, <3>4
    <3> QED
      BY <3>3, <3>4
  <2> QED
    BY <2>1, <2>2
<1>6. ASSUME NEW w \in Nat
      PROVE  Flip(w) \in storage <=> w < length /\ w \in value
  <2> DEFINE b == w \div 8
             f == Flip(w)
  <2>1. b \in Int /\ w % 8 \in 0 .. 7 /\ w = 8 * b + (w % 8) /\ b >= 0
    BY ByteOf
  <2>2. f \in Int /\ f = 8 * b + 7 - (w % 8) /\ Flip(f) = w
    <3>0. w \in Int
      OBVIOUS
    <3>1. f \in Int /\ Flip(f) = w
      BY <3>0, FlipIs
    <3> QED
      BY <3>1 DEF Flip
  <2> HIDE DEF f, b
  <2>3. f \div 8 = b /\ f \in Nat
    <3>1. 8 * b <= f /\ f < 8 * b + 8
      BY <2>1, <2>2
    <3> QED
      BY <2>1, <2>2, <3>1, OneByte
  <2>4. CASE r = 0 \/ b # last
    <3>1. f \in storage <=> f \in read
      BY <1>4, <2>2, <2>3, <2>4
    <3>2. f \in read <=> f < length /\ Weight(f, length) \in value
      BY <2>3 DEF IsField
    <3>3. f < length <=> b < last
      BY <1>1, <2>1, <2>2, <2>4
    <3>4. w < length <=> b < last
      BY <1>1, <2>1, <2>4
    <3>5. b < last => Weight(f, length) = w
      BY <2>2, <2>3 DEF Weight, last
    <3> QED
      BY <3>1, <3>2, <3>3, <3>4, <3>5 DEF f
  <2>5. CASE r # 0 /\ b = last
    <3> DEFINE j == f - by
    <3>1. j = 8 * last + r - 1 - (w % 8) /\ j \in Int
      BY <1>1, <1>2, <2>1, <2>2, <2>5
    <3>2. f \in storage <=> j \in read /\ j \div 8 = last
      BY <1>4, <2>2, <2>3, <2>5
    <3> HIDE DEF j
    <3>3. CASE w < length
      <4>1. w % 8 < r
        BY <1>1, <2>1, <2>5, <3>3
      <4>2. 8 * last <= j /\ j < 8 * last + 8 /\ j \in Nat /\ j < length
        BY <1>1, <2>1, <3>1, <4>1
      <4>3. j \div 8 = last /\ j % 8 = j - 8 * last
        BY <1>1, <4>2, OneByte
      <4>4. Weight(j, length) = 8 * last + r - 1 - (j % 8)
        BY <1>1, <4>3 DEF Weight, last, r
      <4>5. Weight(j, length) = w
        BY <1>1, <2>1, <2>5, <3>1, <4>2, <4>3, <4>4
      <4>6. j \in read <=> w \in value
        BY <4>2, <4>5 DEF IsField
      <4> QED
        BY <3>2, <3>3, <4>3, <4>6 DEF f
    <3>4. CASE ~(w < length)
      <4>1. ~(w % 8 < r)
        BY <1>1, <2>1, <2>5, <3>4
      <4>2. j < 8 * last
        BY <1>1, <2>1, <3>1, <4>1
      <4>3. j % 8 \in 0 .. 7 /\ j = 8 * (j \div 8) + (j % 8) /\ j \div 8 \in Int
        BY <3>1, ByteOf
      <4>4. j \div 8 # last
        BY <1>1, <4>2, <4>3
      <4> QED
        BY <3>2, <3>4, <4>4 DEF f
    <3> QED
      BY <3>3, <3>4
  <2> QED
    BY <2>4, <2>5
<1> QED
  BY <1>5, <1>6 DEF storage, by, r

LEMMA FromMemoryIs ==
    ASSUME NEW value \in SUBSET Nat, NEW length \in Nat, NEW size \in Nat, length <= 8 * size,
           NEW storage \in SUBSET Nat, NEW bigEndian \in BOOLEAN,
           \A w \in Nat : Flip(w) \in storage <=> w < length /\ w \in value,
           NEW memory, memory = IF bigEndian THEN swapByteOrder(storage, size) ELSE storage
    PROVE  FromMemory(memory, size, bigEndian) = {w \in value : w < length}
<1> DEFINE ordered == IF bigEndian THEN swapByteOrder(memory, size) ELSE memory
           kept == {q \in ordered : q < 8 * size}
           result == FromMemory(memory, size, bigEndian)
<1>1. result = LittleEndian(kept)
  BY DEF FromMemory, LittleEndian
<1>2. ordered \in SUBSET Nat /\ \A p \in Nat : p \in kept <=> p < 8 * size /\ p \in storage
  <2>1. CASE bigEndian
    <3>1. ordered = swapByteOrder(swapByteOrder(storage, size), size)
      BY <2>1, Zenon
    <3>2. /\ swapByteOrder(swapByteOrder(storage, size), size) \in SUBSET Nat
          /\ \A p \in Nat : p \in swapByteOrder(swapByteOrder(storage, size), size)
                               <=> p < 8 * size /\ p \in storage
      BY SwappedTwice
    <3> HIDE DEF ordered
    <3> QED
      BY <3>1, <3>2
  <2>2. CASE ~bigEndian
    <3>1. ordered = storage
      BY <2>2, Zenon
    <3> HIDE DEF ordered
    <3> QED
      BY <3>1
  <2> QED
    BY <2>1, <2>2
<1> HIDE DEF ordered
<1>3. kept \in SUBSET Nat
  <2>1. \A q \in kept : q \in Nat
    BY <1>2
  <2> HIDE DEF kept
  <2> QED
    BY <2>1
<1> HIDE DEF kept, result
<1>4. kept \in SUBSET Int
  BY <1>3
<1>5. result \in SUBSET Int /\ \A w \in Int : w \in result <=> Flip(w) \in kept
  BY <1>1, <1>4, InLittleEndian
<1>6. ASSUME NEW w \in Int
      PROVE  w \in result <=> w \in Nat /\ w < length /\ w \in value
  <2>1. Flip(w) \in Int
    BY FlipIs
  <2>2. (0 <= w /\ w < 8 * size) <=> (0 <= Flip(w) /\ Flip(w) < 8 * size)
    BY FlipInBytes
  <2>3. \A x \in kept : x \in Nat /\ 0 <= x
    BY <1>3
  <2>4. Flip(w) \in kept => 0 <= Flip(w)
    BY <2>3, Zenon
  <2>5. Flip(w) \in Int /\ 0 <= Flip(w) => Flip(w) \in Nat
    OBVIOUS
  <2>6. Flip(w) \in kept <=> 0 <= Flip(w) /\ Flip(w) < 8 * size /\ Flip(w) \in storage
    BY <1>2, <2>1, <2>4, <2>5
  <2>7. w \in Nat => (Flip(w) \in storage <=> w < length /\ w \in value)
    OBVIOUS
  <2>8. w < length => w < 8 * size
    OBVIOUS
  <2>9. w \in Nat <=> 0 <= w
    OBVIOUS
  <2> QED
    BY <1>5, <2>2, <2>6, <2>7, <2>8, <2>9
<1>7. result = {w \in value : w < length}
  <2>1. \A w \in value : w \in Int /\ w \in Nat
    OBVIOUS
  <2> QED
    BY <1>5, <1>6, <2>1
<1> QED
  BY <1>7 DEF result

LEMMA MeantIs ==
    ASSUME NEW f \in Fields
    PROVE  /\ f.length \in 1 .. 64 /\ f.number \in SUBSET Nat /\ f.signed \in BOOLEAN
           /\ SignExtended({w \in FieldValue(f.length, f.number) : w < f.length}, f.length, f.signed)
                = Meant(f)
<1>1. /\ f.length \in 1 .. 64 /\ f.number \in SUBSET (0 .. 63) /\ f.signed \in BOOLEAN
      /\ f.signed => f.length > 1
  BY DEF Fields
<1> DEFINE size == StdByteLength(f.length)
           cut == IF f.length = 1 THEN (IF f.number = {} THEN {} ELSE {0})
                  ELSE f.number \cap (0 .. f.length - 1)
           kept == {w \in FieldValue(f.length, f.number) : w < f.length}
           above == {w \in 0 .. 63 : f.length <= w /\ w < 8 * size}
<1>2. size \in {1, 2, 4, 8}
  BY <1>1, StdBytes
<1>3. Meant(f) = IF f.signed /\ f.length - 1 \in cut THEN cut \cup above ELSE cut
  BY Zenon DEF Meant
<1>4. kept = cut
  BY <1>1 DEF FieldValue
<1>5. above = f.length .. 8 * size - 1
  <2> HIDE DEF size
  <2> QED
    BY <1>1, <1>2
<1>6. SignExtended(kept, f.length, f.signed)
        = IF f.signed /\ f.length - 1 \in kept THEN kept \cup (f.length .. 8 * size - 1) ELSE kept
  BY Zenon DEF SignExtended
<1> HIDE DEF kept, cut, above, size
<1>7. SignExtended(kept, f.length, f.signed) = Meant(f)
  BY <1>3, <1>4, <1>5, <1>6, Zenon
<1>8. f.number \in SUBSET Nat
  BY <1>1
<1> QED
  BY <1>1, <1>7, <1>8 DEF kept

LEMMA DecodedIs ==
    ASSUME NEW f \in Fields, NEW bigEndian \in BOOLEAN,
           NEW transfer, NEW offset, NEW head, NEW block,
           descatterTransferPayload(transfer, offset, f.length, head, block) \in SUBSET Nat,
           IsField(descatterTransferPayload(transfer, offset, f.length, head, block),
                   f.length, FieldValue(f.length, f.number))
    PROVE  canardDecodeScalar(transfer, offset, f.length, f.signed, bigEndian, head, block)
             = Meant(f)
<1> DEFINE size == StdByteLength(f.length)
           value == FieldValue(f.length, f.number)
           read == descatterTransferPayload(transfer, offset, f.length, head, block)
           storage == ShiftLastByte(read, f.length, (8 - (f.length % 8)) % 8)
           memory == IF bigEndian THEN swapByteOrder(storage, size) ELSE storage
<1>1. canardDecodeScalar(transfer, offset, f.length, f.signed, bigEndian, head, block)
        = SignExtended(FromMemory(memory, size, bigEndian), f.length, f.signed)
  BY Zenon DEF canardDecodeScalar
<1>2. /\ f.length \in 1 .. 64 /\ f.number \in SUBSET Nat
      /\ SignExtended({w \in FieldValue(f.length, f.number) : w < f.length}, f.length, f.signed)
           = Meant(f)
  BY MeantIs
<1>3. size \in Nat /\ f.length \in Nat /\ f.length <= 8 * size
  <2>1. StdByteLength(f.length) \in {1, 2, 4, 8} /\ f.length <= 8 * StdByteLength(f.length)
    BY <1>2, StdBytes
  <2> QED
    BY <1>2, <2>1
<1>4. value \in SUBSET Nat
  BY <1>2 DEF FieldValue
<1> HIDE DEF size, read, value
<1>5. /\ storage \in SUBSET Nat
      /\ \A w \in Nat : Flip(w) \in storage <=> w < f.length /\ w \in value
  <2>1. read \in SUBSET Nat /\ IsField(read, f.length, value)
    BY DEF read, value
  <2> QED
    BY <1>3, <1>4, <2>1, RestoredIs
<1> HIDE DEF storage, memory
<1>6a. memory = IF bigEndian THEN swapByteOrder(storage, size) ELSE storage
  BY Zenon DEF memory
<1>6. FromMemory(memory, size, bigEndian) = {w \in value : w < f.length}
  BY <1>3, <1>4, <1>5, <1>6a, FromMemoryIs
<1> QED
  BY <1>1, <1>2, <1>6, Zenon DEF value, memory, storage, size

-----------------------------------------------------------------------------
(* Where a field begins *)

LEMMA TotalIs ==
    ASSUME NEW L \in Nat, NEW numbers \in [1 .. L -> Nat]
    PROVE  \E g \in [0 .. L -> Nat] :
              /\ g[0] = 0
              /\ \A k \in 1 .. L : g[k] = g[k - 1] + numbers[k]
              /\ \A n \in 0 .. L : Total(numbers, n) = g[n]
<1> DEFINE next == [turn \in (1 .. L) \X Nat |-> turn[2] + numbers[turn[1]]]
<1>1. Steps(next, L, Nat)
  <2>1. \A turn \in (1 .. L) \X Nat : turn[2] + numbers[turn[1]] \in Nat
    OBVIOUS
  <2> QED
    BY <2>1 DEF Steps
<1>2. \A k \in 1 .. L, v \in Nat : next[<<k, v>>] = v + numbers[k]
  OBVIOUS
<1> HIDE DEF next
<1>3. PICK g : Follows(g, next, L, Nat, 0)
  BY <1>1, Counts
<1>4. g \in [0 .. L -> Nat] /\ g[0] = 0 /\ \A k \in 1 .. L : g[k] = next[<<k, g[k - 1]>>]
  BY <1>3 DEF Follows
<1>5. ASSUME NEW k \in 1 .. L
      PROVE  g[k] = g[k - 1] + numbers[k]
  <2>1. k - 1 \in 0 .. L
    OBVIOUS
  <2>2. g[k - 1] \in Nat
    BY <1>4, <2>1
  <2> QED
    BY <1>2, <1>4, <2>2
<1>6. ASSUME NEW n \in 0 .. L
      PROVE  Total(numbers, n) = g[n]
  <2> DEFINE Is(f) == f = [k \in 0 .. n |-> IF k = 0 THEN 0 ELSE f[k - 1] + numbers[k]]
             upTo == CHOOSE f : Is(f)
             h == [k \in 0 .. n |-> g[k]]
  <2>1. Total(numbers, n) = upTo[n]
    BY Zenon DEF Total
  <2>2. ASSUME NEW k \in 0 .. n
        PROVE  h[k] = IF k = 0 THEN 0 ELSE h[k - 1] + numbers[k]
    <3>1. CASE k = 0
      BY <1>4, <3>1
    <3>2. CASE k # 0
      <4>1. k - 1 \in 0 .. n /\ k \in 1 .. L
        BY <3>2
      <4>2. h[k] = g[k] /\ h[k - 1] = g[k - 1]
        BY <4>1
      <4> QED
        BY <1>5, <3>2, <4>1, <4>2
    <3> QED
      BY <3>1, <3>2
  <2>3. Is(h)
    <3>1. h = [k \in 0 .. n |-> h[k]]
      OBVIOUS
    <3> HIDE DEF h
    <3>2. [k \in 0 .. n |-> h[k]] = [k \in 0 .. n |-> IF k = 0 THEN 0 ELSE h[k - 1] + numbers[k]]
      BY <2>2, Zenon
    <3> QED
      BY <3>1, <3>2, Zenon
  <2>4. Is(upTo)
    <3> HIDE DEF Is, h
    <3> QED
      BY <2>3, Zenon
  <2>5. \A k \in 0 .. n : upTo[k] = IF k = 0 THEN 0 ELSE upTo[k - 1] + numbers[k]
    <3> HIDE DEF upTo
    <3> QED
      BY <2>4, Zenon
  <2> HIDE DEF upTo
  <2> DEFINE S == {k \in 0 .. n : upTo[k] = g[k]}
  <2>6. 0 \in S
    BY <1>4, <2>5
  <2>7. ASSUME NEW k \in 0 .. n, k < n, k \in S
        PROVE  k + 1 \in S
    <3>1. k + 1 \in 0 .. n /\ k + 1 # 0 /\ (k + 1) - 1 = k /\ k + 1 \in 1 .. L
      BY <2>7
    <3>2. upTo[k + 1] = upTo[k] + numbers[k + 1]
      BY <2>5, <3>1
    <3>3. g[k + 1] = g[k] + numbers[k + 1]
      BY <1>5, <3>1
    <3> QED
      BY <2>7, <3>1, <3>2, <3>3
  <2>8. \A k \in 0 .. n : k \in S
    <3>1. n \in Nat
      OBVIOUS
    <3> HIDE DEF S
    <3> QED
      BY <2>6, <2>7, <3>1, Counting
  <2>9. upTo[n] = g[n]
    <3>1. n \in 0 .. n
      OBVIOUS
    <3> QED
      BY <2>8, <3>1
  <2> QED
    BY <2>1, <2>9
<1> QED
  BY <1>4, <1>5, <1>6

LEMMA TotalSteps ==
    ASSUME NEW L \in Nat, NEW numbers \in [1 .. L -> Nat]
    PROVE  /\ Total(numbers, 0) = 0
           /\ \A n \in 0 .. L : Total(numbers, n) \in Nat
           /\ \A k \in 1 .. L : Total(numbers, k) = Total(numbers, k - 1) + numbers[k]
<1>1. PICK g \in [0 .. L -> Nat] :
         /\ g[0] = 0
         /\ \A k \in 1 .. L : g[k] = g[k - 1] + numbers[k]
         /\ \A n \in 0 .. L : Total(numbers, n) = g[n]
  BY TotalIs
<1>2. \A k \in 1 .. L : k \in 0 .. L /\ k - 1 \in 0 .. L
  OBVIOUS
<1>3. 0 \in 0 .. L
  OBVIOUS
<1> QED
  BY <1>1, <1>2, <1>3

LEMMA TotalGrows ==
    ASSUME NEW L \in Nat, NEW numbers \in [1 .. L -> Nat], NEW k \in 0 .. L
    PROVE  \A n \in 0 .. L : k <= n => Total(numbers, k) <= Total(numbers, n)
<1> DEFINE S == {n \in 0 .. L : k <= n => Total(numbers, k) <= Total(numbers, n)}
<1>1. /\ \A n \in 0 .. L : Total(numbers, n) \in Nat
      /\ \A n \in 1 .. L : Total(numbers, n) = Total(numbers, n - 1) + numbers[n]
  BY TotalSteps
<1>2. 0 \in S
  <2>1. k <= 0 => k = 0
    OBVIOUS
  <2>2. 0 \in 0 .. L /\ Total(numbers, k) \in Nat
    BY <1>1
  <2> QED
    BY <2>1, <2>2
<1>3. ASSUME NEW n \in 0 .. L, n < L, n \in S
      PROVE  n + 1 \in S
  <2>1. n + 1 \in 0 .. L /\ n + 1 \in 1 .. L /\ (n + 1) - 1 = n
    BY <1>3
  <2>2. Total(numbers, n + 1) = Total(numbers, n) + numbers[n + 1] /\ numbers[n + 1] \in Nat
    BY <1>1, <2>1
  <2>3. Total(numbers, n) \in Nat /\ Total(numbers, k) \in Nat /\ Total(numbers, n + 1) \in Nat
    BY <1>1, <2>1
  <2>4. CASE k <= n
    BY <1>3, <2>1, <2>2, <2>3, <2>4
  <2>5. CASE ~(k <= n)
    <3>1. k <= n + 1 => k = n + 1
      BY <2>5
    <3> QED
      BY <2>1, <2>3, <3>1
  <2> QED
    BY <2>4, <2>5
<1>4. \A n \in 0 .. L : n \in S
  <2> HIDE DEF S
  <2> QED
    BY <1>2, <1>3, Counting
<1> QED
  BY <1>4

-----------------------------------------------------------------------------
(* The sender's buffer *)

LEMMA MessageIs ==
    ASSUME message \in Messages
    PROVE  /\ message.head \in Nat /\ message.head >= 5
           /\ message.canfd \in BOOLEAN
           /\ message.block \in Nat /\ message.block > MostBytes(message.canfd)
           /\ message.bytes \in Nat
           /\ message.fields \in Seq(Fields)
           /\ Len(message.fields) \in Nat /\ DOMAIN message.fields = 1 .. Len(message.fields)
           /\ Total(Lengths(message), Len(message.fields)) <= 8 * message.bytes
           /\ message.fill \in SUBSET Nat /\ \A p \in message.fill : p < 8 * message.bytes
           /\ message.cut \in Seq(0 .. 7)
           /\ message.cut # <<>> =>
                 /\ ~message.canfd /\ Len(message.cut) >= 2 /\ message.cut[1] \in 1 .. 5
                 /\ Total(message.cut, Len(message.cut)) = message.bytes
<1>1. IsMessage(message)
  BY PayloadAssumption
<1>2. message.fill \subseteq 0 .. 8 * message.bytes - 1 /\ message.bytes \in 0 .. MaxTransferPayloadLen
  BY <1>1 DEF IsMessage
<1>8. message.bytes \in Nat
  <2>1. MaxTransferPayloadLen \in Int
    BY DEF MaxTransferPayloadLen
  <2> QED
    BY <1>2, <2>1
<1>3. message.fill \in SUBSET Nat /\ \A p \in message.fill : p < 8 * message.bytes
  <2> DEFINE bytes == message.bytes
  <2>1. message.fill \subseteq 0 .. 8 * bytes - 1
    BY <1>2
  <2>2. bytes \in Nat
    BY <1>8
  <2> HIDE DEF bytes
  <2>3. message.fill \in SUBSET Nat /\ \A p \in message.fill : p < 8 * bytes
    BY <2>1, <2>2
  <2> QED
    BY <2>3 DEF bytes
<1>4. message.fields \in Seq(Fields)
  BY <1>1 DEF IsMessage
<1>5. Len(message.fields) \in Nat /\ DOMAIN message.fields = 1 .. Len(message.fields)
  BY <1>4
<1>6. /\ message.head \in Nat /\ message.head >= 5
      /\ message.canfd \in BOOLEAN
      /\ message.block \in Nat /\ message.block > MostBytes(message.canfd)
      /\ Total(Lengths(message), Len(message.fields)) <= 8 * message.bytes
  BY <1>1 DEF IsMessage
<1>7. /\ message.cut \in Seq(0 .. 7)
      /\ message.cut # <<>> =>
           /\ ~message.canfd /\ Len(message.cut) >= 2 /\ message.cut[1] \in 1 .. 5
           /\ Total(message.cut, Len(message.cut)) = message.bytes
  BY <1>1, Zenon DEF IsMessage
<1> QED
  BY <1>3, <1>4, <1>5, <1>6, <1>7, <1>8, Zenon

(* One field begins where the one before it ends; none reaches behind the payload. *)
LEMMA OffsetsAre ==
    ASSUME message \in Messages
    PROVE  /\ OffsetOf(1) = 0
           /\ \A i \in 1 .. Len(message.fields) :
                 /\ message.fields[i] \in Fields
                 /\ OffsetOf(i) \in Nat
                 /\ OffsetOf(i + 1) = OffsetOf(i) + message.fields[i].length
                 /\ OffsetOf(i) + message.fields[i].length <= 8 * message.bytes
           /\ \A i \in 1 .. Len(message.fields) + 1 :
                 /\ OffsetOf(i) \in Nat
                 /\ \A j \in 1 .. Len(message.fields) : j < i =>
                       OffsetOf(j) + message.fields[j].length <= OffsetOf(i)
<1> DEFINE L == Len(message.fields)
           lengths == Lengths(message)
           T(n) == Total(lengths, n)
<1>1. L \in Nat /\ message.fields \in Seq(Fields) /\ DOMAIN message.fields = 1 .. L
      /\ T(L) <= 8 * message.bytes /\ message.bytes \in Nat
  BY MessageIs
<1>2. \A i \in 1 .. L : message.fields[i] \in Fields
  BY <1>1
<1>3. \A i \in 1 .. L : message.fields[i].length \in Nat
  <2>1. \A f \in Fields : f.length \in Nat
    BY DEF Fields
  <2> QED
    BY <1>2, <2>1
<1>4. lengths = [j \in 1 .. L |-> message.fields[j].length]
  BY <1>1, Zenon DEF Lengths
<1> HIDE DEF L
<1>5. lengths \in [1 .. L -> Nat] /\ \A i \in 1 .. L : lengths[i] = message.fields[i].length
  BY <1>3, <1>4
<1>6. \A i : OffsetOf(i) = T(i - 1)
  BY Zenon DEF OffsetOf
<1> HIDE DEF lengths
<1>7. /\ T(0) = 0
      /\ \A n \in 0 .. L : T(n) \in Nat
      /\ \A k \in 1 .. L : T(k) = T(k - 1) + lengths[k]
  BY <1>1, <1>5, TotalSteps
<1>8. \A k \in 0 .. L : \A n \in 0 .. L : k <= n => T(k) <= T(n)
  BY <1>1, <1>5, TotalGrows
<1> HIDE DEF T
<1>9. ASSUME NEW i \in 1 .. L
      PROVE  /\ OffsetOf(i) = T(i - 1) /\ T(i - 1) \in Nat
             /\ T(i) \in Nat /\ T(i) = OffsetOf(i) + message.fields[i].length
             /\ OffsetOf(i + 1) = T(i) /\ T(i) <= T(L)
  <2>1. i - 1 \in 0 .. L /\ i \in 0 .. L /\ (i + 1) - 1 = i /\ L \in 0 .. L /\ i <= L
    BY <1>1
  <2>2. OffsetOf(i) = T(i - 1) /\ OffsetOf(i + 1) = T(i)
    BY <1>6, <2>1, Zenon
  <2> QED
    BY <1>5, <1>7, <1>8, <2>1, <2>2
<1>10. ASSUME NEW i \in 1 .. L + 1
       PROVE  /\ OffsetOf(i) \in Nat
              /\ \A j \in 1 .. L : j < i => OffsetOf(j) + message.fields[j].length <= OffsetOf(i)
  <2>1. i - 1 \in 0 .. L /\ OffsetOf(i) = T(i - 1)
    BY <1>1, <1>6
  <2>2. ASSUME NEW j \in 1 .. L, j < i
        PROVE  T(j) <= T(i - 1)
    BY <1>1, <1>8, <2>1, <2>2
  <2> QED
    BY <1>7, <1>9, <2>1, <2>2
<1>11. OffsetOf(1) = 0
  BY <1>6, <1>7
<1>12. T(L) \in Nat /\ T(L) <= 8 * message.bytes
  BY <1>1, <1>7 DEF T
<1>13. ASSUME NEW i \in 1 .. L
       PROVE  OffsetOf(i) + message.fields[i].length <= 8 * message.bytes
  <2>1. T(i) \in Nat /\ T(i) = OffsetOf(i) + message.fields[i].length /\ T(i) <= T(L)
    BY <1>9
  <2>2. T(i) <= 8 * message.bytes
    BY <1>1, <1>12, <2>1
  <2> QED
    BY <2>1, <2>2, Zenon
<1> QED
  BY <1>2, <1>9, <1>10, <1>11, <1>13 DEF L

(* The first `count' fields are in the buffer, and nothing but them has changed. *)
FieldIn(i) ==
    LET f == message.fields[i]
    IN  \A j \in Nat : j < f.length =>
            (OffsetOf(i) + j \in buffer <=> Weight(j, f.length) \in FieldValue(f.length, f.number))

BufferInv ==
    /\ message \in Messages
    /\ encoded \in 0 .. Len(message.fields)
    /\ buffer \in SUBSET Nat
    /\ \A p \in buffer : p < 8 * message.bytes
    /\ \A i \in 1 .. encoded : FieldIn(i)
    /\ \A p \in Nat : p >= OffsetOf(encoded + 1) => (p \in buffer <=> p \in message.fill)

(* The bits of the scalar are written and no others. *)
LEMMA EncodeWrites ==
    ASSUME BufferInv, Encode
    PROVE  LET i == encoded + 1
               f == message.fields[i]
           IN  /\ buffer' \in SUBSET Nat
               /\ OffsetOf(i) \in Nat /\ OffsetOf(i + 1) = OffsetOf(i) + f.length
               /\ f.length \in 1 .. 64
               /\ \A p \in Nat : p \in buffer'
                    <=> IF OffsetOf(i) <= p /\ p < OffsetOf(i) + f.length
                        THEN Weight(p - OffsetOf(i), f.length) \in FieldValue(f.length, f.number)
                        ELSE p \in buffer
<1> DEFINE L == Len(message.fields)
           i == encoded + 1
           f == message.fields[i]
<1>1. /\ message \in Messages /\ encoded \in 0 .. L
      /\ buffer \in SUBSET Nat
      /\ \A p \in buffer : p < 8 * message.bytes
      /\ \A k \in 1 .. encoded : FieldIn(k)
      /\ \A p \in Nat : p >= OffsetOf(i) => (p \in buffer <=> p \in message.fill)
  BY DEF BufferInv
<1>2. encoded < L /\ encoded' = i /\ message' = message
  BY DEF Encode
<1>3. PICK bigEndian \in BOOLEAN :
         buffer' = canardEncodeScalar(buffer, OffsetOf(i), f.length, f.number, bigEndian)
  BY DEF Encode
<1>4. L \in Nat /\ message.bytes \in Nat
  BY <1>1, MessageIs
<1> HIDE DEF L
<1>5. i \in 1 .. L /\ i \in Nat
  BY <1>1, <1>2, <1>4
<1> HIDE DEF i
<1>6. /\ f \in Fields /\ OffsetOf(i) \in Nat
      /\ OffsetOf(i + 1) = OffsetOf(i) + f.length
      /\ OffsetOf(i) + f.length <= 8 * message.bytes
  BY <1>1, <1>5, OffsetsAre DEF L
<1>7. f.length \in 1 .. 64 /\ f.number \in SUBSET Nat
  BY <1>6, MeantIs
<1> HIDE DEF f
<1>8. /\ buffer' \in SUBSET Nat
      /\ \A p \in Nat : p \in buffer'
           <=> IF OffsetOf(i) <= p /\ p < OffsetOf(i) + f.length
               THEN Weight(p - OffsetOf(i), f.length) \in FieldValue(f.length, f.number)
               ELSE p \in buffer
  <2> DEFINE offset == OffsetOf(i)
             length == f.length
             number == f.number
  <2>1. offset \in Nat /\ length \in 1 .. 64 /\ number \in SUBSET Nat
    BY <1>6, <1>7
  <2>2. buffer' = canardEncodeScalar(buffer, offset, length, number, bigEndian)
    BY <1>3, Zenon
  <2> HIDE DEF offset, length, number
  <2>3. /\ canardEncodeScalar(buffer, offset, length, number, bigEndian) \in SUBSET Nat
        /\ \A p \in Nat : p \in canardEncodeScalar(buffer, offset, length, number, bigEndian)
           <=> IF offset <= p /\ p < offset + length
               THEN Weight(p - offset, length) \in FieldValue(length, number)
               ELSE p \in buffer
    BY <1>1, <2>1, EncodedIs
  <2> QED
    BY <2>2, <2>3, Zenon DEF offset, length, number
<1> QED
  BY <1>6, <1>7, <1>8, Zenon DEF f, i

LEMMA EncodeKeepsBuffer == BufferInv /\ Encode => BufferInv'
<1> SUFFICES ASSUME BufferInv, Encode
             PROVE  BufferInv'
  OBVIOUS
<1> DEFINE L == Len(message.fields)
           i == encoded + 1
           f == message.fields[i]
<1>1. /\ message \in Messages /\ encoded \in 0 .. L
      /\ buffer \in SUBSET Nat
      /\ \A p \in buffer : p < 8 * message.bytes
      /\ \A k \in 1 .. encoded : FieldIn(k)
      /\ \A p \in Nat : p >= OffsetOf(i) => (p \in buffer <=> p \in message.fill)
  BY DEF BufferInv
<1>2. encoded < L /\ encoded' = i /\ message' = message
  BY DEF Encode
<1>4. L \in Nat /\ message.bytes \in Nat
  BY <1>1, MessageIs
<1> HIDE DEF L
<1>5. i \in 1 .. L /\ i \in Nat
  BY <1>1, <1>2, <1>4
<1> HIDE DEF i
<1>6. /\ f \in Fields /\ OffsetOf(i) \in Nat
      /\ OffsetOf(i + 1) = OffsetOf(i) + f.length
      /\ OffsetOf(i) + f.length <= 8 * message.bytes
  BY <1>1, <1>5, OffsetsAre DEF L
<1>7. f.length \in 1 .. 64 /\ f.number \in SUBSET Nat
  BY <1>6, MeantIs
<1> HIDE DEF f
<1>8. /\ buffer' \in SUBSET Nat
      /\ \A p \in Nat : p \in buffer'
           <=> IF OffsetOf(i) <= p /\ p < OffsetOf(i) + f.length
               THEN Weight(p - OffsetOf(i), f.length) \in FieldValue(f.length, f.number)
               ELSE p \in buffer
  BY EncodeWrites, Zenon DEF f, i
<1>9. ASSUME NEW p \in buffer'
      PROVE  p < 8 * message.bytes
  <2>1. p \in Nat
    BY <1>8
  <2>2. CASE p < OffsetOf(i) + f.length
    BY <1>4, <1>6, <1>7, <2>1, <2>2
  <2>3. CASE ~(p < OffsetOf(i) + f.length)
    <3>1. p \in buffer
      BY <1>8, <2>1, <2>3
    <3> QED
      BY <1>1, <3>1
  <2> QED
    BY <2>2, <2>3
<1>10. \A k : OffsetOf(k)' = OffsetOf(k)
  BY <1>2 DEF OffsetOf, Lengths
<1>11. \A p \in Nat : p >= OffsetOf(i + 1) => (p \in buffer' <=> p \in message.fill)
  BY <1>1, <1>6, <1>7, <1>8
<1>12. ASSUME NEW k \in 1 .. i
       PROVE  FieldIn(k)'
  <2> DEFINE g == message.fields[k]
  <2>1. k \in 1 .. L
    BY <1>4, <1>5
  <2>2. g \in Fields /\ OffsetOf(k) \in Nat
    BY <1>1, <2>1, OffsetsAre DEF L
  <2>3. g.length \in 1 .. 64
    BY <2>2, MeantIs
  <2>4. SUFFICES ASSUME NEW j \in Nat, j < g.length
                 PROVE  OffsetOf(k) + j \in buffer'
                          <=> Weight(j, g.length) \in FieldValue(g.length, g.number)
    BY <1>2, <1>10, Zenon DEF FieldIn
  <2> HIDE DEF g
  <2> DEFINE p == OffsetOf(k) + j
  <2>5. p \in Nat
    BY <2>2
  <2>6. CASE k = i
    <3>1. f = g
      BY <2>6 DEF f, g
    <3>2. OffsetOf(i) <= p /\ p < OffsetOf(i) + f.length /\ p - OffsetOf(i) = j
      BY <1>6, <1>7, <2>2, <2>4, <2>6, <3>1
    <3> HIDE DEF p
    <3>3. p \in buffer' <=> Weight(p - OffsetOf(i), f.length) \in FieldValue(f.length, f.number)
      BY <1>8, <2>5, <3>2
    <3> QED
      BY <3>1, <3>2, <3>3, Zenon DEF p
  <2>7. CASE k # i
    <3>1. k \in 1 .. encoded /\ k < i
      BY <1>1, <1>5, <2>7 DEF i
    <3>2. OffsetOf(k) + g.length <= OffsetOf(i)
      <4>1. i \in 1 .. L + 1
        BY <1>4, <1>5
      <4> QED
        BY <1>1, <2>1, <3>1, <4>1, OffsetsAre DEF L, g
    <3>3. p < OffsetOf(i)
      BY <1>6, <2>2, <2>3, <2>4, <3>2
    <3>4. p \in buffer <=> Weight(j, g.length) \in FieldValue(g.length, g.number)
      <4>1. FieldIn(k)
        BY <1>1, <3>1
      <4> QED
        BY <2>4, <4>1 DEF FieldIn, g
    <3> HIDE DEF p
    <3>5. p \in buffer' <=> p \in buffer
      BY <1>6, <1>8, <2>5, <3>3
    <3> QED
      BY <3>4, <3>5 DEF p
  <2> QED
    BY <2>6, <2>7
<1>13. encoded' \in 0 .. L /\ OffsetOf(encoded + 1)' = OffsetOf(i + 1)
  <2>1. OffsetOf(encoded + 1)' = OffsetOf(encoded' + 1)
    BY <1>2 DEF OffsetOf, Lengths
  <2> QED
    BY <1>2, <1>4, <1>5, <2>1
<1>14. \A k \in (1 .. encoded)' : FieldIn(k)'
  BY <1>2, <1>12
<1> QED
  BY <1>1, <1>2, <1>8, <1>9, <1>11, <1>13, <1>14 DEF BufferInv, L

LEMMA BufferStays ==
    BufferInv /\ UNCHANGED <<message, encoded, buffer>> => BufferInv'
<1> SUFFICES ASSUME BufferInv, UNCHANGED <<message, encoded, buffer>>
             PROVE  BufferInv'
  OBVIOUS
<1>1. \A k : OffsetOf(k)' = OffsetOf(k)
  BY DEF OffsetOf, Lengths
<1>2. OffsetOf(encoded + 1)' = OffsetOf(encoded + 1)
  BY DEF OffsetOf, Lengths
<1>3. \A i : FieldIn(i)' <=> FieldIn(i)
  BY <1>1, Zenon DEF FieldIn
<1> QED
  BY <1>2, <1>3 DEF BufferInv

LEMMA BufferStarts == PayloadInit => BufferInv
<1> SUFFICES ASSUME PayloadInit
             PROVE  BufferInv
  OBVIOUS
<1>1. message \in Messages /\ encoded = 0 /\ buffer = message.fill
  BY DEF PayloadInit
<1>2. Len(message.fields) \in Nat /\ message.fill \in SUBSET Nat
      /\ \A p \in message.fill : p < 8 * message.bytes
  BY <1>1, MessageIs
<1> QED
  BY <1>1, <1>2 DEF BufferInv

LEMMA BufferKept == BufferInv /\ [PayloadNext]_payloadVars => BufferInv'
<1> SUFFICES ASSUME BufferInv, [PayloadNext]_payloadVars
             PROVE  BufferInv'
  OBVIOUS
<1>1. CASE Encode
  BY <1>1, EncodeKeepsBuffer
<1>2. ASSUME Send \/ StoreFrame \/ DeliverSingle \/ DeliverMulti \/ UNCHANGED payloadVars
      PROVE  UNCHANGED <<message, encoded, buffer>>
  BY <1>2 DEF Send, StoreFrame, DeliverSingle, DeliverMulti, payloadVars
<1> QED
  BY <1>1, <1>2, BufferStays DEF PayloadNext

(* What encoding a scalar leaves alone (see NeighboursUntouched), for every buffer,     *)
(* every offset and every length of a scalar.                                    *)
THEOREM EncodingTouchesNoNeighbour == PayloadSpec => NeighboursUntouched
<1> DEFINE Outside(p) == p < OffsetOf(encoded + 1) \/ p >= OffsetOf(encoded' + 1)
           Step == {p \in buffer' : Outside(p)} = {p \in buffer : Outside(p)}
<1>1. BufferInv /\ [PayloadNext]_payloadVars => [Step]_payloadVars
  <2> SUFFICES ASSUME BufferInv, PayloadNext
               PROVE  Step
    OBVIOUS
  <2>1. CASE Encode
    <3> DEFINE i == encoded + 1
               f == message.fields[i]
               from == OffsetOf(i)
               to == OffsetOf(encoded' + 1)
    <3>1. /\ buffer' \in SUBSET Nat /\ from \in Nat /\ f.length \in 1 .. 64
          /\ OffsetOf(i + 1) = from + f.length
          /\ \A p \in Nat : ~(from <= p /\ p < from + f.length)
                => (p \in buffer' <=> p \in buffer)
      BY <2>1, EncodeWrites, Zenon
    <3>2. to = from + f.length
      BY <2>1, <3>1 DEF Encode
    <3>3. buffer \in SUBSET Nat
      BY DEF BufferInv
    <3>4. Step <=> {p \in buffer' : p < from \/ p >= to} = {p \in buffer : p < from \/ p >= to}
      OBVIOUS
    <3> HIDE DEF Step, from, to, f, i
    <3>5. \A p \in Nat : p < from \/ p >= to => (p \in buffer' <=> p \in buffer)
      BY <3>1, <3>2
    <3>6. \A p : (p \in buffer' => p \in Nat) /\ (p \in buffer => p \in Nat)
      BY <3>1, <3>3
    <3>7. ASSUME NEW p
          PROVE  p \in {q \in buffer' : q < from \/ q >= to}
                   <=> p \in {q \in buffer : q < from \/ q >= to}
      BY <3>5, <3>6
    <3>8. {p \in buffer' : p < from \/ p >= to} = {p \in buffer : p < from \/ p >= to}
      BY <3>7, Zenon
    <3> QED
      BY <3>4, <3>8
  <2>2. CASE Send \/ StoreFrame \/ DeliverSingle \/ DeliverMulti
    <3>1. UNCHANGED <<buffer, encoded>>
      BY <2>2 DEF Send, StoreFrame, DeliverSingle, DeliverMulti
    <3> QED
      BY <3>1
  <2> QED
    BY <2>1, <2>2 DEF PayloadNext
<1> QED
  BY <1>1, BufferStarts, BufferKept, PTL DEF PayloadSpec, NeighboursUntouched

-----------------------------------------------------------------------------
(* Padding to the size of a frame *)

LEMMA DataLengthsAre ==
    /\ DataLengths[1] = 1 /\ DataLengths[2] = 2 /\ DataLengths[3] = 3 /\ DataLengths[4] = 4
    /\ DataLengths[5] = 5 /\ DataLengths[6] = 6 /\ DataLengths[7] = 7 /\ DataLengths[8] = 8
    /\ DataLengths[9] = 12 /\ DataLengths[10] = 16 /\ DataLengths[11] = 20
    /\ DataLengths[12] = 24 /\ DataLengths[13] = 32 /\ DataLengths[14] = 48
    /\ DataLengths[15] = 64
BY DEF DataLengths

(* The smallest data length code that is long enough. *)
Fits(n, dlc) ==
    (n <= DataLengths[dlc] \/ dlc = MaxDlc) /\ (dlc = 1 \/ DataLengths[dlc - 1] < n)

LEMMA DlcIs ==
    ASSUME NEW n \in 1 .. 64
    PROVE  /\ dataLengthToDlc(n) \in 1 .. 15
           /\ Fits(n, dataLengthToDlc(n))
<1>1. \E dlc \in 1 .. MaxDlc : Fits(n, dlc)
  <2>1. MaxDlc = 15
    BY DEF MaxDlc
  <2>2. CASE n <= 8
    <3>1. n \in 1 .. 8 /\ DataLengths[n] = n /\ (n # 1 => DataLengths[n - 1] = n - 1)
      <4>1. n = 1 \/ n = 2 \/ n = 3 \/ n = 4 \/ n = 5 \/ n = 6 \/ n = 7 \/ n = 8
        BY <2>2
      <4> QED
        BY <4>1, DataLengthsAre
    <3>2. Fits(n, n)
      BY <3>1 DEF Fits
    <3> QED
      BY <2>1, <3>1, <3>2
  <2>3. CASE n > 8 /\ n <= 20
    <3>1. Fits(n, 9) \/ Fits(n, 10) \/ Fits(n, 11)
      BY <2>3, DataLengthsAre DEF Fits
    <3> QED
      BY <2>1, <3>1
  <2>4. CASE n > 20 /\ n <= 32
    <3>1. Fits(n, 12) \/ Fits(n, 13)
      BY <2>4, DataLengthsAre DEF Fits
    <3> QED
      BY <2>1, <3>1
  <2>5. CASE n > 32
    <3>1. Fits(n, 14) \/ Fits(n, 15)
      BY <2>5, DataLengthsAre DEF Fits
    <3> QED
      BY <2>1, <3>1
  <2> QED
    BY <2>2, <2>3, <2>4, <2>5
<1>2. n # 0
  OBVIOUS
<1>3. dataLengthToDlc(n) = CHOOSE dlc \in 1 .. MaxDlc : Fits(n, dlc)
  BY <1>2, Zenon DEF dataLengthToDlc, Fits
<1>4. dataLengthToDlc(n) \in 1 .. MaxDlc /\ Fits(n, dataLengthToDlc(n))
  BY <1>1, <1>3, Zenon
<1> QED
  BY <1>4 DEF MaxDlc

LEMMA PaddedIs ==
    ASSUME NEW n \in 0 .. 63
    PROVE  /\ Padded(n) \in Nat /\ n <= Padded(n) /\ Padded(n) <= 63
           /\ n <= 7 => Padded(n) = n
           /\ n = 63 => Padded(n) = 63
<1> DEFINE dlc == dataLengthToDlc(n + 1)
<1>1. n + 1 \in 1 .. 64
  OBVIOUS
<1>2. dlc \in 1 .. 15 /\ Fits(n + 1, dlc)
  BY <1>1, DlcIs
<1> HIDE DEF dlc
<1>3. Padded(n) = DataLengths[dlc] - 1
  <2>1. dlc # 0 /\ Lesser(dlc, MaxDlc) = dlc
    BY <1>2 DEF Lesser, MaxDlc
  <2>2. dlcToDataLength(dlc) = DataLengths[dlc]
    BY <2>1, Zenon DEF dlcToDataLength
  <2> QED
    BY <2>2 DEF Padded, dlc
<1>4. MaxDlc = 15
  BY DEF MaxDlc
<1>5. dlc = 1 \/ dlc = 2 \/ dlc = 3 \/ dlc = 4 \/ dlc = 5 \/ dlc = 6 \/ dlc = 7 \/ dlc = 8
      \/ dlc = 9 \/ dlc = 10 \/ dlc = 11 \/ dlc = 12 \/ dlc = 13 \/ dlc = 14 \/ dlc = 15
  BY <1>2
<1>6. CASE dlc = 1 \/ dlc = 2 \/ dlc = 3 \/ dlc = 4 \/ dlc = 5 \/ dlc = 6 \/ dlc = 7 \/ dlc = 8
  <2>1. DataLengths[dlc] = dlc /\ (dlc # 1 => DataLengths[dlc - 1] = dlc - 1)
    BY <1>6, DataLengthsAre
  <2>2. n + 1 = dlc
    BY <1>2, <1>4, <1>6, <2>1 DEF Fits
  <2> QED
    BY <1>3, <1>6, <2>1, <2>2
<1>7. CASE ~(dlc = 1 \/ dlc = 2 \/ dlc = 3 \/ dlc = 4 \/ dlc = 5 \/ dlc = 6 \/ dlc = 7 \/ dlc = 8)
  <2>1. /\ DataLengths[dlc] \in Nat /\ DataLengths[dlc] <= 64
        /\ DataLengths[dlc - 1] \in Nat /\ DataLengths[dlc - 1] >= 8
        /\ dlc = 15 => DataLengths[dlc] = 64
    BY <1>5, <1>7, DataLengthsAre
  <2>2. dlc # 15 => DataLengths[dlc] < 64
    BY <1>5, <1>7, DataLengthsAre
  <2>3. n + 1 <= DataLengths[dlc] /\ DataLengths[dlc - 1] < n + 1
    BY <1>2, <1>4, <1>7, <2>1 DEF Fits
  <2> QED
    BY <1>3, <2>1, <2>2, <2>3
<1> QED
  BY <1>6, <1>7

-----------------------------------------------------------------------------
(* Framing *)

(* The bytes behind the CRC's first one that so many full frames carry. *)
Room(n) == (FrameMax - 1) * n

LEMMA FrameMaxIs ==
    ASSUME message \in Messages
    PROVE  /\ message.canfd => FrameMax = 64
           /\ ~message.canfd => FrameMax = 8
           /\ FrameMax - 1 = MostBytes(message.canfd)
           /\ message.canfd \in BOOLEAN
<1>1. message.canfd \in BOOLEAN
  BY MessageIs
<1>2. CASE message.canfd
  <2>1. FrameMax = 64 /\ MostBytes(message.canfd) = 63
    BY <1>2, Zenon DEF FrameMax, MostBytes
  <2>2. FrameMax - 1 = MostBytes(message.canfd)
    BY <2>1
  <2> QED
    BY <1>1, <1>2, <2>1, <2>2, Zenon
<1>3. CASE ~message.canfd
  <2>1. FrameMax = 8 /\ MostBytes(message.canfd) = 7
    BY <1>3, Zenon DEF FrameMax, MostBytes
  <2>2. FrameMax - 1 = MostBytes(message.canfd)
    BY <2>1
  <2> QED
    BY <1>1, <1>3, <2>1, <2>2, Zenon
<1> QED
  BY <1>1, <1>2, <1>3

LEMMA RoomIs ==
    ASSUME message \in Messages
    PROVE  /\ Room(0) = 0
           /\ FrameMax = 8 \/ FrameMax = 64
           /\ \A n \in Nat : Room(n) \in Nat /\ Room(n + 1) = Room(n) + FrameMax - 1
           /\ \A m, n \in Nat : m < n => Room(m) + FrameMax - 1 <= Room(n)
           /\ \A n \in Nat : Room(n) >= n
<1>1. FrameMax = 8 \/ FrameMax = 64
  BY FrameMaxIs
<1>2. CASE FrameMax = 8
  <2>1. \A n : Room(n) = (8 - 1) * n
    BY <1>2, Zenon DEF Room
  <2> QED
    BY <1>2, <2>1
<1>3. CASE FrameMax = 64
  <2>1. \A n : Room(n) = (64 - 1) * n
    BY <1>3, Zenon DEF Room
  <2> QED
    BY <1>3, <2>1
<1> QED
  BY <1>1, <1>2, <1>3

(* Where a frame begins in the payload. *)
Begin(n) == IF n = 0 THEN 0 ELSE Lesser(Room(n) - 2, message.bytes)

LEMMA BeginIs ==
    ASSUME message \in Messages
    PROVE  /\ Begin(0) = 0
           /\ \A n \in Nat : Begin(n) \in Nat /\ Begin(n) <= message.bytes
           /\ \A n \in Nat : n > 0 => Begin(n) > 0 \/ message.bytes = 0
           /\ \A n \in Nat :
                 Begin(n + 1) = Lesser(Begin(n) + FrameMax - 1 - CrcBytes(n), message.bytes)
           /\ \A n \in Nat : n > 0 /\ Room(n) - 2 <= message.bytes => Begin(n) = Room(n) - 2
<1>1. message.bytes \in Nat
  BY MessageIs
<1>2. /\ Room(0) = 0
      /\ FrameMax = 8 \/ FrameMax = 64
      /\ \A n \in Nat : Room(n) \in Nat
      /\ \A m, n \in Nat : m < n => Room(m) + FrameMax - 1 <= Room(n)
  BY RoomIs
<1>10. \A n \in Nat : Room(n + 1) = Room(n) + FrameMax - 1
  BY RoomIs
<1>3. Begin(0) = 0
  BY DEF Begin
<1>4. ASSUME NEW n \in Nat, n > 0
      PROVE  /\ Begin(n) = IF Room(n) - 2 < message.bytes THEN Room(n) - 2 ELSE message.bytes
             /\ Room(n) \in Nat /\ Room(n) >= FrameMax - 1
  <2>1. n # 0
    BY <1>4
  <2>2. Begin(n) = IF Room(n) - 2 < message.bytes THEN Room(n) - 2 ELSE message.bytes
    BY <2>1, Zenon DEF Begin, Lesser
  <2>3. Room(n) \in Nat /\ Room(n) >= FrameMax - 1
    BY <1>2, <1>4
  <2> QED
    BY <2>2, <2>3, Zenon
<1>5. \A n \in Nat : Begin(n) \in Nat /\ Begin(n) <= message.bytes
  BY <1>1, <1>2, <1>3, <1>4
<1>6. \A n \in Nat : n > 0 => Begin(n) > 0 \/ message.bytes = 0
  BY <1>1, <1>2, <1>4
<1>7. ASSUME NEW n \in Nat
      PROVE  Begin(n + 1) = Lesser(Begin(n) + FrameMax - 1 - CrcBytes(n), message.bytes)
  <2>0. n + 1 \in Nat /\ n + 1 > 0
    OBVIOUS
  <2>1. /\ Begin(n + 1) = IF Room(n + 1) - 2 < message.bytes THEN Room(n + 1) - 2
                          ELSE message.bytes
        /\ Room(n + 1) = Room(n) + FrameMax - 1
    BY <1>4, <1>10, <2>0, Zenon
  <2>2. CASE n = 0
    <3>1. CrcBytes(n) = 2
      BY <2>2 DEF CrcBytes
    <3> QED
      BY <1>1, <1>2, <1>3, <2>1, <2>2, <3>1 DEF Lesser
  <2>3. CASE n # 0
    <3>1. CrcBytes(n) = 0
      BY <2>3 DEF CrcBytes
    <3>2. /\ Begin(n) = IF Room(n) - 2 < message.bytes THEN Room(n) - 2 ELSE message.bytes
          /\ Room(n) \in Nat
      BY <1>4, <2>3
    <3> QED
      BY <1>1, <1>2, <2>1, <3>1, <3>2 DEF Lesser
  <2> QED
    BY <2>2, <2>3
<1>8. \A n \in Nat : n > 0 /\ Room(n) - 2 <= message.bytes => Begin(n) = Room(n) - 2
  BY <1>1, <1>4
<1> QED
  BY <1>3, <1>5, <1>6, <1>7, <1>8

LEMMA IndexIs ==
    ASSUME message \in Messages
    PROVE  \A n \in 0 .. message.bytes : DataIndex[n] = Begin(n)
<1> DEFINE B == message.bytes
           after(x) == Lesser(x + FrameMax - 1 - CrcBytes(x), B)
           Is(f) == f = [n \in 0 .. B |-> IF n = 0 THEN 0 ELSE after(f[n - 1])]
           index == CHOOSE f : Is(f)
           g == [n \in 0 .. B |-> Begin(n)]
<1>1. B \in Nat
  BY MessageIs
<1>2. DataIndex = index
  BY Zenon DEF DataIndex
<1>3. ASSUME NEW n \in 1 .. B
      PROVE  Begin(n) = after(Begin(n - 1))
  <2>1. n - 1 \in Nat /\ (n - 1) + 1 = n
    BY <1>1
  <2>2. Begin(n) = Lesser(Begin(n - 1) + FrameMax - 1 - CrcBytes(n - 1), B)
    BY <2>1, BeginIs
  <2>3. CrcBytes(n - 1) = CrcBytes(Begin(n - 1))
    <3>1. CASE n - 1 = 0
      BY <3>1, BeginIs
    <3>2. CASE n - 1 # 0
      <4>1. Begin(n - 1) # 0
        <5>1. n - 1 > 0 /\ B # 0
          BY <1>1, <2>1, <3>2
        <5>2. Begin(n - 1) > 0
          BY <2>1, <5>1, BeginIs
        <5> QED
          BY <5>2
      <4> QED
        BY <3>2, <4>1 DEF CrcBytes
    <3> QED
      BY <3>1, <3>2
  <2> QED
    BY <2>2, <2>3, Zenon
<1>4. Begin(0) = 0
  BY BeginIs
<1> HIDE DEF B, after
<1>5. Is(g)
  <2>1. ASSUME NEW n \in 0 .. B
        PROVE  g[n] = IF n = 0 THEN 0 ELSE after(g[n - 1])
    <3>1. CASE n = 0
      BY <1>4, <3>1
    <3>2. CASE n # 0
      <4>1. n - 1 \in 0 .. B /\ n \in 1 .. B
        BY <1>1, <3>2
      <4>2. g[n] = Begin(n) /\ g[n - 1] = Begin(n - 1)
        BY <4>1
      <4> QED
        BY <1>3, <3>2, <4>1, <4>2, Zenon
    <3> QED
      BY <3>1, <3>2
  <2>2. g = [n \in 0 .. B |-> g[n]]
    OBVIOUS
  <2> HIDE DEF g
  <2>3. [n \in 0 .. B |-> g[n]] = [n \in 0 .. B |-> IF n = 0 THEN 0 ELSE after(g[n - 1])]
    BY <2>1, Zenon
  <2> QED
    BY <2>2, <2>3, Zenon
<1>6. Is(index)
  <2> HIDE DEF Is, g
  <2> QED
    BY <1>5, Zenon
<1>7. \A n \in 0 .. B : index[n] = IF n = 0 THEN 0 ELSE after(index[n - 1])
  <2> HIDE DEF index
  <2> QED
    BY <1>6, Zenon
<1> HIDE DEF index
<1> DEFINE S == {n \in 0 .. B : index[n] = Begin(n)}
<1>8. 0 \in S
  BY <1>1, <1>4, <1>7
<1>9. ASSUME NEW n \in 0 .. B, n < B, n \in S
      PROVE  n + 1 \in S
  <2>1. n + 1 \in 0 .. B /\ n + 1 # 0 /\ (n + 1) - 1 = n /\ n + 1 \in 1 .. B
    BY <1>1, <1>9
  <2>2. index[n + 1] = after(index[n])
    BY <1>7, <2>1
  <2>3. Begin(n + 1) = after(Begin(n))
    BY <1>3, <2>1
  <2> QED
    BY <1>9, <2>1, <2>2, <2>3
<1>10. \A n \in 0 .. B : n \in S
  <2> HIDE DEF S
  <2> QED
    BY <1>1, <1>8, <1>9, Counting
<1> QED
  BY <1>2, <1>10 DEF B

(* The number of the frames is the one that was checked for. *)
LEMMA NumberIs ==
    ASSUME message \in Messages, ~SingleFrame
    PROVE  /\ FramesNeeded \in 2 .. message.bytes
           /\ Begin(FramesNeeded) = message.bytes
           /\ Begin(FramesNeeded - 1) = Room(FramesNeeded - 1) - 2
           /\ Begin(FramesNeeded - 1) < message.bytes
           /\ message.bytes <= Begin(FramesNeeded - 1) + FrameMax - 1
           /\ \A n \in 1 .. FramesNeeded - 1 :
                 Begin(n) = Room(n) - 2 /\ Begin(n) < message.bytes
           /\ \A n \in 1 .. message.bytes :
                 Begin(n) = message.bytes /\ Begin(n - 1) # message.bytes => n = FramesNeeded
<1> DEFINE B == message.bytes
           N == FramesNeeded
<1>1. B \in Nat
  BY MessageIs
<1>2. /\ Room(0) = 0
      /\ FrameMax = 8 \/ FrameMax = 64
      /\ \A n \in Nat : Room(n) \in Nat
      /\ \A m, n \in Nat : m < n => Room(m) + FrameMax - 1 <= Room(n)
      /\ \A n \in Nat : Room(n) >= n
  BY RoomIs
<1>13. \A n \in Nat : Room(n + 1) = Room(n) + FrameMax - 1
  BY RoomIs
<1>3. B >= FrameMax
  BY <1>1, <1>2 DEF SingleFrame
<1>4. N \in Nat /\ N >= 2 /\ Room(N) <= B + FrameMax /\ B + FrameMax < Room(N) + FrameMax - 1
      /\ N <= B
  <2> HIDE DEF B
  <2>1. CASE FrameMax = 8
    <3>1. N = (B + 2 + (8 - 2)) \div (8 - 1) /\ Room(N) = (8 - 1) * N
      BY <2>1, Zenon DEF FramesNeeded, Room, B
    <3> HIDE DEF N
    <3> QED
      BY <1>1, <1>3, <2>1, <3>1
  <2>2. CASE FrameMax = 64
    <3>1. N = (B + 2 + (64 - 2)) \div (64 - 1) /\ Room(N) = (64 - 1) * N
      BY <2>2, Zenon DEF FramesNeeded, Room, B
    <3> HIDE DEF N
    <3> QED
      BY <1>1, <1>3, <2>2, <3>1
  <2> QED
    BY <1>2, <2>1, <2>2
<1> HIDE DEF N
<1>5. ASSUME NEW n \in Nat, n > 0
      PROVE  Begin(n) = IF Room(n) - 2 < B THEN Room(n) - 2 ELSE B
  <2>1. n # 0
    BY <1>5
  <2> QED
    BY <2>1, Zenon DEF Begin, Lesser
<1> HIDE DEF B
<1>6. N - 1 \in Nat /\ N - 1 > 0 /\ (N - 1) + 1 = N /\ Room(N) = Room(N - 1) + FrameMax - 1
      /\ Room(N - 1) \in Nat /\ Room(N) \in Nat
  <2>1. N - 1 \in Nat /\ N - 1 > 0 /\ (N - 1) + 1 = N
    BY <1>4
  <2>2. Room((N - 1) + 1) = Room(N - 1) + FrameMax - 1
    BY <1>13, <2>1, Zenon
  <2> QED
    BY <1>2, <1>4, <2>1, <2>2, Zenon
<1>7. Room(N - 1) - 2 < B /\ B <= Room(N) - 2
  BY <1>1, <1>2, <1>4, <1>6
<1>8. Begin(N) = B /\ Begin(N - 1) = Room(N - 1) - 2
  BY <1>1, <1>4, <1>5, <1>6, <1>7
<1>9. ASSUME NEW n \in 1 .. N - 1
      PROVE  Begin(n) = Room(n) - 2 /\ Begin(n) < B
  <2>1. n \in Nat /\ n > 0 /\ Room(n) <= Room(N - 1)
    <3>1. n \in Nat /\ n > 0 /\ (n < N - 1 \/ n = N - 1)
      BY <1>6
    <3> QED
      BY <1>2, <1>6, <3>1
  <2> QED
    BY <1>1, <1>2, <1>5, <1>6, <1>7, <2>1
<1>10. ASSUME NEW n \in 1 .. B, Begin(n) = B, Begin(n - 1) # B
       PROVE  n = N
  <2>1. n \in Nat /\ n > 0
    BY <1>1
  <2>2. Room(n) - 2 >= B /\ Room(n) \in Nat
    BY <1>1, <1>2, <1>5, <1>10, <2>1
  <2>3. ~(n < N)
    <3>1. SUFFICES ASSUME n < N
                   PROVE  FALSE
      OBVIOUS
    <3>2. n \in 1 .. N - 1
      BY <1>6, <2>1, <3>1
    <3>3. Begin(n) = Room(n) - 2 /\ Room(n) <= Room(N - 1)
      <4>1. n < N - 1 \/ n = N - 1
        BY <1>6, <3>2
      <4> QED
        BY <1>2, <1>6, <1>9, <2>1, <3>2, <4>1
    <3> QED
      BY <1>1, <1>6, <1>7, <2>2, <3>3
  <2>4. ~(n > N)
    <3>1. SUFFICES ASSUME n > N
                   PROVE  FALSE
      OBVIOUS
    <3>2. n - 1 \in Nat /\ n - 1 > 0 /\ (n - 1 = N \/ N < n - 1)
      BY <1>4, <2>1, <3>1
    <3>3. Room(n - 1) >= Room(N) /\ Room(n - 1) \in Nat
      BY <1>2, <1>4, <1>6, <3>2
    <3>4. Begin(n - 1) = B
      BY <1>1, <1>5, <1>6, <1>7, <3>2, <3>3
    <3> QED
      BY <1>10, <3>4
  <2> QED
    BY <1>4, <2>1, <2>3, <2>4
<1>11. N \in 2 .. B
  BY <1>1, <1>4
<1>12. Begin(N - 1) < B /\ B <= Begin(N - 1) + FrameMax - 1
  BY <1>1, <1>2, <1>6, <1>7, <1>8
<1> QED
  BY <1>8, <1>9, <1>10, <1>11, <1>12 DEF B, N

(* The frame that carries the bytes from a to b. *)
FrameAt(f, a, b) ==
    /\ f.n = b - a
    /\ f.bits \in SUBSET Nat
    /\ \A x \in Nat : x \in f.bits <=> x < 8 * (b - a) /\ x + 8 * a \in buffer

FrameSet ==
    [bits : SUBSET Nat, n : Nat, sot : BOOLEAN, eot : BOOLEAN, crc : {calculateCRC}]

(* A sequence of frames carries the payload and its padding from byte `start' on;   *)
(* `at' tells where each of them begins.                                       *)
Carries(fr, at, start) ==
    /\ fr \in Seq(FrameSet) /\ Len(fr) >= 1
    /\ at \in [0 .. Len(fr) -> Nat] /\ at[0] = start /\ at[Len(fr)] = calculateCRC.bytes
    /\ \A i \in 1 .. Len(fr) :
          /\ at[i - 1] <= at[i] /\ at[i] - at[i - 1] <= MostBytes(message.canfd)
          /\ FrameAt(fr[i], at[i - 1], at[i])
          /\ fr[i].sot <=> at[i - 1] = 0
          /\ fr[i].eot <=> i = Len(fr)
    /\ start = 0 => Len(fr) >= 2 /\ at[1] > 0

LEMMA CrcIs ==
    ASSUME message \in Messages
    PROVE  /\ calculateCRC.bits = buffer
           /\ calculateCRC.bytes \in Nat /\ calculateCRC.bytes >= message.bytes
           /\ ~message.canfd => calculateCRC.bytes = message.bytes
           /\ message.canfd /\ message.bytes > 63 =>
                 calculateCRC.bytes
                   = message.bytes + (Padded((message.bytes + 2) % 63) - ((message.bytes + 2) % 63))
<1> DEFINE B == message.bytes
           last == (B + 2) % 63
           long == message.canfd /\ B > 63
<1>1. B \in Nat
  BY MessageIs
<1> HIDE DEF B
<1>2. last \in 0 .. 63
  BY <1>1
<1>3. calculateCRC = [bits |-> buffer, bytes |-> B + IF long THEN Padded(last) - last ELSE 0]
  BY Zenon DEF calculateCRC, B
<1> HIDE DEF last
<1>4. Padded(last) \in Nat /\ last <= Padded(last)
  BY <1>2, PaddedIs
<1>5. calculateCRC.bits = buffer
      /\ calculateCRC.bytes = B + IF long THEN Padded(last) - last ELSE 0
  <2> HIDE DEF long
  <2> QED
    BY <1>3
<1>6. long => calculateCRC.bytes = B + (Padded(last) - last)
  BY <1>5, Zenon
<1>7. ~long => calculateCRC.bytes = B + 0
  BY <1>5, Zenon
<1>8. long \/ ~long
  OBVIOUS
<1>9. calculateCRC.bytes \in Nat /\ calculateCRC.bytes >= B
  <2> HIDE DEF long
  <2> QED
    BY <1>1, <1>2, <1>4, <1>6, <1>7, <1>8
<1>10. ~message.canfd => calculateCRC.bytes = B
  <2>1. ~long => calculateCRC.bytes = B
    <3> HIDE DEF long
    <3> QED
      BY <1>1, <1>7
  <2>2. ~message.canfd => ~long
    OBVIOUS
  <2> HIDE DEF long
  <2> QED
    BY <2>1, <2>2, Zenon
<1>11. message.canfd /\ B > 63 => calculateCRC.bytes = B + (Padded(last) - last)
  BY <1>6, Zenon
<1> QED
  BY <1>5, <1>9, <1>10, <1>11, Zenon DEF B, last

(* A frame cut out of the buffer, with or without padding behind the payload. *)
LEMMA CutOut ==
    ASSUME BufferInv, NEW a \in Nat, NEW count \in Nat, NEW b \in Nat, a + count <= b,
           b = a + count \/ a + count = message.bytes,
           NEW sot \in BOOLEAN, NEW eot \in BOOLEAN
    PROVE  LET f == Frame(Slice(buffer, a, count), b - a, sot, eot, calculateCRC)
           IN  f \in FrameSet /\ FrameAt(f, a, b) /\ f.sot = sot /\ f.eot = eot
<1> DEFINE bits == Slice(buffer, a, count)
           f == Frame(bits, b - a, sot, eot, calculateCRC)
<1>1. /\ message \in Messages
      /\ buffer \in SUBSET Nat
      /\ \A p \in buffer : p < 8 * message.bytes
  BY DEF BufferInv
<1>2. message.bytes \in Nat
  BY <1>1, MessageIs
<1>3. buffer \in SUBSET Int
  BY <1>1
<1>4. /\ bits \in SUBSET Int
      /\ \A x \in Int : x \in bits <=> 0 <= x /\ x < 8 * count /\ x + 8 * a \in buffer
  BY <1>3, InSlice
<1> HIDE DEF bits
<1>5. bits \in SUBSET Nat
  BY <1>4
<1>6. f.n = b - a /\ f.bits = bits /\ f.sot = sot /\ f.eot = eot /\ f \in FrameSet
  <2>1. b - a \in Nat
    OBVIOUS
  <2> QED
    BY <1>5, <2>1 DEF Frame, FrameSet
<1> HIDE DEF f
<1>7. ASSUME NEW x \in Nat
      PROVE  x \in bits <=> x < 8 * (b - a) /\ x + 8 * a \in buffer
  <2>1. x \in bits <=> x < 8 * count /\ x + 8 * a \in buffer
    BY <1>4
  <2>2. x < 8 * count => x < 8 * (b - a)
    OBVIOUS
  <2>3. ASSUME x + 8 * a \in buffer, x < 8 * (b - a)
        PROVE  x < 8 * count
    <3>1. x + 8 * a < 8 * message.bytes
      BY <1>1, <2>3
    <3> QED
      BY <1>2, <2>3, <3>1
  <2> QED
    BY <2>1, <2>2, <2>3
<1>8. FrameAt(f, a, b)
  BY <1>5, <1>6, <1>7 DEF FrameAt
<1> QED
  BY <1>6, <1>8 DEF f, bits


(* Where the frames begin that this implementation makes. *)
Reached(k) == IF k < FramesNeeded THEN Begin(k) ELSE calculateCRC.bytes

LEMMA LastFrame ==
    ASSUME message \in Messages, ~SingleFrame
    PROVE  /\ Begin(FramesNeeded - 1) + Padded(message.bytes - Begin(FramesNeeded - 1))
                = calculateCRC.bytes
           /\ Begin(FramesNeeded - 1) > 0
           /\ Padded(message.bytes - Begin(FramesNeeded - 1)) <= FrameMax - 1
<1> DEFINE B == message.bytes
           N == FramesNeeded
           a == Begin(N - 1)
           rest == B - a
           T == calculateCRC.bytes
           last == (B + 2) % 63
<1>1. B \in Nat /\ message.canfd \in BOOLEAN
  BY MessageIs
<1>2. /\ N \in 2 .. B /\ a = Room(N - 1) - 2 /\ a < B /\ B <= a + FrameMax - 1
  BY NumberIs
<1>3. /\ message.canfd => FrameMax = 64
      /\ ~message.canfd => FrameMax = 8
  BY FrameMaxIs
<1>4. B >= FrameMax /\ FrameMax \in Int
  BY <1>1, <1>3 DEF SingleFrame
<1>5. a \in Nat /\ a > 0
  <2>1. N - 1 \in Nat /\ N - 1 > 0
    BY <1>2
  <2>2. a \in Nat /\ (a > 0 \/ B = 0)
    BY <2>1, BeginIs
  <2> HIDE DEF a
  <2> QED
    BY <1>2, <2>2
<1>6. /\ ~message.canfd => T = B
      /\ message.canfd /\ B > 63 => T = B + (Padded(last) - last)
  BY CrcIs
<1>7. CASE ~message.canfd
  <2> HIDE DEF a
  <2>1. rest \in 0 .. 63 /\ rest <= 7
    BY <1>1, <1>2, <1>3, <1>5, <1>7
  <2> HIDE DEF rest
  <2>2. Padded(rest) = rest
    BY <2>1, PaddedIs
  <2>3. T = B /\ FrameMax = 8
    BY <1>3, <1>6, <1>7
  <2> HIDE DEF T, B, N
  <2>4. a + rest = B
    BY <1>1, <1>5 DEF rest
  <2>5. a + Padded(rest) = T /\ Padded(rest) <= FrameMax - 1
    BY <2>1, <2>2, <2>3, <2>4
  <2> QED
    BY <1>5, <2>5 DEF a, rest, T, B, N
<1>8. CASE message.canfd
  <2>1. FrameMax = 64
    BY <1>3, <1>8
  <2>2. Room(N - 1) = (64 - 1) * (N - 1)
    BY <2>1, Zenon DEF Room
  <2> HIDE DEF a, N
  <2>3. rest \in 1 .. 63
    BY <1>1, <1>2, <1>5, <2>1
  <2>4. B + 2 = (63 * (N - 1)) + rest /\ N \in Int
    BY <1>1, <1>2, <1>5, <2>1, <2>2
  <2> HIDE DEF rest
  <2>5. /\ rest < 63 => (B + 2) % 63 = rest
        /\ rest = 63 => (B + 2) % 63 = 0
    <3> HIDE DEF B
    <3> QED
      BY <2>3, <2>4
  <2> HIDE DEF T, B, last
  <2>6. T = B + (Padded(last) - last)
    BY <1>1, <1>4, <1>6, <1>8, <2>1
  <2>7. /\ rest < 63 => last = rest
        /\ rest = 63 => last = 0
    BY <2>5 DEF last
  <2>8. /\ Padded(rest) \in Nat /\ Padded(rest) <= 63
        /\ rest = 63 => Padded(rest) = 63
    <3>1. rest \in 0 .. 63
      BY <2>3
    <3> QED
      BY <3>1, PaddedIs
  <2>9. Padded(0) = 0
    BY PaddedIs
  <2>10. B = a + rest
    BY <1>1, <1>5 DEF rest
  <2>11. CASE rest = 63
    <3>1. last = 0 /\ Padded(last) = 0 /\ Padded(rest) = rest
      BY <2>7, <2>8, <2>9, <2>11
    <3>2. a + Padded(rest) = T
      BY <1>1, <1>5, <2>3, <2>6, <2>10, <3>1
    <3> QED
      BY <1>5, <2>1, <2>8, <3>2 DEF a, rest, T, B, N
  <2>12. CASE rest # 63
    <3>1. last = rest
      BY <2>3, <2>7, <2>12
    <3>2. T = B + (Padded(rest) - rest)
      BY <2>6, <3>1, Zenon
    <3>3. a + Padded(rest) = T
      BY <1>1, <1>5, <2>3, <2>8, <2>10, <3>2
    <3> QED
      BY <1>5, <2>1, <2>8, <3>3 DEF a, rest, T, B, N
  <2> QED
    BY <2>11, <2>12
<1> QED
  BY <1>1, <1>7, <1>8

(* The length of a frame is the step from where it begins to where the next does. *)
LEMMA FrameLengths ==
    ASSUME message \in Messages, ~SingleFrame, NEW k \in 1 .. FramesNeeded
    PROVE  /\ Begin(k - 1) \in Nat /\ Begin(k) \in Nat /\ Reached(k) \in Nat
           /\ Reached(k - 1) = Begin(k - 1)
           /\ Begin(k - 1) <= Begin(k) /\ Begin(k) <= Reached(k)
           /\ Reached(k) <= Begin(k - 1) + FrameMax - 1
           /\ Reached(k) = Begin(k) \/ Begin(k) = message.bytes
           /\ Padded(Begin(k) - Begin(k - 1) + CrcBytes(Begin(k - 1))) - CrcBytes(Begin(k - 1))
                = Reached(k) - Begin(k - 1)
           /\ Begin(k - 1) = 0 <=> k = 1
           /\ Begin(k) = message.bytes <=> k = FramesNeeded
<1> DEFINE B == message.bytes
           N == FramesNeeded
           a == Begin(k - 1)
           next == Begin(k)
<1>1. B \in Nat
  BY MessageIs
<1>2. /\ N \in 2 .. B /\ Begin(N) = B
      /\ Begin(N - 1) < B /\ B <= Begin(N - 1) + FrameMax - 1
      /\ \A n \in 1 .. N - 1 : Begin(n) = Room(n) - 2 /\ Begin(n) < B
  BY NumberIs
<1>3. /\ Begin(0) = 0
      /\ \A n \in Nat : Begin(n) \in Nat
      /\ \A n \in Nat : n > 0 => Begin(n) > 0 \/ B = 0
  BY BeginIs
<1>4. FrameMax = 8 \/ FrameMax = 64
  BY RoomIs
<1> HIDE DEF N
<1>5. k \in Nat /\ k - 1 \in Nat /\ k - 1 < N /\ k <= N /\ k > 0 /\ N \in Nat
  BY <1>1, <1>2 DEF N
<1>6. a \in Nat /\ next \in Nat /\ Reached(k - 1) = a
  BY <1>3, <1>5 DEF Reached, N
<1>7. a = 0 <=> k = 1
  <2>1. CASE k = 1
    BY <1>3, <2>1
  <2>2. CASE k # 1
    <3>1. k - 1 > 0 /\ B # 0
      BY <1>2, <1>5, <2>2
    <3>2. Begin(k - 1) > 0
      BY <1>3, <1>5, <3>1
    <3> QED
      BY <2>2, <3>2
  <2> QED
    BY <2>1, <2>2
<1>8. CASE k = N
  <2>1. k # 1 /\ next = B /\ a < B
    BY <1>2, <1>8
  <2>2. CrcBytes(a) = 0
    BY <1>7, <2>1 DEF CrcBytes
  <2>3. Reached(k) = calculateCRC.bytes
    BY <1>5, <1>8 DEF Reached, N
  <2>4. a + Padded(B - a) = calculateCRC.bytes /\ Padded(B - a) <= FrameMax - 1
        /\ calculateCRC.bytes \in Nat /\ calculateCRC.bytes >= B
    BY <1>8, LastFrame, CrcIs DEF N
  <2> HIDE DEF a, next, B
  <2>5. B - a \in 0 .. 63 /\ (B - a) + 0 = B - a
    BY <1>1, <1>2, <1>4, <1>6, <1>8, <2>1 DEF a
  <2>6. Padded(B - a) \in Nat
    BY <2>5, PaddedIs
  <2>7. /\ a <= next /\ next <= Reached(k) /\ Reached(k) <= a + FrameMax - 1
        /\ Reached(k) \in Nat
    BY <1>1, <1>4, <1>6, <2>1, <2>3, <2>4, <2>6
  <2>8. Padded(next - a + CrcBytes(a)) - CrcBytes(a) = Reached(k) - a
    <3>1. next - a + CrcBytes(a) = B - a
      BY <2>1, <2>2, <2>5
    <3>2. Padded(next - a + CrcBytes(a)) = Padded(B - a)
      BY <3>1, Zenon
    <3> QED
      BY <1>6, <2>2, <2>3, <2>4, <2>6, <3>2
  <2> QED
    BY <1>6, <1>7, <1>8, <2>1, <2>7, <2>8 DEF a, next, B, N
<1>9. CASE k # N
  <2>1. k \in 1 .. N - 1
    BY <1>2, <1>5, <1>9
  <2>2. next = Room(k) - 2 /\ next < B
    BY <1>2, <2>1
  <2>3. Reached(k) = next
    BY <1>5, <1>9 DEF Reached, N
  <2>4. Room(k) = Room(k - 1) + FrameMax - 1 /\ Room(0) = 0 /\ Room(k - 1) \in Nat
    <3>1. (k - 1) + 1 = k
      BY <1>5
    <3>2. Room((k - 1) + 1) = Room(k - 1) + FrameMax - 1 /\ Room(0) = 0
          /\ Room(k - 1) \in Nat
      BY <1>5, RoomIs
    <3> QED
      BY <3>1, <3>2, Zenon
  <2>5. next - a + CrcBytes(a) = FrameMax - 1 /\ CrcBytes(a) \in 0 .. 2
    <3>1. CASE k = 1
      <4>1. a = 0 /\ CrcBytes(a) = 2 /\ Room(k) = FrameMax - 1
        BY <1>4, <1>7, <2>4, <3>1 DEF CrcBytes
      <4> HIDE DEF a, next
      <4> QED
        BY <1>4, <2>2, <4>1
    <3>2. CASE k # 1
      <4>1. a # 0 /\ CrcBytes(a) = 0
        BY <1>7, <3>2 DEF CrcBytes
      <4>2. a = Room(k - 1) - 2
        <5>1. k - 1 \in 1 .. N - 1
          BY <1>5, <2>1, <3>2
        <5> QED
          BY <1>2, <5>1
      <4> HIDE DEF a, next
      <4> QED
        BY <1>4, <2>2, <2>4, <4>1, <4>2
    <3> QED
      BY <3>1, <3>2
  <2> HIDE DEF a, next, B
  <2>6. Padded(next - a + CrcBytes(a)) = next - a + CrcBytes(a)
    <3>1. next - a + CrcBytes(a) \in 0 .. 63
      BY <1>4, <2>5
    <3> DEFINE m == next - a + CrcBytes(a)
    <3>2. m \in 0 .. 63 /\ (m <= 7 \/ m = 63)
      BY <1>4, <2>5
    <3> HIDE DEF m
    <3>3. Padded(m) = m
      BY <3>2, PaddedIs
    <3> QED
      BY <3>3 DEF m
  <2>7. Padded(next - a + CrcBytes(a)) - CrcBytes(a) = Reached(k) - a
    BY <1>6, <2>3, <2>5, <2>6
  <2>8. a <= next /\ next <= Reached(k) /\ Reached(k) <= a + FrameMax - 1 /\ Reached(k) \in Nat /\ next # B
    BY <1>1, <1>4, <1>6, <2>2, <2>3, <2>5
  <2> QED
    BY <1>6, <1>7, <1>9, <2>3, <2>7, <2>8 DEF a, next, B, N
<1> QED
  BY <1>8, <1>9

LEMMA MultiCarries ==
    ASSUME BufferInv, ~SingleFrame
    PROVE  /\ \E at : Carries(MultiFrames, at, 0)
           /\ Len(MultiFrames) = FramesNeeded
<1> DEFINE B == message.bytes
           N == FramesNeeded
           Last(n) == DataIndex[n] = B /\ DataIndex[n - 1] # B
           number == CHOOSE n \in 1 .. B : Last(n)
           frame(index, next) ==
               Frame(Slice(buffer, index, next - index),
                     Padded(next - index + CrcBytes(index)) - CrcBytes(index),
                     index = 0, next = B, calculateCRC)
           F(k) == frame(Begin(k - 1), Begin(k))
           fr == [k \in 1 .. N |-> F(k)]
           at == [k \in 0 .. N |-> Reached(k)]
<1>1. message \in Messages
  BY DEF BufferInv
<1>2. B \in Nat
  BY <1>1, MessageIs
<1>3. /\ N \in 2 .. B /\ Begin(N) = B /\ Begin(N - 1) < B
      /\ \A n \in 1 .. B : Begin(n) = B /\ Begin(n - 1) # B => n = N
  BY <1>1, NumberIs
<1>4. \A n \in 0 .. B : DataIndex[n] = Begin(n)
  BY <1>1, IndexIs
<1> HIDE DEF N, B
<1>5. \A n \in 1 .. B : n \in 0 .. B /\ n - 1 \in 0 .. B
  BY <1>2
<1>6. Last(N)
  <2>1. N \in 1 .. B /\ Begin(N - 1) # B
    <3>1. N - 1 \in Nat
      BY <1>2, <1>3
    <3>2. Begin(N - 1) \in Nat
      BY <1>1, <3>1, BeginIs
    <3> QED
      BY <1>2, <1>3, <3>2
  <2> QED
    BY <1>3, <1>4, <1>5, <2>1
<1>7. \A n \in 1 .. B : Last(n) => n = N
  BY <1>3, <1>4, <1>5
<1>8. number = N
  <2>1. N \in 1 .. B
    BY <1>2, <1>3
  <2> HIDE DEF Last
  <2> QED
    BY <1>6, <1>7, <2>1
<1>9. MultiFrames = fr
  <2>1. MultiFrames = [k \in 1 .. number |-> frame(DataIndex[k - 1], DataIndex[k])]
    BY Zenon DEF MultiFrames, B
  <2>2. \A k \in 1 .. N : DataIndex[k - 1] = Begin(k - 1) /\ DataIndex[k] = Begin(k)
    BY <1>2, <1>3, <1>4
  <2> HIDE DEF number, frame
  <2>3. \A k \in 1 .. N : frame(DataIndex[k - 1], DataIndex[k]) = F(k)
    BY <2>2, Zenon
  <2> HIDE DEF F
  <2> QED
    BY <1>8, <2>1, <2>3
<1>10. ASSUME NEW k \in 1 .. N
       PROVE  /\ F(k) \in FrameSet /\ FrameAt(F(k), Reached(k - 1), Reached(k))
              /\ F(k).sot <=> Reached(k - 1) = 0
              /\ F(k).eot <=> k = N
              /\ Reached(k - 1) <= Reached(k) /\ Reached(k) - Reached(k - 1) <= MostBytes(message.canfd)
              /\ Reached(k) \in Nat
  <2> DEFINE a == Begin(k - 1)
             next == Begin(k)
             b == Reached(k)
             count == next - a
             sot == a = 0
             eot == next = B
  <2>1. /\ a \in Nat /\ next \in Nat /\ b \in Nat
        /\ Reached(k - 1) = a
        /\ a <= next /\ next <= b
        /\ b <= a + FrameMax - 1
        /\ b = next \/ next = B
        /\ Padded(next - a + CrcBytes(a)) - CrcBytes(a) = b - a
        /\ a = 0 <=> k = 1
        /\ next = B <=> k = N
    BY <1>1, FrameLengths DEF N, B
  <2>2. F(k) = Frame(Slice(buffer, a, count), b - a, sot, eot, calculateCRC)
    BY <2>1, Zenon
  <2>3. FrameMax - 1 = MostBytes(message.canfd) /\ FrameMax \in Int
    <3>1. FrameMax = 8 \/ FrameMax = 64
      BY <1>1, RoomIs
    <3> QED
      BY <1>1, <3>1, FrameMaxIs
  <2>4. (sot \in BOOLEAN) /\ (eot \in BOOLEAN) /\ (sot <=> a = 0) /\ (eot <=> k = N)
    BY <2>1
  <2> HIDE DEF a, next, b, sot, eot, F
  <2>5. count \in Nat /\ a + count = next
    BY <2>1
  <2> HIDE DEF count
  <2>6. a + count <= b /\ (b = a + count \/ a + count = message.bytes)
    BY <2>1, <2>5 DEF B
  <2> DEFINE f == Frame(Slice(buffer, a, count), b - a, sot, eot, calculateCRC)
  <2>7. f \in FrameSet /\ FrameAt(f, a, b) /\ f.sot = sot /\ f.eot = eot
    <3>1. /\ a \in Nat /\ count \in Nat /\ b \in Nat /\ a + count <= b
          /\ b = a + count \/ a + count = message.bytes
          /\ sot \in BOOLEAN /\ eot \in BOOLEAN
      BY <2>1, <2>4, <2>5, <2>6, Zenon
    <3> QED
      BY <3>1, CutOut
  <2> HIDE DEF f
  <2>8. F(k) = f
    BY <2>2 DEF f
  <2>9. b - a <= MostBytes(message.canfd)
    BY <2>1, <2>3
  <2>10. /\ F(k) \in FrameSet /\ FrameAt(F(k), Reached(k - 1), b)
         /\ F(k).sot <=> Reached(k - 1) = 0
         /\ F(k).eot <=> k = N
    BY <2>1, <2>4, <2>7, <2>8, Zenon
  <2>11. Reached(k - 1) <= b /\ b - Reached(k - 1) <= MostBytes(message.canfd) /\ b \in Nat
    BY <2>1, <2>9
  <2> QED
    BY <2>10, <2>11 DEF b
<1> HIDE DEF F
<1>11. N \in Nat /\ N >= 2
  BY <1>2, <1>3
<1>12. fr \in Seq(FrameSet) /\ Len(fr) = N /\ \A k \in 1 .. N : fr[k] = F(k)
  <2>1. \A k \in 1 .. N : F(k) \in FrameSet
    BY <1>10
  <2>2. N \in Nat
    BY <1>11
  <2> QED
    BY <2>1, <2>2
<1>13. /\ \A k \in 1 .. N : at[k] = Reached(k) /\ at[k - 1] = Reached(k - 1)
       /\ at[0] = 0 /\ at[N] = calculateCRC.bytes /\ at[1] > 0
       /\ at \in [0 .. N -> Nat]
  <2>1. Reached(0) = 0
    <3>1. Begin(0) = 0
      BY <1>1, BeginIs
    <3> QED
      BY <1>11, <3>1 DEF Reached, N
  <2>2. Reached(N) = calculateCRC.bytes
    BY <1>11 DEF Reached, N
  <2>3. Reached(1) > 0
    <3>1. Begin(1) \in Nat /\ (Begin(1) > 0 \/ B = 0)
      BY <1>1, BeginIs DEF B
    <3>2. Reached(1) = Begin(1)
      BY <1>11 DEF Reached, N
    <3> QED
      BY <1>2, <1>3, <3>1, <3>2
  <2>4. \A k \in 0 .. N : Reached(k) \in Nat
    BY <1>10, <2>1
  <2>5. \A k \in 0 .. N : at[k] = Reached(k)
    OBVIOUS
  <2>6. \A k \in 1 .. N : k \in 0 .. N /\ k - 1 \in 0 .. N
    BY <1>11
  <2>7. 0 \in 0 .. N /\ 1 \in 0 .. N /\ N \in 0 .. N
    BY <1>11
  <2>8. at \in [0 .. N -> Nat]
    BY <2>4
  <2> HIDE DEF at
  <2> QED
    BY <2>1, <2>2, <2>3, <2>5, <2>6, <2>7, <2>8
<1> HIDE DEF fr, at
<1>14. Carries(fr, at, 0)
  <2>1. ASSUME NEW i \in 1 .. N
        PROVE  /\ at[i - 1] <= at[i] /\ at[i] - at[i - 1] <= MostBytes(message.canfd)
               /\ FrameAt(fr[i], at[i - 1], at[i])
               /\ fr[i].sot <=> at[i - 1] = 0
               /\ fr[i].eot <=> i = N
    <3>1. at[i] = Reached(i) /\ at[i - 1] = Reached(i - 1) /\ fr[i] = F(i)
      BY <1>12, <1>13
    <3> QED
      BY <1>10, <3>1
  <2>2. Len(fr) >= 1 /\ Len(fr) >= 2
    BY <1>11, <1>12
  <2> QED
    BY <1>12, <1>13, <2>1, <2>2 DEF Carries
<1>15. Len(fr) = N
  BY <1>12
<1> QED
  BY <1>9, <1>14, <1>15 DEF N

LEMMA CutCarries ==
    ASSUME BufferInv, message.cut # <<>>
    PROVE  \E at : Carries(CutFrames, at, 0)
<1> DEFINE cut == message.cut
           N == Len(cut)
           F(k) == Frame(Slice(buffer, Total(cut, k - 1), cut[k]), cut[k], k = 1, k = N,
                         calculateCRC)
           fr == [k \in 1 .. N |-> F(k)]
           at == [k \in 0 .. N |-> Total(cut, k)]
<1>1. message \in Messages
  BY DEF BufferInv
<1>2. /\ cut \in Seq(0 .. 7) /\ ~message.canfd /\ N >= 2 /\ cut[1] \in 1 .. 5
      /\ Total(cut, N) = message.bytes
  BY <1>1, MessageIs
<1>3. message.bytes \in Nat /\ calculateCRC.bytes = message.bytes /\ MostBytes(message.canfd) = 7
  <2>1. MostBytes(message.canfd) = 7
    BY <1>2, Zenon DEF MostBytes
  <2> QED
    BY <1>1, <1>2, <2>1, MessageIs, CrcIs
<1> HIDE DEF cut
<1>4. /\ N \in Nat /\ DOMAIN cut = 1 .. N /\ \A k \in 1 .. N : cut[k] \in 0 .. 7
      /\ cut \in [1 .. N -> Nat]
  BY <1>2
<1> HIDE DEF N
<1>5. /\ Total(cut, 0) = 0
      /\ \A n \in 0 .. N : Total(cut, n) \in Nat
      /\ \A k \in 1 .. N : Total(cut, k) = Total(cut, k - 1) + cut[k]
  BY <1>4, TotalSteps
<1>6. \A n \in 0 .. N : n >= 1 => Total(cut, n) > 0
  <2>1. 1 \in 0 .. N /\ 1 \in 1 .. N /\ 1 - 1 = 0
    BY <1>2, <1>4
  <2>2. \A n \in 0 .. N : 1 <= n => Total(cut, 1) <= Total(cut, n)
    BY <1>4, <2>1, TotalGrows
  <2>3. Total(cut, 1) = Total(cut, 0) + cut[1]
    BY <1>5, <2>1
  <2>4. Total(cut, 1) > 0 /\ Total(cut, 1) \in Nat
    BY <1>2, <1>5, <2>3
  <2> QED
    BY <1>5, <2>2, <2>4
<1>7. CutFrames = fr
  <2>1. CutFrames = [k \in DOMAIN cut |->
            Frame(Slice(buffer, Total(cut, k - 1), cut[k]), cut[k], k = 1, k = Len(cut),
                  calculateCRC)]
    BY Zenon DEF CutFrames, cut
  <2> QED
    BY <1>4, <2>1, Zenon DEF N
<1>8. ASSUME NEW k \in 1 .. N
      PROVE  /\ F(k) \in FrameSet /\ FrameAt(F(k), Total(cut, k - 1), Total(cut, k))
             /\ F(k).sot <=> Total(cut, k - 1) = 0
             /\ F(k).eot <=> k = N
             /\ Total(cut, k - 1) <= Total(cut, k)
             /\ Total(cut, k) - Total(cut, k - 1) <= MostBytes(message.canfd)
  <2> DEFINE a == Total(cut, k - 1)
             b == Total(cut, k)
             count == cut[k]
             sot == k = 1
             eot == k = N
  <2>1. k - 1 \in 0 .. N /\ k \in 0 .. N
    BY <1>4
  <2>2. a \in Nat /\ b \in Nat /\ b = a + count /\ count \in 0 .. 7
    BY <1>4, <1>5, <2>1
  <2>3. a = 0 <=> k = 1
    <3>1. CASE k = 1
      BY <1>5, <3>1
    <3>2. CASE k # 1
      <4>1. k - 1 >= 1
        BY <1>4, <3>2
      <4>2. a > 0
        BY <1>6, <2>1, <4>1
      <4> HIDE DEF a
      <4> QED
        BY <2>2, <3>2, <4>2
    <3> QED
      BY <3>1, <3>2
  <2>4. F(k) = Frame(Slice(buffer, a, count), count, sot, eot, calculateCRC)
    BY Zenon
  <2>5. (sot \in BOOLEAN) /\ (eot \in BOOLEAN) /\ (sot <=> a = 0) /\ (eot <=> k = N)
    BY <2>3
  <2> HIDE DEF a, b, count, sot, eot, F
  <2>6. count \in Nat /\ b - a = count /\ a + count <= b
        /\ (b = a + count \/ a + count = message.bytes)
    BY <2>2
  <2> DEFINE f == Frame(Slice(buffer, a, count), b - a, sot, eot, calculateCRC)
  <2>7. f \in FrameSet /\ FrameAt(f, a, b) /\ f.sot = sot /\ f.eot = eot
    BY <2>2, <2>5, <2>6, CutOut
  <2>8. F(k) = f
    BY <2>4, <2>6, Zenon
  <2> HIDE DEF f
  <2>9. a <= b /\ b - a <= 7
    BY <2>2
  <2>10. /\ F(k) \in FrameSet /\ FrameAt(F(k), a, b)
         /\ F(k).sot <=> a = 0
         /\ F(k).eot <=> k = N
    BY <2>5, <2>7, <2>8, Zenon
  <2> QED
    BY <1>3, <2>9, <2>10 DEF a, b
<1> HIDE DEF F
<1>9. fr \in Seq(FrameSet) /\ Len(fr) = N /\ \A k \in 1 .. N : fr[k] = F(k)
  <2>1. \A k \in 1 .. N : F(k) \in FrameSet
    BY <1>8
  <2>2. N \in Nat
    BY <1>4
  <2> QED
    BY <2>1, <2>2
<1>10. /\ \A k \in 1 .. N : at[k] = Total(cut, k) /\ at[k - 1] = Total(cut, k - 1)
       /\ at[0] = 0 /\ at[N] = calculateCRC.bytes /\ at[1] > 0
       /\ at \in [0 .. N -> Nat]
  <2>1. \A k \in 0 .. N : at[k] = Total(cut, k)
    OBVIOUS
  <2>2. \A k \in 1 .. N : k \in 0 .. N /\ k - 1 \in 0 .. N
    BY <1>4
  <2>3. 0 \in 0 .. N /\ 1 \in 0 .. N /\ N \in 0 .. N
    BY <1>2, <1>4
  <2>4. at \in [0 .. N -> Nat]
    BY <1>5
  <2>5. Total(cut, 1) > 0
    BY <1>6, <2>3
  <2>6. Total(cut, N) = calculateCRC.bytes
    BY <1>2, <1>3 DEF N
  <2> HIDE DEF at
  <2> QED
    BY <1>5, <2>1, <2>2, <2>3, <2>4, <2>5, <2>6
<1> HIDE DEF fr, at
<1>11. Carries(fr, at, 0)
  <2>1. ASSUME NEW i \in 1 .. N
        PROVE  /\ at[i - 1] <= at[i] /\ at[i] - at[i - 1] <= MostBytes(message.canfd)
               /\ FrameAt(fr[i], at[i - 1], at[i])
               /\ fr[i].sot <=> at[i - 1] = 0
               /\ fr[i].eot <=> i = N
    <3>1. at[i] = Total(cut, i) /\ at[i - 1] = Total(cut, i - 1) /\ fr[i] = F(i)
      BY <1>9, <1>10
    <3> QED
      BY <1>8, <3>1
  <2>2. Len(fr) >= 1 /\ Len(fr) >= 2 /\ N >= 2
    BY <1>2, <1>4, <1>9 DEF N
  <2> QED
    BY <1>9, <1>10, <2>1, <2>2 DEF Carries
<1> QED
  BY <1>7, <1>11

-----------------------------------------------------------------------------
(* The CRC on its way *)

(* What the receiver has fed to its CRC after so many bytes. *)
FedUpTo(n) == [bits |-> {p \in buffer : p < 8 * n}, bytes |-> n]

LEMMA FedOne ==
    ASSUME buffer \in SUBSET Nat, NEW a \in Nat, NEW b \in Nat, a <= b, NEW f, FrameAt(f, a, b)
    PROVE  Fed(FedUpTo(a), f.bits, f.n) = FedUpTo(b)
<1> DEFINE fed == {p \in buffer : p < 8 * a}
           new == Moved(f.bits, a)
           both == {p \in buffer : p < 8 * b}
<1>1. /\ f.n = b - a /\ f.bits \in SUBSET Nat
      /\ \A x \in Nat : x \in f.bits <=> x < 8 * (b - a) /\ x + 8 * a \in buffer
  BY DEF FrameAt
<1>2. new \in SUBSET Int /\ \A x \in Int : x \in new <=> x - 8 * a \in f.bits
  <2>1. f.bits \in SUBSET Int
    BY <1>1
  <2> QED
    BY <2>1, InMoved
<1> HIDE DEF new
<1>3. ASSUME NEW x \in Int
      PROVE  x \in new <=> 8 * a <= x /\ x < 8 * b /\ x \in buffer
  <2>1. CASE 8 * a <= x
    <3> DEFINE y == x - 8 * a
    <3>1. y \in Nat /\ y + 8 * a = x /\ (y < 8 * (b - a) <=> x < 8 * b)
      BY <2>1
    <3>2. y \in f.bits <=> x < 8 * b /\ x \in buffer
      <4> HIDE DEF y
      <4> QED
        BY <1>1, <3>1
    <3> QED
      BY <1>2, <2>1, <3>2
  <2>2. CASE ~(8 * a <= x)
    <3>1. x - 8 * a \notin Nat
      BY <2>2
    <3> QED
      BY <1>1, <1>2, <2>2, <3>1
  <2> QED
    BY <2>1, <2>2
<1>4. fed \cup new = both
  <2>1. \A x : x \in fed \cup new => x \in Int
    BY <1>2
  <2>2. \A x : x \in both => x \in Int
    OBVIOUS
  <2>3. \A x \in Int : x \in fed \cup new <=> x \in both
    BY <1>3
  <2> HIDE DEF fed, both
  <2> QED
    BY <2>1, <2>2, <2>3
<1> HIDE DEF fed, both
<1>5. FedUpTo(a) = [bits |-> fed, bytes |-> a] /\ FedUpTo(b) = [bits |-> both, bytes |-> b]
  BY Zenon DEF FedUpTo, fed, both
<1>6. a + f.n = b
  BY <1>1
<1>7. Fed(FedUpTo(a), f.bits, f.n) = [bits |-> fed \cup new, bytes |-> a + f.n]
  BY <1>5 DEF Fed, new
<1> QED
  BY <1>4, <1>5, <1>6, <1>7, Zenon

LEMMA FedAll == BufferInv => FedUpTo(calculateCRC.bytes) = calculateCRC
<1> SUFFICES ASSUME BufferInv
             PROVE  FedUpTo(calculateCRC.bytes) = calculateCRC
  OBVIOUS
<1> DEFINE T == calculateCRC.bytes
<1>1. /\ message \in Messages
      /\ buffer \in SUBSET Nat
      /\ \A p \in buffer : p < 8 * message.bytes
  BY DEF BufferInv
<1>2. calculateCRC.bits = buffer /\ T \in Nat /\ T >= message.bytes /\ message.bytes \in Nat
  BY <1>1, CrcIs, MessageIs
<1>3. calculateCRC = [bits |-> buffer, bytes |-> T]
  BY DEF calculateCRC
<1> HIDE DEF T
<1>4. {p \in buffer : p < 8 * T} = buffer
  BY <1>1, <1>2
<1> QED
  BY <1>3, <1>4, Zenon DEF FedUpTo, T

RxFields == {"len", "head", "middle", "tail", "hasTail", "crc", "fed"}
IsRx == rx = [x \in RxFields |-> rx[x]]

EmptyRx ==
    [len |-> 0, head |-> AllOnes(message.head), middle |-> <<>>, tail |-> {},
     hasTail |-> FALSE, crc |-> <<>>, fed |-> [bits |-> {}, bytes |-> 0]]

SingleOnItsWay ==
    /\ SingleFrame /\ message.cut = <<>>
    /\ frames = <<Frame(buffer, Padded(message.bytes), TRUE, TRUE, calculateCRC)>>
    /\ rx.middle = <<>> /\ rx.hasTail = FALSE

ManyOnTheirWay ==
    /\ \E at : Carries(frames, at, rx.len)
    /\ rx.fed = FedUpTo(rx.len)
    /\ rx.len # 0 => rx.crc = calculateCRC
    /\ rx.len = 0 /\ message.cut = <<>> => Len(frames) = FramesNeeded /\ ~SingleFrame

(* While frames are on their way, they carry what is missing, and the CRC has been    *)
(* computed over what has come.                                                *)
TransferInv ==
    /\ BufferInv
    /\ IsRx
    /\ step \in {"encode", "receive", "delivered"}
    /\ step = "encode" => rx = EmptyRx
    /\ step = "receive" => SingleOnItsWay \/ ManyOnTheirWay
    /\ step # "receive" => frames = <<>>

LEMMA SameCrc == UNCHANGED <<message, buffer>> =>
    calculateCRC' = calculateCRC /\ FrameSet' = FrameSet
BY DEF FrameSet, calculateCRC, Padded

LEMMA SendCarries ==
    ASSUME BufferInv, rx = EmptyRx, Send
    PROVE  (SingleOnItsWay \/ ManyOnTheirWay)'
<1>1. frames' = enqueueTxFrames /\ message' = message /\ buffer' = buffer /\ rx' = rx
  BY DEF Send
<1>2. calculateCRC' = calculateCRC /\ FrameSet' = FrameSet
  BY <1>1, SameCrc
<1>3. rx.len = 0 /\ rx.middle = <<>> /\ rx.hasTail = FALSE /\ rx.fed = [bits |-> {}, bytes |-> 0]
  BY DEF EmptyRx
<1>4. SingleFrame' = SingleFrame /\ FramesNeeded' = FramesNeeded
  BY <1>1 DEF SingleFrame, FramesNeeded, FrameMax
<1>5. (rx.fed = FedUpTo(rx.len))'
  <2>1. buffer \in SUBSET Nat
    BY DEF BufferInv
  <2>2. {p \in buffer : p < 8 * 0} = {}
    <3>1. \A p \in buffer : ~(p < 8 * 0)
      BY <2>1
    <3> QED
      BY <3>1, Zenon
  <2>3. FedUpTo(0) = [bits |-> {}, bytes |-> 0]
    BY <2>2, Zenon DEF FedUpTo
  <2>4. rx.fed = FedUpTo(rx.len)
    BY <1>3, <2>3
  <2> QED
    BY <1>1, <2>4 DEF FedUpTo
<1>6. ASSUME NEW at, Carries(frames', at, 0)
      PROVE  Carries(frames, at, rx.len)'
  BY <1>1, <1>2, <1>3, <1>6 DEF Carries, FrameAt
<1>7. CASE message.cut # <<>>
  <2>1. frames' = CutFrames
    BY <1>1, <1>7 DEF enqueueTxFrames
  <2>2. PICK at : Carries(frames', at, 0)
    BY <1>7, <2>1, CutCarries
  <2>3. Carries(frames, at, rx.len)'
    BY <1>6, <2>2
  <2> QED
    BY <1>1, <1>3, <1>5, <1>7, <2>3 DEF ManyOnTheirWay
<1>8. CASE message.cut = <<>> /\ SingleFrame
  <2>1. frames' = <<Frame(buffer, Padded(message.bytes), TRUE, TRUE, calculateCRC)>>
    BY <1>1, <1>8 DEF enqueueTxFrames
  <2>2. Padded(message.bytes)' = Padded(message.bytes)
    BY <1>1 DEF Padded
  <2>3. Frame(buffer, Padded(message.bytes), TRUE, TRUE, calculateCRC)'
          = Frame(buffer, Padded(message.bytes), TRUE, TRUE, calculateCRC)
    BY <1>1, <1>2, <2>2 DEF Frame
  <2> QED
    BY <1>1, <1>3, <1>4, <1>8, <2>1, <2>3 DEF SingleOnItsWay
<1>9. CASE message.cut = <<>> /\ ~SingleFrame
  <2>1. frames' = MultiFrames
    BY <1>1, <1>9 DEF enqueueTxFrames
  <2>2. PICK at : Carries(frames', at, 0)
    BY <1>9, <2>1, MultiCarries
  <2>3. Carries(frames, at, rx.len)'
    BY <1>6, <2>2
  <2>4. Len(frames') = FramesNeeded
    BY <1>9, <2>1, MultiCarries
  <2> QED
    BY <1>1, <1>3, <1>4, <1>5, <1>9, <2>3, <2>4 DEF ManyOnTheirWay
<1> QED
  BY <1>7, <1>8, <1>9

(* The next frame of a multi-frame transfer. *)
LEMMA NextFrame ==
    ASSUME BufferInv, ManyOnTheirWay
    PROVE  /\ Head(frames) \in FrameSet /\ frames # <<>>
           /\ rx.len \in Nat /\ Head(frames).n \in Nat
           /\ Head(frames).n <= MostBytes(message.canfd)
           /\ FrameAt(Head(frames), rx.len, rx.len + Head(frames).n)
           /\ Head(frames).sot <=> rx.len = 0
           /\ Head(frames).sot => ~Head(frames).eot
           /\ Head(frames).eot => rx.len + Head(frames).n = calculateCRC.bytes
           /\ rx.len = 0 => Head(frames).n > 0
<1>1. PICK at : Carries(frames, at, rx.len)
  BY DEF ManyOnTheirWay
<1> DEFINE f == frames[1]
           N == Len(frames)
<1>2. /\ frames \in Seq(FrameSet) /\ N >= 1
      /\ at \in [0 .. N -> Nat] /\ at[0] = rx.len /\ at[N] = calculateCRC.bytes
      /\ \A i \in 1 .. N :
            /\ at[i - 1] <= at[i] /\ at[i] - at[i - 1] <= MostBytes(message.canfd)
            /\ FrameAt(frames[i], at[i - 1], at[i])
            /\ frames[i].sot <=> at[i - 1] = 0
            /\ frames[i].eot <=> i = N
      /\ rx.len = 0 => N >= 2 /\ at[1] > 0
  BY <1>1 DEF Carries
<1>3. N \in Nat /\ Head(frames) = f /\ f \in FrameSet /\ frames # <<>>
  BY <1>2
<1> HIDE DEF N
<1>4. 1 \in 1 .. N /\ 1 - 1 = 0 /\ 0 \in 0 .. N /\ 1 \in 0 .. N
  BY <1>2, <1>3
<1>5. /\ at[0] <= at[1] /\ at[1] - at[0] <= MostBytes(message.canfd)
      /\ FrameAt(f, at[0], at[1])
      /\ f.sot <=> at[0] = 0
      /\ f.eot <=> 1 = N
      /\ at[0] \in Nat /\ at[1] \in Nat
  BY <1>2, <1>4
<1>6. f.n = at[1] - at[0]
  BY <1>5 DEF FrameAt
<1>7. at[0] + f.n = at[1] /\ f.n \in Nat
  BY <1>5, <1>6
<1> HIDE DEF f
<1>8. /\ f.n <= MostBytes(message.canfd)
      /\ FrameAt(f, rx.len, rx.len + f.n) /\ rx.len \in Nat
      /\ f.sot <=> rx.len = 0
      /\ rx.len = 0 => f.n > 0
  BY <1>2, <1>5, <1>6, <1>7
<1>9. f.sot => ~f.eot
  BY <1>2, <1>5
<1>10. f.eot => rx.len + f.n = calculateCRC.bytes
  BY <1>2, <1>5, <1>7
<1> QED
  BY <1>3, <1>7, <1>8, <1>9, <1>10

(* What StoreFrame makes of the receiver. *)
LEMMA FrameStored ==
    ASSUME IsRx, StoreFrame
    PROVE  LET f == Head(frames)
           IN  /\ IsRx'
               /\ rx'.head = WriteBytes(rx.head, rx.len, f.bits, 0, ToHead(f.n))
               /\ rx'.middle = Middle(f.bits, f.n)
               /\ rx'.hasTail = rx.hasTail
               /\ rx'.len = rx.len + f.n
               /\ rx'.crc = IF f.sot THEN f.crc ELSE rx.crc
               /\ rx'.fed = Fed(rx.fed, f.bits, f.n)
<1> DEFINE f == Head(frames)
           b == rx.len + f.n
           head == WriteBytes(rx.head, rx.len, f.bits, 0, ToHead(f.n))
           middle == Middle(f.bits, f.n)
           crc == IF f.sot THEN f.crc ELSE rx.crc
           fed == Fed(rx.fed, f.bits, f.n)
           pushed == [rx EXCEPT !.head = head, !.middle = middle, !.len = b]
<1>1. bufferBlockPushBytes(f.bits, f.n) = pushed
  BY Zenon DEF bufferBlockPushBytes
<1>2. rx' = [bufferBlockPushBytes(f.bits, f.n) EXCEPT
                !.crc = IF f.sot THEN f.crc ELSE @, !.fed = Fed(@, f.bits, f.n)]
  BY Zenon DEF StoreFrame
<1>3. rx' = [pushed EXCEPT !.crc = IF f.sot THEN f.crc ELSE @, !.fed = Fed(@, f.bits, f.n)]
  BY <1>1, <1>2, Zenon
<1> HIDE DEF head, middle, b, f
<1>4. /\ pushed = [x \in RxFields |-> pushed[x]]
      /\ pushed.head = head /\ pushed.middle = middle /\ pushed.hasTail = rx.hasTail
      /\ pushed.len = b /\ pushed.crc = rx.crc /\ pushed.fed = rx.fed
  BY DEF IsRx, RxFields
<1> HIDE DEF pushed
<1>5. rx' = [pushed EXCEPT !.crc = crc, !.fed = fed]
  BY <1>3, <1>4, Zenon
<1> HIDE DEF crc, fed
<1>6. /\ IsRx'
      /\ rx'.head = head /\ rx'.middle = middle /\ rx'.hasTail = rx.hasTail
      /\ rx'.len = b /\ rx'.crc = crc /\ rx'.fed = fed
  BY <1>4, <1>5 DEF IsRx, RxFields
<1> QED
  BY <1>6, Zenon DEF head, middle, crc, fed, b, f

LEMMA StoreCarries ==
    ASSUME BufferInv, IsRx, ManyOnTheirWay, StoreFrame
    PROVE  IsRx' /\ ManyOnTheirWay'
<1> DEFINE f == Head(frames)
           b == rx.len + f.n
<1>1. ~f.eot /\ frames' = Tail(frames) /\ message' = message /\ buffer' = buffer
  BY DEF StoreFrame
<1>2. calculateCRC' = calculateCRC /\ FrameSet' = FrameSet
  BY <1>1, SameCrc
<1>3. /\ IsRx'
      /\ rx'.len = b
      /\ rx'.crc = IF f.sot THEN f.crc ELSE rx.crc
      /\ rx'.fed = Fed(rx.fed, f.bits, f.n)
  BY FrameStored
<1>4. /\ f \in FrameSet /\ rx.len \in Nat /\ f.n \in Nat
      /\ FrameAt(f, rx.len, b)
      /\ f.sot <=> rx.len = 0
      /\ rx.len = 0 => f.n > 0
  BY NextFrame
<1>5. b \in Nat /\ rx.len <= b /\ b # 0
  BY <1>4
<1>6. f.crc = calculateCRC
  BY <1>4 DEF FrameSet
<1>7. rx.fed = FedUpTo(rx.len) /\ (rx.len # 0 => rx.crc = calculateCRC)
  BY DEF ManyOnTheirWay
<1>8. rx'.crc = calculateCRC
  BY <1>3, <1>4, <1>6, <1>7
<1>9. rx'.fed = FedUpTo(b)
  <2>1. buffer \in SUBSET Nat
    BY DEF BufferInv
  <2> HIDE DEF f, b
  <2>2. Fed(FedUpTo(rx.len), f.bits, f.n) = FedUpTo(b)
    BY <1>4, <1>5, <2>1, FedOne
  <2> QED
    BY <1>3, <1>7, <2>2, Zenon
<1>10. (rx.fed = FedUpTo(rx.len))'
  <2>1. FedUpTo(b) = [bits |-> {p \in buffer : p < 8 * b}, bytes |-> b]
    BY Zenon DEF FedUpTo
  <2> QED
    BY <1>1, <1>3, <1>9, <2>1, Zenon DEF FedUpTo
<1>11. PICK at : Carries(frames, at, rx.len)
  BY DEF ManyOnTheirWay
<1> DEFINE N == Len(frames)
           fr == Tail(frames)
           next == [i \in 0 .. N - 1 |-> at[i + 1]]
<1>12. /\ frames \in Seq(FrameSet) /\ N >= 1
       /\ at \in [0 .. N -> Nat] /\ at[0] = rx.len /\ at[N] = calculateCRC.bytes
       /\ \A i \in 1 .. N :
             /\ at[i - 1] <= at[i] /\ at[i] - at[i - 1] <= MostBytes(message.canfd)
             /\ FrameAt(frames[i], at[i - 1], at[i])
             /\ frames[i].sot <=> at[i - 1] = 0
             /\ frames[i].eot <=> i = N
  BY <1>11 DEF Carries
<1>13. f = frames[1] /\ N # 1 /\ N \in Nat
  BY <1>1, <1>12
<1>14. fr \in Seq(FrameSet) /\ Len(fr) = N - 1 /\ \A i \in 1 .. N - 1 : fr[i] = frames[i + 1]
  <2>1. frames # <<>>
    BY <1>12
  <2> QED
    BY <1>12, <1>13, <2>1, HeadTailProperties
<1>15. at[1] = b
  <2>1. 1 \in 1 .. N /\ 1 - 1 = 0 /\ 0 \in 0 .. N /\ 1 \in 0 .. N
    BY <1>12, <1>13
  <2>2. FrameAt(f, at[0], at[1]) /\ at[0] \in Nat /\ at[1] \in Nat
    BY <1>12, <1>13, <2>1
  <2>3. f.n = at[1] - at[0]
    BY <2>2 DEF FrameAt
  <2> HIDE DEF f
  <2> QED
    BY <1>12, <2>2, <2>3
<1> HIDE DEF N, fr, f, b
<1>16. N >= 2
  BY <1>12, <1>13
<1>17. /\ next \in [0 .. N - 1 -> Nat]
       /\ \A i \in 0 .. N - 1 : next[i] = at[i + 1]
  <2>1. \A i \in 0 .. N - 1 : i + 1 \in 0 .. N
    BY <1>13
  <2> QED
    BY <1>12, <2>1
<1> HIDE DEF next
<1>18. next[0] = b /\ next[N - 1] = calculateCRC.bytes
  <2>1. 0 \in 0 .. N - 1 /\ N - 1 \in 0 .. N - 1 /\ 0 + 1 = 1 /\ (N - 1) + 1 = N
    BY <1>13, <1>16
  <2> QED
    BY <1>12, <1>15, <1>17, <2>1
<1>19. ASSUME NEW i \in 1 .. N - 1
       PROVE  /\ next[i - 1] <= next[i] /\ next[i] - next[i - 1] <= MostBytes(message.canfd)
              /\ FrameAt(fr[i], next[i - 1], next[i])
              /\ fr[i].sot <=> next[i - 1] = 0
              /\ fr[i].eot <=> i = N - 1
  <2>1. i + 1 \in 1 .. N /\ (i + 1) - 1 = i /\ i - 1 \in 0 .. N - 1 /\ i \in 0 .. N - 1
        /\ (i - 1) + 1 = i /\ (i = N - 1 <=> i + 1 = N)
    BY <1>13
  <2>2. next[i] = at[i + 1] /\ next[i - 1] = at[i] /\ fr[i] = frames[i + 1]
    BY <1>14, <1>17, <2>1
  <2> DEFINE j == i + 1
  <2>3. j \in 1 .. N /\ j - 1 = i
    BY <2>1
  <2> HIDE DEF j
  <2>4. /\ at[i] <= at[j] /\ at[j] - at[i] <= MostBytes(message.canfd)
        /\ FrameAt(frames[j], at[i], at[j])
        /\ frames[j].sot <=> at[i] = 0
        /\ frames[j].eot <=> j = N
    BY <1>12, <2>3
  <2> QED
    BY <2>1, <2>2, <2>4 DEF j
<1>20. Carries(fr, next, b)
  <2>1. N - 1 >= 1
    BY <1>13, <1>16
  <2> QED
    BY <1>5, <1>14, <1>17, <1>18, <1>19, <2>1 DEF Carries
<1>21. Carries(frames', next, rx'.len)
  BY <1>1, <1>3, <1>20, Zenon DEF fr
<1>22. \E at2 : Carries(frames, at2, rx.len)'
  <2>1. PICK at2 : Carries(frames', at2, rx'.len)
    BY <1>21, Zenon
  <2>2. Carries(frames, at2, rx.len)'
    BY <1>1, <1>2, <2>1 DEF Carries, FrameAt
  <2> QED
    BY <2>2
<1>23. rx'.len # 0
  BY <1>3, <1>5
<1> QED
  BY <1>2, <1>3, <1>8, <1>10, <1>22, <1>23 DEF ManyOnTheirWay

LEMMA TransferStarts == PayloadInit => TransferInv
<1> SUFFICES ASSUME PayloadInit
             PROVE  TransferInv
  OBVIOUS
<1>1. BufferInv
  BY BufferStarts
<1>2. rx = EmptyRx /\ step = "encode" /\ frames = <<>>
  BY Zenon DEF PayloadInit, EmptyRx
<1>3. IsRx
  BY <1>2 DEF EmptyRx, IsRx, RxFields
<1> QED
  BY <1>1, <1>2, <1>3 DEF TransferInv

LEMMA WaySame ==
    ASSUME UNCHANGED <<message, buffer, frames, rx>>
    PROVE  /\ SingleOnItsWay' <=> SingleOnItsWay
           /\ ManyOnTheirWay => ManyOnTheirWay'
           /\ EmptyRx' = EmptyRx
<1>1. calculateCRC' = calculateCRC /\ FrameSet' = FrameSet
  BY SameCrc
<1>2. SingleOnItsWay' <=> SingleOnItsWay
  BY <1>1 DEF SingleOnItsWay, SingleFrame, FrameMax, Frame, Padded
<1>3. ASSUME ManyOnTheirWay
      PROVE  ManyOnTheirWay'
  <2>1. PICK at : Carries(frames, at, rx.len)
    BY <1>3 DEF ManyOnTheirWay
  <2>2. Carries(frames, at, rx.len)'
    BY <1>1, <2>1 DEF Carries, FrameAt
  <2>3. SingleFrame' = SingleFrame /\ FramesNeeded' = FramesNeeded
        /\ FedUpTo(rx.len)' = FedUpTo(rx.len)
    BY DEF SingleFrame, FramesNeeded, FrameMax, FedUpTo
  <2> QED
    BY <1>1, <1>3, <2>2, <2>3 DEF ManyOnTheirWay
<1>4. EmptyRx' = EmptyRx
  BY DEF EmptyRx, AllOnes
<1> QED
  BY <1>2, <1>3, <1>4

(* Only a single-frame transfer has a frame that is the first one and the last one. *)
LEMMA WhichWay ==
    ASSUME TransferInv, step = "receive"
    PROVE  /\ SingleOnItsWay => Head(frames).sot /\ Head(frames).eot
           /\ ManyOnTheirWay => ~(Head(frames).sot /\ Head(frames).eot)
           /\ SingleOnItsWay \/ ManyOnTheirWay
<1>1. SingleOnItsWay => Head(frames).sot /\ Head(frames).eot
  BY DEF SingleOnItsWay, Frame
<1>2. BufferInv /\ (SingleOnItsWay \/ ManyOnTheirWay)
  BY DEF TransferInv
<1> QED
  BY <1>1, <1>2, NextFrame

(* Where the last frame goes. *)
LastOffset(f, at) ==
    IF rx.len < message.head THEN Lesser(message.head - at, f.n)
    ELSE IF rx.middle = <<>> THEN 0
    ELSE Lesser(message.block - at, f.n)
LastAt ==
    IF rx.len < message.head THEN rx.len
    ELSE rx.len - message.head - (Len(rx.middle) - 1) * message.block

LEMMA LastStored ==
    ASSUME IsRx, DeliverMulti
    PROVE  LET f == Head(frames)
               offset == LastOffset(f, LastAt)
           IN  /\ IsRx'
               /\ rx'.head = IF rx.len < message.head
                             THEN WriteBytes(rx.head, LastAt, f.bits, 0, offset) ELSE rx.head
               /\ rx'.middle = IF ~(rx.len < message.head) /\ Len(rx.middle) # 0
                               THEN [rx.middle EXCEPT ![Len(rx.middle)] =
                                        WriteBytes(rx.middle[Len(rx.middle)], LastAt, f.bits,
                                                   0, offset)]
                               ELSE rx.middle
               /\ rx'.tail = Slice(f.bits, offset, f.n - offset)
               /\ rx'.hasTail = (offset < f.n)
               /\ rx'.len = rx.len + f.n
<1> DEFINE f == Head(frames)
           at == LastAt
           offset == LastOffset(f, at)
           inHead == rx.len < message.head
           head == IF inHead THEN WriteBytes(rx.head, at, f.bits, 0, offset) ELSE rx.head
           last == Len(rx.middle)
           filled(array) == WriteBytes(array, at, f.bits, 0, offset)
           middle == IF ~inHead /\ last # 0
                     THEN [rx.middle EXCEPT ![last] = filled(rx.middle[last])]
                     ELSE rx.middle
           tail == Slice(f.bits, offset, f.n - offset)
           hasTail == offset < f.n
           len == rx.len + f.n
           fed == Fed(rx.fed, f.bits, f.n)
<1>1. rx' = [rx EXCEPT !.head = head, !.middle = middle, !.tail = tail, !.hasTail = hasTail,
                       !.len = len, !.fed = fed]
  <2>1. rx' = [rx EXCEPT
                  !.head = IF inHead THEN filled(@) ELSE @,
                  !.middle = IF ~inHead /\ last # 0
                             THEN [@ EXCEPT ![last] = filled(rx.middle[last])]
                             ELSE @,
                  !.tail = tail, !.hasTail = hasTail, !.len = @ + f.n, !.fed = fed]
    BY Zenon DEF DeliverMulti, LastAt, LastOffset
  <2> QED
    BY <2>1, Zenon
<1> HIDE DEF f, at, offset, inHead, head, middle, tail, hasTail, len, fed
<1>2. /\ IsRx'
      /\ rx'.head = head /\ rx'.middle = middle /\ rx'.tail = tail
      /\ rx'.hasTail = hasTail /\ rx'.len = len
  BY <1>1 DEF IsRx, RxFields
<1> QED
  BY <1>2, Zenon DEF f, at, offset, inHead, head, middle, tail, hasTail, len, fed

(* What is compared at the end is what was computed over the whole transfer. *)
LEMMA LastAccepted ==
    ASSUME TransferInv, DeliverMulti
    PROVE  step' = "delivered" /\ IsRx' /\ rx.len + Head(frames).n = calculateCRC.bytes
           /\ ManyOnTheirWay
<1> DEFINE f == Head(frames)
           fed == Fed(rx.fed, f.bits, f.n)
<1>1. step = "receive" /\ ~f.sot /\ f.eot
  BY DEF DeliverMulti
<1>2. BufferInv /\ IsRx /\ ManyOnTheirWay
  BY <1>1, WhichWay DEF TransferInv
<1>3. /\ rx.len \in Nat /\ f.n \in Nat
      /\ FrameAt(f, rx.len, rx.len + f.n)
      /\ f.sot <=> rx.len = 0
      /\ f.eot => rx.len + f.n = calculateCRC.bytes
  BY <1>2, NextFrame
<1>4. rx.fed = FedUpTo(rx.len) /\ rx.crc = calculateCRC
  BY <1>1, <1>2, <1>3 DEF ManyOnTheirWay
<1>5. fed = calculateCRC
  <2> DEFINE b == rx.len + f.n
  <2>1. buffer \in SUBSET Nat
    BY <1>2 DEF BufferInv
  <2>2. b \in Nat /\ rx.len <= b /\ b = calculateCRC.bytes /\ FrameAt(f, rx.len, b)
    BY <1>1, <1>3
  <2>3. FedUpTo(calculateCRC.bytes) = calculateCRC
    BY <1>2, FedAll
  <2> HIDE DEF b, f
  <2>4. Fed(FedUpTo(rx.len), f.bits, f.n) = FedUpTo(b)
    BY <1>3, <2>1, <2>2, FedOne
  <2> QED
    BY <1>4, <2>2, <2>3, <2>4, Zenon
<1>6. step' = IF fed = rx.crc THEN "delivered" ELSE "rejected"
  BY Zenon DEF DeliverMulti
<1>7. step' = "delivered"
  BY <1>4, <1>5, <1>6, Zenon
<1>8. IsRx'
  BY <1>2, LastStored
<1> QED
  BY <1>1, <1>2, <1>3, <1>7, <1>8

LEMMA TransferKept == TransferInv /\ [PayloadNext]_payloadVars => TransferInv'
<1> SUFFICES ASSUME TransferInv, [PayloadNext]_payloadVars
             PROVE  TransferInv'
  OBVIOUS
<1>1. BufferInv /\ BufferInv' /\ IsRx
  BY BufferKept DEF TransferInv
<1>2. CASE Encode
  <2>1. step = "encode" /\ step' = step /\ message' = message /\ frames' = frames /\ rx' = rx
    BY <1>2 DEF Encode
  <2>2. IsRx' /\ rx = EmptyRx /\ EmptyRx' = EmptyRx /\ frames = <<>>
    BY <1>1, <2>1 DEF IsRx, RxFields, TransferInv, EmptyRx, AllOnes
  <2> QED
    BY <1>1, <2>1, <2>2 DEF TransferInv
<1>3. CASE Send
  <2>1. step = "encode" /\ step' = "receive" /\ rx' = rx
    BY <1>3 DEF Send
  <2>2. rx = EmptyRx /\ IsRx'
    BY <1>1, <2>1 DEF IsRx, RxFields, TransferInv
  <2>3. SingleOnItsWay' \/ ManyOnTheirWay'
    BY <1>1, <1>3, <2>2, SendCarries
  <2> QED
    BY <1>1, <2>1, <2>2, <2>3 DEF TransferInv
<1>4. CASE StoreFrame
  <2>1. step = "receive" /\ step' = "receive" /\ ~Head(frames).eot
    BY <1>4 DEF StoreFrame
  <2>2. ManyOnTheirWay
    BY <2>1, WhichWay
  <2>3. IsRx' /\ ManyOnTheirWay'
    BY <1>1, <1>4, <2>2, StoreCarries
  <2> QED
    BY <1>1, <2>1, <2>3 DEF TransferInv
<1>5. CASE DeliverSingle
  <2>1. /\ step' = "delivered" /\ frames' = <<>>
        /\ rx' = [rx EXCEPT !.head = Head(frames).bits, !.len = Head(frames).n]
    BY <1>5 DEF DeliverSingle
  <2>2. IsRx'
    BY <1>1, <2>1 DEF IsRx, RxFields
  <2> QED
    BY <1>1, <2>1, <2>2 DEF TransferInv
<1>6. CASE DeliverMulti
  <2>1. step' = "delivered" /\ IsRx'
    BY <1>6, LastAccepted
  <2>2. frames' = <<>>
    BY <1>6 DEF DeliverMulti
  <2> QED
    BY <1>1, <2>1, <2>2 DEF TransferInv
<1>7. CASE UNCHANGED payloadVars
  <2>1. UNCHANGED <<message, step, encoded, buffer, frames, rx>>
    BY <1>7, Zenon DEF payloadVars
  <2>2. IsRx' <=> IsRx
    BY <2>1, Zenon DEF IsRx
  <2>3. /\ SingleOnItsWay' <=> SingleOnItsWay
        /\ ManyOnTheirWay => ManyOnTheirWay'
        /\ EmptyRx' = EmptyRx
    BY <2>1, WaySame
  <2> QED
    BY <1>1, <2>1, <2>2, <2>3 DEF TransferInv
<1> QED
  BY <1>2, <1>3, <1>4, <1>5, <1>6, <1>7 DEF PayloadNext

(* What arrives undisturbed is accepted (see AcceptedWhole), whoever cut the          *)
(* transfer, and this library cuts it into the frames it had checked the memory for. *)
THEOREM UndisturbedTransfersPass == PayloadSpec => []AcceptedWhole
<1>1. TransferInv => AcceptedWhole
  <2> SUFFICES ASSUME TransferInv
               PROVE  AcceptedWhole
    OBVIOUS
  <2>1. step # "rejected"
    BY DEF TransferInv
  <2>2. ASSUME frames # <<>>, message.cut = <<>>, ~SingleFrame, Head(frames).sot
        PROVE  Len(frames) = FramesNeeded
    <3>1. BufferInv /\ ManyOnTheirWay
      BY <2>2 DEF TransferInv, SingleOnItsWay
    <3>2. rx.len = 0
      BY <2>2, <3>1, NextFrame
    <3> QED
      BY <2>2, <3>1, <3>2 DEF ManyOnTheirWay
  <2> QED
    BY <2>1, <2>2 DEF AcceptedWhole
<1> QED
  BY <1>1, TransferStarts, TransferKept, PTL DEF PayloadSpec

-----------------------------------------------------------------------------
(* The storages *)

LEMMA Products ==
    ASSUME NEW b \in Nat, NEW i \in Int, NEW j \in Int, i < j
    PROVE  (b * i) + b <= b * j
<1>1. j - i - 1 \in Nat
  OBVIOUS
<1>2. b * (j - i - 1) >= 0
  BY <1>1
<1>3. b * (j - i - 1) = (b * j) - (b * i) - b
  OBVIOUS
<1> QED
  BY <1>2, <1>3

Quotient(x, b, q, r) == x = (b * q) + r /\ r < b

LEMMA QuotientIs ==
    ASSUME NEW x \in Int, NEW b \in Nat, NEW q \in Int, NEW r \in Nat, Quotient(x, b, q, r)
    PROVE  x \div b = q /\ x % b = r
<1> DEFINE d == x \div b
           z == x % b
<1>0. x = (b * q) + r /\ r < b /\ b > 0
  BY DEF Quotient
<1>1. d \in Int /\ z \in Nat /\ z < b /\ x = (b * d) + z
  BY <1>0
<1>2. (b * d) + z = (b * q) + r
  BY <1>0, <1>1
<1> HIDE DEF d, z
<1>3. ~(d < q)
  BY <1>0, <1>1, <1>2, Products
<1>4. ~(q < d)
  BY <1>0, <1>1, <1>2, Products
<1>5. d = q
  BY <1>1, <1>3, <1>4
<1>6. z = r
  BY <1>0, <1>1, <1>2, <1>5
<1> QED
  BY <1>5, <1>6 DEF d, z

(* Where a block begins in the payload. *)
Base(j) == message.head + (message.block * (j - 1))

LEMMA BaseIs ==
    ASSUME message \in Messages
    PROVE  /\ Base(1) = message.head
           /\ message.block \in Nat /\ message.block > 0 /\ message.head \in Nat
           /\ \A j \in Nat : Base(j) \in Int /\ Base(j + 1) = Base(j) + message.block
           /\ \A j \in Nat : j > 0 => Base(j) \in Nat /\ message.head <= Base(j)
           /\ \A i, j \in Nat : i < j => Base(i) + message.block <= Base(j)
<1> DEFINE h == message.head
           b == message.block
<1>1. h \in Nat /\ b \in Nat /\ b > MostBytes(message.canfd) /\ message.canfd \in BOOLEAN
  BY MessageIs
<1>2. b > 0
  BY <1>1 DEF MostBytes
<1>3. \A j : Base(j) = h + (b * (j - 1))
  BY Zenon DEF Base
<1> HIDE DEF h, b
<1>4. Base(1) = h
  BY <1>1, <1>3
<1>5. ASSUME NEW j \in Nat
      PROVE  Base(j) \in Int /\ Base(j + 1) = Base(j) + b
  <2>1. (b * (j - 1)) + b = b * ((j + 1) - 1)
    BY <1>1
  <2> QED
    BY <1>1, <1>3, <2>1
<1>6. ASSUME NEW i \in Nat, NEW j \in Nat, i < j
      PROVE  Base(i) + b <= Base(j)
  <2>1. (b * (i - 1)) + b <= b * (j - 1)
    <3>1. i - 1 \in Int /\ j - 1 \in Int /\ i - 1 < j - 1
      BY <1>6
    <3> QED
      BY <1>1, <3>1, Products
  <2> QED
    BY <1>1, <1>3, <2>1
<1>7. ASSUME NEW j \in Nat, j > 0
      PROVE  Base(j) \in Nat /\ h <= Base(j)
  <2>1. CASE j = 1
    BY <1>1, <1>4, <2>1
  <2>2. CASE j # 1
    <3>1. 1 < j /\ 1 \in Nat
      BY <1>7, <2>2
    <3>2. Base(1) + b <= Base(j) /\ Base(j) \in Int
      BY <1>5, <1>6, <3>1
    <3> QED
      BY <1>1, <1>4, <3>2
  <2> QED
    BY <2>1, <2>2
<1> QED
  BY <1>1, <1>2, <1>4, <1>5, <1>6, <1>7 DEF h, b

(* An array holds `cap' bytes of the payload from byte `from' on, as far as byte `len'. *)
Holds(array, from, cap, len) ==
    \A x \in Nat : x < 8 * cap /\ x + 8 * from < 8 * len => (x \in array <=> x + 8 * from \in buffer)

LEMMA HoldsMore ==
    ASSUME NEW array, NEW from \in Nat, NEW cap \in Nat, NEW len \in Nat, NEW more \in Nat,
           Holds(array, from, cap, len), from + cap <= len
    PROVE  Holds(array, from, cap, more)
BY DEF Holds

LEMMA HoldsNothing ==
    ASSUME NEW array, NEW from \in Nat, NEW cap \in Nat, NEW len \in Nat, len <= from
    PROVE  Holds(array, from, cap, len)
BY DEF Holds

LEMMA WriteIs ==
    ASSUME NEW array \in SUBSET Nat, NEW at \in Nat, NEW data \in SUBSET Nat,
           NEW from \in Nat, NEW count \in Nat
    PROVE  /\ WriteBytes(array, at, data, from, count) \in SUBSET Nat
           /\ \A x \in Nat : x \in WriteBytes(array, at, data, from, count)
                <=> IF 8 * at <= x /\ x < 8 * (at + count)
                    THEN x - 8 * at + 8 * from \in data ELSE x \in array
<1> DEFINE part == Slice(data, from, count)
           new == Moved(part, at)
           W == WriteBytes(array, at, data, from, count)
<1>1. part \in SUBSET Int
      /\ \A x \in Int : x \in part <=> 0 <= x /\ x < 8 * count /\ x + 8 * from \in data
  <2>1. data \in SUBSET Int
    OBVIOUS
  <2> QED
    BY <2>1, InSlice
<1> HIDE DEF part
<1>2. new \in SUBSET Int /\ \A x \in Int : x \in new <=> x - 8 * at \in part
  BY <1>1, InMoved
<1>3. W = (array \ (8 * at .. 8 * (at + count) - 1)) \cup new
  BY Zenon DEF WriteBytes, part
<1> HIDE DEF new, W
<1>4. ASSUME NEW x \in Int
      PROVE  x \in new <=> 8 * at <= x /\ x < 8 * (at + count) /\ x - 8 * at + 8 * from \in data
  <2> DEFINE y == x - 8 * at
  <2>1. y \in Int
    OBVIOUS
  <2>2. x \in new <=> 0 <= y /\ y < 8 * count /\ y + 8 * from \in data
    <3>1. x \in new <=> y \in part
      BY <1>2
    <3> HIDE DEF y
    <3> QED
      BY <1>1, <2>1, <3>1
  <2>3. 0 <= y /\ y < 8 * count <=> 8 * at <= x /\ x < 8 * (at + count)
    OBVIOUS
  <2> HIDE DEF y
  <2>4. x \in new <=> 8 * at <= x /\ x < 8 * (at + count) /\ y + 8 * from \in data
    BY <2>2, <2>3
  <2> QED
    BY <2>4 DEF y
<1>5. \A x \in Int : x \in new => x \in Nat
  BY <1>4
<1>6. W \in SUBSET Nat
  BY <1>2, <1>3, <1>5
<1>7. \A x \in Nat : x \in 8 * at .. 8 * (at + count) - 1 <=> 8 * at <= x /\ x < 8 * (at + count)
  OBVIOUS
<1>8. ASSUME NEW x \in Nat
      PROVE  x \in W <=> IF 8 * at <= x /\ x < 8 * (at + count)
                         THEN x - 8 * at + 8 * from \in data ELSE x \in array
  <2>1. x \in W <=> (x \in array /\ x \notin 8 * at .. 8 * (at + count) - 1) \/ x \in new
    BY <1>3
  <2>2. x \in new <=> 8 * at <= x /\ x < 8 * (at + count) /\ x - 8 * at + 8 * from \in data
    BY <1>4
  <2>3. x \in 8 * at .. 8 * (at + count) - 1 <=> 8 * at <= x /\ x < 8 * (at + count)
    BY <1>7
  <2> QED
    BY <2>1, <2>2, <2>3, Zenon
<1> QED
  BY <1>6, <1>8 DEF W

(* Bytes of the next frame, written where they belong. *)
Meets(base, at, L, from) == base + at = L + from

LEMMA WriteHolds ==
    ASSUME buffer \in SUBSET Nat,
           NEW array \in SUBSET Nat, NEW base \in Nat, NEW cap \in Nat,
           NEW L \in Nat, NEW b \in Nat, NEW n \in Nat, Adjacent(L, n, b),
           NEW f, FrameAt(f, L, b), Holds(array, base, cap, L),
           NEW at \in Nat, NEW from \in Nat, NEW count \in Nat,
           Meets(base, at, L, from), from + count <= n, at = 0 \/ from = 0,
           from + count = n \/ at + count >= cap
    PROVE  /\ WriteBytes(array, at, f.bits, from, count) \in SUBSET Nat
           /\ Holds(WriteBytes(array, at, f.bits, from, count), base, cap, b)
<1> DEFINE data == f.bits
           W == WriteBytes(array, at, data, from, count)
<1>0. b = L + n /\ base + at = L + from
  BY DEF Adjacent, Meets
<1>1. /\ data \in SUBSET Nat
      /\ \A x \in Nat : x \in data <=> x < 8 * (b - L) /\ x + 8 * L \in buffer
  BY DEF FrameAt
<1> HIDE DEF data
<1>2. /\ W \in SUBSET Nat
      /\ \A x \in Nat : x \in W
           <=> IF 8 * at <= x /\ x < 8 * (at + count)
               THEN x - 8 * at + 8 * from \in data ELSE x \in array
  BY <1>1, WriteIs
<1> HIDE DEF W
<1>3. ASSUME NEW x \in Nat, x < 8 * cap, x + 8 * base < 8 * b
      PROVE  x \in W <=> x + 8 * base \in buffer
  <2>1. CASE x < 8 * at
    <3>1. from = 0 /\ base + at = L
      BY <1>0, <2>1
    <3>2. x + 8 * base < 8 * L
      BY <2>1, <3>1
    <3>3. x \in array <=> x + 8 * base \in buffer
      BY <1>3, <3>2 DEF Holds
    <3> QED
      BY <1>2, <2>1, <3>3
  <2>2. CASE 8 * at <= x /\ x < 8 * (at + count)
    <3> DEFINE y == x - 8 * at + 8 * from
    <3>1. y \in Nat /\ y < 8 * (b - L) /\ y + 8 * L = x + 8 * base
      BY <1>0, <2>2
    <3>2. x \in W <=> y \in data
      BY <1>2, <2>2
    <3> HIDE DEF y
    <3>3. y \in data <=> y + 8 * L \in buffer
      BY <1>1, <3>1
    <3> QED
      BY <3>1, <3>2, <3>3, Zenon
  <2>3. CASE x >= 8 * (at + count)
    <3>1. CASE from + count = n
      <4>1. base + at + count = b
        BY <1>0, <3>1
      <4> QED
        BY <1>3, <2>3, <4>1
    <3>2. CASE at + count >= cap
      BY <1>3, <2>3, <3>2
    <3> QED
      BY <3>1, <3>2
  <2> QED
    BY <2>1, <2>2, <2>3
<1>4. Holds(W, base, cap, b)
  BY <1>3 DEF Holds
<1> QED
  BY <1>2, <1>4 DEF W, data

(* The blocks hold the payload behind the head as far as byte `len'. *)
BlocksHold(middle, len) ==
    /\ middle \in Seq(SUBSET Nat)
    /\ Len(middle) = 0 => len <= message.head
    /\ Len(middle) > 0 => Base(Len(middle)) <= len /\ len <= Base(Len(middle) + 1)
    /\ \A j \in 1 .. Len(middle) : Holds(middle[j], Base(j), message.block, len)

LEMMA GarbageIs ==
    ASSUME message \in Messages
    PROVE  Garbage \in SUBSET Nat
<1>1. message.block \in Nat
  BY MessageIs
<1> QED
  BY <1>1 DEF Garbage, AllOnes

LEMMA FillHolds ==
    ASSUME message \in Messages, buffer \in SUBSET Nat,
           NEW blocks \in Seq(SUBSET Nat), NEW k \in Nat, k = Len(blocks), k >= 1,
           NEW L \in Nat, NEW b \in Nat, NEW n \in Nat, Adjacent(L, n, b), n < message.block,
           NEW f, FrameAt(f, L, b),
           \A j \in 1 .. k - 1 : Holds(blocks[j], Base(j), message.block, b),
           Holds(blocks[k], Base(k), message.block, L),
           NEW at \in Nat, NEW done \in Nat,
           Meets(Base(k), at, L, done), at = 0 \/ done = 0, at <= message.block, done <= n
    PROVE  BlocksHold(FillBlocks(blocks, at, f.bits, done, n), b)
<1> DEFINE block == message.block
           count == Lesser(block - at, n - done)
           last == WriteBytes(blocks[k], at, f.bits, done, count)
           filled == [blocks EXCEPT ![k] = last]
           from == done + count
           rest == n - done - count
           new == WriteBytes(Garbage, 0, f.bits, from, rest)
           R == FillBlocks(blocks, at, f.bits, done, n)
           K == k + 1
           base == Base(k)
           Q == Base(K)
<1>1. /\ block \in Nat /\ block > 0
      /\ base \in Nat /\ Q = base + block /\ Q \in Nat /\ Base(K + 1) = Q + block
  <2>1. K \in Nat /\ K > 0 /\ k > 0
    OBVIOUS
  <2> HIDE DEF K
  <2>2. /\ block \in Nat /\ block > 0
        /\ Base(k) \in Nat /\ Base(k + 1) = Base(k) + block /\ Base(K) \in Nat
        /\ Base(K + 1) = Base(K) + block
    BY <2>1, BaseIs
  <2> QED
    BY <2>2, Zenon DEF K
<1>2. R = IF from = n THEN filled ELSE Append(filled, new)
  BY Zenon DEF FillBlocks
<1>3. b = L + n /\ base + at = L + done /\ Meets(base, at, L, done)
  BY DEF Adjacent, Meets
<1>4. K = k + 1 /\ K \in Nat /\ block = message.block
  OBVIOUS
<1>13. at <= block /\ n < block
  OBVIOUS
<1> HIDE DEF R, K, base, Q, block
<1>5. count \in Nat /\ count <= block - at /\ count <= n - done
      /\ (count = block - at \/ count = n - done)
  <2> HIDE DEF count
  <2>1. block - at \in Int /\ n - done \in Int /\ block - at >= 0
    <3>1. block - at \in Int /\ block - at >= 0
      BY <1>1, <1>13
    <3> QED
      BY <3>1
  <2>2. count \in {block - at, n - done} /\ count <= block - at /\ count <= n - done
    BY <2>1, LesserIs DEF count
  <2> QED
    BY <2>1, <2>2
<1> HIDE DEF count
<1>6. from \in Nat /\ rest \in Int /\ from + rest = n /\ from = done + count
      /\ rest = n - done - count
  BY <1>5
<1>7. blocks[k] \in SUBSET Nat /\ DOMAIN blocks = 1 .. k
  OBVIOUS
<1>8. last \in SUBSET Nat /\ Holds(last, base, block, b)
  <2> DEFINE array == blocks[k]
  <2>1. array \in SUBSET Nat /\ Holds(array, base, block, L)
    BY <1>4, <1>7 DEF base
  <2>2. done + count <= n /\ (done + count = n \/ at + count >= block)
    BY <1>1, <1>5
  <2> HIDE DEF array
  <2>3. /\ WriteBytes(array, at, f.bits, done, count) \in SUBSET Nat
        /\ Holds(WriteBytes(array, at, f.bits, done, count), base, block, b)
    BY <1>1, <1>3, <1>5, <2>1, <2>2, WriteHolds
  <2> QED
    BY <2>3 DEF array
<1> HIDE DEF last, from, rest
<1>9. /\ filled \in Seq(SUBSET Nat) /\ Len(filled) = k
      /\ filled[k] = last /\ \A j \in 1 .. k - 1 : filled[j] = blocks[j]
  BY <1>7, <1>8
<1> HIDE DEF filled
<1>10. ASSUME NEW j \in 1 .. k
       PROVE  Holds(filled[j], Base(j), message.block, b)
  <2>1. CASE j = k
    BY <1>4, <1>8, <1>9, <2>1 DEF base
  <2>2. CASE j # k
    <3>1. j \in 1 .. k - 1
      BY <2>2
    <3> QED
      BY <1>9, <3>1
  <2> QED
    BY <2>1, <2>2
<1>11. CASE from = n
  <2>1. R = filled
    BY <1>2, <1>11, Zenon
  <2>2. base <= b /\ b <= Q
    BY <1>1, <1>3, <1>5, <1>6, <1>11
  <2>3. Len(R) = k /\ R \in Seq(SUBSET Nat) /\ Len(R) # 0
    BY <1>9, <2>1
  <2>4. Base(Len(R)) <= b /\ b <= Base(Len(R) + 1)
    BY <1>4, <2>2, <2>3 DEF base, Q
  <2>5. \A j \in 1 .. Len(R) : Holds(R[j], Base(j), message.block, b)
    BY <1>10, <2>1, <2>3
  <2>6. BlocksHold(R, b)
    BY <2>3, <2>4, <2>5, Zenon DEF BlocksHold
  <2> QED
    BY <2>6 DEF R
<1>12. CASE from # n
  <2>1. R = Append(filled, new)
    BY <1>2, <1>12, Zenon
  <2>2. /\ rest \in Nat /\ Q = L + from /\ count = block - at /\ rest <= n /\ L <= Q
        /\ rest < block
    <3>1. rest \in Nat /\ rest # 0 /\ rest <= n
      BY <1>5, <1>6, <1>12
    <3>2. count = block - at
      BY <1>1, <1>5, <1>6, <1>12
    <3>3. Q = L + from /\ L <= Q
      BY <1>1, <1>3, <1>5, <1>6, <3>2
    <3>4. rest < block
      BY <1>1, <1>13, <3>1
    <3> QED
      BY <3>1, <3>2, <3>3, <3>4
  <2>3. new \in SUBSET Nat /\ Holds(new, Q, block, b)
    <3>1. Garbage \in SUBSET Nat
      BY GarbageIs
    <3>2. Meets(Q, 0, L, from)
      BY <1>1, <1>6, <2>2 DEF Meets
    <3>3. Holds(Garbage, Q, block, L)
      BY <1>1, <2>2, HoldsNothing
    <3>4. from + rest <= n /\ (from + rest = n \/ 0 + rest >= block) /\ 0 \in Nat
      BY <1>6, <2>2
    <3>5. /\ WriteBytes(Garbage, 0, f.bits, from, rest) \in SUBSET Nat
          /\ Holds(WriteBytes(Garbage, 0, f.bits, from, rest), Q, block, b)
      BY <1>1, <1>6, <2>2, <3>1, <3>2, <3>3, <3>4, WriteHolds
    <3> QED
      BY <3>5
  <2> HIDE DEF new
  <2>4. /\ R \in Seq(SUBSET Nat) /\ Len(R) = K /\ R[K] = new
        /\ \A j \in 1 .. k : R[j] = filled[j]
    <3>1. k \in 1 .. k /\ \A j \in 1 .. k : j \in 1 .. Len(filled)
      BY <1>9
    <3>2. /\ R \in Seq(SUBSET Nat) /\ Len(R) = Len(filled) + 1 /\ R[Len(filled) + 1] = new
          /\ \A j \in 1 .. Len(filled) : R[j] = filled[j]
      BY <1>9, <2>1, <2>3, AppendProperties
    <3> QED
      BY <1>4, <1>9, <3>1, <3>2, Zenon
  <2>5. Q <= b /\ b <= Base(K + 1)
    BY <1>1, <1>3, <1>5, <1>6, <2>2
  <2>6. ASSUME NEW j \in 1 .. K
        PROVE  Holds(R[j], Base(j), message.block, b)
    <3>1. CASE j = K
      BY <1>4, <2>3, <2>4, <3>1 DEF Q
    <3>2. CASE j # K
      <4>1. j \in 1 .. k
        BY <1>4, <3>2
      <4> QED
        BY <1>10, <2>4, <4>1
    <3> QED
      BY <3>1, <3>2
  <2>7. Len(R) # 0
    BY <1>4, <2>4
  <2>8. \A j \in 1 .. Len(R) : Holds(R[j], Base(j), message.block, b)
    BY <2>4, <2>6
  <2>9. Base(Len(R)) <= b /\ b <= Base(Len(R) + 1)
    BY <2>4, <2>5, Zenon DEF Q
  <2>10. BlocksHold(R, b)
    BY <2>4, <2>7, <2>8, <2>9, Zenon DEF BlocksHold
  <2> QED
    BY <2>10 DEF R
<1> QED
  BY <1>11, <1>12

(* bufferBlockPushBytes, whole: the frame's bytes go where they belong. *)
LEMMA PushHolds ==
    ASSUME message \in Messages, buffer \in SUBSET Nat, rx.len \in Nat,
           NEW b \in Nat, NEW n \in Nat, Adjacent(rx.len, n, b),
           n <= MostBytes(message.canfd),
           NEW f, FrameAt(f, rx.len, b),
           BlocksHold(rx.middle, rx.len)
    PROVE  BlocksHold(Middle(f.bits, n), b)
<1> DEFINE L == rx.len
           head == message.head
           block == message.block
           m == Len(rx.middle)
           at == (L - head) % block
           done == ToHead(n)
           data == f.bits
           R == Middle(data, n)
           M == m + 1
           low == block * (m - 1)
           high == block * m
<1>1. /\ Base(1) = head /\ block \in Nat /\ block > 0 /\ head \in Nat
      /\ n < block
  <2>1. block > MostBytes(message.canfd) /\ message.canfd \in BOOLEAN
    BY MessageIs
  <2>2. MostBytes(message.canfd) \in Nat
    BY <2>1 DEF MostBytes
  <2>3. Base(1) = head /\ block \in Nat /\ block > 0 /\ head \in Nat
    BY BaseIs
  <2> QED
    BY <2>1, <2>2, <2>3
<1>2. /\ rx.middle \in Seq(SUBSET Nat) /\ m \in Nat
      /\ m = 0 => L <= head
      /\ m > 0 => Base(m) <= L /\ L <= Base(M)
      /\ \A j \in 1 .. m : Holds(rx.middle[j], Base(j), block, L)
  BY DEF BlocksHold
<1>3. rx.middle = <<>> <=> m = 0
  BY <1>2
<1>4. m = Len(rx.middle) /\ M = m + 1 /\ block = message.block /\ head = message.head
      /\ (m + 1) - 1 = m
  BY <1>2
<1> HIDE DEF block, head
<1>5. low \in Int /\ high \in Int
  BY <1>1, <1>2
<1>6. NeedsBlock(n) <=> (L + n - head) \div block + 1 > m /\ (L - head) % block = 0
  BY Zenon DEF NeedsBlock, block, head
<1>7. done = IF L < head THEN Lesser(head - L, n) ELSE 0
  BY Zenon DEF ToHead, head
<1>8. R = IF L # head /\ done = n THEN rx.middle
          ELSE IF rx.middle = <<>> THEN FillBlocks(<<Garbage>>, 0, data, done, n)
          ELSE IF NeedsBlock(n) THEN FillBlocks(Append(rx.middle, Garbage), at, data, done, n)
          ELSE FillBlocks(rx.middle, at, data, done, n)
  BY Zenon DEF Middle, head, block
<1>9. Base(m) = head + low /\ Base(M) = head + high
  BY <1>4, Zenon DEF Base, block, head
<1> HIDE DEF m, M, R, data, done, L, at, low, high
<1>10. /\ M \in Nat /\ M > 0 /\ Base(M) \in Nat
       /\ Base(m) \in Int /\ Base(M) = Base(m) + block
       /\ m > 0 => Base(m) \in Nat /\ head <= Base(m)
  <2>1. M \in Nat /\ M > 0
    BY <1>2, <1>4
  <2>2. /\ Base(M) \in Nat
        /\ Base(m) \in Int /\ Base(m + 1) = Base(m) + block
        /\ m > 0 => Base(m) \in Nat /\ head <= Base(m)
    BY <1>2, <1>4, <2>1, BaseIs
  <2> QED
    BY <1>4, <2>1, <2>2
<1>11. L \in Nat /\ b = L + n /\ FrameAt(f, L, b) /\ data = f.bits /\ Adjacent(L, n, b)
  BY DEF L, data, Adjacent
<1>12. ASSUME NEW j \in 1 .. m, j < m \/ L = Base(M)
       PROVE  Holds(rx.middle[j], Base(j), message.block, b)
  <2>1. j \in Nat /\ j > 0 /\ m > 0
    BY <1>2
  <2>2. Base(j) \in Nat
    BY <2>1, BaseIs
  <2>3. Base(j) + block <= L
    <3>1. CASE j < m
      <4>1. Base(j) + block <= Base(m)
        BY <1>2, <1>4, <2>1, <3>1, BaseIs
      <4> QED
        <5>1. Base(m) <= L /\ Base(m) \in Nat /\ L \in Nat
          BY <1>2, <1>10, <1>11, <2>1, Zenon
        <5> QED
          BY <1>1, <2>2, <4>1, <5>1
    <3>2. CASE ~(j < m)
      <4>1. j = m /\ L = Base(M)
        BY <1>2, <1>12, <3>2
      <4> QED
        BY <1>1, <1>10, <1>11, <2>2, <4>1
    <3> QED
      BY <3>1, <3>2
  <2>4. Holds(rx.middle[j], Base(j), block, L)
    BY <1>2
  <2>5. Holds(rx.middle[j], Base(j), block, b)
    BY <1>1, <1>11, <2>2, <2>3, <2>4, HoldsMore
  <2> QED
    BY <1>4, <2>5
<1>13. Garbage \in SUBSET Nat
  BY GarbageIs
<1>14. ASSUME NEW k \in Nat, k >= 1, NEW blocks \in Seq(SUBSET Nat), k = Len(blocks),
              NEW start \in Nat, start <= block, done \in Nat, done <= n,
              start = 0 \/ done = 0, Meets(Base(k), start, L, done),
              R = FillBlocks(blocks, start, data, done, n),
              Holds(blocks[k], Base(k), message.block, L),
              \A j \in 1 .. k - 1 : Holds(blocks[j], Base(j), message.block, b)
       PROVE  BlocksHold(R, b)
  <2>1. n < message.block /\ start <= message.block
    BY <1>1, <1>4, <1>14
  <2>2. BlocksHold(FillBlocks(blocks, start, f.bits, done, n), b)
    BY <1>11, <1>14, <2>1, FillHolds
  <2> QED
    BY <1>11, <1>14, <2>2, Zenon
<1>15. ASSUME m = 0, L <= head, done \in Nat, done <= n, L + done = head,
              R = FillBlocks(<<Garbage>>, 0, data, done, n)
       PROVE  BlocksHold(R, b)
  <2> DEFINE blocks == <<Garbage>>
  <2>1. blocks \in Seq(SUBSET Nat) /\ 1 = Len(blocks) /\ blocks[1] = Garbage
    BY <1>13
  <2>2. R = FillBlocks(blocks, 0, data, done, n)
    BY <1>15, Zenon
  <2> HIDE DEF blocks
  <2>3. Holds(blocks[1], Base(1), message.block, L)
    BY <1>1, <1>4, <1>11, <1>15, <2>1, HoldsNothing
  <2>4. Meets(Base(1), 0, L, done)
    BY <1>1, <1>15 DEF Meets
  <2>5. \A j \in 1 .. 1 - 1 : Holds(blocks[j], Base(j), message.block, b)
    OBVIOUS
  <2>6. 1 \in Nat /\ 1 >= 1 /\ 0 \in Nat /\ 0 <= block
    BY <1>1
  <2> QED
    BY <1>14, <1>15, <2>1, <2>2, <2>3, <2>4, <2>5, <2>6
<1>16. CASE L < head
  <2>1. m = 0
    <3>1. m > 0 => head <= Base(m) /\ Base(m) <= L /\ Base(m) \in Nat
      BY <1>2, <1>10, Zenon
    <3>2. head \in Nat /\ L \in Nat /\ m \in Nat
      BY <1>1, <1>2, <1>11, Zenon
    <3> QED
      BY <1>16, <3>1, <3>2
  <2>2. done \in Nat /\ done <= n /\ (done = n \/ done = head - L) /\ done <= head - L
    <3>1. done = Lesser(head - L, n)
      BY <1>7, <1>16
    <3>2. head - L \in Int /\ n \in Int
      BY <1>1, <1>11
    <3>3. done \in {head - L, n} /\ done <= head - L /\ done <= n
      BY <3>1, <3>2, LesserIs
    <3> QED
      BY <1>1, <1>11, <1>16, <3>3
  <2>3. CASE done = n
    <3>4. L # head
      BY <1>1, <1>11, <1>16
    <3>1. R = rx.middle
      BY <1>8, <2>3, <3>4, Zenon
    <3>2. b <= message.head /\ Len(rx.middle) = 0
      BY <1>1, <1>4, <1>11, <2>1, <2>2, <2>3
    <3>3. BlocksHold(rx.middle, b)
      BY <1>2, <3>2 DEF BlocksHold
    <3> QED
      BY <3>1, <3>3, Zenon DEF R, data
  <2>4. CASE done # n
    <3>1. R = FillBlocks(<<Garbage>>, 0, data, done, n)
      BY <1>3, <1>8, <2>1, <2>4, Zenon
    <3>2. L <= head /\ L + done = head
      BY <1>1, <1>11, <1>16, <2>2, <2>4
    <3>3. BlocksHold(R, b)
      BY <1>15, <2>1, <2>2, <3>1, <3>2
    <3> QED
      BY <3>3 DEF R, data
  <2> QED
    BY <2>3, <2>4
<1>17. CASE ~(L < head)
  <2>1. done = 0
    BY <1>7, <1>17
  <2>4. CASE L # head /\ done = n
    <3>1. R = rx.middle
      BY <1>8, <2>4, Zenon
    <3>2. b = L
      BY <1>11, <2>1, <2>4
    <3>3. BlocksHold(rx.middle, b)
      BY <3>2 DEF L
    <3> QED
      BY <3>1, <3>3, Zenon DEF R, data
  <2>2. CASE m = 0 /\ ~(L # head /\ done = n)
    <3>1. L <= head /\ L + done = head /\ done \in Nat /\ done <= n
      BY <1>1, <1>2, <1>11, <1>17, <2>1, <2>2
    <3>2. R = FillBlocks(<<Garbage>>, 0, data, done, n)
      BY <1>3, <1>8, <2>2, Zenon
    <3>3. BlocksHold(R, b)
      BY <1>15, <2>2, <3>1, <3>2
    <3> QED
      BY <3>3 DEF R, data
  <2>3. CASE m # 0 /\ ~(L # head /\ done = n)
    <3>1. m > 0 /\ Base(m) <= L /\ L <= Base(M) /\ Base(m) \in Nat /\ head <= Base(m)
      BY <1>2, <1>10, <2>3
    <3>2. R = IF NeedsBlock(n) THEN FillBlocks(Append(rx.middle, Garbage), at, data, done, n)
              ELSE FillBlocks(rx.middle, at, data, done, n)
      BY <1>3, <1>8, <2>3, Zenon
    <3>3. CASE L = Base(M)
      <4>1. L - head = high + 0 /\ L + n - head = high + n
        BY <1>1, <1>5, <1>9, <1>11, <3>3
      <4>2. at = 0
        <5>1. Quotient(L - head, block, m, 0)
          BY <1>1, <4>1 DEF Quotient, high
        <5>2. L - head \in Int /\ 0 \in Nat /\ m \in Int
          BY <1>1, <1>2, <1>11
        <5> QED
          BY <1>1, <5>1, <5>2, QuotientIs DEF at
      <4>3. (L + n - head) \div block = m
        <5>1. Quotient(L + n - head, block, m, n)
          BY <1>1, <4>1 DEF Quotient, high
        <5>2. L + n - head \in Int /\ m \in Int
          BY <1>1, <1>2, <1>11
        <5> QED
          BY <1>1, <5>1, <5>2, QuotientIs
      <4>4. NeedsBlock(n)
        BY <1>2, <1>6, <4>2, <4>3 DEF at
      <4> DEFINE blocks == Append(rx.middle, Garbage)
      <4>5. R = FillBlocks(blocks, 0, data, done, n)
        BY <3>2, <4>2, <4>4, Zenon
      <4>6. blocks \in Seq(SUBSET Nat) /\ M = Len(blocks) /\ blocks[M] = Garbage
            /\ \A j \in 1 .. m : blocks[j] = rx.middle[j]
        BY <1>2, <1>4, <1>13
      <4> HIDE DEF blocks
      <4>7. Holds(blocks[M], Base(M), message.block, L)
        BY <1>1, <1>4, <1>10, <1>11, <3>3, <4>6, HoldsNothing
      <4>8. \A j \in 1 .. M - 1 : Holds(blocks[j], Base(j), message.block, b)
        <5>1. M - 1 = m
          BY <1>2, <1>4
        <5> QED
          BY <1>12, <3>3, <4>6, <5>1
      <4>9. Meets(Base(M), 0, L, done)
        BY <1>10, <1>11, <2>1, <3>3 DEF Meets
      <4>10. 0 \in Nat /\ M >= 1 /\ 0 <= block /\ done \in Nat /\ done <= n
        BY <1>1, <1>10, <2>1
      <4>11. BlocksHold(R, b)
        BY <1>10, <1>14, <4>5, <4>6, <4>7, <4>8, <4>9, <4>10
      <4> QED
        BY <4>11 DEF R, data
    <3>4. CASE L # Base(M)
      <4> DEFINE r == L - Base(m)
      <4>1. r \in Nat /\ r < block /\ L - head = low + r /\ L + n - head = low + r + n
            /\ Base(m) + r = L
        BY <1>1, <1>5, <1>9, <1>10, <1>11, <3>1, <3>4
      <4> HIDE DEF r
      <4>2. at = r
        <5>1. Quotient(L - head, block, m - 1, r)
          BY <1>1, <4>1 DEF Quotient, low
        <5>2. L - head \in Int /\ m - 1 \in Int
          BY <1>1, <1>2, <1>11
        <5> QED
          BY <1>1, <4>1, <5>1, <5>2, QuotientIs DEF at
      <4>3. ~NeedsBlock(n)
        <5>1. CASE r = 0
          <6>1. L + n - head = low + n
            BY <1>1, <1>5, <4>1, <5>1
          <6>2. Quotient(L + n - head, block, m - 1, n)
            BY <1>1, <6>1 DEF Quotient, low
          <6>3. L + n - head \in Int /\ m - 1 \in Int
            BY <1>1, <1>2, <1>11
          <6>4. (L + n - head) \div block = m - 1
            BY <1>1, <6>2, <6>3, QuotientIs
          <6> QED
            BY <1>2, <1>6, <6>4
        <5>2. CASE r # 0
          BY <1>6, <4>2, <5>2 DEF at
        <5> QED
          BY <5>1, <5>2
      <4> DEFINE blocks == rx.middle
      <4>4. R = FillBlocks(blocks, r, data, done, n)
        BY <3>2, <4>2, <4>3, Zenon
      <4>5. /\ blocks \in Seq(SUBSET Nat) /\ m = Len(blocks)
            /\ Holds(blocks[m], Base(m), message.block, L)
            /\ \A j \in 1 .. m - 1 : Holds(blocks[j], Base(j), message.block, b)
        <5>1. Holds(blocks[m], Base(m), message.block, L)
          <6>1. m \in 1 .. m
            BY <1>2, <3>1
          <6> QED
            BY <1>2, <1>4, <6>1
        <5>2. \A j \in 1 .. m - 1 : j \in 1 .. m /\ j < m
          BY <1>2
        <5>3. \A j \in 1 .. m - 1 : Holds(blocks[j], Base(j), message.block, b)
          BY <1>12, <5>2
        <5> QED
          BY <1>2, <1>4, <5>1, <5>3
      <4> HIDE DEF blocks
      <4>6. Meets(Base(m), r, L, done)
        BY <1>10, <1>11, <2>1, <4>1 DEF Meets
      <4>7. m >= 1 /\ r <= block /\ done \in Nat /\ done <= n /\ m \in Nat
        BY <1>1, <1>2, <2>1, <3>1, <4>1
      <4>8. BlocksHold(R, b)
        BY <1>14, <2>1, <4>1, <4>4, <4>5, <4>6, <4>7
      <4> QED
        BY <4>8 DEF R, data
    <3> QED
      BY <3>3, <3>4
  <2> QED
    BY <2>2, <2>3, <2>4
<1> QED
  BY <1>16, <1>17

(* The transfer is in the frame that brought it, or in the three storages. *)
Whole ==
    /\ rx.middle = <<>> /\ rx.hasTail = FALSE
    /\ rx.head \in SUBSET Nat
    /\ \A x \in Nat : x < 8 * rx.len => (x \in rx.head <=> x \in buffer)

Scattered ==
    /\ rx.head \in SUBSET Nat /\ Holds(rx.head, 0, message.head, rx.len)
    /\ rx.middle \in Seq(SUBSET Nat)
    /\ Len(rx.middle) > 0 => Base(Len(rx.middle)) <= rx.len
    /\ \A j \in 1 .. Len(rx.middle) : Holds(rx.middle[j], Base(j), message.block, rx.len)
    /\ rx.hasTail \in BOOLEAN
    /\ rx.hasTail => /\ rx.tail \in SUBSET Nat
                     /\ Holds(rx.tail, Base(Len(rx.middle) + 1), rx.len, rx.len)
    /\ ~rx.hasTail => rx.len <= Base(Len(rx.middle) + 1)

StorageInv ==
    /\ step = "receive" =>
          /\ rx.head \in SUBSET Nat /\ Holds(rx.head, 0, message.head, rx.len)
          /\ BlocksHold(rx.middle, rx.len)
          /\ rx.hasTail = FALSE
    /\ step = "delivered" =>
          /\ rx.len \in Nat /\ message.bytes <= rx.len
          /\ Whole \/ Scattered

LEMMA SendStores ==
    ASSUME BufferInv, rx = EmptyRx, Send
    PROVE  StorageInv'
<1>1. message' = message /\ buffer' = buffer /\ rx' = rx /\ step' = "receive"
  BY DEF Send
<1>2. rx.len = 0 /\ rx.middle = <<>> /\ rx.hasTail = FALSE /\ rx.head = AllOnes(message.head)
  BY DEF EmptyRx
<1>3. message \in Messages
  BY DEF BufferInv
<1>4. message.head \in Nat
  BY <1>3, MessageIs
<1>5. AllOnes(message.head) \in SUBSET Nat
  BY <1>4 DEF AllOnes
<1>6. \A x \in Nat : ~(x + 8 * 0 < 8 * 0)
  OBVIOUS
<1>7. Holds(rx.head, 0, message.head, rx.len)'
  BY <1>1, <1>2, <1>6 DEF Holds
<1>8. BlocksHold(<<>>, 0)
  <2>1. <<>> \in Seq(SUBSET Nat) /\ Len(<<>>) = 0 /\ \A j \in 1 .. Len(<<>>) : FALSE
    OBVIOUS
  <2> QED
    BY <1>4, <2>1 DEF BlocksHold
<1>9. BlocksHold(rx.middle, rx.len)'
  BY <1>1, <1>2, <1>8 DEF BlocksHold, Holds, Base
<1>10. step' # "delivered"
  BY <1>1
<1> QED
  BY <1>1, <1>2, <1>5, <1>7, <1>9, <1>10 DEF StorageInv

LEMMA FrameStores ==
    ASSUME TransferInv, StorageInv, StoreFrame
    PROVE  StorageInv'
<1> DEFINE f == Head(frames)
           L == rx.len
           n == f.n
           b == L + n
           head == message.head
           count == ToHead(n)
<1>1. /\ step = "receive" /\ step' = "receive" /\ message' = message /\ buffer' = buffer
      /\ ~f.eot
  BY DEF StoreFrame
<1>2. BufferInv /\ IsRx /\ ManyOnTheirWay
  BY <1>1, WhichWay DEF TransferInv
<1>3. /\ L \in Nat /\ n \in Nat /\ n <= MostBytes(message.canfd)
      /\ FrameAt(f, L, b)
  BY <1>2, NextFrame
<1>4. /\ rx.head \in SUBSET Nat /\ Holds(rx.head, 0, head, L)
      /\ BlocksHold(rx.middle, L)
      /\ rx.hasTail = FALSE
  BY <1>1 DEF StorageInv
<1>5. /\ rx'.head = WriteBytes(rx.head, L, f.bits, 0, count)
      /\ rx'.middle = Middle(f.bits, n)
      /\ rx'.hasTail = rx.hasTail
      /\ rx'.len = b
  BY <1>2, FrameStored
<1>6. message \in Messages /\ buffer \in SUBSET Nat
  BY <1>2 DEF BufferInv
<1>7. head \in Nat
  BY <1>6, MessageIs
<1>8. b \in Nat /\ Adjacent(L, n, b)
  BY <1>3 DEF Adjacent
<1>9. BlocksHold(Middle(f.bits, n), b)
  <2> HIDE DEF f, n, b
  <2> QED
    BY <1>3, <1>4, <1>6, <1>8, PushHolds
<1>10. count = IF L < head THEN Lesser(head - L, n) ELSE 0
  BY Zenon DEF ToHead
<1> HIDE DEF f, n, b, count, head, L
<1>11. count \in Nat /\ count <= n /\ (count = n \/ L + count >= head)
  <2>1. CASE L < head
    <3>1. head - L \in Int /\ n \in Int /\ count = Lesser(head - L, n)
      BY <1>3, <1>7, <1>10, <2>1
    <3>2. count \in {head - L, n} /\ count <= n
      BY <3>1, LesserIs
    <3> QED
      BY <1>3, <1>7, <2>1, <3>2
  <2>2. CASE ~(L < head)
    <3>1. count = 0
      BY <1>10, <2>2
    <3> QED
      BY <1>3, <1>7, <2>2, <3>1
  <2> QED
    BY <2>1, <2>2
<1>12. rx'.head \in SUBSET Nat /\ Holds(rx'.head, 0, head, b)
  <2> DEFINE array == rx.head
             W == WriteBytes(array, L, f.bits, 0, count)
  <2>1. array \in SUBSET Nat /\ Holds(array, 0, head, L) /\ 0 \in Nat
    BY <1>4
  <2>2. Meets(0, L, L, 0) /\ 0 + count <= n /\ (0 + count = n \/ L + count >= head)
    BY <1>3, <1>11 DEF Meets
  <2> HIDE DEF array
  <2>3. W \in SUBSET Nat /\ Holds(W, 0, head, b)
    BY <1>3, <1>6, <1>7, <1>8, <1>11, <2>1, <2>2, WriteHolds
  <2> QED
    BY <1>5, <2>3, Zenon DEF array
<1>13. Holds(rx.head, 0, message.head, rx.len)'
  BY <1>1, <1>5, <1>12 DEF Holds, head
<1>14. BlocksHold(rx'.middle, rx'.len)
  BY <1>5, <1>9, Zenon
<1>15. BlocksHold(rx.middle, rx.len)'
  BY <1>1, <1>14 DEF BlocksHold, Holds, Base
<1>16. step' # "delivered"
  BY <1>1
<1> QED
  BY <1>1, <1>4, <1>5, <1>12, <1>13, <1>15, <1>16 DEF StorageInv

LEMMA SingleStores ==
    ASSUME TransferInv, StorageInv, DeliverSingle
    PROVE  StorageInv'
<1> DEFINE n == Padded(message.bytes)
           f == Frame(buffer, n, TRUE, TRUE, calculateCRC)
<1>1. /\ step = "receive" /\ step' = "delivered" /\ message' = message /\ buffer' = buffer
      /\ Head(frames).sot /\ Head(frames).eot
      /\ rx' = [rx EXCEPT !.head = Head(frames).bits, !.len = Head(frames).n]
  BY DEF DeliverSingle
<1>2. BufferInv /\ IsRx /\ SingleOnItsWay
  BY <1>1, WhichWay DEF TransferInv
<1>3. message \in Messages /\ buffer \in SUBSET Nat
  BY <1>2 DEF BufferInv
<1>4. n \in Nat /\ message.bytes <= n
  <2>1. FrameMax = 8 \/ FrameMax = 64
    BY <1>3, RoomIs
  <2>2. message.bytes < FrameMax
    BY <1>2 DEF SingleOnItsWay, SingleFrame
  <2>3. message.bytes \in Nat
    BY <1>3, MessageIs
  <2>4. message.bytes \in 0 .. 63
    BY <2>1, <2>2, <2>3
  <2> QED
    BY <2>4, PaddedIs
<1>5. Head(frames) = f /\ rx.middle = <<>> /\ rx.hasTail = FALSE
  BY <1>2 DEF SingleOnItsWay
<1>6. f.bits = buffer /\ f.n = n
  BY DEF Frame
<1> HIDE DEF n, f
<1>7. rx'.head = buffer /\ rx'.len = n /\ rx'.middle = <<>> /\ rx'.hasTail = FALSE
  <2>1. rx' = [rx EXCEPT !.head = buffer, !.len = n]
    BY <1>1, <1>5, <1>6, Zenon
  <2> QED
    BY <1>2, <1>5, <2>1 DEF IsRx, RxFields
<1>8. Whole'
  BY <1>1, <1>3, <1>7 DEF Whole
<1>9. step' # "receive"
  BY <1>1
<1> QED
  BY <1>1, <1>4, <1>7, <1>8, <1>9 DEF StorageInv

(* The rest of the last frame holds the end of the payload. *)
LEMMA RestHolds ==
    ASSUME buffer \in SUBSET Nat,
           NEW L \in Nat, NEW b \in Nat, NEW n \in Nat, Adjacent(L, n, b),
           NEW f, FrameAt(f, L, b),
           NEW Q \in Nat, NEW offset \in Nat, offset <= n, Meets(Q, 0, L, offset),
           NEW cap \in Nat
    PROVE  /\ Slice(f.bits, offset, n - offset) \in SUBSET Nat
           /\ Holds(Slice(f.bits, offset, n - offset), Q, cap, b)
<1> DEFINE data == f.bits
           count == n - offset
           tail == Slice(data, offset, count)
<1>1. b = L + n /\ Q = L + offset
  BY DEF Adjacent, Meets
<1>2. /\ data \in SUBSET Nat
      /\ \A x \in Nat : x \in data <=> x < 8 * (b - L) /\ x + 8 * L \in buffer
  BY DEF FrameAt
<1>3. data \in SUBSET Int /\ count \in Int
  BY <1>2
<1> HIDE DEF data, count
<1>4. /\ tail \in SUBSET Int
      /\ \A x \in Int : x \in tail <=> 0 <= x /\ x < 8 * count /\ x + 8 * offset \in data
  BY <1>3, InSlice
<1> HIDE DEF tail
<1>5. tail \in SUBSET Nat
  BY <1>4
<1>6. ASSUME NEW x \in Nat, x + 8 * Q < 8 * b
      PROVE  x \in tail <=> x + 8 * Q \in buffer
  <2>1. x \in tail <=> x < 8 * count /\ x + 8 * offset \in data
    BY <1>4
  <2>2. x < 8 * count
    BY <1>1, <1>6 DEF count
  <2> DEFINE y == x + 8 * offset
  <2>3. y \in Nat /\ y < 8 * (b - L) /\ y + 8 * L = x + 8 * Q
    BY <1>1, <1>6
  <2> HIDE DEF y
  <2>4. y \in data <=> y + 8 * L \in buffer
    BY <1>2, <2>3
  <2>5. y \in data <=> x + 8 * Q \in buffer
    BY <2>3, <2>4, Zenon
  <2> QED
    BY <2>1, <2>2, <2>5, Zenon DEF y
<1>7. Holds(tail, Q, cap, b)
  BY <1>6 DEF Holds
<1> QED
  BY <1>5, <1>7 DEF tail, count, data

LEMMA LastStores ==
    ASSUME TransferInv, StorageInv, DeliverMulti
    PROVE  StorageInv'
<1> DEFINE f == Head(frames)
           L == rx.len
           n == f.n
           b == L + n
           head == message.head
           block == message.block
           middle == rx.middle
           m == Len(middle)
           M == m + 1
           at == LastAt
           offset == LastOffset(f, at)
           tail == Slice(f.bits, offset, n - offset)
<1>1. /\ step = "receive" /\ message' = message /\ buffer' = buffer
  BY DEF DeliverMulti
<1>2. /\ BufferInv /\ IsRx /\ ManyOnTheirWay
      /\ step' = "delivered" /\ b = calculateCRC.bytes
  BY <1>1, LastAccepted DEF TransferInv
<1>3. /\ L \in Nat /\ n \in Nat /\ FrameAt(f, L, b)
  BY <1>2, NextFrame
<1>4. /\ rx.head \in SUBSET Nat /\ Holds(rx.head, 0, head, L)
      /\ BlocksHold(middle, L)
  BY <1>1 DEF StorageInv
<1>5. /\ rx'.head = IF L < head THEN WriteBytes(rx.head, at, f.bits, 0, offset) ELSE rx.head
      /\ rx'.middle = IF ~(L < head) /\ m # 0
                      THEN [middle EXCEPT ![m] = WriteBytes(middle[m], at, f.bits, 0, offset)]
                      ELSE middle
      /\ rx'.tail = tail
      /\ rx'.hasTail = (offset < n)
      /\ rx'.len = b
  BY <1>2, LastStored
<1>6. message \in Messages /\ buffer \in SUBSET Nat
  BY <1>2 DEF BufferInv
<1>7. /\ message.bytes \in Nat /\ b >= message.bytes
  BY <1>2, <1>6, MessageIs, CrcIs
<1>8. /\ middle \in Seq(SUBSET Nat) /\ m \in Nat /\ M \in Nat /\ M > 0 /\ M = m + 1
      /\ m = 0 => L <= head
      /\ m > 0 => Base(m) <= L /\ L <= Base(M)
      /\ \A j \in 1 .. m : Holds(middle[j], Base(j), block, L)
  BY <1>4 DEF BlocksHold
<1>9. middle = <<>> <=> m = 0
  BY <1>8
<1>10. b \in Nat /\ Adjacent(L, n, b) /\ b = L + n
  BY <1>3 DEF Adjacent
<1>11. /\ at = IF L < head THEN L ELSE L - head - ((m - 1) * block)
       /\ offset = IF L < head THEN Lesser(head - at, n)
                   ELSE IF middle = <<>> THEN 0 ELSE Lesser(block - at, n)
  BY Zenon DEF LastAt, LastOffset
<1>12. /\ head = message.head /\ block = message.block
       /\ Base(m) = head + (block * (m - 1))
  BY DEF Base
<1>13. /\ Base(1) = head /\ block \in Nat /\ block > 0 /\ head \in Nat
  BY <1>6, BaseIs
<1> HIDE DEF f, n, b, head, L, block, middle, m, M, at, offset
<1>14. /\ Base(M) \in Nat
       /\ Base(m) \in Int /\ Base(M) = Base(m) + block
       /\ m > 0 => Base(m) \in Nat /\ head <= Base(m)
  <2>1. /\ Base(M) \in Nat
        /\ Base(m) \in Int /\ Base(m + 1) = Base(m) + block
        /\ m > 0 => Base(m) \in Nat /\ head <= Base(m)
    BY <1>6, <1>8, <1>12, BaseIs
  <2> QED
    BY <1>8, <2>1, Zenon
(* What has to be shown of the storages, whatever the case. *)
<1>15. ASSUME offset \in Nat, offset <= n, offset < n => L + offset = Base(M),
              offset = n => b <= Base(M),
              rx'.head \in SUBSET Nat, Holds(rx'.head, 0, head, b),
              rx'.middle \in Seq(SUBSET Nat), Len(rx'.middle) = m,
              m > 0 => Base(m) <= b,
              \A j \in 1 .. m : Holds(rx'.middle[j], Base(j), block, b)
       PROVE  StorageInv'
  <2>1. CASE offset < n
    <3>1. Meets(Base(M), 0, L, offset)
      BY <1>3, <1>14, <1>15, <2>1 DEF Meets
    <3>2. tail \in SUBSET Nat /\ Holds(tail, Base(M), b, b)
      BY <1>3, <1>6, <1>10, <1>14, <1>15, <3>1, RestHolds
    <3>3. rx'.hasTail = TRUE
      BY <1>5, <2>1
    <3> HIDE DEF tail
    <3>4. Scattered'
      <4>1. /\ Len(rx'.middle) > 0 => Base(Len(rx'.middle)) <= rx'.len
            /\ \A j \in 1 .. Len(rx'.middle) : Holds(rx'.middle[j], Base(j), message.block, rx'.len)
            /\ Holds(rx'.tail, Base(Len(rx'.middle) + 1), rx'.len, rx'.len)
            /\ rx'.tail \in SUBSET Nat
            /\ Holds(rx'.head, 0, message.head, rx'.len)
        BY <1>5, <1>8, <1>12, <1>15, <3>2
      <4> QED
        BY <1>1, <1>15, <3>3, <4>1 DEF Scattered, Holds, Base
    <3> QED
      BY <1>1, <1>2, <1>5, <1>7, <1>10, <3>4 DEF StorageInv
  <2>2. CASE ~(offset < n)
    <3>1. offset = n /\ rx'.hasTail = FALSE
      <4>1. rx'.hasTail = (offset < n)
        BY <1>5, Zenon
      <4>2. rx'.hasTail = FALSE
        <5>1. n \in Nat
          BY <1>3
        <5>2. (offset < n) = FALSE
          BY <1>15, <2>2, <5>1
        <5> QED
          BY <4>1, <5>2, Zenon
      <4>3. offset = n
        BY <1>3, <1>15, <2>2
      <4> QED
        BY <4>2, <4>3, Zenon
    <3>2. Scattered'
      <4>1. /\ Len(rx'.middle) > 0 => Base(Len(rx'.middle)) <= rx'.len
            /\ \A j \in 1 .. Len(rx'.middle) : Holds(rx'.middle[j], Base(j), message.block, rx'.len)
            /\ rx'.len <= Base(Len(rx'.middle) + 1)
            /\ Holds(rx'.head, 0, message.head, rx'.len)
        BY <1>5, <1>8, <1>12, <1>15, <3>1
      <4> QED
        BY <1>1, <1>15, <3>1, <4>1 DEF Scattered, Holds, Base
    <3> QED
      BY <1>1, <1>2, <1>5, <1>7, <1>10, <3>2 DEF StorageInv
  <2> QED
    BY <2>1, <2>2
<1>16. CASE L < head
  <2>1. m = 0 /\ M = 1
    BY <1>3, <1>8, <1>13, <1>14, <1>16
  <2>2. at = L /\ offset = Lesser(head - L, n)
    BY <1>11, <1>16
  <2>3. offset \in Nat /\ offset <= n /\ offset <= head - L /\ (offset = n \/ offset = head - L)
    <3>1. head - L \in Int /\ n \in Int
      BY <1>3, <1>13
    <3>2. offset \in {head - L, n} /\ offset <= head - L /\ offset <= n
      BY <2>2, <3>1, LesserIs
    <3> QED
      BY <1>3, <1>13, <1>16, <3>2
  <2>4. (offset < n => L + offset = Base(M)) /\ (offset = n => b <= Base(M))
    BY <1>3, <1>10, <1>13, <2>1, <2>3
  <2>5. rx'.head \in SUBSET Nat /\ Holds(rx'.head, 0, head, b)
    <3> DEFINE array == rx.head
               W == WriteBytes(array, L, f.bits, 0, offset)
    <3>1. array \in SUBSET Nat /\ Holds(array, 0, head, L) /\ 0 \in Nat
      BY <1>4
    <3>2. Meets(0, L, L, 0) /\ 0 + offset <= n /\ (0 + offset = n \/ L + offset >= head)
      BY <1>3, <1>13, <2>3 DEF Meets
    <3> HIDE DEF array
    <3>3. W \in SUBSET Nat /\ Holds(W, 0, head, b)
      BY <1>3, <1>6, <1>10, <1>13, <2>3, <3>1, <3>2, WriteHolds
    <3>4. rx'.head = W
      BY <1>5, <1>16, <2>2, Zenon DEF array
    <3> QED
      BY <3>3, <3>4, Zenon
  <2>6. rx'.middle = middle
    BY <1>5, <1>16, Zenon
  <2>7. rx'.middle \in Seq(SUBSET Nat) /\ Len(rx'.middle) = m
        /\ \A j \in 1 .. m : Holds(rx'.middle[j], Base(j), block, b)
    BY <1>8, <2>1, <2>6 DEF m
  <2> QED
    BY <1>15, <2>1, <2>3, <2>4, <2>5, <2>7
<1>17. CASE ~(L < head)
  <2>1. rx'.head = rx.head /\ rx'.head \in SUBSET Nat
    BY <1>4, <1>5, <1>17
  <2>2. Holds(rx'.head, 0, head, b)
    <3> DEFINE array == rx.head
    <3>1. Holds(array, 0, head, L) /\ 0 \in Nat /\ 0 + head <= L
      BY <1>3, <1>4, <1>13, <1>17
    <3> HIDE DEF array
    <3>2. Holds(array, 0, head, b)
      BY <1>3, <1>10, <1>13, <3>1, HoldsMore
    <3> QED
      BY <2>1, <3>2, Zenon DEF array
  <2>3. CASE m = 0
    <3>1. offset = 0 /\ L = head /\ M = 1
      BY <1>3, <1>8, <1>9, <1>11, <1>13, <1>17, <2>3
    <3>2. offset \in Nat /\ offset <= n /\ L + offset = Base(M) /\ (offset = n => b <= Base(M))
      BY <1>3, <1>10, <1>13, <3>1
    <3>3. rx'.middle = middle
      BY <1>5, <2>3, Zenon
    <3>4. rx'.middle \in Seq(SUBSET Nat) /\ Len(rx'.middle) = m
          /\ \A j \in 1 .. m : Holds(rx'.middle[j], Base(j), block, b)
      BY <1>8, <2>3, <3>3 DEF m
    <3> QED
      BY <1>15, <2>1, <2>2, <2>3, <3>2, <3>4
  <2>4. CASE m # 0
    <3>1. m > 0 /\ Base(m) <= L /\ L <= Base(M) /\ Base(m) \in Nat /\ head <= Base(m)
      BY <1>8, <1>14, <2>4
    <3>2. at = L - Base(m)
      <4>1. (m - 1) * block = block * (m - 1) /\ block * (m - 1) \in Int
        BY <1>8, <1>13
      <4> DEFINE low == block * (m - 1)
      <4>2. at = L - head - low /\ Base(m) = head + low /\ low \in Int
        BY <1>11, <1>12, <1>17, <4>1, Zenon
      <4> HIDE DEF low
      <4> QED
        BY <1>3, <1>13, <4>2
    <3>3. at \in Nat /\ at <= block /\ Base(m) + at = L
      BY <1>3, <1>13, <1>14, <3>1, <3>2
    <3>4. offset = Lesser(block - at, n)
      BY <1>9, <1>11, <1>17, <2>4, Zenon
    <3>5. offset \in Nat /\ offset <= n /\ offset <= block - at
          /\ (offset = n \/ offset = block - at)
      <4>1. block - at \in Int /\ n \in Int /\ block - at >= 0
        BY <1>3, <1>13, <3>3
      <4>2. offset \in {block - at, n} /\ offset <= block - at /\ offset <= n
        BY <3>4, <4>1, LesserIs
      <4> QED
        BY <1>3, <4>1, <4>2
    <3>6. offset < n => L + offset = Base(M)
      <4>1. offset < n => offset = block - at
        BY <3>5
      <4> QED
        BY <1>3, <1>13, <1>14, <3>1, <3>3, <4>1
    <3>7. offset = n => b <= Base(M)
      BY <1>3, <1>10, <1>13, <1>14, <3>1, <3>3, <3>5
    <3> DEFINE array == middle[m]
               W == WriteBytes(array, at, f.bits, 0, offset)
               base == Base(m)
    <3>8. array \in SUBSET Nat /\ Holds(array, base, block, L)
      <4>1. m \in 1 .. m
        BY <1>8, <3>1
      <4> QED
        BY <1>8, <4>1 DEF m
    <3>9. W \in SUBSET Nat /\ Holds(W, base, block, b)
      <4>1. /\ Meets(base, at, L, 0) /\ 0 + offset <= n /\ 0 \in Nat
            /\ 0 + offset = n \/ at + offset >= block
        BY <1>3, <1>13, <3>1, <3>3, <3>5 DEF Meets
      <4>2. base \in Nat
        BY <3>1
      <4> HIDE DEF array, base
      <4> QED
        BY <1>3, <1>6, <1>10, <1>13, <3>3, <3>5, <3>8, <4>1, <4>2, WriteHolds
    <3>10. rx'.middle = [middle EXCEPT ![m] = W]
      BY <1>5, <1>17, <2>4, Zenon
    <3> HIDE DEF W, array
    <3>11. rx'.middle \in Seq(SUBSET Nat) /\ Len(rx'.middle) = m /\ rx'.middle[m] = W
           /\ \A j \in 1 .. m : j # m => rx'.middle[j] = middle[j]
      <4>1. m = Len(middle)
        BY DEF m
      <4> HIDE DEF m
      <4> QED
        BY <1>8, <3>1, <3>9, <3>10, <4>1
    <3>12. ASSUME NEW j \in 1 .. m
           PROVE  Holds(rx'.middle[j], Base(j), block, b)
      <4>1. CASE j = m
        BY <3>9, <3>11, <4>1
      <4>2. CASE j # m
        <5>1. j \in Nat /\ j > 0 /\ j < m
          BY <1>8, <4>2
        <5>2. Base(j) \in Nat /\ Base(j) + block <= Base(m)
          BY <1>6, <1>8, <1>12, <5>1, BaseIs
        <5>3. Base(j) + block <= L
          BY <1>3, <1>13, <3>1, <5>2
        <5>4. Holds(middle[j], Base(j), block, L)
          BY <1>8
        <5>5. Holds(middle[j], Base(j), block, b)
          BY <1>3, <1>10, <1>13, <5>2, <5>3, <5>4, HoldsMore
        <5> QED
          BY <3>11, <4>2, <5>5
      <4> QED
        BY <4>1, <4>2
    <3>13. m > 0 => Base(m) <= b
      BY <1>3, <1>10, <3>1
    <3> QED
      BY <1>15, <2>1, <2>2, <3>5, <3>6, <3>7, <3>11, <3>12, <3>13
  <2> QED
    BY <2>3, <2>4
<1> QED
  BY <1>16, <1>17

LEMMA StorageKept ==
    TransferInv /\ StorageInv /\ [PayloadNext]_payloadVars => StorageInv'
<1> SUFFICES ASSUME TransferInv, StorageInv, [PayloadNext]_payloadVars
             PROVE  StorageInv'
  OBVIOUS
<1>1. CASE Encode
  <2>1. step = "encode" /\ step' = step
    BY <1>1 DEF Encode
  <2> QED
    BY <2>1 DEF StorageInv
<1>2. CASE Send
  <2>1. BufferInv /\ rx = EmptyRx
    BY <1>2 DEF Send, TransferInv
  <2> QED
    BY <1>2, <2>1, SendStores
<1>3. CASE UNCHANGED payloadVars
  <2>1. UNCHANGED <<message, step, encoded, buffer, frames, rx>>
    BY <1>3, Zenon DEF payloadVars
  <2> QED
    BY <2>1 DEF StorageInv, Whole, Scattered, Holds, BlocksHold, Base
<1> QED
  BY <1>1, <1>2, <1>3, FrameStores, SingleStores, LastStores DEF PayloadNext

-----------------------------------------------------------------------------
(* Reading the storages *)

Progresses == [out : SUBSET Nat, in : Nat, done : Nat, rest : Nat]

(* `done' bits have been copied from bit `offset' of the payload on, `rest' of the     *)
(* `length' bits are missing.                                                  *)
Progress(pr, offset, length) ==
    /\ pr.out \in SUBSET Nat /\ pr.in \in Nat /\ pr.done \in Nat /\ pr.rest \in Nat
    /\ pr.in = offset + pr.done
    /\ pr.done + pr.rest = length
    /\ \A p \in Nat : p \in pr.out <=> p < pr.done /\ offset + p \in buffer

(* `count' bits of an array from bit `at' on are those of the payload from bit `in' on. *)
Agrees(array, at, in, count) ==
    \A x \in Nat : x < count => (at + x \in array <=> in + x \in buffer)

LEMMA CopiedIs ==
    ASSUME NEW offset \in Nat, NEW length \in Nat, NEW pr, Progress(pr, offset, length),
           NEW src \in SUBSET Nat, NEW at \in Nat, NEW count \in Nat, count <= pr.rest,
           Agrees(src, at, pr.in, count)
    PROVE  /\ Progress(Copied(pr, src, at, count), offset, length)
           /\ Copied(pr, src, at, count).in = pr.in + count
           /\ Copied(pr, src, at, count).rest = pr.rest - count
           /\ Copied(pr, src, at, count) \in Progresses
<1> DEFINE new == Copied(pr, src, at, count)
           out == copyBitArray(src, at, count, pr.out, pr.done)
           done == pr.done
           in == pr.in
           rest == pr.rest
<1>1. /\ pr.out \in SUBSET Nat /\ in \in Nat /\ done \in Nat /\ rest \in Nat
      /\ in = offset + done
      /\ done + rest = length
      /\ \A p \in Nat : p \in pr.out <=> p < done /\ offset + p \in buffer
  BY DEF Progress
<1>2. new = [out |-> out, in |-> in + count, done |-> done + count, rest |-> rest - count]
  BY Zenon DEF Copied
<1>3. /\ out \in SUBSET Nat
      /\ \A p \in Nat : p \in out
           <=> IF done <= p /\ p < done + count THEN p - done + at \in src ELSE p \in pr.out
  <2>1. src \in SUBSET Int /\ pr.out \in SUBSET Nat /\ pr.done \in Nat
    BY <1>1
  <2> QED
    BY <2>1, Copies
<1>4. count <= rest
  OBVIOUS
<1>5. \A x \in Nat : x < count => (at + x \in src <=> in + x \in buffer)
  BY DEF Agrees
<1> HIDE DEF new, out, done, in, rest
<1>6. new.out = out /\ new.in = in + count /\ new.done = done + count /\ new.rest = rest - count
  BY <1>2
<1>7. /\ in + count \in Nat /\ done + count \in Nat /\ rest - count \in Nat
      /\ in + count = offset + (done + count)
      /\ (done + count) + (rest - count) = length
  BY <1>1, <1>4
<1>8. ASSUME NEW p \in Nat
      PROVE  p \in out <=> p < done + count /\ offset + p \in buffer
  <2>1. p \in out <=> IF done <= p /\ p < done + count THEN p - done + at \in src ELSE p \in pr.out
    BY <1>3
  <2>2. CASE done <= p /\ p < done + count
    <3> DEFINE x == p - done
    <3>1. x \in Nat /\ x < count /\ in + x = offset + p /\ at + x = p - done + at
      BY <1>1, <2>2
    <3> HIDE DEF x
    <3>2. at + x \in src <=> in + x \in buffer
      BY <1>5, <3>1
    <3>3. p \in out <=> p - done + at \in src
      BY <2>1, <2>2, Zenon
    <3> QED
      BY <2>2, <3>1, <3>2, <3>3, Zenon
  <2>3. CASE ~(done <= p /\ p < done + count)
    <3>1. p \in out <=> p \in pr.out
      BY <2>1, <2>3, Zenon
    <3>2. p < done <=> p < done + count
      BY <1>1, <2>3
    <3> QED
      BY <1>1, <3>1, <3>2, Zenon
  <2> QED
    BY <2>2, <2>3
<1>9. Progress(new, offset, length)
  BY <1>3, <1>6, <1>7, <1>8, Zenon DEF Progress
<1>10. new \in Progresses
  BY <1>2, <1>3, <1>7 DEF Progresses
<1> QED
  BY <1>6, <1>9, <1>10 DEF new, in, rest

LEMMA HeldAgrees ==
    ASSUME NEW array, NEW from \in Nat, NEW cap \in Nat, NEW len \in Nat,
           Holds(array, from, cap, len),
           NEW at \in Nat, NEW in \in Nat, NEW count \in Nat, in - at = 8 * from,
           at + count <= 8 * cap, in + count <= 8 * len
    PROVE  Agrees(array, at, in, count)
<1> SUFFICES ASSUME NEW x \in Nat, x < count
             PROVE  at + x \in array <=> in + x \in buffer
  BY DEF Agrees
<1> DEFINE y == at + x
<1>1. y \in Nat /\ y < 8 * cap /\ y + 8 * from < 8 * len /\ y + 8 * from = in + x
  OBVIOUS
<1> HIDE DEF y
<1>2. y \in array <=> y + 8 * from \in buffer
  BY <1>1 DEF Holds
<1>3. y \in array <=> in + x \in buffer
  BY <1>1, <1>2, Zenon
<1> QED
  BY <1>3, Zenon DEF y

LEMMA HeadRead ==
    ASSUME NEW offset \in Nat, NEW length \in Nat, NEW pr \in Progresses, Progress(pr, offset, length),
           NEW head \in Nat, NEW len \in Nat, offset + length <= 8 * len,
           rx.head \in SUBSET Nat, Holds(rx.head, 0, head, len)
    PROVE  /\ ReadHead(rx, pr, head) \in Progresses
           /\ Progress(ReadHead(rx, pr, head), offset, length)
           /\ ReadHead(rx, pr, head).rest = 0 \/ ReadHead(rx, pr, head).in >= 8 * head
<1> DEFINE in == pr.in
           rest == pr.rest
           array == rx.head
           new == ReadHead(rx, pr, head)
           count == Lesser(rest, 8 * head - in)
<1>1. /\ in \in Nat /\ pr.done \in Nat /\ rest \in Nat
      /\ in = offset + pr.done /\ pr.done + rest = length
  BY DEF Progress
<1>2. new = IF in < 8 * head THEN Copied(pr, array, in, count) ELSE pr
  BY Zenon DEF ReadHead
<1>3. in + rest <= 8 * len
  BY <1>1
<1>4. array \in SUBSET Nat /\ Holds(array, 0, head, len)
  OBVIOUS
<1>5. CASE in < 8 * head
  <2>1. count \in Nat /\ count <= rest /\ count <= 8 * head - in
        /\ (count = rest \/ count = 8 * head - in)
    <3> DEFINE left == 8 * head - in
    <3>1. left \in Nat /\ rest \in Int /\ left \in Int
      BY <1>1, <1>5
    <3> HIDE DEF left
    <3>2. count \in {rest, left} /\ count <= rest /\ count <= left
      <4>1. count = Lesser(rest, left)
        BY DEF left
      <4> HIDE DEF rest, count
      <4> QED
        BY <3>1, <4>1, LesserIs
    <3> HIDE DEF count, rest
    <3> QED
      BY <1>1, <3>1, <3>2 DEF left
  <2> HIDE DEF count
  <2>2. Agrees(array, in, in, count)
    <3>1. in - in = 8 * 0 /\ in + count <= 8 * head /\ in + count <= 8 * len /\ 0 \in Nat
      BY <1>1, <1>3, <2>1
    <3> HIDE DEF array, in
    <3> QED
      BY <1>1, <1>4, <2>1, <3>1, HeldAgrees
  <2> DEFINE made == Copied(pr, array, in, count)
  <2>3. /\ Progress(made, offset, length)
        /\ made.in = in + count /\ made.rest = rest - count
        /\ made \in Progresses
    <3>1. in \in Nat /\ array \in SUBSET Nat /\ count <= pr.rest /\ Agrees(array, in, pr.in, count)
      BY <1>1, <1>4, <2>1, <2>2
    <3>2. pr.in = in /\ pr.rest = rest
      OBVIOUS
    <3> HIDE DEF in, array, rest
    <3> QED
      BY <2>1, <3>1, <3>2, CopiedIs
  <2>4. new = made
    <3> HIDE DEF new, made, in
    <3> QED
      BY <1>2, <1>5, Zenon DEF made
  <2> HIDE DEF made, new, in, rest
  <2>5. made.rest = 0 \/ made.in >= 8 * head
    BY <1>1, <2>1, <2>3
  <2> QED
    BY <2>3, <2>4, <2>5 DEF new
<1>6. CASE ~(in < 8 * head)
  <2>1. new = pr
    <3> HIDE DEF new, in, array, count
    <3> QED
      BY <1>2, <1>6, Zenon
  <2>2. pr.in >= 8 * head
    BY <1>1, <1>6
  <2> HIDE DEF new
  <2> QED
    BY <2>1, <2>2 DEF new
<1> QED
  BY <1>5, <1>6

(* The next block to read from is block `j'. *)
BlockInv(v, j, offset, length) ==
    /\ v \in [progress : Progresses, start : Nat]
    /\ Progress(v.progress, offset, length)
    /\ v.progress.rest = 0 \/ (v.start = 8 * Base(j) /\ v.progress.in >= v.start)

LEMMA BlockRead ==
    ASSUME message \in Messages, NEW offset \in Nat, NEW length \in Nat, rx.len \in Nat,
           offset + length <= 8 * rx.len,
           NEW i \in Nat, i > 0, rx.middle[i] \in SUBSET Nat,
           Holds(rx.middle[i], Base(i), message.block, rx.len),
           NEW v, BlockInv(v, i, offset, length)
    PROVE  BlockInv(ReadBlock(rx, v, i, message.block), i + 1, offset, length)
<1> DEFINE pr == v.progress
           start == v.start
           in == pr.in
           rest == pr.rest
           block == message.block
           len == rx.len
           base == Base(i)
           next == Base(i + 1)
           step1 == Lesser(8 * block, 8 * len - start)
           end == start + step1
           array == rx.middle[i]
           at == BlockOffset(pr, start)
           count == Lesser(rest, end - in)
           made == Copied(pr, array, at, count)
           new == ReadBlock(rx, v, i, block)
<1>1. /\ v = [progress |-> pr, start |-> start] /\ pr \in Progresses /\ start \in Nat
      /\ Progress(pr, offset, length)
      /\ rest = 0 \/ (start = 8 * base /\ in >= start)
  BY DEF BlockInv
<1>2. /\ in \in Nat /\ pr.done \in Nat /\ rest \in Nat
      /\ in = offset + pr.done /\ pr.done + rest = length
  BY <1>1 DEF Progress
<1>3. new = IF rest = 0 THEN v
            ELSE [progress |-> IF end > in THEN made ELSE pr, start |-> end]
  BY Zenon DEF ReadBlock
<1>4. base \in Nat /\ next = base + block /\ block \in Nat /\ next \in Nat
  <2>1. base \in Nat /\ next = base + block /\ block \in Nat
    BY BaseIs
  <2> HIDE DEF base, next, block
  <2> QED
    BY <2>1
<1>5. in + rest <= 8 * len /\ len \in Nat
  BY <1>2
<1>6. array \in SUBSET Nat /\ Holds(array, base, block, len)
  OBVIOUS
<1>7. at = in - start
  BY Zenon DEF BlockOffset
<1> HIDE DEF new, made, at, count, step1
<1>8. CASE rest = 0
  <2>1. new = v
    BY <1>3, <1>8, Zenon
  <2> QED
    BY <1>1, <1>8, <2>1 DEF BlockInv, new
<1>9. CASE rest # 0
  <2>1. start = 8 * base /\ in >= start
    BY <1>1, <1>9
  <2>2. in < 8 * len /\ start < 8 * len
    <3> HIDE DEF in, rest, start, len, base
    <3> QED
      BY <1>1, <1>2, <1>5, <1>9, <2>1
  <2>3. /\ step1 \in {8 * block, 8 * len - start} /\ step1 <= 8 * block
        /\ step1 <= 8 * len - start /\ step1 \in Nat
    <3> DEFINE whole == 8 * block
               left == 8 * len - start
    <3>1. whole \in Nat /\ left \in Nat /\ whole \in Int /\ left \in Int
      <4> HIDE DEF in, start, len, base, block
      <4> QED
        BY <1>1, <1>4, <1>5, <2>2 DEF block
    <3>2. step1 = Lesser(whole, left)
      BY Zenon DEF step1
    <3> HIDE DEF whole, left
    <3>3. step1 \in {whole, left} /\ step1 <= whole /\ step1 <= left
      BY <3>1, <3>2, LesserIs
    <3>4. step1 \in Nat
      BY <3>1, <3>3
    <3> QED
      BY <3>3, <3>4 DEF whole, left
  <2>4. end \in Nat /\ end = start + step1
    BY <1>1, <2>3
  <2> HIDE DEF end
  <2>5. end <= 8 * len /\ end - start <= 8 * block /\ (end = 8 * next \/ end = 8 * len)
    <3> HIDE DEF start, len, base, block, next
    <3> QED
      BY <1>1, <1>4, <1>5, <2>1, <2>3, <2>4
  <2>6. CASE end > in
    <3>1. count \in Nat /\ count <= rest /\ count <= end - in
          /\ (count = rest \/ count = end - in)
      <4> DEFINE left == end - in
      <4>1. left \in Nat /\ rest \in Int /\ left \in Int
        <5> HIDE DEF in, rest
        <5> QED
          BY <1>2, <2>4, <2>6
      <4>2. count = Lesser(rest, left)
        BY Zenon DEF count
      <4> HIDE DEF left, rest
      <4>3. count \in {rest, left} /\ count <= rest /\ count <= left
        BY <4>1, <4>2, LesserIs
      <4>4. count \in Nat
        BY <1>2, <4>1, <4>3
      <4> QED
        BY <4>3, <4>4 DEF left
    <3>2. at \in Nat /\ in - at = 8 * base /\ at + count <= 8 * block /\ in + count <= 8 * len
      <4> HIDE DEF in, start, len, base, block, rest
      <4> QED
        BY <1>1, <1>2, <1>4, <1>5, <1>7, <2>1, <2>4, <2>5, <3>1
    <3>3. Agrees(array, at, in, count)
      <4> HIDE DEF array, base, block, len, in
      <4> QED
        BY <1>2, <1>4, <1>5, <1>6, <3>1, <3>2, HeldAgrees
    <3>4. /\ Progress(made, offset, length)
          /\ made.in = in + count /\ made.rest = rest - count
          /\ made \in Progresses
      <4>1. made = Copied(pr, array, at, count) /\ pr.in = in /\ pr.rest = rest
        BY DEF made
      <4> HIDE DEF array, in, rest, pr
      <4> QED
        BY <1>1, <1>6, <3>1, <3>2, <3>3, <4>1, CopiedIs
    <3>5. new = [progress |-> made, start |-> end]
      <4> HIDE DEF rest, in
      <4> QED
        BY <1>3, <1>9, <2>6, Zenon
    <3> HIDE DEF in, rest, len, next
    <3>6. made.rest = 0 \/ (end = 8 * next /\ made.in >= end)
      BY <1>2, <1>5, <2>4, <2>5, <3>1, <3>4
    <3>7. new \in [progress : Progresses, start : Nat] /\ new.progress = made /\ new.start = end
      BY <2>4, <3>4, <3>5
    <3> QED
      BY <3>4, <3>6, <3>7, Zenon DEF BlockInv, new, next
  <2>7. CASE ~(end > in)
    <3>1. new = [progress |-> pr, start |-> end]
      <4> HIDE DEF rest, in, pr
      <4> QED
        BY <1>3, <1>9, <2>7, Zenon DEF rest
    <3>2. end = 8 * next /\ in >= end
      <4> HIDE DEF in, len, next
      <4> QED
        BY <1>2, <1>5, <2>2, <2>4, <2>5, <2>7
    <3> HIDE DEF pr, next
    <3>3. new \in [progress : Progresses, start : Nat] /\ new.progress = pr /\ new.start = end
      BY <1>1, <2>4, <3>1
    <3> QED
      BY <1>1, <3>2, <3>3, Zenon DEF BlockInv, new, next
  <2> QED
    BY <2>6, <2>7
<1> QED
  BY <1>8, <1>9

(* The loop over the blocks, whole. *)
LEMMA MiddleRead ==
    ASSUME message \in Messages, NEW offset \in Nat, NEW length \in Nat, rx.len \in Nat,
           offset + length <= 8 * rx.len,
           rx.middle \in Seq(SUBSET Nat),
           \A j \in 1 .. Len(rx.middle) : Holds(rx.middle[j], Base(j), message.block, rx.len),
           NEW pr \in Progresses, Progress(pr, offset, length),
           pr.rest = 0 \/ pr.in >= 8 * message.head
    PROVE  BlockInv(ReadMiddle(rx, pr, message.head, message.block),
                    Len(rx.middle) + 1, offset, length)
<1> DEFINE m == Len(rx.middle)
           block == message.block
           first == [progress |-> pr, start |-> 8 * message.head]
           read(before, i) == ReadBlock(rx, before, i, block)
           V == [progress : Progresses, start : Nat]
           next == [t \in (1 .. m) \X V |-> IF read(t[2], t[1]) \in V THEN read(t[2], t[1]) ELSE t[2]]
           Is(f) == f = [i \in 0 .. m |-> IF i = 0 THEN first ELSE read(f[i - 1], i)]
           turn == CHOOSE f : Is(f)
           Inv(v, i) == BlockInv(v, i + 1, offset, length)
<1>0. m \in Nat
  OBVIOUS
<1>1. ReadMiddle(rx, pr, message.head, message.block) = turn[m]
  BY Zenon DEF ReadMiddle
<1>2. first \in V /\ Inv(first, 0)
  <2>1. message.head \in Nat /\ Base(1) = message.head
    BY BaseIs
  <2>2. 8 * message.head \in Nat
    BY <2>1
  <2>3. first \in V /\ first.progress = pr /\ first.start = 8 * message.head
    BY <2>2
  <2>4. 8 * Base(0 + 1) = 8 * message.head
    BY <2>1
  <2> HIDE DEF first
  <2> QED
    BY <2>3, <2>4 DEF BlockInv
<1>3. ASSUME NEW i \in 1 .. m, NEW v, Inv(v, i - 1)
      PROVE  read(v, i) \in V /\ Inv(read(v, i), i)
  <2>1. i \in Nat /\ i > 0 /\ (i - 1) + 1 = i
    BY <1>0
  <2>2. rx.middle[i] \in SUBSET Nat /\ Holds(rx.middle[i], Base(i), message.block, rx.len)
    OBVIOUS
  <2>3. BlockInv(v, i, offset, length)
    BY <1>3, <2>1
  <2>4. BlockInv(read(v, i), i + 1, offset, length)
    BY <2>1, <2>2, <2>3, BlockRead
  <2> HIDE DEF read
  <2> QED
    BY <2>4 DEF BlockInv
<1> HIDE DEF first, read, Inv
<1>4. Steps(next, m, V)
  <2> HIDE DEF V
  <2>1. \A t \in (1 .. m) \X V : (IF read(t[2], t[1]) \in V THEN read(t[2], t[1]) ELSE t[2]) \in V
    OBVIOUS
  <2> QED
    BY <2>1 DEF Steps
<1>5. PICK g : Follows(g, next, m, V, first)
  <2> HIDE DEF V, next, m
  <2> QED
    BY <1>0, <1>2, <1>4, Counts
<1>6. /\ g \in [0 .. m -> V] /\ g[0] = first
      /\ \A k \in 1 .. m : g[k] = next[<<k, g[k - 1]>>]
  BY <1>5, Zenon DEF Follows
<1>7. ASSUME NEW k \in 1 .. m, Inv(g[k - 1], k - 1)
      PROVE  g[k] = read(g[k - 1], k)
  <2>1. k - 1 \in 0 .. m
    BY <1>0
  <2> HIDE DEF V, m
  <2>2. <<k, g[k - 1]>> \in (1 .. m) \X V
    BY <1>6, <2>1
  <2> DEFINE b == g[k - 1]
             t == <<k, b>>
  <2>3. t[1] = k /\ t[2] = b
    OBVIOUS
  <2>4. g[k] = IF read(t[2], t[1]) \in V THEN read(t[2], t[1]) ELSE t[2]
    BY <1>6, <2>2, Zenon
  <2>5. read(b, k) \in V
    BY <1>3, <1>7
  <2> HIDE DEF t, b
  <2>6. g[k] = read(b, k)
    BY <2>3, <2>4, <2>5, Zenon
  <2> QED
    BY <2>6 DEF b
<1>8. \A k \in 0 .. m : Inv(g[k], k)
  <2> DEFINE S == {k \in 0 .. m : Inv(g[k], k)}
  <2>1. 0 \in S
    BY <1>0, <1>2, <1>6
  <2>2. ASSUME NEW k \in 0 .. m, k < m, k \in S
        PROVE  k + 1 \in S
    <3>1. k + 1 \in 1 .. m /\ (k + 1) - 1 = k /\ k + 1 \in 0 .. m
      <4>1. k < m
        BY <2>2
      <4> HIDE DEF S, m
      <4> QED
        BY <1>0, <4>1
    <3> HIDE DEF m
    <3>2. g[k + 1] = read(g[k], k + 1)
      BY <1>7, <2>2, <3>1
    <3>3. Inv(read(g[k], k + 1), k + 1)
      BY <1>3, <2>2, <3>1
    <3> QED
      BY <3>1, <3>2, <3>3
  <2>3. \A k \in 0 .. m : k \in S
    <3> HIDE DEF S, m
    <3> QED
      BY <1>0, <2>1, <2>2, Counting
  <2> QED
    BY <2>3
<1>9. Is(g)
  <2>1. \A i \in 0 .. m : g[i] = IF i = 0 THEN first ELSE read(g[i - 1], i)
    <3>1. ASSUME NEW i \in 0 .. m, i # 0
          PROVE  g[i] = read(g[i - 1], i)
      <4>1. i \in 1 .. m /\ i - 1 \in 0 .. m
        BY <1>0, <3>1
      <4> HIDE DEF m
      <4> QED
        BY <1>7, <1>8, <4>1
    <3> HIDE DEF m
    <3> QED
      BY <1>6, <3>1
  <2> HIDE DEF V, m
  <2>2. g = [i \in 0 .. m |-> g[i]]
    BY <1>6
  <2>3. [i \in 0 .. m |-> g[i]] = [i \in 0 .. m |-> IF i = 0 THEN first ELSE read(g[i - 1], i)]
    BY <2>1, Zenon
  <2> QED
    BY <2>2, <2>3, Zenon
<1>10. Is(turn)
  <2> HIDE DEF Is
  <2> QED
    BY <1>9, Zenon
<1> HIDE DEF turn
<1>11. /\ turn[0] = first
       /\ \A k \in 1 .. m : turn[k] = read(turn[k - 1], k)
  <2>1. /\ 0 \in 0 .. m
        /\ \A k \in 1 .. m : k \in 0 .. m /\ k # 0
    BY <1>0
  <2> HIDE DEF m
  <2>2. ASSUME NEW i \in 0 .. m
        PROVE  turn[i] = IF i = 0 THEN first ELSE read(turn[i - 1], i)
    <3> DEFINE expr(k) == IF k = 0 THEN first ELSE read(turn[k - 1], k)
    <3>1. turn = [k \in 0 .. m |-> expr(k)]
      BY <1>10, Zenon
    <3> HIDE DEF expr
    <3>2. turn[i] = expr(i)
      BY <3>1
    <3> QED
      BY <3>2, Zenon DEF expr
  <2> QED
    BY <2>1, <2>2, Zenon
<1>12. \A k \in 0 .. m : Inv(turn[k], k)
  <2> DEFINE S == {k \in 0 .. m : Inv(turn[k], k)}
  <2>1. 0 \in S
    BY <1>0, <1>2, <1>11
  <2>2. ASSUME NEW k \in 0 .. m, k < m, k \in S
        PROVE  k + 1 \in S
    <3>1. k + 1 \in 1 .. m /\ (k + 1) - 1 = k /\ k + 1 \in 0 .. m
      <4>1. k < m
        BY <2>2
      <4> HIDE DEF S, m
      <4> QED
        BY <1>0, <4>1
    <3> HIDE DEF m
    <3>2. turn[k + 1] = read(turn[k], k + 1)
      BY <1>11, <3>1
    <3>3. Inv(read(turn[k], k + 1), k + 1)
      BY <1>3, <2>2, <3>1
    <3> QED
      BY <3>1, <3>2, <3>3
  <2>3. \A k \in 0 .. m : k \in S
    <3> HIDE DEF S, m
    <3> QED
      BY <1>0, <2>1, <2>2, Counting
  <2> QED
    BY <2>3
<1>13. Inv(turn[m], m)
  <2> HIDE DEF m
  <2>1. m \in 0 .. m
    BY <1>0
  <2> QED
    BY <1>12, <2>1
<1> QED
  BY <1>1, <1>13, Zenon DEF Inv

LEMMA AvailableIs ==
    ASSUME NEW offset \in Nat, NEW length \in Nat, length > 0, rx.len \in Nat,
           offset + length <= 8 * rx.len
    PROVE  Available(rx, offset, length) = length
<1> DEFINE len == rx.len
           left == 8 * len - offset
<1>1. Available(rx, offset, length) = IF offset >= 8 * len THEN 0 ELSE Lesser(length, left)
  BY Zenon DEF Available
<1>2. len \in Nat /\ offset + length <= 8 * len
  OBVIOUS
<1> HIDE DEF len
<1>3. ~(offset >= 8 * len) /\ left \in Nat /\ length <= left
  BY <1>2
<1> HIDE DEF left
<1>4. Available(rx, offset, length) = Lesser(length, left)
  BY <1>1, <1>3, Zenon
<1>5. Lesser(length, left) = IF length < left THEN length ELSE left
  BY Zenon DEF Lesser
<1> QED
  BY <1>3, <1>4, <1>5

(* What descatterTransferPayload copies is what was sent, wherever it is stored. *)
LEMMA ReadIs ==
    ASSUME message \in Messages, buffer \in SUBSET Nat,
           rx.len \in Nat, Whole \/ Scattered,
           NEW offset \in Nat, NEW length \in Nat, length > 0, offset + length <= 8 * rx.len
    PROVE  LET read == descatterTransferPayload(rx, offset, length, message.head, message.block)
           IN  /\ read \in SUBSET Nat
               /\ \A p \in Nat : p \in read <=> p < length /\ offset + p \in buffer
<1> DEFINE head == message.head
           block == message.block
           len == rx.len
           read == descatterTransferPayload(rx, offset, length, head, block)
           count == Available(rx, offset, length)
           start == [out |-> {}, in |-> offset, done |-> 0, rest |-> length]
           fromHead == ReadHead(rx, start, head)
           middle == ReadMiddle(rx, fromHead, head, block)
           last == ReadTail(rx, middle.progress, middle.start)
           direct == copyBitArray(rx.head, offset, length, {}, 0)
<1>1. read = IF rx.middle # <<>> \/ rx.hasTail THEN last.out ELSE direct
  <2>1. count = length
    BY AvailableIs
  <2>2. read = IF count = 0 THEN {}
               ELSE IF rx.middle # <<>> \/ rx.hasTail
               THEN LET begin == [out |-> {}, in |-> offset, done |-> 0, rest |-> count]
                        mid == ReadMiddle(rx, ReadHead(rx, begin, head), head, block)
                    IN  ReadTail(rx, mid.progress, mid.start).out
               ELSE copyBitArray(rx.head, offset, count, {}, 0)
    BY Zenon DEF descatterTransferPayload
  <2>3. length # 0
    OBVIOUS
  <2> HIDE DEF count
  <2> QED
    BY <2>1, <2>2, <2>3, Zenon
<1>2. head \in Nat /\ block \in Nat /\ Base(1) = head
  BY BaseIs
<1>3. len \in Nat /\ offset + length <= 8 * len
  OBVIOUS
<1>4. CASE ~(rx.middle # <<>> \/ rx.hasTail)
  <2>1. rx.head \in SUBSET Nat
        /\ \A x \in Nat : x < 8 * len => (x \in rx.head <=> x \in buffer)
    <3>1. CASE Whole
      BY <3>1 DEF Whole
    <3>2. CASE Scattered
      <4> DEFINE array == rx.head
      <4>1. Len(rx.middle) = 0 /\ Base(0 + 1) = Base(1)
        BY <1>4
      <4>2. len <= Base(Len(rx.middle) + 1) /\ array \in SUBSET Nat /\ Holds(array, 0, message.head, len)
        BY <1>4, <3>2 DEF Scattered
      <4>3. len <= head
        BY <1>2, <4>1, <4>2
      <4> HIDE DEF head, len, array
      <4>4. ASSUME NEW x \in Nat, x < 8 * len
            PROVE  x \in array <=> x \in buffer
        <5>1. x < 8 * head /\ x + 8 * 0 < 8 * len /\ x + 8 * 0 = x
          BY <1>2, <1>3, <4>3, <4>4
        <5>2. Holds(array, 0, head, len)
          BY <4>2 DEF head
        <5> QED
          BY <5>1, <5>2 DEF Holds
      <4> QED
        BY <4>2, <4>4 DEF array, len
    <3> QED
      BY <3>1, <3>2
  <2>2. /\ direct \in SUBSET Nat
        /\ \A p \in Nat : p \in direct
             <=> IF 0 <= p /\ p < 0 + length THEN p - 0 + offset \in rx.head ELSE p \in {}
    <3>1. rx.head \in SUBSET Int /\ {} \in SUBSET Nat /\ 0 \in Nat
      BY <2>1
    <3> QED
      BY <3>1, Copies
  <2>3. read = direct
    BY <1>1, <1>4, Zenon
  <2> HIDE DEF direct, read
  <2>4. ASSUME NEW p \in Nat
        PROVE  p \in direct <=> p < length /\ offset + p \in buffer
    <3>1. p \in direct <=> p < length /\ p - 0 + offset \in rx.head
      BY <2>2
    <3> DEFINE y == offset + p
    <3>2. y \in Nat /\ p - 0 + offset = y /\ (p < length => y < 8 * len)
      BY <1>3
    <3> HIDE DEF y, len
    <3>3. p < length => (y \in rx.head <=> y \in buffer)
      BY <2>1, <3>2
    <3>4. p \in direct <=> p < length /\ y \in rx.head
      BY <3>1, <3>2, Zenon
    <3> QED
      BY <3>3, <3>4, Zenon DEF y
  <2> QED
    BY <2>2, <2>3, <2>4 DEF read, head, block
<1>5. CASE rx.middle # <<>> \/ rx.hasTail
  <2> DEFINE m == Len(rx.middle)
             next == Base(m + 1)
             pr == middle.progress
             begin == middle.start
  <2>1. Scattered
    BY <1>5 DEF Whole
  <2>2. /\ rx.head \in SUBSET Nat /\ Holds(rx.head, 0, head, len)
        /\ rx.middle \in Seq(SUBSET Nat) /\ m \in Nat
        /\ \A j \in 1 .. m : Holds(rx.middle[j], Base(j), block, len)
        /\ rx.hasTail \in BOOLEAN
        /\ rx.hasTail => rx.tail \in SUBSET Nat /\ Holds(rx.tail, next, len, len)
        /\ ~rx.hasTail => len <= next
    BY <2>1 DEF Scattered
  <2>3. start \in Progresses /\ Progress(start, offset, length)
    BY DEF Progress, Progresses
  <2> HIDE DEF start
  <2>4. /\ fromHead \in Progresses /\ Progress(fromHead, offset, length)
        /\ fromHead.rest = 0 \/ fromHead.in >= 8 * head
    <3>1. Holds(rx.head, 0, head, len) /\ rx.head \in SUBSET Nat
      BY <2>2
    <3> HIDE DEF head, len
    <3> QED
      BY <1>2, <1>3, <2>3, <3>1, HeadRead
  <2> HIDE DEF fromHead
  <2>5. BlockInv(middle, m + 1, offset, length)
    BY <2>2, <2>4, MiddleRead
  <2> HIDE DEF middle
  <2>6. /\ pr \in Progresses /\ begin \in Nat /\ Progress(pr, offset, length)
        /\ pr.rest = 0 \/ (begin = 8 * next /\ pr.in >= begin)
    BY <2>5 DEF BlockInv
  <2>7. /\ pr.in \in Nat /\ pr.rest \in Nat /\ pr.done \in Nat
        /\ pr.in = offset + pr.done /\ pr.done + pr.rest = length
    BY <2>6 DEF Progress
  <2>8. next \in Nat
    <3>1. m + 1 \in Nat /\ m + 1 > 0
      BY <2>2
    <3> HIDE DEF m
    <3> QED
      BY <3>1, BaseIs
  <2> HIDE DEF pr, begin, next, m
  <2>9. Progress(last, offset, length) /\ last.rest = 0
    <3>1. CASE pr.rest = 0
      <4>1. last = pr
        <5>1. ~(pr.rest > 0)
          BY <3>1
        <5> QED
          BY <5>1, Zenon DEF ReadTail, pr
      <4> QED
        BY <2>6, <3>1, <4>1
    <3>2. CASE pr.rest # 0
      <4> DEFINE in == pr.in
                 rest == pr.rest
                 at == BlockOffset(pr, begin)
                 made == Copied(pr, rx.tail, at, rest)
      <4>1. begin = 8 * next /\ in >= begin
        BY <2>6, <3>2
      <4>2. in < 8 * len /\ in + rest <= 8 * len /\ rest > 0
        <5> HIDE DEF len
        <5> QED
          BY <1>3, <2>7, <3>2
      <4>3. rx.hasTail
        <5>1. ~(len <= next)
          <6> HIDE DEF len
          <6> QED
            BY <1>3, <2>7, <2>8, <4>1, <4>2
        <5> QED
          BY <2>2, <5>1
      <4>4. last = made
        BY <4>2, <4>3, Zenon DEF ReadTail, pr, begin
      <4>5. at = in - begin
        BY Zenon DEF BlockOffset
      <4> HIDE DEF at
      <4>6. at \in Nat /\ in - at = 8 * next /\ at + rest <= 8 * len
        <5> HIDE DEF len
        <5> QED
          BY <1>3, <2>6, <2>7, <2>8, <4>1, <4>2, <4>5
      <4>7. rx.tail \in SUBSET Nat /\ Holds(rx.tail, next, len, len)
        BY <2>2, <4>3
      <4>8. Agrees(rx.tail, at, in, rest)
        <5> HIDE DEF len, in, rest
        <5>1. in \in Nat /\ rest \in Nat
          BY <2>7 DEF in, rest
        <5> QED
          BY <1>3, <2>8, <4>2, <4>6, <4>7, <5>1, HeldAgrees
      <4>9. rest <= pr.rest /\ rest - rest = 0 /\ rest \in Nat
        BY <2>7
      <4>10. Progress(made, offset, length) /\ made.rest = 0
        <5>1. made = Copied(pr, rx.tail, at, rest) /\ in = pr.in /\ rest = pr.rest
          OBVIOUS
        <5> DEFINE src == rx.tail
        <5>2. /\ src \in SUBSET Nat /\ at \in Nat /\ rest \in Nat /\ rest <= pr.rest
              /\ Agrees(src, at, in, rest) /\ Progress(pr, offset, length)
          BY <2>6, <4>6, <4>7, <4>8, <4>9
        <5>3. made = Copied(pr, src, at, rest)
          OBVIOUS
        <5> HIDE DEF made, in, rest, src
        <5>4. Agrees(src, at, pr.in, rest)
          BY <5>1, <5>2, Zenon
        <5>5. Progress(made, offset, length) /\ made.rest = pr.rest - rest
          BY <5>2, <5>3, <5>4, CopiedIs
        <5>6. pr.rest - rest = 0
          BY <4>9, <5>1
        <5> QED
          BY <5>5, <5>6
      <4> QED
        BY <4>4, <4>10, Zenon
    <3> QED
      BY <3>1, <3>2
  <2>10. read = last.out
    BY <1>1, <1>5, Zenon
  <2> HIDE DEF last, read
  <2>11. last.done = length
    BY <2>9 DEF Progress
  <2>12. /\ last.out \in SUBSET Nat
         /\ \A p \in Nat : p \in last.out <=> p < length /\ offset + p \in buffer
    BY <2>9, <2>11, Zenon DEF Progress
  <2> QED
    BY <2>10, <2>12, Zenon DEF read, head, block
<1> QED
  BY <1>4, <1>5

(* Nothing is sent before every field is encoded. *)
AllSent == step # "encode" => encoded = Len(message.fields)

ReceiverInv == TransferInv /\ StorageInv /\ AllSent

LEMMA FieldsRead == ReceiverInv => FieldsSurvive
<1> SUFFICES ASSUME ReceiverInv, step = "delivered",
                    NEW i \in DOMAIN message.fields, NEW bigEndian \in BOOLEAN
             PROVE  LET f == message.fields[i]
                    IN  canardDecodeScalar(rx, OffsetOf(i), f.length, f.signed, bigEndian,
                                           message.head, message.block) = Meant(f)
  BY DEF FieldsSurvive
<1> DEFINE f == message.fields[i]
           length == f.length
           offset == OffsetOf(i)
           value == FieldValue(f.length, f.number)
           read == descatterTransferPayload(rx, offset, length, message.head, message.block)
<1>1. /\ message \in Messages /\ buffer \in SUBSET Nat
      /\ \A k \in 1 .. encoded : FieldIn(k)
      /\ encoded = Len(message.fields)
      /\ rx.len \in Nat /\ message.bytes <= rx.len /\ (Whole \/ Scattered)
  BY DEF ReceiverInv, TransferInv, BufferInv, StorageInv, AllSent
<1>2. i \in 1 .. Len(message.fields) /\ FieldIn(i) /\ message.bytes \in Nat
  BY <1>1, MessageIs
<1>3. /\ f \in Fields /\ offset \in Nat
      /\ offset + length <= 8 * message.bytes
  BY <1>1, <1>2, OffsetsAre
<1>4. length \in 1 .. 64
  BY <1>3, MeantIs
<1>5. length \in Nat /\ length > 0 /\ offset + length <= 8 * rx.len
  <2> DEFINE len == rx.len
             bytes == message.bytes
  <2>1. len \in Nat /\ bytes \in Nat /\ bytes <= len /\ offset + length <= 8 * bytes
    BY <1>1, <1>2, <1>3
  <2> HIDE DEF len, bytes, length, offset
  <2> QED
    BY <1>3, <1>4, <2>1 DEF len
<1>6. \A j \in Nat : j < length => (offset + j \in buffer <=> Weight(j, length) \in value)
  BY <1>2, Zenon DEF FieldIn
<1> HIDE DEF f, length, offset, value
<1>7. /\ read \in SUBSET Nat
      /\ \A p \in Nat : p \in read <=> p < length /\ offset + p \in buffer
  BY <1>1, <1>3, <1>5, ReadIs
<1> HIDE DEF read
<1>8. IsField(read, length, value)
  BY <1>6, <1>7, Zenon DEF IsField
<1>9. canardDecodeScalar(rx, offset, f.length, f.signed, bigEndian, message.head, message.block)
        = Meant(f)
  BY <1>3, <1>7, <1>8, DecodedIs DEF read, length, value
<1> QED
  BY <1>9, Zenon DEF f, length, offset

LEMMA AllSentKept == TransferInv /\ AllSent /\ [PayloadNext]_payloadVars => AllSent'
<1> SUFFICES ASSUME TransferInv, AllSent, [PayloadNext]_payloadVars
             PROVE  AllSent'
  OBVIOUS
<1>1. CASE Encode
  BY <1>1 DEF Encode, AllSent
<1>2. CASE Send
  BY <1>2 DEF Send, AllSent
<1>3. CASE StoreFrame
  BY <1>3 DEF StoreFrame, AllSent
<1>4. CASE DeliverSingle
  BY <1>4 DEF DeliverSingle, AllSent
<1>5. CASE DeliverMulti
  BY <1>5 DEF DeliverMulti, AllSent
<1>6. CASE UNCHANGED payloadVars
  BY <1>6 DEF payloadVars, AllSent
<1> QED
  BY <1>1, <1>2, <1>3, <1>4, <1>5, <1>6 DEF PayloadNext

(* canard.h: "it is advised to use canardDecodeScalar()": whatever the transfer, the   *)
(* sizes of the storages and the byte orders, the receiver of canardHandleRxFrame      *)
(* reads with canardDecodeScalar what the sender encoded with canardEncodeScalar.      *)
THEOREM WhatIsEncodedIsDecoded == PayloadSpec => []FieldsSurvive
<1>1. PayloadInit => ReceiverInv
  <2> SUFFICES ASSUME PayloadInit
               PROVE  ReceiverInv
    OBVIOUS
  <2>1. step = "encode"
    BY DEF PayloadInit
  <2> QED
    BY <2>1, TransferStarts DEF ReceiverInv, StorageInv, AllSent
<1>2. ReceiverInv /\ [PayloadNext]_payloadVars => ReceiverInv'
  BY TransferKept, StorageKept, AllSentKept DEF ReceiverInv
<1> QED
  BY <1>1, <1>2, FieldsRead, PTL DEF PayloadSpec
=============================================================================
