------------------------------ MODULE PoolProofs ------------------------------
(***************************************************************************)
(* Proofs about Pool for every length and every set of request sizes: the  *)
(* chain tiles the pool, no two free blocks are neighbours, held blocks    *)
(* stay, and the pool implements the allocator Heap.                       *)
(***************************************************************************)
EXTENDS Pool, TLAPS

\* The facts about a chain sz with the used blocks us, for states in between.
Shaped(sz, us) ==
  /\ DOMAIN sz \subseteq 0 .. Len - 1
  /\ \A h \in DOMAIN sz : sz[h] \in 1 .. Len - 1
  /\ us \subseteq DOMAIN sz
  /\ 0 \in DOMAIN sz

Tiles(sz) ==
  \A h \in DOMAIN sz : /\ h + 1 + sz[h] \in DOMAIN sz \cup {Len}
                       /\ \A g \in DOMAIN sz : g > h => g >= h + 1 + sz[h]

\* Every unit belongs to a block: what makes a refusal mean lack of room.
Covers(sz) == \A x \in 0 .. Len - 1 :
                \E h \in DOMAIN sz : h <= x /\ x < h + 1 + sz[h]

Tidy(sz, us) == \A h \in DOMAIN sz \ us : h + 1 + sz[h] \in us \cup {Len}

Chain(sz, us) == Shaped(sz, us) /\ Tiles(sz) /\ Covers(sz)

ChainInv == IF Blocks = {} THEN used = {} ELSE Chain(size, used) /\ Tidy(size, used)

Inv == /\ asked \in 0 .. Len /\ answer \in 1 .. Len \cup {Null}
       /\ ChainInv

-----------------------------------------------------------------------------
(* Carving a block *)

LEMMA CarvedKeeps ==
  ASSUME NEW n \in 1 .. Len, NEW h \in Fits(n), Chain(size, used)
  PROVE  /\ Carved(h, n)[h] \in {n, n + 1}
         /\ \A g \in Blocks \ {h} : g \in DOMAIN Carved(h, n) /\ Carved(h, n)[g] = size[g]
         /\ h \in DOMAIN Carved(h, n)
<1>1. h \in Blocks /\ h \in 0 .. Len - 1 /\ size[h] \in 1 .. Len - 1 /\ size[h] >= n
  BY PoolAssumption DEF Chain, Shaped, Fits, Blocks
<1>2. CASE Splits(h, n)
  <2>1. h + 1 + n \notin Blocks
    BY <1>1, <1>2, PoolAssumption DEF Chain, Tiles, Shaped, Splits, Blocks
  <2> QED BY <1>1, <1>2, <2>1, PoolAssumption DEF Carved, Blocks
<1>3. CASE ~Splits(h, n)
  BY <1>1, <1>3, PoolAssumption DEF Carved, Splits, Blocks
<1> QED BY <1>2, <1>3

LEMMA CarvedChain ==
  ASSUME NEW n \in 1 .. Len, NEW h \in Fits(n),
         Chain(size, used), Tidy(size, used)
  PROVE  Chain(Carved(h, n), used \cup {h}) /\ Tidy(Carved(h, n), used \cup {h})
<1>1. h \in Blocks \ used /\ h \in 0 .. Len - 1 /\ size[h] \in 1 .. Len - 1 /\ size[h] >= n
  BY PoolAssumption DEF Chain, Shaped, Fits, Blocks
<1>2. CASE ~Splits(h, n)
  <2>1. Carved(h, n) = size
    BY <1>2 DEF Carved
  <2> QED BY <1>1, <2>1 DEF Chain, Shaped, Tidy, Blocks
<1>3. CASE Splits(h, n)
  <2> DEFINE sz == Carved(h, n)
             r  == h + 1 + n
             e  == h + 1 + size[h]
  <2>1. r \in 0 .. Len - 1 /\ r > h /\ r < e /\ e \in Blocks \cup {Len}
    BY <1>1, <1>3, PoolAssumption DEF Chain, Tiles, Shaped, Splits, Blocks
  <2>2. r \notin Blocks
    BY <1>1, <2>1, PoolAssumption DEF Chain, Tiles, Shaped, Blocks
  <2>3. /\ DOMAIN sz = Blocks \cup {r}
        /\ sz[h] = n /\ sz[r] = size[h] - n - 1
        /\ \A g \in Blocks \ {h} : sz[g] = size[g]
    BY <1>1, <1>3, <2>1, <2>2 DEF Carved
  <2>4. sz[r] \in 1 .. Len - 1
    BY <1>1, <1>3, <2>3, PoolAssumption DEF Splits
  <2> HIDE DEF sz
  <2>5. Shaped(sz, used \cup {h})
    <3>1. \A g \in DOMAIN sz : sz[g] \in 1 .. Len - 1
      BY <1>1, <2>1, <2>3, <2>4, PoolAssumption DEF Chain, Shaped, Blocks
    <3> QED BY <1>1, <2>1, <2>3, <3>1 DEF Chain, Shaped, Blocks
  <2>6. Tiles(sz)
    <3> SUFFICES ASSUME NEW g \in DOMAIN sz
                 PROVE  /\ g + 1 + sz[g] \in DOMAIN sz \cup {Len}
                        /\ \A k \in DOMAIN sz : k > g => k >= g + 1 + sz[g]
      BY DEF Tiles
    <3>1. CASE g = h
      BY <1>1, <2>1, <2>3, <3>1, PoolAssumption DEF Chain, Tiles, Shaped, Blocks
    <3>2. CASE g = r
      BY <1>1, <2>1, <2>3, <3>2, PoolAssumption DEF Chain, Tiles, Shaped, Blocks
    <3>3. CASE g \in Blocks \ {h}
      <4>1. g + 1 + size[g] \in Blocks \cup {Len}
        BY <3>3 DEF Chain, Tiles, Blocks
      <4>2. \A k \in Blocks : k > g => k >= g + 1 + size[g]
        BY <3>3 DEF Chain, Tiles, Blocks
      <4>3. r > g => r >= g + 1 + size[g]
        BY <1>1, <2>1, <3>3, <4>2, PoolAssumption DEF Chain, Tiles, Shaped, Blocks
      <4> QED BY <2>3, <3>3, <4>1, <4>2, <4>3
    <3> QED BY <2>3, <3>1, <3>2, <3>3
  <2>7. Covers(sz)
    <3> SUFFICES ASSUME NEW x \in 0 .. Len - 1
                 PROVE  \E g \in DOMAIN sz : g <= x /\ x < g + 1 + sz[g]
      BY DEF Covers
    <3>1. PICK g \in Blocks : g <= x /\ x < g + 1 + size[g]
      BY DEF Chain, Covers, Blocks
    <3>2. CASE g # h
      BY <2>3, <3>1, <3>2
    <3>3. CASE g = h /\ x < r
      BY <1>1, <2>3, <3>1, <3>3
    <3>4. CASE g = h /\ x >= r
      <4>1. r <= x /\ x < r + 1 + sz[r]
        BY <1>1, <2>1, <2>3, <3>1, <3>4, PoolAssumption
      <4> QED BY <2>3, <4>1
    <3>5. g \in Int /\ (x < r \/ x >= r)
      BY <1>1, <2>1, <3>1, PoolAssumption DEF Chain, Shaped, Blocks
    <3> QED BY <3>2, <3>3, <3>4, <3>5
  <2>8. Tidy(sz, used \cup {h})
    <3> SUFFICES ASSUME NEW g \in DOMAIN sz \ (used \cup {h})
                 PROVE  g + 1 + sz[g] \in (used \cup {h}) \cup {Len}
      BY DEF Tidy
    <3>1. e \in used \cup {Len}
      BY <1>1 DEF Tidy, Blocks
    <3>2. CASE g = r
      BY <1>1, <2>1, <2>3, <3>1, <3>2, PoolAssumption
    <3>3. CASE g # r
      BY <1>1, <2>1, <2>3, <3>3 DEF Tidy, Blocks
    <3> QED BY <3>2, <3>3
  <2> QED BY <2>5, <2>6, <2>7, <2>8 DEF Chain, sz
<1> QED BY <1>2, <1>3

-----------------------------------------------------------------------------
(* Coalescing after block p was freed *)

\* Two different blocks do not end at the same place.
LEMMA OnePredecessor ==
  ASSUME NEW sz, NEW us, Chain(sz, us),
         NEW f \in DOMAIN sz, NEW g \in DOMAIN sz, NEW h, Follows(sz, f, h), Follows(sz, g, h)
  PROVE  f = g
BY PoolAssumption DEF Chain, Shaped, Tiles, Follows

\* A swallowed block lies behind p or is p; its swallower is free too.
LEMMA RunThroughP ==
  ASSUME NEW sz, NEW us, NEW p \in DOMAIN sz \ us,
         Chain(sz, us \cup {p}), Tidy(sz, us \cup {p}),
         NEW g \in DOMAIN sz \ us, NEW h \in DOMAIN sz \ us, Follows(sz, g, h)
  PROVE  g = p \/ h = p
BY PoolAssumption DEF Chain, Shaped, Tidy, Follows

\* Each head has an end: the used block or the pool's end that closes its run.
LEMMA RunHasEnd ==
  ASSUME NEW sz, NEW us, NEW p \in DOMAIN sz \ us,
         Chain(sz, us \cup {p}), Tidy(sz, us \cup {p}),
         NEW h \in Heads(sz, us)
  PROVE  \E e \in 0 .. Len : /\ Ends(Heads(sz, us), h, e)
                             /\ h \notin us => e \in us \cup {Len}
                             /\ h \in us => e = h + 1 + sz[h]
<1> DEFINE N(b) == b + 1 + sz[b]
<1>1. /\ \A b \in DOMAIN sz : b \in 0 .. Len - 1 /\ sz[b] \in 1 .. Len - 1
      /\ us \subseteq DOMAIN sz
      /\ \A b \in DOMAIN sz : N(b) \in DOMAIN sz \cup {Len}
      /\ \A b, g \in DOMAIN sz : g > b => g >= N(b)
  BY DEF Chain, Shaped, Tiles
<1>2. h \in DOMAIN sz
  BY DEF Heads
<1>3. us \subseteq Heads(sz, us)
  BY <1>1 DEF Heads, Swallowed
<1>4. \A b \in DOMAIN sz \ us : N(b) \notin us \cup {Len} =>
        N(b) \in DOMAIN sz \ us /\ Follows(sz, b, N(b)) /\ N(b) \notin Heads(sz, us)
  BY <1>1 DEF Heads, Swallowed, Follows
<1>5. ASSUME NEW e \in 0 .. Len, e \in Heads(sz, us) \cup {Len}, e > h,
             \A g \in Heads(sz, us) : g > h => g >= e
      PROVE  Ends(Heads(sz, us), h, e)
  BY <1>5 DEF Ends
<1>6. CASE h \in us
  <2>1. N(h) \in Heads(sz, us) \cup {Len}
    <3>1. ASSUME N(h) \in DOMAIN sz, NEW g \in DOMAIN sz \ us, Follows(sz, g, N(h))
          PROVE  FALSE
      <4>1. Follows(sz, h, N(h))
        BY DEF Follows
      <4>2. g = h
        BY <1>2, <3>1, <4>1, OnePredecessor
      <4> QED BY <1>6, <3>1, <4>2
    <3> QED BY <1>1, <1>2, <3>1 DEF Heads, Swallowed
  <2>2. N(h) \in 0 .. Len /\ N(h) > h
    BY <1>1, <1>2, PoolAssumption
  <2>3. \A g \in Heads(sz, us) : g > h => g >= N(h)
    BY <1>1, <1>2 DEF Heads
  <2>4. Ends(Heads(sz, us), h, N(h))
    BY <1>5, <2>1, <2>2, <2>3
  <2> QED BY <1>6, <2>2, <2>4
<1>7. CASE h \notin us /\ N(h) \in us \cup {Len}
  <2>1. N(h) \in 0 .. Len /\ N(h) > h
    BY <1>1, <1>2, PoolAssumption
  <2>2. \A g \in Heads(sz, us) : g > h => g >= N(h)
    BY <1>1, <1>2 DEF Heads
  <2>3. Ends(Heads(sz, us), h, N(h))
    BY <1>3, <1>5, <1>7, <2>1, <2>2
  <2> QED BY <1>7, <2>1, <2>3
<1>8. CASE h \notin us /\ N(h) \notin us \cup {Len}
  <2> DEFINE k == N(h)
  <2>1. k \in DOMAIN sz \ us /\ Follows(sz, h, k) /\ k \notin Heads(sz, us) /\ k > h
    BY <1>1, <1>2, <1>4, <1>8
  <2>2. h = p \/ k = p
    BY <1>2, <1>8, <2>1, RunThroughP
  <2>3. \A g \in Heads(sz, us) : g > h => g >= N(k)
    <3>1. \A g \in Heads(sz, us) : g > h => g >= k /\ g # k
      BY <1>1, <1>2, <2>1 DEF Heads
    <3>2. \A g \in DOMAIN sz : g > k => g >= N(k)
      BY <1>1, <2>1
    <3> QED BY <1>1, <2>1, <3>1, <3>2 DEF Heads
  <2>4. N(k) \in 0 .. Len /\ N(k) > h
    BY <1>1, <1>2, <2>1, PoolAssumption
  <2>5. CASE N(k) \in us \cup {Len}
    <3>1. Ends(Heads(sz, us), h, N(k))
      BY <1>3, <1>5, <2>3, <2>4, <2>5
    <3> QED BY <1>8, <2>4, <2>5, <3>1
  <2>6. CASE N(k) \notin us \cup {Len}
    <3> DEFINE m == N(k)
    <3>1. m \in DOMAIN sz \ us /\ Follows(sz, k, m) /\ m \notin Heads(sz, us) /\ m > k
      BY <1>1, <1>4, <2>1, <2>6
    <3>2. k = p
      BY <1>1, <1>2, <2>1, <2>2, <3>1, RunThroughP
    <3>3. m # p
      BY <1>1, <2>1, <3>1, <3>2
    <3>4. N(m) \in us \cup {Len}
      <4>1. N(m) \in us \cup {p} \cup {Len}
        BY <3>1, <3>3 DEF Tidy
      <4>2. N(m) > p
        BY <1>1, <2>1, <3>1, <3>2
      <4> QED BY <1>1, <4>1, <4>2
    <3>5. \A g \in Heads(sz, us) : g > h => g >= N(m)
      <4>1. \A g \in DOMAIN sz : g > m => g >= N(m)
        BY <1>1, <3>1
      <4> QED BY <1>1, <2>3, <3>1, <4>1 DEF Heads
    <3>6. N(m) \in 0 .. Len /\ N(m) > h
      BY <1>1, <1>2, <2>1, <3>1, PoolAssumption
    <3>7. Ends(Heads(sz, us), h, N(m))
      BY <1>3, <1>5, <3>4, <3>5, <3>6
    <3> QED BY <1>8, <3>4, <3>6, <3>7
  <2> QED BY <2>5, <2>6
<1> QED BY <1>6, <1>7, <1>8

\* The walk of pool_free leaves a chain, tidies it and touches no used block.
LEMMA MergedChain ==
  ASSUME NEW sz, NEW us, NEW p \in DOMAIN sz \ us,
         Chain(sz, us \cup {p}), Tidy(sz, us \cup {p})
  PROVE  /\ Chain(Merged(sz, us), us) /\ Tidy(Merged(sz, us), us)
         /\ \A h \in us : h \in DOMAIN Merged(sz, us) /\ Merged(sz, us)[h] = sz[h]
<1> DEFINE heads == Heads(sz, us)
           mz == Merged(sz, us)
           M(h) == h + 1 + mz[h]
<1>1. /\ \A b \in DOMAIN sz : b \in 0 .. Len - 1 /\ sz[b] \in 1 .. Len - 1
      /\ us \subseteq DOMAIN sz /\ 0 \in DOMAIN sz
      /\ \A b \in DOMAIN sz : b + 1 + sz[b] \in DOMAIN sz \cup {Len}
      /\ \A b, g \in DOMAIN sz : g > b => g >= b + 1 + sz[b]
  BY DEF Chain, Shaped, Tiles
<1>2. heads \subseteq DOMAIN sz /\ us \subseteq heads /\ DOMAIN mz = heads
  BY <1>1 DEF Heads, Swallowed, Merged
<1>3. \A h \in heads, e, d \in 0 .. Len : Ends(heads, h, e) /\ Ends(heads, h, d) => e = d
  BY <1>1, <1>2, PoolAssumption DEF Ends
<1>4. ASSUME NEW h \in heads
      PROVE  /\ M(h) \in heads \cup {Len} /\ M(h) > h
             /\ \A g \in heads : g > h => g >= M(h)
             /\ h \notin us => M(h) \in us \cup {Len}
             /\ h \in us => mz[h] = sz[h]
  <2>1. PICK e \in 0 .. Len : /\ Ends(heads, h, e)
                              /\ h \notin us => e \in us \cup {Len}
                              /\ h \in us => e = h + 1 + sz[h]
    BY RunHasEnd
  <2>2. (CHOOSE d \in 0 .. Len : Ends(heads, h, d)) = e
    BY <1>3, <2>1
  <2>3. mz[h] = e - h - 1
    BY <2>2 DEF Merged
  <2>4. M(h) = e /\ (h \in us => mz[h] = sz[h])
    BY <1>1, <1>2, <2>1, <2>3
  <2> HIDE DEF mz
  <2> QED BY <2>1, <2>4 DEF Ends
<1> HIDE DEF mz
<1>5. \A h \in heads : M(h) >= h + 1 + sz[h]
  BY <1>1, <1>2, <1>4, PoolAssumption
<1>6. Shaped(mz, us)
  <2>1. 0 \in heads
    BY <1>1 DEF Heads, Swallowed, Follows
  <2>2. \A h \in heads : mz[h] \in Int
    <3> SUFFICES ASSUME NEW h \in heads PROVE mz[h] \in Int
      OBVIOUS
    <3>1. PICK e \in 0 .. Len : mz[h] = e - h - 1
      <4>1. (CHOOSE d \in 0 .. Len : Ends(heads, h, d)) \in 0 .. Len
        BY RunHasEnd
      <4> QED BY <4>1 DEF mz, Merged
    <3> QED BY <1>1, <1>2, <3>1
  <2>3. \A h \in heads : mz[h] \in 1 .. Len - 1
    BY <1>1, <1>2, <1>4, <1>5, <2>2, PoolAssumption
  <2> QED BY <1>1, <1>2, <2>1, <2>3 DEF Shaped
<1>7. Tiles(mz)
  BY <1>2, <1>4 DEF Tiles
<1>8. Tidy(mz, us)
  BY <1>2, <1>4 DEF Tidy
<1>9. Covers(mz)
  <2> SUFFICES ASSUME NEW x \in 0 .. Len - 1
               PROVE  \E h \in heads : h <= x /\ x < M(h)
    BY <1>2 DEF Covers
  <2>1. PICK b \in DOMAIN sz : b <= x /\ x < b + 1 + sz[b]
    BY DEF Chain, Covers
  <2>2. \A h \in heads : M(h) \in 0 .. Len
    BY <1>1, <1>2, <1>4, PoolAssumption
  <2>3. ASSUME NEW g \in heads, NEW k \in DOMAIN sz \ heads, Follows(sz, g, k)
        PROVE  M(g) >= k + 1 + sz[k]
    <3>1. M(g) >= k /\ M(g) # k
      BY <1>1, <1>2, <1>4, <1>5, <2>3 DEF Follows
    <3>2. M(g) > k
      BY <1>1, <2>2, <3>1
    <3>3. CASE M(g) = Len
      <4>1. k + 1 + sz[k] <= Len
        BY <1>1, PoolAssumption
      <4> QED BY <3>3, <4>1
    <3>4. CASE M(g) \in heads
      BY <1>1, <1>2, <3>2, <3>4
    <3> QED BY <1>4, <3>3, <3>4
  <2>4. CASE b \in heads
    BY <1>1, <1>2, <1>5, <2>1, <2>2, <2>4
  <2>5. CASE b \notin heads
    <3>1. PICK g \in DOMAIN sz \ us : Follows(sz, g, b) /\ b \notin us
      BY <2>5 DEF Heads, Swallowed
    <3>2. CASE g \in heads
      <4>1. M(g) >= b + 1 + sz[b]
        BY <2>3, <2>5, <3>1, <3>2
      <4>2. g <= x
        BY <1>1, <2>1, <3>1 DEF Follows
      <4> QED BY <1>1, <2>1, <2>2, <3>2, <4>1, <4>2
    <3>3. CASE g \notin heads
      <4>1. PICK f \in DOMAIN sz \ us : Follows(sz, f, g)
        BY <3>3 DEF Heads, Swallowed
      <4>2. f < g /\ g < b
        BY <1>1, <3>1, <4>1 DEF Follows
      <4>3. g = p
        BY <1>1, <3>1, <4>1, <4>2, RunThroughP
      <4>4. f \in heads
        <5>1. ASSUME NEW d \in DOMAIN sz \ us, Follows(sz, d, f)
              PROVE  FALSE
          <6>1. d < f
            BY <1>1, <5>1 DEF Follows
          <6>2. d = p \/ f = p
            BY <4>1, <5>1, RunThroughP
          <6> QED BY <1>1, <4>2, <4>3, <6>1, <6>2
        <5> QED BY <5>1 DEF Heads, Swallowed
      <4>5. M(f) >= g + 1 + sz[g] /\ g + 1 + sz[g] = b
        BY <2>3, <3>1, <3>3, <4>1, <4>4 DEF Follows
      <4>6. M(f) # b
        BY <1>1, <1>2, <1>4, <2>5, <4>4, PoolAssumption
      <4>7. M(f) >= b + 1 + sz[b]
        BY <1>1, <1>2, <1>4, <2>2, <4>4, <4>5, <4>6, PoolAssumption
      <4>8. f <= x
        BY <1>1, <2>1, <4>2
      <4> QED BY <1>1, <2>1, <2>2, <4>4, <4>7, <4>8
    <3> QED BY <3>2, <3>3
  <2> QED BY <2>4, <2>5
<1> QED BY <1>2, <1>4, <1>6, <1>7, <1>8, <1>9 DEF Chain, mz

-----------------------------------------------------------------------------
(* The invariant *)

LEMMA InvInit == Init => Inv
BY PoolAssumption DEF Init, Inv, ChainInv, Blocks

\* A block to alloc or free exists only in a pool that is there.
LEMMA PoolThere ==
  ASSUME Inv, Blocks # {}
  PROVE  Chain(size, used) /\ Tidy(size, used)
BY DEF Inv, ChainInv

LEMMA ChainIsInv ==
  ASSUME Chain(size, used), Tidy(size, used),
         asked \in 0 .. Len, answer \in 1 .. Len \cup {Null}
  PROVE  Inv
BY DEF Inv, ChainInv, Chain, Shaped, Blocks

LEMMA InvNext == Inv /\ [Next]_vars => Inv'
<1> SUFFICES ASSUME Inv, [Next]_vars PROVE Inv'
  OBVIOUS
<1>1. CASE PoolInit
  <2>1. /\ DOMAIN size' = {0} /\ size'[0] = Len - 1 /\ used' = {}
        /\ asked' = asked /\ answer' = answer
    BY <1>1 DEF PoolInit
  <2>2. Shaped(size, used)' /\ Tiles(size)' /\ Covers(size)' /\ Tidy(size, used)'
    BY <2>1, PoolAssumption DEF Shaped, Tiles, Covers, Tidy
  <2>3. asked' \in 0 .. Len /\ answer' \in 1 .. Len \cup {Null}
    BY <2>1 DEF Inv
  <2>4. Chain(size, used)'
    BY <2>2 DEF Chain
  <2> QED BY <2>1, <2>2, <2>3, <2>4 DEF Inv, ChainInv, Blocks
<1>2. ASSUME NEW n \in Requests, Alloc(n)
      PROVE  Inv'
  <2>1. n \in 1 .. Len
    BY <1>2, PoolAssumption DEF Alloc
  <2>2. PICK h \in Fits(n) : /\ size' = Carved(h, n) /\ used' = used \cup {h}
                             /\ asked' = n /\ answer' = Payload(h)
    BY <1>2 DEF Alloc
  <2>3. Chain(size, used) /\ Tidy(size, used) /\ h \in 0 .. Len - 1
    BY PoolThere, PoolAssumption DEF Fits, Chain, Shaped, Blocks
  <2>4. Chain(size', used') /\ Tidy(size', used')
    BY <2>1, <2>2, <2>3, CarvedChain
  <2>5. asked' \in 0 .. Len /\ answer' \in 1 .. Len \cup {Null}
    BY <2>1, <2>2, <2>3, PoolAssumption DEF Payload
  <2> QED BY <2>4, <2>5 DEF Inv, ChainInv, Chain, Shaped, Blocks
<1>3. ASSUME NEW n \in Requests, AllocFails(n)
      PROVE  Inv'
  BY <1>3, PoolAssumption DEF AllocFails, Inv, ChainInv, Blocks
<1>4. ASSUME NEW q \in 1 .. Len, Free(q)
      PROVE  Inv'
  <2> DEFINE p == Header(q)
  <2>1. p \in used /\ Blocks # {}
    BY <1>4 DEF Free, Inv, ChainInv, Blocks, Chain, Shaped
  <2>2. Chain(size, used) /\ Tidy(size, used) /\ p \in DOMAIN size
    BY <2>1, PoolThere DEF Chain, Shaped, Blocks
  <2>3. used' \cup {p} = used /\ p \notin used' /\ size' = Merged(size, used')
    BY <1>4, <2>1 DEF Free
  <2>4. Chain(size', used') /\ Tidy(size', used')
    BY <2>2, <2>3, MergedChain
  <2> QED BY <1>4, <2>4 DEF Free, Inv, ChainInv, Chain, Shaped, Blocks
<1>5. ASSUME NEW q \in 1 .. Len, NEW n \in Requests, ReallocStays(q, n)
      PROVE  Inv'
  BY <1>5, PoolAssumption DEF ReallocStays, Inv, ChainInv, Blocks
<1>6. ASSUME NEW q \in 1 .. Len, NEW n \in Requests, ReallocMoves(q, n)
      PROVE  Inv'
  <2> DEFINE p == Header(q)
  <2>1. p \in used /\ Blocks # {}
    BY <1>6 DEF ReallocMoves, Inv, ChainInv, Blocks, Chain, Shaped
  <2>2. Chain(size, used) /\ Tidy(size, used) /\ size[p] \in 1 .. Len - 1 /\ p \in Blocks
    BY <2>1, PoolThere DEF Chain, Shaped, Blocks
  <2>3. n \in 1 .. Len
    BY <1>6, <2>2, PoolAssumption DEF ReallocMoves
  <2>4. PICK h \in Fits(n) : /\ used' = (used \cup {h}) \ {p}
                             /\ size' = Merged(Carved(h, n), used')
                             /\ asked' = n /\ answer' = Payload(h)
    BY <1>6 DEF ReallocMoves
  <2>5. h \in 0 .. Len - 1 /\ h # p
    BY <2>1, <2>2 DEF Fits, Chain, Shaped, Blocks
  <2>6. Chain(Carved(h, n), used \cup {h}) /\ Tidy(Carved(h, n), used \cup {h})
    BY <2>2, <2>3, CarvedChain
  <2>7. used' \cup {p} = used \cup {h} /\ p \notin used' /\ p \in DOMAIN Carved(h, n)
    BY <2>1, <2>2, <2>3, <2>4, <2>5, CarvedKeeps
  <2>8. Chain(size', used') /\ Tidy(size', used')
    BY <2>4, <2>6, <2>7, MergedChain
  <2>9. asked' \in 0 .. Len /\ answer' \in 1 .. Len \cup {Null}
    BY <2>3, <2>4, <2>5, PoolAssumption DEF Payload
  <2> QED BY <2>8, <2>9 DEF Inv, ChainInv, Chain, Shaped, Blocks
<1>7. ASSUME NEW q \in 1 .. Len, NEW n \in Requests, ReallocFails(q, n)
      PROVE  Inv'
  BY <1>7, PoolAssumption DEF ReallocFails, Inv, ChainInv, Blocks
<1>8. CASE UNCHANGED vars
  BY <1>8 DEF vars, Inv, ChainInv, Blocks
<1> QED BY <1>1, <1>2, <1>3, <1>4, <1>5, <1>6, <1>7, <1>8 DEF Next

LEMMA InvAlways == Spec => []Inv
BY InvInit, InvNext, PTL DEF Spec

-----------------------------------------------------------------------------
(* Theorems *)

\* Blocks lie in the pool, none is empty, and what is held is a block.
THEOREM TypeCorrect == Spec => []TypeOK
<1>1. Inv => TypeOK
  BY PoolAssumption DEF Inv, ChainInv, Chain, Shaped, TypeOK, Blocks
<1> QED BY <1>1, InvAlways, PTL

\* A walk from the start of the pool meets every header and ends at its end.
THEOREM ChainIsTiled == Spec => []ChainTiles
<1>1. Inv => ChainTiles
  BY DEF Inv, ChainInv, Chain, Shaped, Tiles, ChainTiles, Blocks, End
<1> QED BY <1>1, InvAlways, PTL

\* No history of allocations, growth and frees leaves two free neighbours.
THEOREM Coalesced == Spec => []NoFreeNeighbours
<1>1. Inv => NoFreeNeighbours
  BY DEF Inv, ChainInv, Tidy, NoFreeNeighbours, Blocks, End
<1> QED BY <1>1, InvAlways, PTL

\* When everything has been given back the pool is one block again.
THEOREM EmptyPoolIsWhole == Spec => []EmptyIsWhole
<1>1. ASSUME Inv, Blocks # {}, used = {}
      PROVE  Blocks = {0} /\ size[0] = Len - 1
  <2>1. Chain(size, used) /\ Tidy(size, used)
    BY <1>1, PoolThere
  <2>2. 0 \in Blocks /\ 0 + 1 + size[0] = Len /\ size[0] \in 1 .. Len - 1
    BY <1>1, <2>1 DEF Chain, Shaped, Tidy, Blocks
  <2>3. \A g \in Blocks : g \in 0 .. Len - 1 /\ (g > 0 => g >= Len)
    BY <2>1, <2>2 DEF Chain, Shaped, Tiles, Blocks
  <2> QED BY <2>2, <2>3, PoolAssumption
<1>2. Inv => EmptyIsWhole
  BY <1>1 DEF EmptyIsWhole
<1> QED BY <1>2, InvAlways, PTL

\* No step moves, shrinks or grows a block that a client holds on to.
THEOREM HeldBlocksStay == Spec => HeldStays
<1>1. ASSUME Inv, [Next]_vars, NEW b \in used, b \in used'
      PROVE  size'[b] = size[b]
  <2>1. Blocks # {} /\ Chain(size, used) /\ Tidy(size, used) /\ used \subseteq Blocks
    BY <1>1 DEF Inv, ChainInv, Chain, Shaped, Blocks
  <2>2. ASSUME NEW n \in Requests, n > 0, NEW h \in Fits(n)
        PROVE  Carved(h, n)[b] = size[b]
    <3>1. b # h
      BY <1>1, <2>2 DEF Fits
    <3> QED BY <1>1, <2>1, <2>2, <3>1, CarvedKeeps, PoolAssumption
  <2>3. ASSUME NEW n \in Requests, Alloc(n)
        PROVE  size'[b] = size[b]
    BY <2>2, <2>3 DEF Alloc
  <2>4. ASSUME NEW q \in 1 .. Len, Free(q)
        PROVE  size'[b] = size[b]
    <3> DEFINE p == Header(q)
    <3>1. used' \cup {p} = used /\ p \in DOMAIN size \ used' /\ size' = Merged(size, used')
      BY <2>1, <2>4 DEF Free, Blocks
    <3> QED BY <1>1, <2>1, <3>1, MergedChain
  <2>5. ASSUME NEW q \in 1 .. Len, NEW n \in Requests, ReallocMoves(q, n)
        PROVE  size'[b] = size[b]
    <3> DEFINE p == Header(q)
    <3>1. PICK h \in Fits(n) : /\ used' = (used \cup {h}) \ {p}
                               /\ size' = Merged(Carved(h, n), used')
      BY <2>5 DEF ReallocMoves
    <3>2. n \in 1 .. Len /\ p \in used /\ p \in Blocks /\ h # p
      BY <2>1, <2>5, PoolAssumption DEF ReallocMoves, Chain, Shaped, Blocks, Fits
    <3>3. Chain(Carved(h, n), used \cup {h}) /\ Tidy(Carved(h, n), used \cup {h})
      BY <2>1, <3>2, CarvedChain
    <3>4. used' \cup {p} = used \cup {h} /\ p \in DOMAIN Carved(h, n) \ used'
      BY <2>1, <3>1, <3>2, CarvedKeeps
    <3>5. size'[b] = Carved(h, n)[b]
      BY <1>1, <3>1, <3>3, <3>4, MergedChain
    <3> QED BY <2>2, <3>2, <3>5
  <2>6. CASE UNCHANGED size
    BY <2>6
  <2>7. ~PoolInit
    BY <2>1 DEF PoolInit
  <2> QED BY <1>1, <2>3, <2>4, <2>5, <2>6, <2>7
          DEF Next, vars, AllocFails, ReallocStays, ReallocFails
<1>2. Inv /\ [Next]_vars => [\A h \in used \cap used' : size'[h] = size[h]]_vars
  BY <1>1
<1> QED BY <1>2, InvAlways, PTL DEF Spec, HeldStays

-----------------------------------------------------------------------------
(* The pool implements the allocator *)

Live == [p \in {Payload(h) : h \in used} |-> size[Header(p)]]

LEMMA LiveIs ==
  ASSUME Inv
  PROVE  /\ DOMAIN Live = {Payload(h) : h \in used}
         /\ \A h \in used : h \in 0 .. Len - 1 /\ Header(Payload(h)) = h
                            /\ Live[Payload(h)] = size[h]
<1>1. \A h \in used : h \in 0 .. Len - 1
  BY PoolAssumption DEF Inv, ChainInv, Chain, Shaped, Blocks
<1>2. \A h \in used : Header(Payload(h)) = h
  BY <1>1 DEF Header, Payload
<1> QED BY <1>1, <1>2 DEF Live

\* A free block is vacant for whatever fits into it.
LEMMA FreeIsVacant ==
  ASSUME Inv, NEW h \in Blocks \ used, NEW c \in 1 .. size[h]
  PROVE  H!Vacant(Payload(h), c)
<1>1. Chain(size, used) /\ h \in 0 .. Len - 1 /\ size[h] \in 1 .. Len - 1
  BY PoolThere DEF Chain, Shaped, Blocks
<1>2. h + size[h] <= Len - 1
  BY <1>1, PoolAssumption DEF Chain, Tiles, Shaped, Blocks
<1>3. H!Span(Payload(h), c) = h .. h + c
  BY <1>1 DEF H!Span, Payload
<1>4. h .. h + c \subseteq 0 .. Len - 1
  BY <1>1, <1>2, PoolAssumption
<1>5. ASSUME NEW q \in DOMAIN Live
      PROVE  (h .. h + c) \cap H!Span(q, Live[q]) = {}
  <2>1. PICK g \in used : q = Payload(g)
    BY LiveIs
  <2>2. g \in Blocks /\ g # h /\ g \in 0 .. Len - 1 /\ size[g] \in 1 .. Len - 1
    BY <1>1 DEF Chain, Shaped, Blocks
  <2>3. H!Span(q, Live[q]) = g .. g + size[g]
    BY <2>1, <2>2, LiveIs DEF H!Span, Payload
  <2>4. (g > h => g >= h + 1 + size[h]) /\ (h > g => h >= g + 1 + size[g])
    BY <1>1, <2>2 DEF Chain, Tiles, Blocks
  <2> QED BY <1>1, <2>2, <2>3, <2>4
<1> QED BY <1>3, <1>4, <1>5 DEF H!Vacant, H!Held, Live

\* When no free block fits, no vacant stretch of the pool does.
LEMMA RefusedIsFull ==
  ASSUME Inv, NEW n \in 1 .. Len, Fits(n) = {}, Blocks # {},
         NEW p \in 1 .. Len, H!Vacant(p, n)
  PROVE  FALSE
<1>1. Chain(size, used) /\ Tidy(size, used)
  BY PoolThere
<1>2. /\ p - 1 \in 0 .. Len - 1 /\ p + n - 1 \in 0 .. Len - 1
      /\ \A q \in DOMAIN Live : H!Span(p, n) \cap H!Span(q, Live[q]) = {}
  <2>1. p - 1 \in H!Span(p, n) /\ p + n - 1 \in H!Span(p, n)
    BY PoolAssumption DEF H!Span
  <2> QED BY <2>1 DEF H!Vacant, H!Held, Live
<1>3. ASSUME NEW g \in used, NEW x \in g .. g + size[g], p - 1 <= x, x <= p + n - 1
      PROVE  FALSE
  <2>1. g \in 0 .. Len - 1 /\ size[g] \in 1 .. Len - 1
    BY <1>1 DEF Chain, Shaped
  <2>2. x \in H!Span(Payload(g), Live[Payload(g)])
    BY <2>1, LiveIs DEF H!Span, Payload
  <2>3. x \in H!Span(p, n)
    BY <1>3, <2>1, PoolAssumption DEF H!Span
  <2>4. Payload(g) \in DOMAIN Live
    BY LiveIs
  <2> QED BY <1>2, <2>2, <2>3, <2>4
<1>4. PICK h \in Blocks : h <= p - 1 /\ p - 1 < h + 1 + size[h]
  BY <1>1, <1>2 DEF Chain, Covers, Blocks
<1>5. h \in 0 .. Len - 1 /\ size[h] \in 1 .. Len - 1
  BY <1>1 DEF Chain, Shaped, Blocks
<1>6. h \notin used
  <2>1. p - 1 \in h .. h + size[h] /\ p - 1 <= p + n - 1
    BY <1>2, <1>4, <1>5
  <2> QED BY <1>2, <1>3, <2>1
<1>7. size[h] < n
  BY <1>5, <1>6 DEF Fits
<1> DEFINE e == h + 1 + size[h]
<1>8. e \in used \cup {Len}
  BY <1>1, <1>6 DEF Tidy, Blocks
<1>9. p - 1 <= e /\ e <= p + n - 1
  BY <1>2, <1>4, <1>5, <1>7
<1>10. e # Len
  BY <1>2, <1>5, <1>9, PoolAssumption
<1>11. e \in used /\ e \in e .. e + size[e]
  <2>1. e \in used /\ e \in 0 .. Len - 1 /\ size[e] \in 1 .. Len - 1
    BY <1>1, <1>8, <1>10 DEF Chain, Shaped
  <2> QED BY <2>1
<1> HIDE DEF e
<1> QED BY <1>3, <1>9, <1>11

\* A grant of c units in block h is a grant of the allocator.
LEMMA GrantStep ==
  ASSUME Inv, Inv', NEW n \in 1 .. Len, NEW h \in Fits(n), NEW keep \in SUBSET used,
         used' = keep \cup {h}, size'[h] \in {n, n + 1}, size'[h] <= size[h],
         \A g \in keep : size'[g] = size[g], Blocks' # {},
         asked' = n, answer' = Payload(h)
  PROVE  H!Grants({Payload(g) : g \in keep}, n)
<1> DEFINE c == size'[h]
           K == {Payload(g) : g \in keep}
<1>1. Blocks # {} /\ h \in Blocks \ used /\ h \in 0 .. Len - 1
      /\ size[h] \in 1 .. Len - 1 /\ c \in 1 .. size[h] /\ c \in {n, n + 1}
  BY PoolThere, PoolAssumption DEF Fits, Chain, Shaped, Blocks
<1>2. H!Vacant(Payload(h), c) /\ Payload(h) \in 1 .. Len
  <2>1. Payload(h) \in 1 .. Len
    BY <1>1, PoolAssumption DEF Payload
  <2> HIDE DEF c
  <2> QED BY <1>1, <2>1, FreeIsVacant
<1>3. DOMAIN Live' = K \cup {Payload(h)}
  BY LiveIs DEF Live
<1>4. \A q \in K \cup {Payload(h)} :
        Live'[q] = IF q = Payload(h) THEN c ELSE Live[q]
  <2> SUFFICES ASSUME NEW g \in keep \cup {h}
               PROVE  Live'[Payload(g)] = IF Payload(g) = Payload(h) THEN c
                                          ELSE Live[Payload(g)]
    OBVIOUS
  <2>1. g \in used' /\ g \in 0 .. Len - 1 /\ Header(Payload(g)) = g
    BY <1>1, LiveIs DEF Payload, Header
  <2>2. Live' = [p \in {Payload(b) : b \in used'} |-> size'[Header(p)]]
    BY DEF Live
  <2>3. Live'[Payload(g)] = size'[g]
    BY <2>1, <2>2
  <2>4. CASE g = h
    BY <2>3, <2>4
  <2>5. CASE g # h
    <3>1. Payload(g) # Payload(h) /\ g \in used /\ g \in keep
      BY <1>1, <2>1, <2>5 DEF Payload
    <3> QED BY <2>3, <3>1, LiveIs
  <2> QED BY <2>4, <2>5
<1>5. Live' = [q \in K \cup {Payload(h)} |-> IF q = Payload(h) THEN c ELSE Live[q]]
  BY <1>3, <1>4 DEF Live
<1> HIDE DEF c, K
<1>6. (Blocks # {})' = (Blocks # {})
  BY <1>1
<1> QED BY <1>1, <1>2, <1>5, <1>6 DEF H!Grants, Live, K, c

\* Every step is a step of the allocator or changes nothing it shows.
LEMMA StepRefines ==
  ASSUME Inv, Inv', [Next]_vars
  PROVE  [H!HNext]_(H!hvars)
<1> DEFINE Rest(g) == {Payload(b) : b \in used \ {g}}
<1>0. H!Held = {Payload(h) : h \in used} /\ H!Held = DOMAIN Live
  BY LiveIs DEF H!Held, Live
<1>1. CASE PoolInit
  <2>1. used = {} /\ used' = {} /\ asked' = asked /\ answer' = answer
    BY <1>1 DEF PoolInit, Inv, ChainInv
  <2>2. (Blocks # {})' = TRUE
    BY <1>1 DEF PoolInit, Blocks
  <2>3. Live' = Live
    BY <2>1 DEF Live
  <2> QED BY <2>1, <2>2, <2>3 DEF H!HNext, H!Obtain, Live
<1>2. ASSUME NEW n \in Requests, Alloc(n)
      PROVE  H!HNext
  <2>1. n \in 1 .. Len
    BY <1>2, PoolAssumption DEF Alloc
  <2>2. PICK h \in Fits(n) : /\ size' = Carved(h, n) /\ used' = used \cup {h}
                             /\ asked' = n /\ answer' = Payload(h)
    BY <1>2 DEF Alloc
  <2>3. Blocks # {} /\ Chain(size, used)
    BY PoolThere DEF Fits
  <2>4. /\ size'[h] \in {n, n + 1} /\ \A g \in used : size'[g] = size[g]
        /\ Blocks' # {}
    <3>1. \A g \in used : g \in Blocks \ {h}
      BY <2>3 DEF Fits, Chain, Shaped, Blocks
    <3> QED BY <2>1, <2>2, <2>3, <3>1, CarvedKeeps DEF Blocks
  <2>5. size'[h] <= size[h]
    BY <2>1, <2>2, <2>3 DEF Carved, Splits, Fits, Chain, Shaped, Blocks
  <2>6. H!Grants({Payload(g) : g \in used}, n)
    BY <2>1, <2>2, <2>4, <2>5, GrantStep
  <2>7. H!Grant(n) /\ n \in 0 .. Len
    BY <1>0, <2>1, <2>6 DEF H!Grant
  <2> QED BY <2>7 DEF H!HNext
<1>3. ASSUME NEW n \in Requests, n = 0 \/ Fits(n) = {},
             asked' = n, answer' = Null, size' = size, used' = used
      PROVE  H!HNext
  <2>1. Live' = Live /\ (Blocks # {})' = (Blocks # {})
    BY <1>3 DEF Live, Blocks
  <2>2. Blocks # {} /\ n > 0 => \A p \in 1 .. Len : ~H!Vacant(p, n)
    BY <1>3, RefusedIsFull, PoolAssumption
  <2>3. H!Refuse(n) /\ n \in 0 .. Len
    BY <1>3, <2>1, <2>2, PoolAssumption DEF H!Refuse, Live
  <2> QED BY <2>3 DEF H!HNext
<1>4. ASSUME NEW q \in 1 .. Len, Free(q)
      PROVE  H!HNext
  <2> DEFINE p == Header(q)
  <2>1. p \in used /\ Blocks # {} /\ q = Payload(p)
    BY <1>4, PoolAssumption DEF Free, Inv, ChainInv, Blocks, Chain, Shaped, Header, Payload
  <2>2. Chain(size, used) /\ Tidy(size, used) /\ p \in DOMAIN size
    BY <2>1, PoolThere DEF Chain, Shaped, Blocks
  <2>3. /\ used' = used \ {p} /\ used' \cup {p} = used /\ p \notin used'
        /\ size' = Merged(size, used')
    BY <1>4, <2>1 DEF Free
  <2>4. Chain(size', used') /\ \A h \in used' : size'[h] = size[h]
    BY <2>2, <2>3, MergedChain
  <2>5. \A h \in used : Payload(h) = q => h = p
    BY <2>1, LiveIs
  <2>6. {Payload(h) : h \in used'} = DOMAIN Live \ {q}
    BY <2>1, <2>3, <2>5, LiveIs
  <2>7. Live' = [r \in DOMAIN Live \ {q} |-> Live[r]]
    <3>1. Live' = [r \in DOMAIN Live \ {q} |-> size'[Header(r)]]
      BY <2>6 DEF Live
    <3>2. \A r \in DOMAIN Live \ {q} : size'[Header(r)] = Live[r]
      <4> SUFFICES ASSUME NEW r \in DOMAIN Live \ {q}
                   PROVE  size'[Header(r)] = Live[r]
        OBVIOUS
      <4>1. PICK h \in used' : r = Payload(h)
        BY <2>6
      <4> QED BY <2>3, <2>4, <4>1, LiveIs
    <3> QED BY <3>1, <3>2
  <2>8. (Blocks # {})' = (Blocks # {}) /\ asked' = asked /\ answer' = answer
    BY <1>4, <2>1, <2>4 DEF Chain, Shaped, Blocks, Free
  <2>9. H!Release(q) /\ q \in H!Held
    BY <1>0, <2>1, <2>7, <2>8 DEF H!Release, H!Held, Live
  <2> QED BY <2>9 DEF H!HNext
<1>5. ASSUME NEW q \in 1 .. Len, NEW n \in Requests, ReallocStays(q, n)
      PROVE  H!HNext
  <2>1. Header(q) \in used /\ q = Payload(Header(q)) /\ n <= size[Header(q)]
    BY <1>5, PoolAssumption
    DEF ReallocStays, Header, Payload, Inv, ChainInv, Chain, Shaped, Blocks
  <2>2. q \in H!Held /\ n <= Live[q]
    BY <1>0, <2>1, LiveIs
  <2>3. Live' = Live /\ (Blocks # {})' = (Blocks # {}) /\ asked' = n /\ answer' = q
    BY <1>5 DEF ReallocStays, Live, Blocks
  <2>4. H!Stay(q, n) /\ n \in 0 .. Len
    BY <2>2, <2>3, PoolAssumption DEF H!Stay, Live
  <2> QED BY <2>2, <2>4 DEF H!HNext
<1>6. ASSUME NEW q \in 1 .. Len, NEW n \in Requests, ReallocMoves(q, n)
      PROVE  H!HNext
  <2> DEFINE p == Header(q)
  <2>1. p \in used /\ q = Payload(p) /\ p \in Blocks
    BY <1>6, PoolAssumption
    DEF ReallocMoves, Header, Payload, Inv, ChainInv, Chain, Shaped, Blocks
  <2>2. Chain(size, used) /\ Tidy(size, used) /\ size[p] \in 1 .. Len - 1
    BY <2>1, PoolThere DEF Chain, Shaped, Blocks
  <2>3. n \in 1 .. Len /\ n > size[p]
    BY <1>6, <2>2, PoolAssumption DEF ReallocMoves
  <2>4. PICK h \in Fits(n) : /\ used' = (used \cup {h}) \ {p}
                             /\ size' = Merged(Carved(h, n), used')
                             /\ asked' = n /\ answer' = Payload(h)
    BY <1>6 DEF ReallocMoves
  <2>5. h \in 0 .. Len - 1 /\ h # p /\ h \notin used
    BY <2>1, <2>2 DEF Fits, Chain, Shaped, Blocks
  <2>6. Chain(Carved(h, n), used \cup {h}) /\ Tidy(Carved(h, n), used \cup {h})
    BY <2>2, <2>3, CarvedChain
  <2>7. /\ used' \cup {p} = used \cup {h} /\ p \notin used' /\ p \in DOMAIN Carved(h, n)
        /\ used' = (used \ {p}) \cup {h}
    BY <2>1, <2>2, <2>3, <2>4, <2>5, CarvedKeeps
  <2>8. Chain(size', used') /\ \A g \in used' : size'[g] = Carved(h, n)[g]
    BY <2>4, <2>6, <2>7, MergedChain
  <2>9. /\ size'[h] \in {n, n + 1} /\ Blocks' # {}
        /\ \A g \in used \ {p} : size'[g] = size[g]
    <3>1. \A g \in used \ {p} : g \in Blocks \ {h}
      BY <2>2, <2>5 DEF Chain, Shaped, Blocks
    <3> QED BY <2>2, <2>3, <2>7, <2>8, <3>1, CarvedKeeps DEF Chain, Shaped, Blocks
  <2>10. size'[h] <= size[h]
    <3>1. Carved(h, n)[h] <= size[h]
      BY <2>2, <2>3 DEF Carved, Splits, Fits, Chain, Shaped, Blocks
    <3> QED BY <2>7, <2>8, <3>1
  <2>11. H!Grants(Rest(p), n)
    BY <2>3, <2>4, <2>7, <2>9, <2>10, GrantStep
  <2>12. Rest(p) = H!Held \ {q}
    BY <1>0, <2>1, LiveIs
  <2>13. q \in H!Held /\ n > Live[q]
    BY <1>0, <2>1, <2>3, LiveIs
  <2>14. H!Move(q, n) /\ n \in 0 .. Len
    BY <2>3, <2>11, <2>12, <2>13 DEF H!Move, Live
  <2> QED BY <2>13, <2>14 DEF H!HNext
<1>7. CASE UNCHANGED vars
  <2>1. UNCHANGED <<Blocks # {}, Live, asked, answer>>
    BY <1>7 DEF vars, Blocks, Live
  <2> QED BY <2>1 DEF H!hvars, Live
<1> QED BY <1>1, <1>2, <1>3, <1>4, <1>5, <1>6, <1>7
        DEF Next, AllocFails, ReallocFails

\* The pool never hands out memory that is held, and refuses a request only
\* when no stretch of the pool has room for it.
THEOREM PoolIsHeap == Spec => Refines
<1>1. Init => H!HInit
  <2>1. Init => Blocks = {} /\ used = {} /\ asked = 0 /\ answer = Null
    BY DEF Init, Blocks
  <2>2. used = {} => Live = [p \in {} |-> 0]
    BY DEF Live
  <2> QED BY <2>1, <2>2 DEF H!HInit, Live
<1>2. Inv /\ Inv' /\ [Next]_vars => [H!HNext]_(H!hvars)
  BY StepRefines
<1> QED BY <1>1, <1>2, InvAlways, PTL DEF Spec, Refines, H!HSpec
=============================================================================
