-------------------------------- MODULE Pool --------------------------------
(***************************************************************************)
(* The memory pool of velaops_pool.c, from which libssh2 and mbedTLS take  *)
(* every block: a chain of blocks that fills the pool, first fit with a    *)
(* split on alloc, coalescing over the whole chain on free.                *)
(*                                                                         *)
(* The unit is POOL_ALIGN (8 bytes), which is also the size of a block's   *)
(* header; the pools are multiples of it (SSH_POOL_SIZE, 256 KiB).  A      *)
(* request of n units stands for the byte counts that round up to it.      *)
(* Clients free and grow only what they hold, and grow it to no byte count *)
(* whose rounding wraps around.                                            *)
(*                                                                         *)
(* X_Fault beside X is X with a fault the code could have.                 *)
(***************************************************************************)
EXTENDS Integers

CONSTANTS
  Len,        \* g_pool_len, in units
  Requests,   \* the sizes asked for, in units
  Null

ASSUME PoolAssumption ==
  /\ Len \in Nat /\ Len > 1
  /\ Requests \subseteq 0 .. Len
  /\ Null \notin 0 .. Len

VARIABLES
  size,     \* offset of each block's header -> blk->size; empty while
            \* g_pool is NULL
  used,     \* the blocks whose magic is POOL_MAGIC_USED
  asked,    \* the units the last alloc or realloc asked for
  answer    \* what it returned

vars == <<size, used, asked, answer>>

Blocks  == DOMAIN size
Payload(h) == h + 1
Header(p)  == p - 1
End(h)  == h + 1 + size[h]     \* where the chain goes on

Init == size = [h \in {} |-> 0] /\ used = {}
        /\ asked = 0 /\ answer = Null

\* velaops_pool_init: malloc failed, or the pool was there already.
PoolInit ==
  /\ Blocks = {}
  /\ size' = [h \in {0} |-> Len - 1] /\ used' = {}
  /\ UNCHANGED <<asked, answer>>

Fits_Larger(n) == {h \in Blocks \ used : size[h] > n}
Fits(n) == {h \in Blocks \ used : size[h] >= n}

\* The chain is walked from its start: the first free block that fits.
FirstFit(h, n) == h \in Fits(n) /\ \A g \in Fits(n) : h <= g

\* What is left over becomes a block when it has room for a header and a unit.
Splits(h, n) == size[h] >= n + 2

Carved_NoHeader(h, n) ==
  IF Splits(h, n)
  THEN [g \in Blocks \cup {h + 1 + n} |->
          IF g = h THEN n
          ELSE IF g = h + 1 + n THEN size[h] - n ELSE size[g]]
  ELSE size
Carved(h, n) ==
  IF Splits(h, n)
  THEN [g \in Blocks \cup {h + 1 + n} |->
          IF g = h THEN n
          ELSE IF g = h + 1 + n THEN size[h] - n - 1 ELSE size[g]]
  ELSE size

Alloc(n) ==
  /\ n > 0
  /\ \E h \in Fits(n) :
       /\ FirstFit(h, n)
       /\ size' = Carved(h, n) /\ used' = used \cup {h}
       /\ asked' = n /\ answer' = Payload(h)

AllocFails(n) ==
  /\ n = 0 \/ Fits(n) = {}
  /\ asked' = n /\ answer' = Null
  /\ UNCHANGED <<size, used>>

\* The chain sz is walked once: a free block swallows the free blocks behind
\* it, and so ends where the next block begins that is not swallowed.
Follows(sz, g, h) == g + 1 + sz[g] = h
Swallowed_Once(sz, us, h) ==
  /\ h \notin us
  /\ \E g \in DOMAIN sz \ us : /\ Follows(sz, g, h)
                               /\ ~\E f \in DOMAIN sz \ us : Follows(sz, f, g)
Swallowed(sz, us, h) == h \notin us /\ \E g \in DOMAIN sz \ us : Follows(sz, g, h)

Heads(sz, us) == {h \in DOMAIN sz : ~Swallowed(sz, us, h)}
Ends(heads, h, e) == /\ e \in heads \cup {Len} /\ e > h
                     /\ \A g \in heads : g > h => g >= e
Merged(sz, us) ==
  [h \in Heads(sz, us) |->
     (CHOOSE e \in 0 .. Len : Ends(Heads(sz, us), h, e)) - h - 1]

Free(p) ==
  /\ Header(p) \in used
  /\ used' = used \ {Header(p)}
  /\ size' = Merged(size, used')
  /\ UNCHANGED <<asked, answer>>

ReallocStays(p, n) ==
  /\ Header(p) \in used /\ size[Header(p)] >= n
  /\ asked' = n /\ answer' = p
  /\ UNCHANGED <<size, used>>

\* The new block is taken while the old one is held, then the old one is freed.
ReallocMoves(p, n) ==
  /\ Header(p) \in used /\ size[Header(p)] < n
  /\ \E h \in Fits(n) :
       /\ FirstFit(h, n)
       /\ used' = (used \cup {h}) \ {Header(p)}
       /\ size' = Merged(Carved(h, n), used')
       /\ asked' = n /\ answer' = Payload(h)

\* The old block stays as it was.
ReallocFails(p, n) ==
  /\ Header(p) \in used /\ size[Header(p)] < n
  /\ Fits(n) = {}
  /\ asked' = n /\ answer' = Null
  /\ UNCHANGED <<size, used>>

Next == \/ PoolInit
        \/ \E n \in Requests : Alloc(n) \/ AllocFails(n)
        \/ \E p \in 1 .. Len : \/ Free(p)
                               \/ \E n \in Requests : \/ ReallocStays(p, n)
                                                      \/ ReallocMoves(p, n)
                                                      \/ ReallocFails(p, n)

Spec == Init /\ [][Next]_vars

-----------------------------------------------------------------------------
(* Properties *)

\* Blocks lie in the pool, are never empty, and some of them are held.
TypeOK ==
  /\ Blocks \subseteq 0 .. Len - 1
  /\ \A h \in Blocks : size[h] \in 1 .. Len - 1
  /\ used \subseteq Blocks
  /\ asked \in 0 .. Len /\ answer \in 1 .. Len \cup {Null}

\* The chain tiles the pool: each block ends where the next one or the pool's
\* end begins, so a walk meets every header and nothing but headers.
ChainTiles ==
  Blocks # {} => /\ 0 \in Blocks
                 /\ \A h \in Blocks : /\ End(h) \in Blocks \cup {Len}
                                      /\ \A g \in Blocks : g > h => g >= End(h)

\* Coalescing leaves no two free blocks side by side, however blocks were
\* split, grown and freed: free memory is never lost to fragmentation alone.
NoFreeNeighbours == \A h \in Blocks \ used : End(h) \in used \cup {Len}

\* A pool of which nothing is held is one block again: what a session leaked
\* into the chain by splitting is gone when it ends.
EmptyIsWhole == Blocks # {} /\ used = {} => Blocks = {0} /\ size[0] = Len - 1

\* A block is neither moved nor shrunk nor grown while a client holds it.
HeldStays == [][\A h \in used \cap used' : size'[h] = size[h]]_vars

\* The pool is an allocator that never overlaps and refuses only for lack of
\* room (velaops_pool.h).
H == INSTANCE Heap WITH
       open <- Blocks # {},
       live <- [p \in {Payload(h) : h \in used} |-> size[Header(p)]]
Refines == H!HSpec
=============================================================================
