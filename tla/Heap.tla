-------------------------------- MODULE Heap --------------------------------
(***************************************************************************)
(* What velaops_pool.h promises libssh2 and mbedTLS: an allocator of Len   *)
(* units of POOL_ALIGN bytes that never hands out memory twice, never      *)
(* moves or shrinks what is held, and refuses a request only when no gap   *)
(* between the held blocks has room for it.                                *)
(***************************************************************************)
EXTENDS Integers

CONSTANTS Len, Null

VARIABLES
  open,     \* the memory of the pool has been obtained
  live,     \* held pointer -> units it may use
  asked,    \* the units the last request was for
  answer    \* what it returned

hvars == <<open, live, asked, answer>>

Held == DOMAIN live

\* A held block owns its payload and the header in front of it.
Span(p, n) == p - 1 .. p + n - 1

\* p .. p + n - 1 and its header are memory that nobody holds.
Vacant(p, n) == /\ Span(p, n) \subseteq 0 .. Len - 1
                /\ \A q \in Held : Span(p, n) \cap Span(q, live[q]) = {}

HInit == /\ open = FALSE /\ live = [p \in {} |-> 0]
         /\ asked = 0 /\ answer = Null

Obtain == /\ open' = TRUE
          /\ UNCHANGED <<live, asked, answer>>

\* A rest too small for a block of its own, one unit, stays with the grant.
Grants(keep, n) ==
  /\ open
  /\ \E p \in 1 .. Len, c \in {n, n + 1} :
       /\ Vacant(p, c)
       /\ live' = [q \in keep \cup {p} |-> IF q = p THEN c ELSE live[q]]
       /\ asked' = n /\ answer' = p
  /\ UNCHANGED open

Grant(n) == n > 0 /\ Grants(Held, n)

Refuse(n) ==
  /\ open /\ n > 0 => \A p \in 1 .. Len : ~Vacant(p, n)
  /\ asked' = n /\ answer' = Null
  /\ UNCHANGED <<open, live>>

Release(p) ==
  /\ live' = [q \in Held \ {p} |-> live[q]]
  /\ UNCHANGED <<open, asked, answer>>

\* A block that has to grow is held until its copy is.
Stay(p, n) == /\ p \in Held /\ n <= live[p]
              /\ asked' = n /\ answer' = p
              /\ UNCHANGED <<open, live>>
Move(p, n) == p \in Held /\ n > live[p] /\ Grants(Held \ {p}, n)

HNext == \/ Obtain
         \/ \E n \in 0 .. Len : Grant(n) \/ Refuse(n)
         \/ \E p \in Held : \/ Release(p)
                         \/ \E n \in 0 .. Len : Stay(p, n) \/ Move(p, n)

HSpec == HInit /\ [][HNext]_hvars
=============================================================================
