----------------------------- MODULE TNMemProofs -----------------------------
(***************************************************************************)
(* The memory pool of TNMem keeps its promise, whatever the tasks, their   *)
(* priorities, the memory the application gives, the size of a block and   *)
(* the number of blocks.                                                   *)
(***************************************************************************)
EXTENDS TNMem, TNKernelProofs

-----------------------------------------------------------------------------
\* Arithmetic.

LEMMA AlignUp ==
  ASSUME NEW n \in Nat
  PROVE  /\ Align(n) \in Nat /\ n <= Align(n) /\ Align(n) < n + TN_ALIG
         /\ \E q \in Nat : Align(n) = q * TN_ALIG
<1> DEFINE q == (n + (TN_ALIG - 1)) \div TN_ALIG
<1>1. q \in Nat /\ q * 4 <= n + 3 /\ n + 3 < q * 4 + 4
  BY DEF TN_ALIG
<1>2. Align(n) = q * TN_ALIG
  BY DEF Align
<1> HIDE DEF q
<1>3. QED
  BY <1>1, <1>2 DEF TN_ALIG

LEMMA Multiples ==
  ASSUME NEW i \in Nat, NEW j \in Nat, NEW s \in Nat, i <= j
  PROVE  i * s <= j * s /\ i * s \in Nat /\ (i + 1) * s = i * s + s
OBVIOUS

LEMMA Divisible ==
  ASSUME NEW a \in Nat, NEW b \in Nat, NEW i \in Nat
  PROVE  (a * TN_ALIG + i * (b * TN_ALIG)) % TN_ALIG = 0
<1>1. a * TN_ALIG + i * (b * TN_ALIG) = (a + i * b) * 4 /\ a + i * b \in Nat
  BY DEF TN_ALIG
<1>2. \A x \in Nat : (x * 4) % 4 = 0
  OBVIOUS
<1>3. QED
  BY <1>1, <1>2 DEF TN_ALIG

\* A set of natural numbers below a bound that is not empty has a greatest one.
LEMMA MaxProperties ==
  ASSUME NEW n \in Nat, NEW S \in SUBSET (0 .. n), S # {}
  PROVE  Max(S) \in S /\ \A y \in S : Max(S) >= y
<1> DEFINE R == {n - x : x \in S}
<1>1. R # {} /\ R \subseteq Nat
  <2>1. PICK x \in S : TRUE
    OBVIOUS
  <2>2. n - x \in R
    OBVIOUS
  <2>3. ASSUME NEW y \in S
        PROVE  n - y \in Nat
    <3>1. y \in 0 .. n
      OBVIOUS
    <3>2. QED
      BY <3>1
  <2>4. QED
    BY <2>2, <2>3
<1>2. PICK r \in R : \A y \in R : ~(<<y, r>> \in OpToRel(<, Nat))
  BY <1>1, WFMin, NatLessThanWellFounded
<1>3. ASSUME NEW y \in S
      PROVE  n - r >= y
  <2>1. n - y < r => <<n - y, r>> \in OpToRel(<, Nat)
    BY <1>1 DEF OpToRel
  <2>2. n - y \in R
    OBVIOUS
  <2>3. ~(n - y < r)
    BY <1>2, <2>1, <2>2, Zenon
  <2>4. n - y \in Int /\ r \in Int
    BY <1>1
  <2>5. QED
    BY <2>3, <2>4
<1>4. n - r \in S
  OBVIOUS
<1>5. QED
  BY <1>3, <1>4 DEF Max

-----------------------------------------------------------------------------
\* Creation.

LEMMA Arguments ==
  ASSUME NEW m \in Memory, ~Refused(m)
  PROVE  /\ m.start_addr \in Nat /\ m.block_size \in Nat /\ m.num_blocks \in Nat
         /\ m.num_blocks >= 2 /\ m.block_size >= TN_ALIG
<1>1. m \in [start_addr : Addr, block_size : Nat, num_blocks : Int]
  BY MemAssumption
<1>2. m.start_addr \in Addr /\ m.block_size \in Nat /\ m.num_blocks \in Int
  BY <1>1
<1>3. m.start_addr \in Nat
  BY <1>2, MemAssumption
<1>4. ~(m.num_blocks < 2) /\ ~(m.block_size < TN_ALIG)
  BY DEF Refused
<1>5. QED
  BY <1>2, <1>3, <1>4 DEF TN_ALIG

\* The loop of tn_fmem_create ends with at least one block, and that many
\* aligned blocks end before the memory does.
LEMMA ActualFit ==
  ASSUME NEW m \in Memory, ~Refused(m)
  PROVE  /\ ActualBlocks(m) \in Nat
         /\ Align(m.start_addr) + Align(m.block_size) * ActualBlocks(m)
              <= m.start_addr + m.block_size * m.num_blocks
<1> DEFINE size == Align(m.block_size)
           end  == m.start_addr + m.block_size * m.num_blocks
           S    == {n \in 0 .. m.num_blocks : Align(m.start_addr) + size * n <= end}
<1>1. m.start_addr \in Nat /\ m.block_size \in Nat /\ m.num_blocks \in Nat
      /\ m.num_blocks >= 2 /\ m.block_size >= 4
  BY Arguments DEF TN_ALIG
<1>2. ActualBlocks(m) = Max(S)
  BY DEF ActualBlocks
<1>3. Align(m.start_addr) \in Nat /\ Align(m.start_addr) < m.start_addr + 4 /\ size \in Nat
  BY <1>1, AlignUp DEF TN_ALIG
<1>4. m.block_size * m.num_blocks >= 4
  <2>1. m.block_size * m.num_blocks >= m.block_size
    <3>1. \A b \in Nat, c \in Nat : c >= 1 => b * c >= b
      OBVIOUS
    <3>2. QED
      BY <1>1, <3>1
  <2>2. m.block_size * m.num_blocks \in Nat
    BY <1>1
  <2>3. QED
    BY <1>1, <2>1, <2>2
<1>5. 0 \in S
  <2>1. m.block_size * m.num_blocks \in Nat /\ size * 0 = 0
    BY <1>1, <1>3
  <2>2. QED
    BY <1>1, <1>3, <1>4, <2>1
<1>6. Max(S) \in S
  BY <1>1, <1>5, MaxProperties
<1>7. QED
  BY <1>2, <1>6

\* Then every block fits.
LEMMA NewPoolFits ==
  ASSUME NEW m \in Memory, ~Refused(m), NEW f,
         f.start_addr = Align(m.start_addr), f.block_size = Align(m.block_size),
         f.num_blocks = ActualBlocks(m)
  PROVE  \A b \in Blocks(f) :
           /\ b % TN_ALIG = 0
           /\ b >= m.start_addr
           /\ b + m.block_size <= m.start_addr + m.block_size * m.num_blocks
           /\ \A c \in Blocks(f) \ {b} : b < c => b + m.block_size <= c
<1> DEFINE start == Align(m.start_addr)
           size  == Align(m.block_size)
           num   == ActualBlocks(m)
           end   == m.start_addr + m.block_size * m.num_blocks
<1>1. m.start_addr \in Nat /\ m.block_size \in Nat /\ m.num_blocks \in Nat
  BY Arguments
<1>2. /\ start \in Nat /\ m.start_addr <= start
      /\ \E q \in Nat : start = q * TN_ALIG
      /\ size \in Nat /\ m.block_size <= size
      /\ \E q \in Nat : size = q * TN_ALIG
  BY <1>1, AlignUp
<1>3. num \in Nat /\ start + size * num <= end
  BY ActualFit
<1>4. end \in Nat
  BY <1>1
<1>5. Blocks(f) = {start + i * size : i \in 0 .. num - 1}
  BY DEF Blocks, BlockAt
<1> HIDE DEF start, size, num, end
<1>6. ASSUME NEW i \in 0 .. num - 1
      PROVE  /\ i \in Nat /\ i * size \in Nat
             /\ start + i * size >= m.start_addr
             /\ (start + i * size) % TN_ALIG = 0
             /\ start + i * size + m.block_size <= end
             /\ \A j \in 0 .. num - 1 :
                  start + i * size < start + j * size =>
                    start + i * size + m.block_size <= start + j * size
  <2>1. i \in Nat /\ i + 1 \in Nat /\ i + 1 <= num
    BY <1>3
  <2>2. i * size \in Nat /\ (i + 1) * size = i * size + size
    BY <1>2, <2>1, i <= i, Multiples
  <2>3. (i + 1) * size <= num * size /\ num * size = size * num /\ num * size \in Nat
    BY <1>2, <1>3, <2>1, Multiples
  <2>4. start + i * size + m.block_size <= end
    BY <1>1, <1>2, <1>3, <1>4, <2>2, <2>3
  <2>5. (start + i * size) % TN_ALIG = 0
    BY <1>2, <2>1, Divisible
  <2>6. ASSUME NEW j \in 0 .. num - 1, start + i * size < start + j * size
        PROVE  start + i * size + m.block_size <= start + j * size
    <3>1. j \in Nat /\ j * size \in Nat
      BY <1>2, <1>3, Multiples
    <3>2. ~(j <= i)
      <4>1. j <= i => j * size <= i * size
        BY <1>2, <2>1, <3>1, Multiples
      <4>2. QED
        BY <1>2, <2>2, <2>6, <3>1, <4>1
    <3>3. (i + 1) * size <= j * size
      BY <1>2, <2>1, <3>1, <3>2, Multiples
    <3>4. QED
      BY <1>1, <1>2, <2>2, <3>1, <3>3
  <2>7. QED
    BY <1>1, <1>2, <2>1, <2>2, <2>4, <2>5, <2>6
<1>7. ASSUME NEW b \in Blocks(f)
      PROVE  /\ b % TN_ALIG = 0
             /\ b >= m.start_addr
             /\ b + m.block_size <= end
             /\ \A c \in Blocks(f) \ {b} : b < c => b + m.block_size <= c
  <2>1. PICK i \in 0 .. num - 1 : b = start + i * size
    BY <1>5
  <2>2. ASSUME NEW c \in Blocks(f) \ {b}, b < c
        PROVE  b + m.block_size <= c
    <3>1. PICK j \in 0 .. num - 1 : c = start + j * size
      BY <1>5
    <3>2. QED
      BY <1>6, <2>1, <2>2, <3>1
  <2>3. QED
    BY <1>6, <2>1, <2>2
<1>8. QED
  BY <1>7 DEF end

-----------------------------------------------------------------------------
\* The invariant.

\* The header of an existing pool is what tn_fmem_create computed from the
\* arguments it did not refuse: no call changes anything of it but the list and
\* the count of the free blocks.
HeaderOf(f) ==
  f = [start_addr |-> f.start_addr, block_size |-> f.block_size,
       num_blocks |-> f.num_blocks, free_list |-> f.free_list, fblkcnt |-> f.fblkcnt]
HeaderInv ==
  /\ HeaderOf(fmp)
  /\ id \in BOOLEAN
  /\ memory \in Memory
  /\ id => /\ ~Refused(memory)
           /\ fmp.start_addr = Align(memory.start_addr)
           /\ fmp.block_size = Align(memory.block_size)
           /\ fmp.num_blocks = ActualBlocks(memory)

\* A step that leaves the header alone.
SameHeader ==
  /\ HeaderOf(fmp')
  /\ fmp'.start_addr = fmp.start_addr /\ fmp'.block_size = fmp.block_size
  /\ fmp'.num_blocks = fmp.num_blocks
  /\ memory' = memory
  /\ id' \in {id, FALSE}

LEMMA HeaderInit == MemInit => HeaderInv
<1> SUFFICES ASSUME MemInit PROVE HeaderInv
  OBVIOUS
<1>1. memory \in Memory /\ ~Refused(memory) /\ fmp = NewPool(memory) /\ id = TRUE
  BY DEF MemInit, ObjectInit
<1>2. QED
  BY <1>1 DEF HeaderInv, HeaderOf, NewPool

LEMMA HeaderStep ==
  ASSUME HeaderInv, [MemNext]_all
  PROVE  HeaderInv'
<1>0. ASSUME SameHeader
      PROVE  HeaderInv'
  <2>1. HeaderOf(fmp)' /\ id' \in BOOLEAN /\ memory' \in Memory
    BY <1>0 DEF SameHeader, HeaderInv, HeaderOf
  <2>2. ASSUME id'
        PROVE  /\ ~Refused(memory')
               /\ fmp'.start_addr = Align(memory'.start_addr)
               /\ fmp'.block_size = Align(memory'.block_size)
               /\ fmp'.num_blocks = ActualBlocks(memory')
    <3>1. id
      BY <1>0, <2>2 DEF SameHeader
    <3>2. QED
      BY <1>0, <3>1 DEF SameHeader, HeaderInv
  <2>3. QED
    BY <2>1, <2>2 DEF HeaderInv
<1>1. CASE UNCHANGED all
  BY <1>0, <1>1 DEF all, object, pool, SameHeader, HeaderInv
<1>2. ASSUME NEW m \in Memory, tn_fmem_create(m)
      PROVE  HeaderInv'
  <2>1. CASE Refused(m) /\ fmp' = NoBlocks /\ UNCHANGED <<k, id, cell, memory>>
    <3>1. ~id
      BY <1>2 DEF tn_fmem_create
    <3>2. QED
      BY <2>1, <3>1 DEF HeaderInv, HeaderOf, NoBlocks
  <2>2. CASE ~Refused(m) /\ id' = TRUE /\ fmp' = NewPool(m) /\ memory' = m
    BY <2>2 DEF HeaderInv, HeaderOf, NewPool
  <2>3. QED
    BY <1>2, <2>1, <2>2 DEF tn_fmem_create
\* Two functions take a block off the list or put one on it.
<1>3. ASSUME fm_get, UNCHANGED <<id, memory>>
      PROVE  SameHeader
  <2>1. fmp' = [start_addr |-> fmp.start_addr, block_size |-> fmp.block_size,
                num_blocks |-> fmp.num_blocks, free_list |-> cell[fmp.free_list],
                fblkcnt |-> fmp.fblkcnt - 1]
    BY <1>3 DEF fm_get, HeaderInv, HeaderOf
  <2>2. QED
    BY <1>3, <2>1 DEF SameHeader, HeaderOf
<1>4. ASSUME NEW b, fm_put(b), UNCHANGED <<id, memory>>
      PROVE  SameHeader
  <2>1. CASE fmp.fblkcnt < fmp.num_blocks
    <3>1. fmp' = [start_addr |-> fmp.start_addr, block_size |-> fmp.block_size,
                  num_blocks |-> fmp.num_blocks, free_list |-> b,
                  fblkcnt |-> fmp.fblkcnt + 1]
      BY <1>4, <2>1 DEF fm_put, HeaderInv, HeaderOf
    <3>2. QED
      BY <1>4, <3>1 DEF SameHeader, HeaderOf
  <2>2. CASE ~(fmp.fblkcnt < fmp.num_blocks)
    BY <1>4, <2>2 DEF fm_put, SameHeader, HeaderInv
  <2>3. QED
    BY <2>1, <2>2
<1>5. ASSUME UNCHANGED <<fmp, memory>>, id' \in {id, FALSE}
      PROVE  SameHeader
  BY <1>5 DEF SameHeader, HeaderInv
<1>6. CASE tn_fmem_get(TN_WAIT_INFINITE)
  BY <1>0, <1>3, <1>5, <1>6 DEF tn_fmem_get, object
<1>7. CASE tn_fmem_get_polling
  BY <1>0, <1>3, <1>7 DEF tn_fmem_get_polling, object
<1>8. CASE tn_fmem_get_ipolling
  BY <1>0, <1>3, <1>8 DEF tn_fmem_get_ipolling, object
<1>9. ASSUME NEW b, tn_fmem_release(b)
      PROVE  HeaderInv'
  BY <1>0, <1>4, <1>5, <1>9 DEF tn_fmem_release, GiveToWaiter, object
<1>10. ASSUME NEW b, tn_fmem_irelease(b)
       PROVE  HeaderInv'
  BY <1>0, <1>4, <1>5, <1>10 DEF tn_fmem_irelease, GiveToWaiter, object
<1>11. CASE Others
  BY <1>0, <1>5, <1>11
     DEF Others, GetEnd, DeleteSteps, DeleteTest, DeleteRemove, DeleteEnd, Start, Enter,
         Leave, Switch, Terminate, object, pool
<1>12. CASE Delete
  BY <1>0, <1>5, <1>12 DEF Delete, DeleteBegin, pool
<1>13. QED
  BY <1>1, <1>2, <1>6, <1>7, <1>8, <1>9, <1>10, <1>11, <1>12
     DEF MemNext, MemCall, MemInterrupt

-----------------------------------------------------------------------------
\* The free list.

\* The i-th entry of w, and behind the last one none.
Entry(w, i) == IF i <= Len(w) THEN w[i] ELSE NULL
\* With header f and cells c the free list is w.
FreeChain(f, c, w) ==
  /\ w \in Seq(Addr) /\ IsInjective(w) /\ Len(w) = f.fblkcnt
  /\ Range(w) \subseteq Blocks(f)
  /\ f.free_list = Entry(w, 1)
  /\ \A i \in 1 .. Len(w) : c[w[i]] = Entry(w, i + 1)

LEMMA ChainIs ==
  ASSUME NEW f, NEW c, NEW w, FreeChain(f, c, w)
  PROVE  /\ Chain(f, c, f.fblkcnt) = w
         /\ Chain(f, c, f.fblkcnt + 1)[f.fblkcnt + 1] = NULL
<1> DEFINE visit == CHOOSE g : g = [i \in Nat |-> IF i = 0 THEN f.free_list
                                                  ELSE NextFree(c)[g[i - 1]]]
           n == Len(w)
<1>1. visit = [i \in Nat |-> IF i = 0 THEN f.free_list ELSE NextFree(c)[visit[i - 1]]]
  <2>1. visit = Iteration(NextFree(c), f.free_list)
    BY DEF Iteration
  <2> HIDE DEF visit
  <2>2. QED
    BY <2>1, IterationIs
<1>2. \A m : Chain(f, c, m) = [i \in 1 .. m |-> visit[i - 1]]
  BY DEF Chain
<1> HIDE DEF visit
<1>3. n \in Nat /\ n = f.fblkcnt /\ w = [i \in 1 .. n |-> w[i]]
      /\ \A i \in 1 .. n : w[i] \in Addr
  BY DEF FreeChain
<1> HIDE DEF n
<1> DEFINE S == {i \in Nat : i <= n => visit[i] = Entry(w, i + 1)}
<1>4. 0 \in S
  BY <1>1 DEF FreeChain
<1>5. ASSUME NEW i \in Nat, i \in S
      PROVE  i + 1 \in S
  <2> SUFFICES ASSUME i + 1 <= n
               PROVE  visit[i + 1] = Entry(w, (i + 1) + 1)
    OBVIOUS
  <2>1. i <= n /\ i + 1 \in 1 .. n /\ visit[i] = Entry(w, i + 1)
    BY <1>3, <1>5
  <2>2. Entry(w, i + 1) = w[i + 1] /\ w[i + 1] \in Addr
        /\ c[w[i + 1]] = Entry(w, (i + 1) + 1)
    BY <1>3, <2>1 DEF Entry, FreeChain, n
  <2>3. visit[i + 1] = NextFree(c)[visit[i]]
    <3>1. i + 1 \in Nat /\ i + 1 # 0 /\ (i + 1) - 1 = i
      OBVIOUS
    <3>2. QED
      BY <1>1, <3>1
  <2>4. NextFree(c)[w[i + 1]] = c[w[i + 1]]
    BY <2>2, MemAssumption DEF NextFree
  <2>5. QED
    BY <2>1, <2>2, <2>3, <2>4
<1> HIDE DEF S
<1>6. Nat \subseteq S
  BY <1>4, <1>5, SetInduction
<1>7. \A i \in 0 .. n : visit[i] = Entry(w, i + 1)
  BY <1>3, <1>6 DEF S
<1>8. \A i \in 1 .. n : visit[i - 1] = w[i]
  <2> TAKE i \in 1 .. n
  <2>1. i - 1 \in 0 .. n /\ (i - 1) + 1 = i /\ i <= n
    BY <1>3
  <2>2. QED
    BY <1>7, <2>1 DEF Entry, n
<1>9. Chain(f, c, n) = w
  <2>1. Chain(f, c, n) = [i \in 1 .. n |-> visit[i - 1]]
    BY <1>2
  <2>2. [i \in 1 .. n |-> visit[i - 1]] = [i \in 1 .. n |-> w[i]]
    BY <1>8
  <2>3. QED
    BY ONLY <1>3, <2>1, <2>2
<1>10. Chain(f, c, n + 1)[n + 1] = NULL
  <2>1. n + 1 \in 1 .. n + 1 /\ (n + 1) - 1 = n /\ n \in 0 .. n /\ ~(n + 1 <= n)
    BY <1>3
  <2>2. Entry(w, n + 1) = NULL
    BY <2>1 DEF Entry, n
  <2>3. visit[n] = NULL
    BY <1>7, <2>1, <2>2
  <2>4. QED
    BY <1>2, <2>1, <2>3
<1>11. QED
  BY <1>3, <1>9, <1>10

\* The header with another list and another count, and a cell with another link.
Counted(f, b, n) == [f EXCEPT !.free_list = b, !.fblkcnt = n]
Linking(c, b, x) == [c EXCEPT ![b] = x]

LEMMA CountedIs ==
  ASSUME NEW f, HeaderOf(f), NEW b, NEW n, NEW g, g = Counted(f, b, n)
  PROVE  /\ HeaderOf(g) /\ g.free_list = b /\ g.fblkcnt = n
         /\ g.start_addr = f.start_addr /\ g.block_size = f.block_size
         /\ g.num_blocks = f.num_blocks /\ Blocks(g) = Blocks(f)
<1>1. g = [start_addr |-> f.start_addr, block_size |-> f.block_size,
           num_blocks |-> f.num_blocks, free_list |-> b, fblkcnt |-> n]
  BY DEF HeaderOf, Counted
<1>2. QED
  BY <1>1 DEF HeaderOf, Blocks, BlockAt

\* The first free block goes, and what is written to its cell does not matter.
Gone(f, c, b, x, g, d) ==
  b = f.free_list /\ g = Counted(f, c[b], f.fblkcnt - 1) /\ d = Linking(c, b, x)

LEMMA FirstGoes ==
  ASSUME NEW f, HeaderOf(f), NEW c, NEW w, FreeChain(f, c, w), f.fblkcnt > 0, NEW x,
         DOMAIN c = Addr,
         NEW b, NEW g, NEW d, Gone(f, c, b, x, g, d), NEW v, v = Tail(w)
  PROVE  b = w[1] /\ b \in Range(w) /\ FreeChain(g, d, v) /\ Range(v) = Range(w) \ {b}
<1> DEFINE n == Len(w)
<1>0. b = f.free_list /\ g = Counted(f, c[b], f.fblkcnt - 1) /\ d = Linking(c, b, x)
  BY DEF Gone
<1>1. /\ n \in Nat /\ n > 0 /\ n = f.fblkcnt /\ w \in Seq(Addr) /\ IsInjective(w)
      /\ \A i \in 1 .. n : w[i] \in Addr /\ c[w[i]] = Entry(w, i + 1)
  BY DEF FreeChain
<1>2. f.free_list = w[1] /\ b = w[1]
  BY <1>0, <1>1 DEF FreeChain, Entry
<1>3. v \in Seq(Addr) /\ Len(v) = n - 1 /\ \A i \in 1 .. n - 1 : v[i] = w[i + 1]
  BY <1>1
<1> HIDE DEF n
<1>4. DOMAIN w = 1 .. n /\ DOMAIN v = 1 .. n - 1
  BY <1>1, <1>3 DEF n
<1>5. \A i, j \in 1 .. n : w[i] = w[j] => i = j
  BY <1>1, <1>4 DEF IsInjective
<1>6. IsInjective(v)
  <2>1. \A i, j \in 1 .. n - 1 : v[i] = v[j] => i = j
    <3> TAKE i, j \in 1 .. n - 1
    <3>1. i + 1 \in 1 .. n /\ j + 1 \in 1 .. n
      BY <1>1
    <3>2. QED
      BY <1>3, <1>5, <3>1
  <2>2. QED
    BY <1>4, <2>1 DEF IsInjective
<1>7. Range(v) = Range(w) \ {w[1]}
  <2>1. Range(v) \subseteq Range(w) \ {w[1]}
    <3>1. ASSUME NEW i \in 1 .. n - 1
          PROVE  v[i] \in Range(w) \ {w[1]}
      <4>1. i + 1 \in 1 .. n /\ i + 1 # 1 /\ 1 \in 1 .. n
        BY <1>1
      <4>2. QED
        BY <1>3, <1>4, <1>5, <4>1 DEF Range
    <3>2. QED
      BY <1>4, <3>1 DEF Range
  <2>2. ASSUME NEW i \in 1 .. n, w[i] # w[1]
        PROVE  w[i] \in Range(v)
    <3>1. i - 1 \in 1 .. n - 1 /\ (i - 1) + 1 = i
      BY <1>1, <2>2
    <3>2. v[i - 1] = w[i]
      BY <1>3, <3>1
    <3>3. QED
      BY <1>4, <3>1, <3>2 DEF Range
  <2>3. QED
    BY <1>4, <2>1, <2>2 DEF Range
<1>8. \A i \in 1 .. n : Entry(w, i + 1) = Entry(v, i)
  <2> TAKE i \in 1 .. n
  <2>1. i <= n - 1 <=> i + 1 <= n
    BY <1>1
  <2>2. i <= n - 1 => i \in 1 .. n - 1
    BY <1>1
  <2>3. QED
    BY <1>3, <2>1, <2>2 DEF Entry, n
<1>9. g.free_list = Entry(v, 1)
  <2>1. 1 \in 1 .. n /\ 1 + 1 = 2
    BY <1>1
  <2>2. c[w[1]] = Entry(w, 1 + 1) /\ Entry(w, 1 + 1) = Entry(v, 1)
    BY <1>1, <1>8, <2>1
  <2>3. QED
    BY <1>0, <1>2, <2>2, CountedIs
<1>10. \A i \in 1 .. n - 1 : d[v[i]] = Entry(v, i + 1)
  <2> TAKE i \in 1 .. n - 1
  <2>1. i + 1 \in 1 .. n /\ 1 \in 1 .. n /\ i + 1 # 1
    BY <1>1
  <2>2. v[i] = w[i + 1] /\ w[i + 1] # w[1] /\ w[i + 1] \in Addr
    BY <1>1, <1>3, <1>5, <2>1
  <2>3. d[v[i]] = c[w[i + 1]]
    BY <1>0, <1>2, <2>2 DEF Linking
  <2>4. QED
    BY <1>1, <1>8, <2>1, <2>3
<1>11. Len(v) = g.fblkcnt /\ Range(v) \subseteq Blocks(g)
  <2>1. g.fblkcnt = f.fblkcnt - 1 /\ Blocks(g) = Blocks(f)
    BY <1>0, CountedIs
  <2>2. QED
    BY <1>1, <1>3, <1>7, <2>1 DEF FreeChain
<1>12. w[1] \in Range(w)
  BY <1>1, <1>4 DEF Range
<1>13. QED
  BY <1>2, <1>3, <1>6, <1>7, <1>9, <1>10, <1>11, <1>12 DEF FreeChain

\* A block that is not free comes before the others.
LEMMA FirstComes ==
  ASSUME NEW f, HeaderOf(f), NEW c, NEW w, FreeChain(f, c, w), DOMAIN c = Addr,
         NEW b \in Addr, b \in Blocks(f), b \notin Range(w),
         NEW g, g = Counted(f, b, f.fblkcnt + 1),
         NEW d, d = Linking(c, b, f.free_list)
  PROVE  \E v : FreeChain(g, d, v) /\ Range(v) = Range(w) \cup {b}
<1> DEFINE n == Len(w)
           v == [i \in 1 .. n + 1 |-> IF i = 1 THEN b ELSE w[i - 1]]
<1>1. /\ n \in Nat /\ n = f.fblkcnt /\ w \in Seq(Addr) /\ IsInjective(w) /\ DOMAIN w = 1 .. n
      /\ \A i \in 1 .. n : w[i] \in Addr /\ c[w[i]] = Entry(w, i + 1)
      /\ f.free_list = Entry(w, 1) /\ Range(w) \subseteq Blocks(f)
  BY DEF FreeChain
<1> HIDE DEF n
<1>2. v[1] = b /\ \A i \in 1 .. n : v[i + 1] = w[i]
  <2>1. 1 \in 1 .. n + 1
    BY <1>1
  <2>2. ASSUME NEW i \in 1 .. n
        PROVE  v[i + 1] = w[i]
    <3>1. i + 1 \in 1 .. n + 1 /\ i + 1 # 1 /\ (i + 1) - 1 = i
      BY <1>1
    <3>2. QED
      BY <3>1
  <2>3. QED
    BY <2>1, <2>2
<1>3. \A i \in 1 .. n + 1 : i = 1 \/ (i - 1 \in 1 .. n /\ (i - 1) + 1 = i)
  BY <1>1
<1>4. v \in Seq(Addr) /\ Len(v) = n + 1 /\ DOMAIN v = 1 .. n + 1
  <2>1. \A i \in 1 .. n + 1 : (IF i = 1 THEN b ELSE w[i - 1]) \in Addr
    BY <1>1, <1>3
  <2>2. QED
    BY <1>1, <2>1
<1> HIDE DEF v
<1>5. \A i \in 1 .. n + 1 : v[i] = IF i = 1 THEN b ELSE w[i - 1]
  BY <1>2, <1>3
<1>6. IsInjective(v)
  <2>1. \A i, j \in 1 .. n : w[i] = w[j] => i = j
    BY <1>1 DEF IsInjective
  <2>2. \A i \in 1 .. n : w[i] # b
    BY <1>1 DEF Range
  <2>3. \A i, j \in 1 .. n + 1 : v[i] = v[j] => i = j
    <3> TAKE i, j \in 1 .. n + 1
    <3>1. QED
      BY <1>3, <1>5, <2>1, <2>2
  <2>4. QED
    BY <1>4, <2>3 DEF IsInjective
<1>7. Range(v) = Range(w) \cup {b}
  <2>1. Range(v) \subseteq Range(w) \cup {b}
    <3>1. ASSUME NEW i \in 1 .. n + 1
          PROVE  v[i] \in Range(w) \cup {b}
      <4>1. CASE i = 1
        BY <1>2, <4>1
      <4>2. CASE i - 1 \in 1 .. n /\ (i - 1) + 1 = i
        <5>1. v[i] = w[i - 1]
          BY <1>2, <4>2
        <5>2. QED
          BY <1>1, <4>2, <5>1 DEF Range
      <4>3. QED
        BY <1>3, <4>1, <4>2
    <3>2. QED
      BY <1>4, <3>1 DEF Range
  <2>2. ASSUME NEW i \in 1 .. n
        PROVE  w[i] \in Range(v)
    <3>1. i + 1 \in 1 .. n + 1
      BY <1>1
    <3>2. QED
      BY <1>2, <1>4, <3>1 DEF Range
  <2>3. b \in Range(v)
    <3>1. 1 \in 1 .. n + 1
      BY <1>1
    <3>2. QED
      BY <1>2, <1>4, <3>1 DEF Range
  <2>4. QED
    BY <1>1, <2>1, <2>2, <2>3 DEF Range
<1>8. \A i \in 1 .. n + 1 : Entry(v, i + 1) = Entry(w, i)
  <2> TAKE i \in 1 .. n + 1
  <2>1. i + 1 <= n + 1 <=> i <= n
    BY <1>1
  <2>2. i <= n => i \in 1 .. n
    BY <1>1
  <2>3. QED
    BY <1>2, <1>4, <2>1, <2>2 DEF Entry, n
<1>9. Entry(v, 1) = b
  BY <1>1, <1>2, <1>4 DEF Entry
<1>10. \A i \in 1 .. n + 1 : d[v[i]] = Entry(v, i + 1)
  <2> TAKE i \in 1 .. n + 1
  <2>1. CASE i = 1
    <3>1. d[b] = f.free_list
      BY DEF Linking
    <3>2. Entry(v, 1 + 1) = Entry(w, 1)
      BY <1>8, <2>1
    <3>3. QED
      BY <1>1, <1>2, <2>1, <3>1, <3>2
  <2>2. CASE i - 1 \in 1 .. n /\ (i - 1) + 1 = i
    <3>1. v[i] = w[i - 1] /\ w[i - 1] # b /\ w[i - 1] \in Addr
      BY <1>1, <1>2, <2>2 DEF Range
    <3>2. d[w[i - 1]] = c[w[i - 1]]
      BY <3>1 DEF Linking
    <3>3. c[w[i - 1]] = Entry(w, (i - 1) + 1)
      BY <1>1, <2>2
    <3>4. QED
      BY <1>8, <2>2, <3>1, <3>2, <3>3
  <2>3. QED
    BY <1>3, <2>1, <2>2
<1>11. /\ Len(v) = g.fblkcnt /\ Range(v) \subseteq Blocks(g)
       /\ g.free_list = Entry(v, 1)
  <2>1. g.fblkcnt = f.fblkcnt + 1 /\ Blocks(g) = Blocks(f) /\ g.free_list = b
    BY CountedIs
  <2>2. QED
    BY <1>1, <1>4, <1>7, <1>9, <2>1
<1>12. FreeChain(g, d, v)
  BY <1>4, <1>6, <1>10, <1>11 DEF FreeChain
<1>13. QED
  BY <1>7, <1>12

\* There are no more blocks than num_blocks says, so that the list has room for
\* each that is not on it.
LEMMA NumberOfBlocks ==
  ASSUME NEW f, f.num_blocks \in Nat
  PROVE  IsFiniteSet(Blocks(f)) /\ Cardinality(Blocks(f)) <= f.num_blocks
         /\ Cardinality(Blocks(f)) \in Nat
<1> DEFINE I == 0 .. f.num_blocks - 1
           at == [i \in I |-> BlockAt(f, i)]
<1>1. IsFiniteSet(I) /\ Cardinality(I) = f.num_blocks
  <2>1. 0 \in Int /\ f.num_blocks - 1 \in Int
    OBVIOUS
  <2>2. /\ IsFiniteSet(0 .. f.num_blocks - 1)
        /\ Cardinality(0 .. f.num_blocks - 1)
             = IF 0 > f.num_blocks - 1 THEN 0 ELSE (f.num_blocks - 1) - 0 + 1
    BY <2>1, FS_Interval
  <2>3. QED
    BY <2>2
<1>2. Blocks(f) = {BlockAt(f, i) : i \in I}
  BY DEF Blocks
<1>3. at \in Surjection(I, Blocks(f))
  BY <1>2 DEF Surjection
<1> HIDE DEF I, at
<1>4. IsFiniteSet(Blocks(f)) /\ Cardinality(Blocks(f)) <= Cardinality(I)
  BY <1>1, <1>3, FS_Surjection
<1>5. QED
  BY <1>1, <1>4, FS_CardinalityType

LEMMA RoomForAll ==
  ASSUME NEW f, f.num_blocks \in Nat, NEW c, NEW w, FreeChain(f, c, w)
  PROVE  /\ f.fblkcnt \in 0 .. f.num_blocks
         /\ \A b \in Blocks(f) \ Range(w) : f.fblkcnt < f.num_blocks
<1>1. IsFiniteSet(Range(w)) /\ Cardinality(Range(w)) = f.fblkcnt /\ f.fblkcnt \in Nat
      /\ Range(w) \subseteq Blocks(f)
  BY RangeSize DEF FreeChain
<1>2. /\ IsFiniteSet(Blocks(f)) /\ Cardinality(Blocks(f)) <= f.num_blocks
      /\ Cardinality(Blocks(f)) \in Nat
  BY NumberOfBlocks
<1>3. Cardinality(Range(w)) <= Cardinality(Blocks(f))
  BY <1>1, <1>2, FS_Subset
<1>4. ASSUME NEW b \in Blocks(f) \ Range(w)
      PROVE  f.fblkcnt < f.num_blocks
  <2>1. Cardinality(Range(w) \cup {b}) = Cardinality(Range(w)) + 1
    BY <1>1, FS_AddElement
  <2>2. Range(w) \cup {b} \subseteq Blocks(f)
    BY <1>1
  <2>3. Cardinality(Range(w) \cup {b}) <= Cardinality(Blocks(f))
    BY <1>2, <2>2, FS_Subset
  <2>4. QED
    BY <1>1, <1>2, <2>1, <2>3
<1>5. QED
  BY <1>1, <1>2, <1>3, <1>4

\* The list that tn_fmem_create makes holds every block.
LEMMA NewPoolLinked ==
  ASSUME NEW m \in Memory, ~Refused(m), NEW f, f = NewPool(m), NEW c, c = Linked(f)
  PROVE  /\ DOMAIN c = Addr /\ Blocks(f) \subseteq Addr
         /\ \E w : FreeChain(f, c, w) /\ Range(w) = Blocks(f)
<1> DEFINE start == Align(m.start_addr)
           size  == Align(m.block_size)
           num   == ActualBlocks(m)
           at(i) == start + i * size
           w     == [i \in 1 .. num |-> at(i - 1)]
<1>1. f = [start_addr |-> start, block_size |-> size, num_blocks |-> num,
           free_list |-> start, fblkcnt |-> num]
  BY DEF NewPool
<1>2. m.start_addr \in Nat /\ m.block_size \in Nat /\ m.num_blocks \in Nat
      /\ m.block_size >= 4
  BY Arguments DEF TN_ALIG
<1>3. start \in Nat /\ size \in Nat /\ size >= 4 /\ m.block_size <= size
  BY <1>2, AlignUp
<1>4. num \in Nat /\ num >= 2
  BY <1>1, ActualFit DEF Refused
<1>5. Blocks(f) = {at(i) : i \in 0 .. num - 1}
  BY <1>1 DEF Blocks, BlockAt
<1>6. Blocks(f) \subseteq Addr
  <2>1. \A b \in Blocks(f) : b >= m.start_addr
                             /\ b + m.block_size <= m.start_addr + m.block_size * m.num_blocks
    BY <1>1, NewPoolFits
  <2>2. m.start_addr .. m.start_addr + m.block_size * m.num_blocks \subseteq Addr
    BY MemAssumption
  <2>3. Blocks(f) \subseteq Nat
    BY <1>3, <1>5
  <2>4. m.block_size * m.num_blocks \in Nat
    BY <1>2
  <2>5. QED
    BY <1>2, <2>1, <2>2, <2>3, <2>4
<1> HIDE DEF start, size, num
<1>7. \A i \in Nat : at(i) \in Nat /\ at(i + 1) = at(i) + size
  BY <1>3
<1>8. \A i, j \in Nat : i < j => at(i) < at(j)
  <2> TAKE i, j \in Nat
  <2>1. i < j => (i + 1) * size <= j * size /\ (i + 1) * size = i * size + size
                 /\ i * size \in Nat /\ j * size \in Nat
    BY <1>3, Multiples
  <2>2. QED
    BY <1>3, <2>1
<1> HIDE DEF at
<1>9. \A i, j \in Nat : at(i) = at(j) => i = j
  <2> TAKE i, j \in Nat
  <2>1. at(i) \in Nat /\ at(j) \in Nat /\ (i < j => at(i) < at(j)) /\ (j < i => at(j) < at(i))
    BY <1>7, <1>8
  <2>2. QED
    BY <2>1
<1>10. \A i \in 0 .. num - 1 : at(i) \in Addr
  BY <1>5, <1>6
<1>11. \A i \in 1 .. num : i - 1 \in 0 .. num - 1 /\ i - 1 \in Nat /\ (i - 1) + 1 = i
  BY <1>4
<1>12. /\ w \in Seq(Addr) /\ Len(w) = num /\ DOMAIN w = 1 .. num
       /\ \A i \in 1 .. num : w[i] = at(i - 1)
  <2>1. \A i \in 1 .. num : at(i - 1) \in Addr
    BY <1>10, <1>11
  <2>2. QED
    BY <1>4, <2>1
<1> HIDE DEF w
<1>13. IsInjective(w)
  BY <1>9, <1>11, <1>12 DEF IsInjective
<1>14. Range(w) = Blocks(f)
  <2>1. Range(w) \subseteq Blocks(f)
    BY <1>5, <1>11, <1>12 DEF Range
  <2>2. ASSUME NEW i \in 0 .. num - 1
        PROVE  at(i) \in Range(w)
    <3>1. i + 1 \in 1 .. num /\ (i + 1) - 1 = i
      BY <1>4
    <3>2. w[i + 1] = at(i)
      BY <1>12, <3>1
    <3>3. QED
      BY <1>12, <3>1, <3>2 DEF Range
  <2>3. QED
    BY <1>5, <2>1, <2>2
<1>15. f.free_list = Entry(w, 1)
  <2>1. at(0) = start
    BY <1>3 DEF at
  <2>2. 1 \in 1 .. num /\ 1 - 1 = 0
    BY <1>4
  <2>3. QED
    BY <1>1, <1>4, <1>12, <2>1, <2>2 DEF Entry
<1>16. \A i \in 1 .. num : c[w[i]] = Entry(w, i + 1)
  <2> TAKE i \in 1 .. num
  <2>1. PICK j : j = i - 1
    OBVIOUS
  <2>2. j \in 0 .. num - 1 /\ j \in Nat /\ j + 1 = i /\ w[i] = at(j) /\ at(j) \in Addr
    BY <1>10, <1>11, <1>12, <2>1
  <2>3. \A h : BlockAt(f, h) = at(h)
    BY <1>1 DEF BlockAt, at
  <2>4. c[at(j)] = IF \E h \in 0 .. num - 2 : at(j) = at(h) THEN at(j) + size
                   ELSE IF at(j) = at(num - 1) THEN NULL ELSE Written
    BY <1>1, <2>2, <2>3 DEF Linked
  <2>5. CASE j = num - 1
    <3>1. ~\E h \in 0 .. num - 2 : at(j) = at(h)
      <4>1. \A h \in 0 .. num - 2 : h \in Nat /\ h # j
        BY <1>4, <2>5
      <4>2. QED
        BY <1>9, <2>2, <4>1
    <3>2. ~(i + 1 <= Len(w))
      BY <1>4, <1>12, <2>2, <2>5
    <3>3. QED
      BY <2>2, <2>4, <2>5, <3>1, <3>2 DEF Entry
  <2>6. CASE j # num - 1
    <3>1. j \in 0 .. num - 2 /\ i + 1 \in 1 .. num /\ (i + 1) - 1 = j + 1
      BY <1>4, <2>2, <2>6
    <3>2. c[at(j)] = at(j) + size
      BY <2>4, <3>1
    <3>3. Entry(w, i + 1) = at(j + 1)
      BY <1>12, <3>1 DEF Entry
    <3>4. QED
      BY <1>7, <2>2, <3>2, <3>3
  <2>7. QED
    BY <2>5, <2>6
<1>17. FreeChain(f, c, w)
  BY <1>1, <1>12, <1>13, <1>14, <1>15, <1>16 DEF FreeChain
<1>18. DOMAIN c = Addr
  BY DEF Linked
<1>19. QED
  BY <1>6, <1>14, <1>17, <1>18

\* A creation that was refused leaves no block.
LEMMA NoBlocksLinked ==
  ASSUME NEW c
  PROVE  FreeChain(NoBlocks, c, <<>>) /\ Blocks(NoBlocks) = {} /\ HeaderOf(NoBlocks)
<1>1. NoBlocks.num_blocks = 0 /\ NoBlocks.fblkcnt = 0 /\ NoBlocks.free_list = NULL
      /\ HeaderOf(NoBlocks)
  BY DEF NoBlocks, HeaderOf
<1>2. Blocks(NoBlocks) = {}
  BY <1>1 DEF Blocks
<1>3. FreeChain(NoBlocks, c, <<>>)
  BY <1>1 DEF FreeChain, Entry, IsInjective, Range
<1>4. QED
  BY <1>1, <1>2, <1>3

-----------------------------------------------------------------------------
\* Who has a block.

\* No block is in two places: free, with the application o, or on its way to a
\* task h[t].
Parts(f, c, o, h, w) ==
  /\ FreeChain(f, c, w) /\ DOMAIN c = Addr
  /\ o \subseteq Blocks(f) /\ o \cap Range(w) = {}
  /\ \A t \in AppTask : h[t] # NULL => h[t] \in Blocks(f) \ (o \cup Range(w))
  /\ \A t, u \in AppTask : h[t] # NULL /\ h[t] = h[u] => t = u

\* The application o gets block b and is p.
Has(o, b, p) == p = o \cup {b}

\* The application gets the first free block
LEMMA PartsGet ==
  ASSUME NEW f, HeaderOf(f), NEW c, NEW o, NEW h, NEW w, Parts(f, c, o, h, w), f.fblkcnt > 0,
         NEW b, NEW x, NEW g, NEW d, Gone(f, c, b, x, g, d), NEW p, Has(o, b, p)
  PROVE  \E v : Parts(g, d, p, h, v) /\ b \in Range(w) /\ Range(v) = Range(w) \ {b}
<1>1. FreeChain(f, c, w) /\ DOMAIN c = Addr
  BY DEF Parts
<1>2. PICK v : v = Tail(w)
  OBVIOUS
<1>3. b = w[1] /\ b \in Range(w) /\ FreeChain(g, d, v) /\ Range(v) = Range(w) \ {b}
  <2>1. HeaderOf(f) /\ f.fblkcnt > 0 /\ Gone(f, c, b, x, g, d)
    OBVIOUS
  <2>2. b = w[1]
    BY ONLY <1>1, <1>2, <2>1, FirstGoes
  <2>3. FreeChain(g, d, v)
    BY ONLY <1>1, <1>2, <2>1, FirstGoes
  <2>4. QED
    BY ONLY <1>1, <1>2, <2>1, <2>2, <2>3, FirstGoes
<1>4. DOMAIN d = Addr /\ Blocks(g) = Blocks(f) /\ Range(w) \subseteq Blocks(f)
  BY <1>1, CountedIs DEF Gone, Linking, FreeChain
<1>5. Parts(g, d, p, h, v)
  BY <1>3, <1>4 DEF Parts, Has
<1>6. QED
  BY <1>3, <1>5

\* and gives one back, for which there is room.
LEMMA PartsPut ==
  ASSUME NEW f, HeaderOf(f), NEW c, NEW o, NEW h, NEW w, Parts(f, c, o, h, w),
         f.num_blocks \in Nat, Blocks(f) \subseteq Addr, NEW b \in o,
         NEW g, g = Counted(f, b, f.fblkcnt + 1), NEW d, d = Linking(c, b, f.free_list),
         NEW p, p = o \ {b}
  PROVE  /\ f.fblkcnt < f.num_blocks
         /\ \E v : Parts(g, d, p, h, v) /\ Range(v) = Range(w) \cup {b}
<1>1. FreeChain(f, c, w) /\ DOMAIN c = Addr /\ b \in Blocks(f) \ Range(w) /\ b \in Addr
  BY DEF Parts
<1>2. f.fblkcnt < f.num_blocks
  BY <1>1, RoomForAll
<1>3. PICK v : FreeChain(g, d, v) /\ Range(v) = Range(w) \cup {b}
  BY <1>1, FirstComes
<1>4. DOMAIN d = Addr /\ Blocks(g) = Blocks(f)
  BY <1>1, CountedIs DEF Linking
<1>5. Parts(g, d, p, h, v)
  BY <1>1, <1>3, <1>4 DEF Parts
<1>6. QED
  BY <1>2, <1>3, <1>5

\* A block goes from the application to a task,
LEMMA PartsGive ==
  ASSUME NEW f, NEW c, NEW o, NEW h, NEW w, Parts(f, c, o, h, w), DOMAIN h = AppTask,
         NEW b \in o, NEW t \in AppTask, NEW p, p = o \ {b}, NEW g, g = [h EXCEPT ![t] = b]
  PROVE  Parts(f, c, p, g, w)
<1>1. g[t] = b /\ \A u \in AppTask \ {t} : g[u] = h[u]
  OBVIOUS
<1>2. b \in Blocks(f) \ Range(w) /\ \A u \in AppTask : h[u] # b \/ b = NULL
  BY DEF Parts
<1>3. \A u \in AppTask : g[u] # NULL => g[u] \in Blocks(f) \ (p \cup Range(w))
  BY <1>1, <1>2 DEF Parts
<1>4. \A u, x \in AppTask : g[u] # NULL /\ g[u] = g[x] => u = x
  BY <1>1, <1>2 DEF Parts
<1>5. QED
  BY <1>3, <1>4 DEF Parts

\* from a task to the application,
LEMMA PartsFetch ==
  ASSUME NEW f, NEW c, NEW o, NEW h, NEW w, Parts(f, c, o, h, w), DOMAIN h = AppTask,
         NEW t \in AppTask, h[t] # NULL, NEW p, p = o \cup {h[t]},
         NEW g, g = [h EXCEPT ![t] = NULL]
  PROVE  Parts(f, c, p, g, w)
<1>1. g[t] = NULL /\ \A u \in AppTask \ {t} : g[u] = h[u]
  OBVIOUS
<1>2. h[t] \in Blocks(f) \ Range(w) /\ \A u \in AppTask \ {t} : h[u] # NULL => h[u] # h[t]
  BY DEF Parts
<1>3. \A u \in AppTask : g[u] # NULL => g[u] \in Blocks(f) \ (p \cup Range(w))
  BY <1>1, <1>2 DEF Parts
<1>4. \A u, x \in AppTask : g[u] # NULL /\ g[u] = g[x] => u = x
  BY <1>1 DEF Parts
<1>5. QED
  BY <1>2, <1>3, <1>4 DEF Parts

\* or from a task to nobody.
LEMMA PartsLost ==
  ASSUME NEW f, NEW c, NEW o, NEW h, NEW w, Parts(f, c, o, h, w), DOMAIN h = AppTask,
         NEW t \in AppTask, NEW g, g = [h EXCEPT ![t] = NULL]
  PROVE  Parts(f, c, o, g, w)
<1>1. g[t] = NULL /\ \A u \in AppTask \ {t} : g[u] = h[u]
  OBVIOUS
<1>2. QED
  BY <1>1 DEF Parts

-----------------------------------------------------------------------------
\* The invariant.

kinds == <<"WFIXMEM">>
Getters == On(k, "WFIXMEM")

\* The task was woken with success and has yet to fetch its block.
Got(t) == getting[t] /\ ~Waiting(k, t) /\ k.task_wait_rc[t] = "TERR_NO_ERR"

\* Whoever waits for a block will return from tn_fmem_get, and whoever will
\* return from it waits nowhere else.
GettingOK ==
  /\ getting \in [Task -> BOOLEAN]
  /\ \A t \in Task : getting[t] => /\ t \in AppTask /\ t \in k.created
                                   /\ t \in Waits(k) => t \in Getters
  /\ \A t \in Getters : getting[t]

\* Tasks wait only for a pool that exists and has no free block.
PoolInv ==
  /\ ObjectInv(kinds) /\ GettingOK
  /\ fmp.num_blocks \in Nat /\ Blocks(fmp) \subseteq Addr
  /\ data_elem \in [Task -> Addr \cup {NULL}]
  /\ \A t \in AppTask : Got(t) => data_elem[t] # NULL
  /\ \E w : Parts(fmp, cell, out, Handed, w)
  /\ Getters # {} => id /\ fmp.fblkcnt = 0

MemInv == HeaderInv /\ PoolInv

LEMMA OneKind ==
  /\ Kinds(kinds) /\ WaitLists # <<>> /\ DOMAIN WaitLists = {1}
  /\ kinds[1] = "WFIXMEM" /\ wait_queue = WaitLists[1] /\ wait_queue \in WaitQueue
<1>1. Len(WaitLists) = 1 /\ WaitLists \in Seq(WaitQueue)
  BY MemAssumption, WaitListsAssumption
<1>2. DOMAIN WaitLists = {1} /\ WaitLists # <<>> /\ wait_queue \in WaitQueue
  BY <1>1 DEF wait_queue
<1>3. kinds \in [1 .. 1 -> WaitReason \ {"SLEEP"}] /\ kinds[1] = "WFIXMEM"
  BY DEF kinds, WaitReason
<1>4. IsInjective(kinds) /\ IsInjective(WaitLists)
  BY <1>2, <1>3 DEF IsInjective
<1>5. QED
  BY <1>1, <1>2, <1>3, <1>4 DEF Kinds, wait_queue

LEMMA HandedIs ==
  /\ Handed = [t \in AppTask |-> IF Got(t) THEN data_elem[t] ELSE NULL]
  /\ DOMAIN Handed = AppTask /\ Promise!Nobody = [t \in AppTask |-> NULL]
BY DEF Handed, Got, Promise!Nobody

\* The free blocks and the tasks that wait, before a step
Sees(w, v) == /\ Parts(fmp, cell, out, Handed, w)
              /\ Line(k, wait_queue, "WFIXMEM", v)

LEMMA View ==
  ASSUME MemInv, NEW w, NEW v, Sees(w, v)
  PROVE  /\ FreeBlocks = Range(w) /\ Range(w) \subseteq Blocks(fmp)
         /\ fmp.fblkcnt \in Nat /\ (fmp.fblkcnt = 0 <=> Range(w) = {})
         /\ Order(wait_queue, "WFIXMEM") = v /\ Range(v) = Getters
         /\ v \in Seq(Node) /\ IsInjective(v) /\ Range(v) \subseteq AppTask
         /\ (v = <<>> <=> noWaiter) /\ (v = <<>> <=> Getters = {})
         /\ v # <<>> => id /\ fmp.fblkcnt = 0
<1>1. KernelOK(k) /\ WaitersOK(k, kinds) /\ FreeChain(fmp, cell, w)
      /\ Line(k, wait_queue, "WFIXMEM", v)
  BY DEF MemInv, PoolInv, ObjectInv, IInv, Sees, Parts
<1>2. FreeBlocks = Range(w) /\ Range(w) \subseteq Blocks(fmp) /\ fmp.fblkcnt \in Nat
  <2>1. Chain(fmp, cell, fmp.fblkcnt) = w
    BY <1>1, ChainIs
  <2>2. QED
    BY <1>1, <2>1 DEF FreeChain, FreeBlocks, FreeList
<1>3. fmp.fblkcnt = 0 <=> Range(w) = {}
  <2>1. w \in Seq(Addr) /\ Len(w) = fmp.fblkcnt /\ DOMAIN w = 1 .. Len(w)
    BY <1>1 DEF FreeChain
  <2>2. fmp.fblkcnt # 0 => 1 \in DOMAIN w
    BY <1>2, <2>1
  <2>3. QED
    BY <2>1, <2>2 DEF Range
<1>4. Order(wait_queue, "WFIXMEM") = v /\ Range(v) = Getters
  BY <1>1, LineOrder DEF Line, Getters
<1>5. v \in Seq(Node) /\ IsInjective(v)
  <2>1. v \in Seq(Node \ {wait_queue}) /\ IsInjective(v)
    BY <1>1 DEF Line, Holds
  <2>2. QED
    BY <2>1
<1>6. Range(v) \subseteq AppTask
  BY <1>1, LineTasks, OneKind
<1>7. (v = <<>> <=> noWaiter) /\ (v = <<>> <=> Getters = {})
  BY <1>1, EmptyLine DEF noWaiter, Getters
<1>8. QED
  BY <1>2, <1>3, <1>4, <1>5, <1>6, <1>7 DEF MemInv, PoolInv

LEMMA SomeView == MemInv => \E w, v : Sees(w, v)
BY OneKind DEF MemInv, PoolInv, ObjectInv, WaitersOK, Sees

\* and after it.
LEMMA ViewAfter ==
  ASSUME NEW w, NEW v, FreeChain(fmp', cell', w), Line(k', wait_queue, "WFIXMEM", v)
  PROVE  FreeBlocks' = Range(w) /\ Order(wait_queue, "WFIXMEM")' = v
<1>1. Chain(fmp', cell', fmp'.fblkcnt) = w
  BY ChainIs
<1>2. FreeBlocks' = Range(w)
  BY <1>1 DEF FreeBlocks, FreeList
<1>3. (CHOOSE u \in SetToSeqs(On(k', "WFIXMEM")) : IsRing(k'.q, wait_queue, u)) = v
  BY LineChoice
<1>4. \A x : Waiters(x)' = On(k', x)
  BY DEF Waiters, On, Waits
<1>5. Order(wait_queue, "WFIXMEM")' = v
  BY <1>3, <1>4, Zenon DEF Order, wait_queue
<1>6. QED
  BY <1>2, <1>5

\* What is on its way to the tasks stays there,
LEMMA HandedSame ==
  ASSUME \A t \in AppTask : /\ Got(t)' <=> Got(t)
                            /\ Got(t) => data_elem'[t] = data_elem[t]
  PROVE  Handed' = Handed
BY DEF Handed, Got

\* but for that of one task.
LEMMA HandedSet ==
  ASSUME NEW u \in AppTask, NEW d,
         \A t \in AppTask \ {u} : /\ Got(t)' <=> Got(t)
                                  /\ Got(t) => data_elem'[t] = data_elem[t],
         IF Got(u)' THEN data_elem'[u] = d ELSE d = NULL
  PROVE  Handed' = [Handed EXCEPT ![u] = d]
BY DEF Handed, Got

\* The tasks of U leave the wait queue.
LEMMA GettingFrame ==
  ASSUME GettingOK, getting' = getting, k.created \subseteq k'.created,
         NEW U, Getters' = Getters \ U,
         Waits(k') \subseteq (Waits(k) \ U) \cup {tn_timer_task}
  PROVE  GettingOK'
<1>1. tn_timer_task \notin AppTask
  BY Nodes
<1>2. QED
  BY <1>1 DEF GettingOK

-----------------------------------------------------------------------------
\* The calls, as steps of the pool.

\* The first free block goes to the application.
LEMMA PoolGet ==
  ASSUME MemInv, id, fm_get, k' = k, UNCHANGED <<object, data_elem, getting>>,
         ObjectInv(kinds)'
  PROVE  PoolInv' /\ Promise!Get
<1>1. PICK w, v : Sees(w, v)
  BY SomeView
<1>2. /\ FreeBlocks = Range(w) /\ fmp.fblkcnt \in Nat /\ fmp.fblkcnt > 0
      /\ Order(wait_queue, "WFIXMEM") = v /\ Getters = {}
      /\ Parts(fmp, cell, out, Handed, w) /\ Line(k, wait_queue, "WFIXMEM", v)
  <2>1. fmp.fblkcnt > 0
    BY DEF fm_get
  <2>2. /\ FreeBlocks = Range(w) /\ fmp.fblkcnt \in Nat /\ Order(wait_queue, "WFIXMEM") = v
        /\ v # <<>> => fmp.fblkcnt = 0
        /\ v = <<>> <=> Getters = {}
    BY <1>1, View
  <2>3. QED
    BY <1>1, <2>1, <2>2 DEF Sees
<1>3. PICK b, x : Gone(fmp, cell, b, x, fmp', cell') /\ out' = out \cup {b}
  <2>1. HeaderOf(fmp)
    BY DEF MemInv, HeaderInv
  <2>2. /\ fmp' = Counted(fmp, cell[fmp.free_list], fmp.fblkcnt - 1)
        /\ cell' = Linking(cell, fmp.free_list, Written)
        /\ out' = out \cup {fmp.free_list}
    BY <2>1 DEF fm_get, Counted, Linking, HeaderOf
  <2>3. QED
    BY <2>2 DEF Gone
<1>4. Handed' = Handed
  BY HandedSame DEF Got
<1>5. PICK y : /\ Parts(fmp', cell', out', Handed', y)
               /\ b \in Range(w) /\ Range(y) = Range(w) \ {b}
  <2>1. HeaderOf(fmp) /\ fmp.fblkcnt > 0 /\ Parts(fmp, cell, out, Handed, w)
    BY <1>2 DEF MemInv, HeaderInv
  <2>2. PICK p : p = out' /\ Has(out, b, p)
    BY <1>3 DEF Has
  <2>3. \E y : Parts(fmp', cell', p, Handed, y) /\ b \in Range(w) /\ Range(y) = Range(w) \ {b}
    BY ONLY <1>3, <2>1, <2>2, PartsGet
  <2>4. QED
    BY <1>4, <2>2, <2>3
<1>6. Blocks(fmp') = Blocks(fmp) /\ fmp'.num_blocks = fmp.num_blocks
  BY <1>3, CountedIs DEF Gone, MemInv, HeaderInv
<1>7. Getters' = {} /\ GettingOK'
  BY <1>2 DEF Getters, GettingOK, MemInv, PoolInv
<1>8. PoolInv'
  BY <1>5, <1>6, <1>7 DEF MemInv, PoolInv, Got
<1>9. FreeBlocks' = Range(y) /\ Order(wait_queue, "WFIXMEM")' = v
  BY <1>2, <1>5, ViewAfter DEF Parts
<1>10. Promise!Get
  BY <1>2, <1>3, <1>4, <1>5, <1>6, <1>9 DEF Promise!Get, object
<1>11. QED
  BY <1>8, <1>10

\* A block comes back while nobody waits.
LEMMA PoolPut ==
  ASSUME MemInv, id, noWaiter, NEW b \in out, fm_put(b), out' = out \ {b}, k' = k,
         UNCHANGED <<object, data_elem, getting>>, ObjectInv(kinds)'
  PROVE  PoolInv' /\ Promise!Release(b)
<1>1. PICK w, v : Sees(w, v)
  BY SomeView
<1>2. /\ FreeBlocks = Range(w) /\ Order(wait_queue, "WFIXMEM") = v /\ v = <<>> /\ Getters = {}
      /\ Parts(fmp, cell, out, Handed, w) /\ Line(k, wait_queue, "WFIXMEM", v)
  <2>1. /\ FreeBlocks = Range(w) /\ Order(wait_queue, "WFIXMEM") = v
        /\ (v = <<>> <=> noWaiter) /\ (v = <<>> <=> Getters = {})
    BY <1>1, View
  <2>2. QED
    BY <1>1, <2>1 DEF Sees
<1>3. PICK g, d, p : /\ g = Counted(fmp, b, fmp.fblkcnt + 1)
                     /\ d = Linking(cell, b, fmp.free_list) /\ p = out \ {b}
  OBVIOUS
<1>4. HeaderOf(fmp) /\ Parts(fmp, cell, out, Handed, w) /\ b \in out
      /\ fmp.num_blocks \in Nat /\ Blocks(fmp) \subseteq Addr
  BY <1>2 DEF MemInv, HeaderInv, PoolInv
<1>5. /\ fmp.fblkcnt < fmp.num_blocks
      /\ \E y : Parts(g, d, p, Handed, y) /\ Range(y) = Range(w) \cup {b}
  BY ONLY <1>3, <1>4, PartsPut
<1>6. fmp' = g /\ cell' = d /\ out' = p
  BY <1>3, <1>4, <1>5 DEF fm_put, Counted, Linking, HeaderOf
<1>7. Handed' = Handed
  BY HandedSame DEF Got
<1>8. PICK y : Parts(fmp', cell', out', Handed', y) /\ Range(y) = Range(w) \cup {b}
  BY <1>5, <1>6, <1>7
<1>9. Blocks(fmp') = Blocks(fmp) /\ fmp'.num_blocks = fmp.num_blocks
  BY <1>3, <1>4, <1>6, CountedIs
<1>10. Getters' = {} /\ GettingOK'
  BY <1>2 DEF Getters, GettingOK, MemInv, PoolInv
<1>11. PoolInv'
  BY <1>8, <1>9, <1>10 DEF MemInv, PoolInv, Got
<1>12. FreeBlocks' = Range(y) /\ Order(wait_queue, "WFIXMEM")' = v
  BY <1>2, <1>8, ViewAfter DEF Parts
<1>13. Promise!Release(b)
  BY <1>2, <1>7, <1>8, <1>9, <1>12 DEF Promise!Release, object
<1>14. QED
  BY <1>11, <1>13

\* A block goes to the first task that waits, which fetches it when it runs.
LEMMA PoolGive ==
  ASSUME MemInv, id, ~noWaiter, NEW b \in out, GiveToWaiter(b), out' = out \ {b},
         UNCHANGED <<object, getting>>,
         \/ Caller /\ Free /\ task_stk' = task_stk /\ WakeFirst(k, wait_queue)
         \/ InHandler /\ NobodyDeletes /\ iWakeFirst(k, wait_queue)
  PROVE  PoolInv' /\ Promise!Release(b)
<1>1. PICK w, v : Sees(w, v)
  BY SomeView
<1>2. /\ FreeBlocks = Range(w) /\ Order(wait_queue, "WFIXMEM") = v /\ v # <<>>
      /\ Range(v) = Getters /\ v \in Seq(Node) /\ fmp.fblkcnt = 0
      /\ Parts(fmp, cell, out, Handed, w) /\ Line(k, wait_queue, "WFIXMEM", v)
  <2>1. /\ FreeBlocks = Range(w) /\ Order(wait_queue, "WFIXMEM") = v
        /\ (v = <<>> <=> noWaiter) /\ Range(v) = Getters /\ v \in Seq(Node)
        /\ v # <<>> => fmp.fblkcnt = 0
    BY <1>1, View
  <2>2. QED
    BY <1>1, <2>1 DEF Sees
<1>3. PICK u : u = v[1]
  OBVIOUS
<1>4. /\ ObjectInv(kinds)' /\ FirstWaiter(k, wait_queue) = u /\ u \in AppTask /\ u \in Waits(k)
      /\ Line(k', wait_queue, "WFIXMEM", Tail(v))
      /\ Waits(k') = Waits(k) \ {u} /\ Getters' = Getters \ {u}
      /\ k'.created = k.created /\ k'.task_wait_rc[u] = "TERR_NO_ERR"
      /\ \A t \in Task \ {u} : k'.task_wait_rc[t] = k.task_wait_rc[t]
  <2>1. /\ 1 \in DOMAIN WaitLists /\ Line(k, WaitLists[1], kinds[1], v) /\ ObjectInv(kinds)
        /\ wait_queue = WaitLists[1] /\ Kinds(kinds) /\ v # <<>> /\ UNCHANGED object
        /\ \/ Caller /\ Free /\ task_stk' = task_stk /\ WakeFirst(k, WaitLists[1])
           \/ InHandler /\ NobodyDeletes /\ iWakeFirst(k, WaitLists[1])
    BY <1>2, OneKind DEF MemInv, PoolInv
  <2>2. ObjectInv(kinds)' /\ WokenFirst(kinds, 1, v, u)
    BY ONLY <1>3, <2>1, WakesOne
  <2>3. QED
    BY <2>1, <2>2, OneKind DEF WokenFirst, Getters
<1>5. u \in Range(v) /\ u = Head(v) /\ u \in Task /\ u \in Getters
  BY <1>2, <1>3, <1>4, Nodes DEF Range
<1>6. GettingOK'
  BY <1>4, GettingFrame DEF MemInv, PoolInv
<1>7. /\ data_elem' = [data_elem EXCEPT ![u] = b] /\ fmp' = fmp /\ cell' = cell
      /\ data_elem \in [Task -> Addr \cup {NULL}] /\ b \in Addr /\ b # NULL
  <2>1. b \in Blocks(fmp) /\ Blocks(fmp) \subseteq Addr
    BY <1>2 DEF Parts, MemInv, PoolInv
  <2>2. QED
    BY <1>4, <2>1, MemAssumption DEF GiveToWaiter, MemInv, PoolInv
<1>8. /\ \A t \in AppTask \ {u} : (Got(t)' <=> Got(t)) /\ data_elem'[t] = data_elem[t]
      /\ Got(u)' /\ data_elem'[u] = b
  <2>1. \A t \in AppTask \ {u} : (Got(t)' <=> Got(t)) /\ data_elem'[t] = data_elem[t]
    BY <1>4, <1>7, Nodes DEF Got, Waits
  <2>2. getting'[u] /\ u \notin Waits(k')
    BY <1>4, <1>5 DEF MemInv, PoolInv, GettingOK
  <2>3. QED
    BY <1>4, <1>5, <1>7, <2>1, <2>2 DEF Got, Waits
<1>9. PICK h, p : h = [Handed EXCEPT ![u] = b] /\ p = out \ {b}
  OBVIOUS
<1>10. Handed' = h
  BY <1>4, <1>8, <1>9, HandedSet
<1>11. Parts(fmp', cell', out', Handed', w)
  <2>1. DOMAIN Handed = AppTask /\ b \in out /\ Parts(fmp, cell, out, Handed, w) /\ u \in AppTask
    BY <1>2, <1>4, HandedIs
  <2>2. Parts(fmp, cell, p, h, w)
    BY ONLY <1>9, <2>1, PartsGive
  <2>3. QED
    BY <1>7, <1>9, <1>10, <2>2
<1>12. PoolInv'
  <2>1. data_elem' \in [Task -> Addr \cup {NULL}]
    BY <1>7
  <2>2. \A t \in AppTask : Got(t)' => data_elem'[t] # NULL
    BY <1>7, <1>8 DEF MemInv, PoolInv
  <2>3. Getters' # {} => id' /\ fmp'.fblkcnt = 0
    BY <1>2, <1>7 DEF object
  <2>4. QED
    BY <1>4, <1>6, <1>7, <1>11, <2>1, <2>2, <2>3 DEF MemInv, PoolInv
<1>13. FreeBlocks' = Range(w) /\ Order(wait_queue, "WFIXMEM")' = Tail(v)
  BY <1>4, <1>11, ViewAfter DEF Parts
<1>14. Promise!Release(b)
  BY <1>2, <1>5, <1>7, <1>9, <1>10, <1>13 DEF Promise!Release, object
<1>15. QED
  BY <1>12, <1>14

\* A task waits when no block is free.
LEMMA PoolWait ==
  ASSUME MemInv, id, Idle, fmp.fblkcnt = 0,
         UNCHANGED <<task_stk, object, fmp, cell, out, data_elem>>,
         getting' = [getting EXCEPT ![tn_curr_run_task] = TRUE],
         WaitFor(k, wait_queue, "WFIXMEM", TN_WAIT_INFINITE)
  PROVE  PoolInv' /\ Promise!Await(tn_curr_run_task)
<1> DEFINE t == tn_curr_run_task
<1>1. PICK w, v : Sees(w, v)
  BY SomeView
<1>2. /\ FreeBlocks = Range(w) /\ Range(w) = {} /\ Order(wait_queue, "WFIXMEM") = v
      /\ Parts(fmp, cell, out, Handed, w) /\ Line(k, wait_queue, "WFIXMEM", v)
      /\ Caller /\ Free /\ ~getting[t]
  <2>1. /\ FreeBlocks = Range(w) /\ Order(wait_queue, "WFIXMEM") = v
        /\ fmp.fblkcnt = 0 <=> Range(w) = {}
    BY <1>1, View
  <2>2. QED
    BY <1>1, <2>1 DEF Sees, Idle
<1>3. /\ ObjectInv(kinds)' /\ t \in AppTask \ Range(v) /\ t \in k.created
      /\ Line(k', wait_queue, "WFIXMEM", Append(v, t))
      /\ Waits(k') = Waits(k) \cup {t} /\ Getters' = Getters \cup {t}
      /\ k'.created = k.created /\ k'.task_wait_rc = k.task_wait_rc
  <2>1. /\ 1 \in DOMAIN WaitLists /\ ObjectInv(kinds) /\ Kinds(kinds)
        /\ Line(k, WaitLists[1], kinds[1], v)
        /\ WaitFor(k, WaitLists[1], kinds[1], TN_WAIT_INFINITE)
    BY <1>2, OneKind DEF MemInv, PoolInv
  <2>2. /\ ObjectInv(kinds)' /\ t \in AppTask \ Range(v) /\ t \in k.created
        /\ Line(k', WaitLists[1], kinds[1], Append(v, t))
        /\ Waits(k') = Waits(k) \cup {t} /\ On(k', kinds[1]) = On(k, kinds[1]) \cup {t}
        /\ k'.created = k.created /\ k'.task_wait_rc = k.task_wait_rc
    BY <1>2, <2>1, WaitsOne
  <2> HIDE DEF t
  <2>3. QED
    BY <2>2, OneKind DEF Getters
<1>4. t \in Task /\ getting' = [getting EXCEPT ![t] = TRUE]
  BY <1>3, Nodes
<1> HIDE DEF t
<1>5. /\ getting' \in [Task -> BOOLEAN] /\ getting'[t]
      /\ \A u \in Task \ {t} : getting'[u] = getting[u]
  BY <1>4 DEF MemInv, PoolInv, GettingOK
<1>6. GettingOK'
  <2>1. ASSUME NEW u \in Task, getting'[u]
        PROVE  u \in AppTask /\ u \in k'.created /\ (u \in Waits(k') => u \in Getters')
    BY <1>3, <1>4, <1>5, <2>1 DEF MemInv, PoolInv, GettingOK
  <2>2. \A u \in Getters' : getting'[u]
    BY <1>3, <1>5 DEF MemInv, PoolInv, GettingOK, Getters, On, Waits
  <2>3. QED
    BY <1>5, <2>1, <2>2 DEF GettingOK
<1>7. \A u \in AppTask : Got(u)' <=> Got(u)
  BY <1>2, <1>3, <1>4, <1>5, Nodes DEF Got, Waits
<1>8. Handed' = Handed
  BY <1>7, HandedSame
<1>9. PoolInv'
  BY <1>2, <1>3, <1>6, <1>7, <1>8 DEF MemInv, PoolInv, object
<1>10. FreeBlocks' = Range(w) /\ Order(wait_queue, "WFIXMEM")' = Append(v, t)
  <2>1. FreeChain(fmp', cell', w)
    BY <1>2 DEF Parts
  <2>2. QED
    BY <1>3, <2>1, ViewAfter
<1>11. Promise!Await(t)
  BY <1>2, <1>8, <1>10 DEF Promise!Await, object
<1>12. QED
  BY <1>9, <1>11 DEF t

\* A task runs again: with its block, or without when none came.
LEMMA PoolFetch ==
  ASSUME MemInv, GetEnd
  PROVE  PoolInv' /\ (UNCHANGED Promise!vars \/ Promise!Fetch(tn_curr_run_task))
<1>0. PICK t : t = tn_curr_run_task
  OBVIOUS
<1>1. /\ getting[t] /\ getting' = [getting EXCEPT ![t] = FALSE]
      /\ out' = IF k.task_wait_rc[t] = "TERR_NO_ERR" THEN out \cup {data_elem[t]} ELSE out
      /\ k' = k /\ UNCHANGED object /\ fmp' = fmp /\ cell' = cell /\ data_elem' = data_elem
  BY <1>0 DEF GetEnd, vars
<1>2. t \in Task /\ ~Waiting(k, t) /\ t \notin Waits(k)
  <2>1. t \in Task /\ k.task_state[t] = "RUNNABLE"
    BY <1>0, CallerFacts DEF GetEnd, MemInv, PoolInv, ObjectInv
  <2>2. QED
    BY <2>1 DEF Waiting, Waits
<1>3. t \in AppTask /\ getting' \in [Task -> BOOLEAN] /\ ~getting'[t]
      /\ \A u \in Task \ {t} : getting'[u] = getting[u]
  BY <1>1, <1>2 DEF MemInv, PoolInv, GettingOK
<1>4. ObjectInv(kinds)' /\ Getters' = Getters
  <2>1. Getters' = Getters
    BY <1>1 DEF Getters
  <2>2. ObjectInv(kinds)'
    BY DEF GetEnd, MemInv, PoolInv, ObjectInv, IInv, Control, Settled, Right, WaitersOK,
           ObjectOK, DeletersOK, Deletes, NoWaiters, vars, object
  <2>3. QED
    BY <2>1, <2>2
<1>5. GettingOK'
  BY <1>1, <1>2, <1>3, <1>4 DEF MemInv, PoolInv, GettingOK, Getters, On
<1>6. /\ \A u \in AppTask \ {t} : (Got(u)' <=> Got(u)) /\ data_elem'[u] = data_elem[u]
      /\ ~Got(t)'
  BY <1>1, <1>3, Nodes DEF Got
<1>7. PICK h : h = [Handed EXCEPT ![t] = NULL]
  OBVIOUS
<1>8. Handed' = h
  BY <1>3, <1>6, <1>7, HandedSet
<1>9. PICK w, v : Sees(w, v)
  BY SomeView
<1>10. /\ Parts(fmp, cell, out, Handed, w) /\ DOMAIN Handed = AppTask
       /\ FreeBlocks' = FreeBlocks /\ Order(wait_queue, "WFIXMEM")' = Order(wait_queue, "WFIXMEM")
  BY <1>1, <1>9, HandedIs DEF Sees, FreeBlocks, FreeList, Order, Waiters, Waiting
<1>11. ASSUME Parts(fmp, cell, out', h, w)
       PROVE  PoolInv'
  BY <1>1, <1>4, <1>5, <1>6, <1>8, <1>11 DEF MemInv, PoolInv, object
<1>12. CASE Handed[t] = NULL
  <2>1. k.task_wait_rc[t] # "TERR_NO_ERR"
    BY <1>1, <1>2, <1>3, <1>12, HandedIs DEF Got, MemInv, PoolInv
  <2>2. h = Handed /\ out' = out
    BY <1>1, <1>7, <1>12, <2>1, HandedIs
  <2>3. UNCHANGED Promise!vars
    BY <1>1, <1>8, <1>10, <2>2 DEF Promise!vars, object
  <2>4. QED
    BY <1>10, <1>11, <2>2, <2>3
<1>13. CASE Handed[t] # NULL
  <2>1. Handed[t] = data_elem[t] /\ k.task_wait_rc[t] = "TERR_NO_ERR"
    BY <1>3, <1>13, HandedIs DEF Got
  <2>2. PICK p : p = out \cup {Handed[t]}
    OBVIOUS
  <2>3. out' = p
    BY <1>1, <2>1, <2>2
  <2>4. Parts(fmp, cell, p, h, w)
    BY ONLY <1>3, <1>7, <1>10, <1>13, <2>2, PartsFetch
  <2>5. Promise!Fetch(t)
    BY <1>1, <1>7, <1>8, <1>10, <1>13, <2>2, <2>3 DEF Promise!Fetch, object
  <2>6. QED
    BY <1>0, <1>11, <2>3, <2>4, <2>5
<1>14. QED
  BY <1>12, <1>13

\* A pool is created anew, or the attempt leaves none.
LEMMA PoolCreate ==
  ASSUME MemInv, NEW m \in Memory, tn_fmem_create(m)
  PROVE  PoolInv' /\ (Promise!Create \/ Promise!Refuse)
<1>1. PICK w, v : Sees(w, v)
  BY SomeView
<1>2. /\ Order(wait_queue, "WFIXMEM") = v /\ Getters = {} /\ noWaiter /\ KernelOK(k)
      /\ Parts(fmp, cell, out, Handed, w) /\ Line(k, wait_queue, "WFIXMEM", v)
      /\ ~id /\ out = {} /\ \A t \in AppTask : Handed[t] = NULL
  <2>1. ~id /\ out = {} /\ \A t \in AppTask : Handed[t] = NULL
    BY DEF tn_fmem_create
  <2>2. /\ Order(wait_queue, "WFIXMEM") = v /\ (v = <<>> <=> noWaiter)
        /\ (v = <<>> <=> Getters = {}) /\ (v # <<>> => id)
    BY <1>1, View
  <2>3. QED
    BY <1>1, <2>1, <2>2 DEF Sees, MemInv, PoolInv, ObjectInv, IInv
<1>3. /\ k' = k /\ id' \in BOOLEAN /\ Caller /\ Free /\ Returns
      /\ UNCHANGED <<task_stk, deleting, data_elem, getting, out>>
  BY <1>2, ResetEmpty DEF tn_fmem_create, noWaiter, Idle, MemInv, HeaderInv
<1>4. ObjectInv(kinds)' /\ Getters' = {} /\ GettingOK'
  <2>1. ObjectInv(kinds)'
    BY <1>3, OneKind, CallReturns DEF MemInv, PoolInv
  <2>2. QED
    BY <1>2, <1>3, <2>1 DEF Getters, GettingOK, MemInv, PoolInv
<1>5. Handed' = Handed /\ Handed = Promise!Nobody
  <2>1. Handed' = Handed
    BY <1>3, HandedSame DEF Got
  <2>2. QED
    BY <1>2, <2>1, HandedIs
<1>6. ASSUME fmp'.num_blocks \in Nat, Blocks(fmp') \subseteq Addr, DOMAIN cell' = Addr,
             NEW y, FreeChain(fmp', cell', y)
      PROVE  PoolInv' /\ FreeBlocks' = Range(y) /\ Order(wait_queue, "WFIXMEM")' = v
  <2>1. Parts(fmp', cell', out', Handed', y)
    BY <1>2, <1>3, <1>5, <1>6 DEF Parts
  <2>2. PoolInv'
    BY <1>3, <1>4, <1>6, <2>1 DEF MemInv, PoolInv, Got
  <2>3. Line(k', wait_queue, "WFIXMEM", v)
    BY <1>2, <1>3
  <2>4. QED
    BY <1>6, <2>2, <2>3, ViewAfter
<1>7. CASE Refused(m) /\ fmp' = NoBlocks /\ UNCHANGED <<k, id, cell, memory>>
  <2>1. PICK y : y = <<>>
    OBVIOUS
  <2>2. /\ FreeChain(fmp', cell', y) /\ Blocks(fmp') = {} /\ DOMAIN cell' = Addr
        /\ fmp'.num_blocks \in Nat /\ Range(y) = {}
    BY <1>2, <1>7, <2>1, NoBlocksLinked DEF NoBlocks, Parts, Range
  <2>3. Promise!Refuse
    BY <1>2, <1>3, <1>5, <1>6, <1>7, <2>2 DEF Promise!Refuse
  <2>4. QED
    BY <1>6, <2>2, <2>3
<1>8. CASE /\ ~Refused(m) /\ id' = TRUE
           /\ fmp' = NewPool(m) /\ cell' = Linked(fmp') /\ memory' = m
  <2>1. DOMAIN cell' = Addr /\ Blocks(fmp') \subseteq Addr
    BY <1>8, NewPoolLinked
  <2>2. PICK y : FreeChain(fmp', cell', y) /\ Range(y) = Blocks(fmp')
    BY <1>8, NewPoolLinked
  <2>3. fmp'.num_blocks \in Nat
    BY <1>8, ActualFit DEF NewPool
  <2>4. Blocks(fmp') \in {Blocks(NewPool(n)) : n \in {n \in Memory : ~Refused(n)}}
    BY <1>8
  <2>5. Promise!Create
    BY <1>2, <1>3, <1>5, <1>6, <1>8, <2>1, <2>2, <2>3, <2>4 DEF Promise!Create
  <2>6. QED
    BY <1>6, <2>1, <2>2, <2>3, <2>5
<1>9. QED
  BY <1>7, <1>8 DEF tn_fmem_create

\* The pool removes from a sequence as the code's wait queues do.
LEMMA SameRemoval ==
  ASSUME NEW w, NEW t
  PROVE  /\ Promise!RemoveFirst(w, t) = RemoveFirst(w, t)
         /\ t \notin Range(w) /\ w \in Seq(Node) => RemoveFirst(w, t) = w
<1>1. Promise!RemoveFirst(w, t) = RemoveFirst(w, t)
  BY DEF Promise!RemoveFirst, Promise!RemoveAt, Promise!SelectInSeq, Promise!Min,
         RemoveFirst, RemoveAt, SelectInSeq, Min
<1>2. ASSUME t \notin Range(w), w \in Seq(Node)
      PROVE  RemoveFirst(w, t) = w
  <2>1. ~\E i \in 1 .. Len(w) : w[i] = t
    BY <1>2 DEF Range
  <2>2. QED
    BY <2>1 DEF RemoveFirst
<1>3. QED
  BY <1>1, <1>2

\* The line after a step that takes u off it, or leaves it alone.
LEMMA LineLeft ==
  ASSUME MemInv, NEW w, NEW v, Sees(w, v)
  PROVE  /\ SameLines(k, k', kinds) => Line(k', wait_queue, "WFIXMEM", v) /\ Getters' = Getters
         /\ \A i \in DOMAIN WaitLists : \A x, u : LeavesList(kinds, i, x, u) =>
              /\ u \in Waits(k) /\ u \in AppTask /\ Waits(k') = Waits(k) \ {u}
              /\ Line(k', wait_queue, "WFIXMEM", RemoveFirst(v, u)) /\ Getters' = Getters \ {u}
              /\ ~NoWaiters(i)
<1>1. /\ Line(k, wait_queue, "WFIXMEM", v) /\ WaitersOK(k, kinds) /\ KernelOK(k)
  BY DEF Sees, MemInv, PoolInv, ObjectInv, IInv
<1>2. ASSUME SameLines(k, k', kinds)
      PROVE  Line(k', wait_queue, "WFIXMEM", v) /\ Getters' = Getters
  <2>1. Line(k', wait_queue, "WFIXMEM", v)
    BY <1>1, <1>2, OneKind DEF SameLines
  <2>2. QED
    BY <1>1, <2>1 DEF Line, Getters
<1>3. ASSUME NEW i \in DOMAIN WaitLists, NEW x, NEW u, LeavesList(kinds, i, x, u)
      PROVE  /\ u \in Waits(k) /\ u \in AppTask /\ Waits(k') = Waits(k) \ {u}
             /\ Line(k', wait_queue, "WFIXMEM", RemoveFirst(v, u)) /\ Getters' = Getters \ {u}
             /\ ~NoWaiters(i)
  <2>1. /\ i = 1 /\ Line(k, wait_queue, "WFIXMEM", x) /\ u \in Range(x)
        /\ Line(k', wait_queue, "WFIXMEM", RemoveFirst(x, u)) /\ Waits(k') = Waits(k) \ {u}
    BY <1>3, OneKind DEF LeavesList
  <2>2. x = v
    BY <1>1, <2>1, LineOrder
  <2>3. u \in Waits(k) /\ u \in AppTask
    BY <1>1, <2>1, OneKind, LineTasks DEF Line, On
  <2>4. Getters' = Getters \ {u}
    <3>1. \A j \in DOMAIN WaitLists : On(k', kinds[j]) = On(k, kinds[j]) \ {u}
      BY <1>1, <1>3, OneKind, Members
    <3>2. QED
      BY <3>1, OneKind DEF Getters
  <2>5. ~NoWaiters(i)
    <3>1. x # <<>>
      BY <2>1 DEF Range
    <3>2. QED
      BY <1>1, <2>1, <3>1, EmptyLine, OneKind DEF NoWaiters
  <2>6. QED
    BY <2>1, <2>2, <2>3, <2>4, <2>5
<1>4. QED
  BY <1>2, <1>3

\* Steps that move no block, and the deletion of the pool.
LEMMA PoolPlain ==
  ASSUME MemInv, PlainStep, UNCHANGED pool
  PROVE  /\ PoolInv'
         /\ UNCHANGED Promise!vars \/ Promise!Delete \/ \E t \in AppTask : Promise!GiveUp(t)
<1>1. UNCHANGED <<fmp, cell, out, data_elem, getting>>
  BY DEF pool
<1>2. /\ ObjectInv(kinds)' /\ Waits(k') \subseteq Waits(k) \cup {tn_timer_task}
      /\ \/ SameLines(k, k', kinds)
         \/ \E i \in DOMAIN WaitLists : \E x, u : LeavesList(kinds, i, x, u)
      /\ \/ id' = id
         \/ id /\ ~id' /\ k' = k /\ \A j \in DOMAIN WaitLists : NoWaiters(j)
      /\ k.created \subseteq k'.created /\ \A t \in k.created : Undone(t)
  BY PlainStepOK, OneKind DEF MemInv, PoolInv
<1>3. \A t \in AppTask : Got(t)' <=> Got(t)
  <2> TAKE t \in AppTask
  <2>1. CASE ~getting[t]
    BY <1>1, <2>1 DEF Got
  <2>2. CASE getting[t]
    <3>1. t \in Task /\ t # tn_timer_task /\ Undone(t)
      BY <1>2, <2>2, Nodes DEF MemInv, PoolInv, GettingOK
    <3>2. CASE k'.task_wait_rc[t] = k.task_wait_rc[t] /\ (t \in Waits(k) => t \in Waits(k'))
      <4>1. t \in Waits(k) <=> t \in Waits(k')
        BY <1>2, <3>1, <3>2
      <4>2. QED
        BY <1>1, <3>1, <3>2, <4>1 DEF Got, Waits
    <3>3. CASE t \in Waits(k) /\ k'.task_wait_rc[t] = "TERR_DLT"
      BY <3>3 DEF Got, Waits
    <3>4. QED
      BY <3>1, <3>2, <3>3 DEF Undone
  <2>3. QED
    BY <2>1, <2>2
<1>4. Handed' = Handed
  BY <1>1, <1>3, HandedSame
<1>5. PICK w, v : Sees(w, v)
  BY SomeView
<1>6. /\ Parts(fmp', cell', out', Handed', w) /\ FreeChain(fmp', cell', w)
      /\ FreeBlocks = Range(w) /\ Order(wait_queue, "WFIXMEM") = v /\ v \in Seq(Node)
      /\ (v = <<>> <=> noWaiter)
  <2>1. Parts(fmp, cell, out, Handed, w)
    BY <1>5 DEF Sees
  <2>2. Parts(fmp', cell', out', Handed', w)
    BY <1>1, <1>4, <2>1
  <2>3. FreeChain(fmp', cell', w)
    BY <2>2 DEF Parts
  <2>4. /\ FreeBlocks = Range(w) /\ Order(wait_queue, "WFIXMEM") = v /\ v \in Seq(Node)
        /\ (v = <<>> <=> noWaiter)
    BY <1>5, View
  <2>5. QED
    BY <2>2, <2>3, <2>4
<1>7. ASSUME GettingOK', Getters' \subseteq Getters,
             id' = id \/ Getters = {}
      PROVE  PoolInv'
  BY <1>1, <1>2, <1>3, <1>6, <1>7 DEF MemInv, PoolInv
<1>8. CASE SameLines(k, k', kinds)
  <2>1. Line(k', wait_queue, "WFIXMEM", v) /\ Getters' = Getters
    BY <1>5, <1>8, LineLeft
  <2>2. FreeBlocks' = FreeBlocks /\ Order(wait_queue, "WFIXMEM")' = Order(wait_queue, "WFIXMEM")
    BY <1>6, <2>1, ViewAfter
  <2>3. GettingOK'
    <3>1. Getters' = Getters \ {} /\ Waits(k') \subseteq (Waits(k) \ {}) \cup {tn_timer_task}
      BY <1>2, <2>1
    <3>2. QED
      BY <1>1, <1>2, <3>1, GettingFrame DEF MemInv, PoolInv
  <2>4. CASE id' = id
    <3>1. UNCHANGED Promise!vars
      BY <1>1, <1>4, <2>2, <2>4 DEF Promise!vars
    <3>2. QED
      BY <1>7, <2>1, <2>3, <2>4, <3>1
  <2>5. CASE id /\ ~id' /\ \A j \in DOMAIN WaitLists : NoWaiters(j)
    <3>1. v = <<>> /\ Getters = {}
      <4>1. noWaiter
        BY <2>5, OneKind DEF NoWaiters, noWaiter
      <4>2. QED
        BY <1>5, <4>1, View
    <3>2. id' = FALSE
      BY <1>2, <2>5 DEF ObjectInv, ObjectOK
    <3>3. Promise!Delete
      BY <1>1, <1>4, <1>6, <2>2, <2>5, <3>1, <3>2 DEF Promise!Delete
    <3>4. QED
      BY <1>7, <2>1, <2>3, <3>1, <3>3
  <2>6. QED
    BY <1>2, <2>4, <2>5
<1>9. ASSUME NEW i \in DOMAIN WaitLists, NEW x, NEW u, LeavesList(kinds, i, x, u)
      PROVE  PoolInv' /\ \E t \in AppTask : Promise!GiveUp(t)
  <2>1. /\ u \in Waits(k) /\ u \in AppTask /\ Waits(k') = Waits(k) \ {u}
        /\ Line(k', wait_queue, "WFIXMEM", RemoveFirst(v, u)) /\ Getters' = Getters \ {u}
        /\ ~NoWaiters(i)
    BY <1>5, <1>9, LineLeft
  <2>2. id' = id
    BY <1>2, <2>1
  <2>3. /\ FreeBlocks' = FreeBlocks
        /\ Order(wait_queue, "WFIXMEM")' = Promise!RemoveFirst(Order(wait_queue, "WFIXMEM"), u)
    BY <1>6, <2>1, ViewAfter, SameRemoval
  <2>4. Handed' = [Handed EXCEPT ![u] = NULL]
    <3>1. Handed[u] = NULL
      BY <2>1, HandedIs DEF Got, Waits
    <3>2. QED
      BY <1>4, <3>1, HandedIs
  <2>5. Promise!GiveUp(u)
    BY <1>1, <2>2, <2>3, <2>4 DEF Promise!GiveUp
  <2>6. GettingOK'
    BY <1>1, <1>2, <2>1, GettingFrame DEF MemInv, PoolInv
  <2>7. QED
    BY <1>7, <2>1, <2>2, <2>5, <2>6
<1>10. QED
  BY <1>2, <1>8, <1>9

\* A task that ends leaves the wait queue, or the block on its way to it is lost.
LEMMA PoolEnds ==
  ASSUME MemInv, NEW t \in AppTask, Forget(t), UNCHANGED <<fmp, cell, out>>,
         \/ ~Sleeping(t) /\ Terminate(t)
         \/ Free /\ tn_task_exit(FALSE) /\ UNCHANGED object /\ t = tn_curr_run_task
  PROVE  PoolInv' /\ Promise!GiveUp(t)
<1>1. PICK w, v : Sees(w, v)
  BY SomeView
<1>2. /\ t \in Task /\ ObjectInv(kinds) /\ GettingOK /\ HeaderOf(fmp)
      /\ data_elem \in [Task -> Addr \cup {NULL}]
      /\ data_elem' = [data_elem EXCEPT ![t] = NULL] /\ getting' = [getting EXCEPT ![t] = FALSE]
  BY Nodes DEF MemInv, HeaderInv, PoolInv, Forget
<1>3. /\ \A u \in Task \ {t} : data_elem'[u] = data_elem[u] /\ getting'[u] = getting[u]
      /\ ~getting'[t] /\ getting' \in [Task -> BOOLEAN]
      /\ data_elem' \in [Task -> Addr \cup {NULL}]
  BY <1>2 DEF GettingOK
<1>4. /\ k'.created = k.created
      /\ \A u \in Task \ {t} : k'.task_wait_rc[u] = k.task_wait_rc[u]
  <2>1. Cleared(k, k', t)
    BY <1>2, EndCodes, OneKind DEF Terminate
  <2>2. k.task_wait_rc \in [Task -> {"TERR_NO_ERR", "TERR_TIMEOUT", "TERR_DLT"}]
    BY <1>2 DEF ObjectInv, IInv, KernelOK, KernelState
  <2>3. QED
    BY <2>1, <2>2 DEF Cleared
<1>5. /\ id' = id /\ ObjectInv(kinds)'
      /\ \/ /\ SameLines(k, k', kinds) /\ t \notin Waits(k)
            /\ Waits(k) \subseteq Waits(k') /\ Waits(k') \subseteq Waits(k) \cup {tn_timer_task}
         \/ \E i \in DOMAIN WaitLists : \E x : LeavesList(kinds, i, x, t)
  <2>1. CASE ~Sleeping(t) /\ Terminate(t)
    BY <1>2, <2>1, TerminateStepOK, OneKind
  <2>2. CASE Free /\ tn_task_exit(FALSE) /\ UNCHANGED object /\ t = tn_curr_run_task
    <3>1. TaskCall
      BY <2>2 DEF TaskCall
    <3>2. /\ SameLines(k, k', kinds) /\ id' = id /\ ObjectInv(kinds)'
          /\ Waits(k) \subseteq Waits(k') /\ Waits(k') \subseteq Waits(k) \cup {tn_timer_task}
      BY <1>2, <3>1, TaskStepOK, OneKind
    <3>3. k.task_state[t] = "RUNNABLE"
      BY <1>2, <2>2, CallerFacts DEF tn_task_exit, Caller, ObjectInv
    <3>4. QED
      BY <3>2, <3>3 DEF Waits, Waiting
  <2>3. QED
    BY <2>1, <2>2
<1>6. /\ Parts(fmp, cell, out, Handed, w) /\ FreeBlocks = Range(w) /\ v \in Seq(Node)
      /\ Order(wait_queue, "WFIXMEM") = v /\ Range(v) = Getters
  <2>1. Parts(fmp, cell, out, Handed, w)
    BY <1>1 DEF Sees
  <2>2. QED
    BY <1>1, <2>1, View
<1>7. /\ Getters' = Getters \ {t}
      /\ Waits(k) \ {t} \subseteq Waits(k') /\ Waits(k') \subseteq (Waits(k) \ {t}) \cup {tn_timer_task}
      /\ Line(k', wait_queue, "WFIXMEM", RemoveFirst(v, t))
  <2>1. CASE /\ SameLines(k, k', kinds) /\ t \notin Waits(k)
             /\ Waits(k) \subseteq Waits(k') /\ Waits(k') \subseteq Waits(k) \cup {tn_timer_task}
    <3>1. Line(k', wait_queue, "WFIXMEM", v) /\ Getters' = Getters
      BY <1>1, <2>1, LineLeft
    <3>2. t \notin Getters
      BY <2>1 DEF Getters, On
    <3>3. RemoveFirst(v, t) = v
      BY <1>6, <3>2, SameRemoval
    <3>4. QED
      BY <2>1, <3>1, <3>2, <3>3
  <2>2. ASSUME NEW i \in DOMAIN WaitLists, NEW x, LeavesList(kinds, i, x, t)
        PROVE  /\ Waits(k') = Waits(k) \ {t} /\ Getters' = Getters \ {t}
               /\ Line(k', wait_queue, "WFIXMEM", RemoveFirst(v, t))
    BY <1>1, <2>2, LineLeft
  <2>3. QED
    BY <1>5, <2>1, <2>2
<1>8. \A u \in AppTask \ {t} : /\ Got(u)' <=> Got(u)
                               /\ data_elem'[u] = data_elem[u]
  <2> TAKE u \in AppTask \ {t}
  <2>1. u \in Task /\ u # t /\ u # tn_timer_task
    BY Nodes
  <2>2. u \in Waits(k) <=> u \in Waits(k')
    BY <1>7, <2>1
  <2>3. QED
    BY <1>3, <1>4, <2>1, <2>2 DEF Got, Waits
<1>9. ~Got(t)'
  BY <1>3 DEF Got
<1>10. Handed' = [Handed EXCEPT ![t] = NULL]
  BY <1>8, <1>9, HandedSet
<1>11. Parts(fmp', cell', out', Handed', w)
  <2>1. PICK h : h = Handed /\ DOMAIN h = AppTask
    BY HandedIs
  <2>2. Parts(fmp, cell, out, h, w)
    BY <1>6, <2>1
  <2>3. Parts(fmp, cell, out, [h EXCEPT ![t] = NULL], w)
    BY <2>1, <2>2, PartsLost
  <2>4. QED
    BY <1>10, <2>1, <2>3
<1>12. GettingOK'
  <2>1. ASSUME NEW u \in Task, getting'[u]
        PROVE  u \in AppTask /\ u \in k'.created /\ (u \in Waits(k') => u \in Getters')
    BY <1>2, <1>3, <1>4, <1>7, <2>1, Nodes DEF GettingOK
  <2>2. ASSUME NEW u \in Getters'
        PROVE  getting'[u]
    <3>1. u \in Getters /\ u # t
      BY <1>7, <2>2
    <3>2. u \in Task
      BY <3>1 DEF Getters, On, Waits
    <3>3. QED
      BY <1>2, <1>3, <3>1, <3>2 DEF GettingOK
  <2>3. QED
    BY <1>3, <2>1, <2>2 DEF GettingOK
<1>13. \A u \in AppTask : Got(u)' => data_elem'[u] # NULL
  BY <1>8, <1>9 DEF MemInv, PoolInv
<1>14. PoolInv'
  <2>1. Getters' # {} => id' /\ fmp'.fblkcnt = 0
    BY <1>5, <1>7 DEF MemInv, PoolInv
  <2>2. fmp'.num_blocks \in Nat /\ Blocks(fmp') \subseteq Addr
    BY DEF MemInv, PoolInv
  <2>3. QED
    BY <1>3, <1>5, <1>11, <1>12, <1>13, <2>1, <2>2 DEF PoolInv
<1>15. Promise!GiveUp(t)
  <2>1. FreeChain(fmp', cell', w)
    BY <1>11 DEF Parts
  <2>2. /\ FreeBlocks' = FreeBlocks
        /\ Order(wait_queue, "WFIXMEM")' = Promise!RemoveFirst(Order(wait_queue, "WFIXMEM"), t)
    BY <1>6, <1>7, <2>1, ViewAfter, SameRemoval
  <2>3. QED
    BY <1>5, <1>10, <2>2 DEF Promise!GiveUp
<1>16. QED
  BY <1>14, <1>15

\* Every step is one of the pool's.
LEMMA PoolGets ==
  ASSUME MemInv,
         \/ tn_fmem_get(TN_WAIT_INFINITE) \/ tn_fmem_get_polling
         \/ NobodyDeletes /\ tn_fmem_get_ipolling
  PROVE  PoolInv' /\ Promise!Next
<1>1. ObjectInv(kinds) /\ id \in BOOLEAN
  BY DEF MemInv, PoolInv, ObjectInv, ObjectOK
<1>2. CASE Idle /\ id /\ fm_get /\ Returns /\ UNCHANGED <<k, task_stk, object, data_elem, getting>>
  <2>1. Caller /\ Free /\ Returns /\ k' = k /\ task_stk' = task_stk /\ deleting' = deleting /\ id' = id
    BY <1>2 DEF Idle, object
  <2>2. ObjectInv(kinds)'
    BY <1>1, <2>1, CallReturns, OneKind
  <2>3. PoolInv' /\ Promise!Get
    BY <1>2, <2>1, <2>2, PoolGet
  <2>4. QED
    BY <2>3 DEF Promise!Next
<1>3. CASE NobodyDeletes /\ tn_fmem_get_ipolling
  <2>1. /\ InHandler /\ id /\ fm_get /\ HandlerCall(FALSE)
        /\ k' = k /\ tick_walk' = tick_walk /\ UNCHANGED <<object, data_elem, getting>>
    BY <1>3 DEF tn_fmem_get_ipolling
  <2>2. ObjectInv(kinds)'
    BY <1>1, <1>3, <2>1, HandlerReturns, OneKind
  <2>3. PoolInv' /\ Promise!Get
    BY <2>1, <2>2, PoolGet
  <2>4. QED
    BY <2>3 DEF Promise!Next
<1>4. CASE /\ Idle /\ id /\ fmp.fblkcnt = 0
           /\ WaitFor(k, wait_queue, "WFIXMEM", TN_WAIT_INFINITE)
           /\ getting' = [getting EXCEPT ![tn_curr_run_task] = TRUE]
           /\ UNCHANGED <<task_stk, object, fmp, cell, out, data_elem>>
  <2>1. PoolInv' /\ Promise!Await(tn_curr_run_task)
    BY <1>4, PoolWait
  <2>2. tn_curr_run_task \in AppTask
    BY <1>4 DEF Idle, Caller
  <2>3. QED
    BY <2>1, <2>2 DEF Promise!Next
<1>5. QED
  BY <1>2, <1>3, <1>4 DEF tn_fmem_get, tn_fmem_get_polling

LEMMA PoolReleases ==
  ASSUME MemInv, NEW b \in out,
         tn_fmem_release(b) \/ (NobodyDeletes /\ tn_fmem_irelease(b))
  PROVE  PoolInv' /\ Promise!Next
<1>1. ObjectInv(kinds) /\ id \in BOOLEAN /\ b \in Blocks(fmp)
  <2>1. PICK w : Parts(fmp, cell, out, Handed, w)
    BY DEF MemInv, PoolInv
  <2>2. QED
    BY <2>1 DEF MemInv, PoolInv, ObjectInv, ObjectOK, Parts
<1>2. PoolInv' /\ Promise!Release(b)
  <2>1. CASE tn_fmem_release(b) /\ ~noWaiter
    BY <2>1, PoolGive DEF tn_fmem_release, Idle
  <2>2. CASE tn_fmem_release(b) /\ noWaiter
    <3>1. /\ Caller /\ Free /\ Returns /\ k' = k /\ task_stk' = task_stk
          /\ deleting' = deleting /\ id' = id /\ id /\ fm_put(b) /\ out' = out \ {b}
          /\ UNCHANGED <<object, data_elem, getting>>
      BY <2>2 DEF tn_fmem_release, Idle, object
    <3>2. ObjectInv(kinds)'
      BY <1>1, <3>1, CallReturns, OneKind
    <3>3. QED
      BY <2>2, <3>1, <3>2, PoolPut
  <2>3. CASE NobodyDeletes /\ tn_fmem_irelease(b) /\ ~noWaiter
    BY <2>3, PoolGive DEF tn_fmem_irelease
  <2>4. CASE NobodyDeletes /\ tn_fmem_irelease(b) /\ noWaiter
    <3>1. /\ InHandler /\ HandlerCall(FALSE) /\ k' = k /\ tick_walk' = tick_walk
          /\ id /\ fm_put(b) /\ out' = out \ {b}
          /\ UNCHANGED <<object, data_elem, getting>>
      BY <2>4 DEF tn_fmem_irelease
    <3>2. ObjectInv(kinds)'
      BY <1>1, <2>4, <3>1, HandlerReturns, OneKind
    <3>3. QED
      BY <2>4, <3>1, <3>2, PoolPut
  <2>5. QED
    BY <2>1, <2>2, <2>3, <2>4
<1>3. QED
  BY <1>1, <1>2 DEF Promise!Next

LEMMA PoolStep ==
  ASSUME MemInv, MemNext
  PROVE  PoolInv' /\ (Promise!Next \/ UNCHANGED Promise!vars)
<1>1. CASE MemCall
  <2>1. ASSUME NEW m \in Memory, tn_fmem_create(m)
        PROVE  PoolInv' /\ Promise!Next
    BY <2>1, PoolCreate DEF Promise!Next
  <2>2. QED
    BY <1>1, <2>1, PoolGets, PoolReleases DEF MemCall
<1>2. CASE NobodyDeletes /\ MemInterrupt
  BY <1>2, PoolGets, PoolReleases DEF MemInterrupt
<1>3. CASE Undisturbed /\ Delete
  <2>1. PlainStep /\ UNCHANGED pool
    BY <1>3 DEF Delete, PlainStep
  <2>2. QED
    BY <2>1, PoolPlain DEF Promise!Next
<1>4. CASE Others
  <2>1. CASE GetEnd
    <3>1. tn_curr_run_task \in AppTask
      BY <2>1 DEF GetEnd, MemInv, PoolInv, ObjectInv, IInv, Control, GettingOK
    <3>2. QED
      BY <2>1, <3>1, PoolFetch DEF Promise!Next
  <2>2. CASE /\ \/ DeleteSteps \/ Start \/ Enter \/ Leave \/ Switch
                \/ \E t \in AppTask : /\ Idle /\ UNCHANGED object
                                      /\ \/ tn_task_suspend(t) \/ tn_task_resume(t)
                                         \/ tn_task_activate(t)
             /\ UNCHANGED pool
    <3>1. PlainStep
      BY <2>2 DEF PlainStep, Idle
    <3>2. QED
      BY <2>2, <3>1, PoolPlain DEF Promise!Next
  <2>3. CASE /\ \/ \E t \in AppTask : Idle /\ ~Sleeping(t) /\ Terminate(t) /\ Forget(t)
                \/ Idle /\ tn_task_exit(FALSE) /\ UNCHANGED object /\ Forget(tn_curr_run_task)
             /\ UNCHANGED <<fmp, cell, memory, out>>
    <3>1. \E t \in AppTask :
            /\ Forget(t)
            /\ \/ ~Sleeping(t) /\ Terminate(t)
               \/ Free /\ tn_task_exit(FALSE) /\ UNCHANGED object /\ t = tn_curr_run_task
      BY <2>3 DEF Idle, Caller
    <3>2. PoolInv' /\ \E t \in AppTask : Promise!GiveUp(t)
      BY <2>3, <3>1, PoolEnds
    <3>3. QED
      BY <3>2 DEF Promise!Next
  <2>4. QED
    BY <1>4, <2>1, <2>2, <2>3 DEF Others
<1>5. QED
  BY <1>1, <1>2, <1>3, <1>4 DEF MemNext

LEMMA PoolStutters ==
  ASSUME PoolInv, UNCHANGED all
  PROVE  PoolInv' /\ UNCHANGED Promise!vars
<1>1. /\ UNCHANGED vars /\ UNCHANGED object /\ k' = k /\ id' = id /\ fmp' = fmp /\ cell' = cell
      /\ out' = out /\ data_elem' = data_elem /\ getting' = getting
  BY DEF all, vars, object, pool
<1>2. ObjectInv(kinds)'
  BY <1>1 DEF vars, object, PoolInv, ObjectInv, IInv, Control, Settled, Right,
              WaitersOK, ObjectOK, DeletersOK, Deletes, NoWaiters
<1>3. Handed' = Handed /\ Getters' = Getters /\ Order(wait_queue, "WFIXMEM")' = Order(wait_queue, "WFIXMEM")
  BY <1>1 DEF Handed, Getters, Order, Waiters, Waiting
<1>4. PoolInv'
  BY <1>1, <1>2, <1>3 DEF PoolInv, GettingOK, Got
<1>5. FreeBlocks' = FreeBlocks
  BY <1>1 DEF FreeBlocks, FreeList
<1>6. QED
  BY <1>1, <1>3, <1>4, <1>5 DEF Promise!vars

LEMMA PoolInitOK ==
  ASSUME MemInit
  PROVE  PoolInv /\ Promise!Init
<1>1. /\ ObjectInv(kinds) /\ Waits(k) = {} /\ Line(k, wait_queue, "WFIXMEM", <<>>)
  BY ObjectInitOK, OneKind DEF MemInit
<1>2. /\ memory \in Memory /\ ~Refused(memory) /\ fmp = NewPool(memory) /\ cell = Linked(fmp)
      /\ data_elem = [t \in Task |-> NULL] /\ getting = [t \in Task |-> FALSE] /\ out = {}
      /\ id = TRUE
  BY DEF MemInit, ObjectInit
<1>3. PICK w : FreeChain(fmp, cell, w) /\ Range(w) = Blocks(fmp)
  BY <1>2, NewPoolLinked
<1>4. DOMAIN cell = Addr /\ Blocks(fmp) \subseteq Addr /\ fmp.num_blocks \in Nat
  BY <1>2, NewPoolLinked, ActualFit DEF NewPool
<1>5. Handed = Promise!Nobody /\ \A t \in AppTask : Handed[t] = NULL /\ ~Got(t)
  BY <1>2, HandedIs, Nodes DEF Got
<1>6. Getters = {} /\ GettingOK
  BY <1>1, <1>2 DEF Getters, On, GettingOK
<1>7. Parts(fmp, cell, out, Handed, w)
  BY <1>2, <1>3, <1>4, <1>5 DEF Parts
<1>8. PoolInv
  BY <1>1, <1>2, <1>4, <1>5, <1>6, <1>7 DEF PoolInv
<1>9. FreeBlocks = Blocks(fmp)
  <2>1. Chain(fmp, cell, fmp.fblkcnt) = w
    BY <1>3, ChainIs
  <2>2. QED
    BY <1>3, <2>1 DEF FreeBlocks, FreeList
<1>10. Order(wait_queue, "WFIXMEM") = <<>>
  BY <1>1, LineOrder
<1>11. Blocks(fmp) \in {Blocks(NewPool(m)) : m \in {n \in Memory : ~Refused(n)}}
  BY <1>2
<1>12. Promise!Init
  BY <1>2, <1>5, <1>9, <1>10, <1>11 DEF Promise!Init
<1>13. QED
  BY <1>8, <1>12

\* What the invariant says of the properties.
LEMMA MemSoundFrom ==
  ASSUME MemInv
  PROVE  MemSound
<1>1. PICK w, v : Sees(w, v)
  BY SomeView
<1>2. FreeChain(fmp, cell, w) /\ Line(k, wait_queue, "WFIXMEM", v)
  BY <1>1 DEF Sees, Parts
<1>3. Waiters("WFIXMEM") = Getters /\ WaitListSound(wait_queue, "WFIXMEM")
  BY <1>2, LineOrder DEF Line, Getters
<1>4. ObjectTypeOK
  <2>1. TypeOK
    BY TypesFrom DEF MemInv, PoolInv, ObjectInv
  <2>2. QED
    BY <2>1 DEF MemInv, PoolInv, ObjectInv, ObjectOK, ObjectTypeOK
<1>5. fmp.fblkcnt \in 0 .. fmp.num_blocks
  BY <1>2, RoomForAll DEF MemInv, PoolInv
<1>6. FreeList = w /\ Chain(fmp, cell, fmp.fblkcnt + 1)[fmp.fblkcnt + 1] = NULL
  BY <1>2, ChainIs DEF FreeList
<1>7. Len(w) = Cardinality(Range(w)) /\ Range(w) \subseteq Blocks(fmp)
  BY <1>2, RangeSize DEF FreeChain
<1>8. QED
  BY <1>3, <1>4, <1>5, <1>6, <1>7 DEF MemSound, FreeBlocks, MemInv, PoolInv

LEMMA MemInitOK == MemInit => MemInv /\ Promise!Init
BY HeaderInit, PoolInitOK DEF MemInv

LEMMA MemStepOK ==
  ASSUME MemInv, [MemNext]_all
  PROVE  MemInv' /\ [Promise!Next]_(Promise!vars)
<1>1. HeaderInv'
  BY HeaderStep DEF MemInv
<1>2. PoolInv' /\ [Promise!Next]_(Promise!vars)
  BY PoolStep, PoolStutters DEF MemInv
<1>3. QED
  BY <1>1, <1>2 DEF MemInv

-----------------------------------------------------------------------------
\* The theorems: for every start, block size and number of blocks.

\* The blocks tn_fmem_create makes of the memory it is given are aligned, lie in
\* this memory and do not overlap, whatever is done with the pool afterwards.
THEOREM MemFits == MemSpec => []BlocksFit
<1>1. HeaderInv => BlocksFit
  BY NewPoolFits DEF HeaderInv, BlocksFit
<1>2. MemSpec => []HeaderInv
  BY HeaderInit, HeaderStep, PTL DEF MemSpec
<1>3. QED
  BY <1>1, <1>2, PTL

\* The invariant: it adds to the header who has each block and who waits.
THEOREM MemInvariant == MemSpec => []MemInv
<1>1. MemInit => MemInv
  BY MemInitOK
<1>2. MemInv /\ [MemNext]_all => MemInv'
  BY MemStepOK
<1>3. QED
  BY <1>1, <1>2, PTL DEF MemSpec

\* fm_get and fm_put of tn_mem.c keep the free list a chain of fblkcnt different
\* blocks, though the links lie in memory that the users of blocks write to; a
\* task waits only for a pool that exists and has no free block.
THEOREM MemCorrect == MemSpec => []MemSound
BY MemSoundFrom, MemInvariant, PTL

\* The scheduler stays right with tasks that wait for a block.
THEOREM MemScheduler == MemSpec => []SchedulerSound
<1>1. MemInv => SchedulerSound
  BY SchedulerFrom DEF MemInv, PoolInv, ObjectInv
<1>2. QED
  BY <1>1, MemInvariant, PTL

\* tn_mem.c implements the pool of the abstract specification: a block is free,
\* or the application's, or on its way to one task that waited for it, and the
\* tasks that wait are served in order.
THEOREM MemImplements == MemSpec => ImplementsPool
<1>1. MemInit => MemInv /\ Promise!Init
  BY MemInitOK
<1>2. MemInv /\ [MemNext]_all => MemInv' /\ [Promise!Next]_(Promise!vars)
  BY MemStepOK
<1>3. QED
  BY <1>1, <1>2, PTL DEF MemSpec, ImplementsPool, Promise!Spec
=============================================================================
