--------------------------------- MODULE Sfmm ---------------------------------
(***************************************************************************)
(* The allocator of hw3 (sfmm.c) under a client that uses its pointers as  *)
(* sfmm.h allows: sf_malloc, sf_free and sf_realloc of what it holds, and  *)
(* writes to all it has requested.  The heap is modelled word by word: a   *)
(* footer that shares its word with somebody's payload is that word.       *)
(* Sizes are in words of 8 bytes, which loses nothing: the code rounds     *)
(* every size up to a multiple of 16 bytes and asks for no finer one.      *)
(*                                                                         *)
(* Once an operation has damaged the heap (damage, below) the code follows *)
(* pointers that are none; the model stops there.                          *)
(***************************************************************************)
EXTENDS Integers, Sequences, FiniteSets, FiniteSetsExt

CONSTANTS W,         \* PAGE_SZ, in words
          Pages,     \* how often sf_mem_grow succeeds
          MaxHeld,   \* bound: how many blocks a client holds at a time
          Requests,  \* the sizes a client asks for, in words
          Contents   \* what a client writes, read as an information word

Bit  == {0, 1}
End  == W * Pages
Addr == 0..(End - 1)
Null == End
(* Where pointers point: to a block, or to the sentinel of the list of the   *)
(* free blocks of size s, which is named -s.                                *)
Pointer == (-End)..End
Info == [al : Bit, pal : Bit, sz : 0..End, rq : 0..End]   \* sf_block_info

ASSUME SfmmAssumption ==
  /\ W \in Nat /\ W % 2 = 0 /\ W > 10 /\ Pages \in Nat \ {0}
  /\ MaxHeld \in Nat \ {0} /\ Requests \subseteq 1..End /\ Contents \subseteq Info

VARIABLES heap,   \* [mem, nxt, prv, lists, pages, damage]
          want,   \* the request sf_malloc works on, and the block sf_realloc frees after it
          live    \* the blocks the client holds: what it asked for, and the words it has written

vars == <<heap, want, live>>

Word(al, pal, sz, rq) == [al |-> al, pal |-> pal, sz |-> sz, rq |-> rq]
Zero == Word(0, 0, 0, 0)
Idle == [rq |-> 0, old |-> Null]

First == 5                        \* the header after the prologue
Epilogue(h) == W * h.pages - 1
Foot(h, b) == b + h.mem[b].sz - 1   \* where the footer of block b is, or would be

----------------------------------------------------------------------------
(* Free lists.  A list is the list of its size, in increasing order.         *)

(* Variant of InsertBlock: the block that was first keeps its previous one.   *)
InsertBlockNoPrev(h, b) ==
  LET s     == h.mem[b].sz
      first == IF s \in h.lists THEN h.nxt[-s] ELSE -s
      h1    == [h EXCEPT !.nxt[b] = first, !.prv[b] = -s, !.nxt[-s] = b,
                         !.prv[-s] = IF s \in h.lists THEN @ ELSE b]
  IN  [h1 EXCEPT !.lists = @ \cup {s}, !.mem[b + 1] = Zero, !.mem[b + 2] = Zero]

(* insert_block and circular_linked_list_insert: after the sentinel of the   *)
(* list of its size, which is made if there is none.                        *)
InsertBlock(h, b) ==
  LET s     == h.mem[b].sz
      first == IF s \in h.lists THEN h.nxt[-s] ELSE -s
      h1    == [h EXCEPT !.nxt[b] = first, !.prv[b] = -s, !.nxt[-s] = b,
                         !.prv[-s] = IF s \in h.lists THEN h.prv[-s] ELSE -s]
  IN  [h1 EXCEPT !.prv[first] = b, !.lists = @ \cup {s},
                 !.mem[b + 1] = Zero, !.mem[b + 2] = Zero]

(* search_freelist *)
SearchFreelist(h, s) == Min({t \in h.lists : t >= s})

(* delete_freeblock_from_freelist takes the first block out, or all of them  *)
(* if b is the last.                                                        *)
DeleteFreeblock(h, b, s) ==
  LET node == SearchFreelist(h, s)
  IN  [h EXCEPT !.nxt[-node] = h.nxt[b],
                !.prv[-node] = IF h.nxt[b] = -node THEN -node ELSE @]

(* That is right if the list of its size holds, in this order, the blocks of *)
(* bs that are to be deleted and no other.                                  *)
ListIs(h, s, bs) ==
  /\ h.nxt[-s] = bs[1] /\ h.nxt[bs[Len(bs)]] = -s
  /\ \A k \in 1..(Len(bs) - 1) : h.nxt[bs[k]] = bs[k + 1]

Damaged(h, ok, what) == [h EXCEPT !.damage = IF ok THEN @ ELSE what]

----------------------------------------------------------------------------
(* coalesce_blocks: block b has become free; result: [h, b] after joining it *)
(* with its free neighbours p and n and inserting it.                       *)
JoinUp(h, b) ==
  LET p   == b - h.mem[b - 1].sz
      new == h.mem[p].sz + h.mem[b].sz
      h1  == [h EXCEPT !.mem[p].sz = new, !.mem[Foot(h, b)].sz = new,
                       !.mem[Foot(h, b)].pal = h.mem[p].pal]
      h2  == DeleteFreeblock(h1, p, h.mem[p].sz)
  IN  [h |-> Damaged(InsertBlock(h2, p), ListIs(h, h.mem[p].sz, <<p>>), "unlink"), b |-> p]

JoinDown(h, b) ==
  LET n   == b + h.mem[b].sz
      new == h.mem[b].sz + h.mem[n].sz
      h1  == [h EXCEPT !.mem[b].sz = new, !.mem[Foot(h, n)].sz = new,
                       !.mem[Foot(h, n)].pal = h.mem[b].pal]
      h2  == DeleteFreeblock(h1, n, h.mem[Foot(h, n)].sz)
  IN  [h |-> Damaged(InsertBlock(h2, b), ListIs(h, h.mem[n].sz, <<n>>), "unlink"), b |-> b]

JoinBoth(h, b) ==
  LET p   == b - h.mem[b - 1].sz
      n   == b + h.mem[b].sz
      ps  == h.mem[p].sz
      ns  == h.mem[Foot(h, n)].sz
      new == ps + h.mem[b].sz + ns
      h1  == [h EXCEPT !.mem[p].sz = new, !.mem[Foot(h, n)].sz = new,
                       !.mem[Foot(h, n)].pal = h.mem[p].pal]
      h2  == DeleteFreeblock(DeleteFreeblock(h1, p, ps), n, ns)
      ok  == IF ps = ns THEN ListIs(h, ps, <<p, n>>) ELSE ListIs(h, ps, <<p>>) /\ ListIs(h, ns, <<n>>)
  IN  [h |-> Damaged(InsertBlock(h2, p), ok, "unlink"), b |-> p]

(* Variant of Coalesce: the block after b is not joined.                     *)
CoalesceUpOnly(h, b) ==
  IF b # First /\ h.mem[b].pal # 1 THEN JoinUp(h, b) ELSE [h |-> InsertBlock(h, b), b |-> b]

Coalesce(h, b) ==
  LET above == b # First /\ h.mem[b].pal # 1
      below == b + h.mem[b].sz # Epilogue(h) /\ h.mem[b + h.mem[b].sz].al # 1
  IN  CASE above /\ ~below  -> JoinUp(h, b)
        [] ~above /\ below  -> JoinDown(h, b)
        [] above /\ below   -> JoinBoth(h, b)
        [] ~above /\ ~below -> [h |-> InsertBlock(h, b), b |-> b]

(* A header and a footer for a free block of size s at b.                    *)
MakeFree(h, b, s, pal) ==
  [h EXCEPT !.mem[b] = Word(0, pal, s, 0), !.mem[b + 1] = Zero,
            !.mem[b + s - 1] = Word(0, pal, s, 0)]

----------------------------------------------------------------------------
(* sf_malloc *)

TotalBlockSz(rq) == IF rq + 1 < 4 THEN 4 ELSE rq + 1 + ((rq + 1) % 2)

(* Sets the prev_allocated bit in the header of the block at n, and in the   *)
(* word where its footer would be, whatever that word is.                   *)
SetPrevAllocated(h, n, bit) ==
  IF n = Epilogue(h) THEN h
  ELSE [h EXCEPT !.mem[n].pal = bit, !.mem[Foot(h, n)].pal = bit]

(* Variant of AllocateBlock: the block after b is not told.                  *)
AllocateBlockNoBit(h, b, rq) ==
  [h EXCEPT !.nxt[h.prv[b]] = h.nxt[b], !.prv[h.nxt[b]] = h.prv[b],
            !.mem[b].al = 1, !.mem[b].rq = rq, !.nxt[b] = Null, !.prv[b] = Null,
            !.mem[b + 1] = Zero, !.mem[b + 2] = Zero]

(* allocate_block *)
AllocateBlock(h, b, rq) ==
  LET h1 == [h EXCEPT !.nxt[h.prv[b]] = h.nxt[b], !.prv[h.nxt[b]] = h.prv[b]]
      h2 == [h1 EXCEPT !.mem[b].al = 1, !.mem[b].rq = rq, !.nxt[b] = Null, !.prv[b] = Null,
                       !.mem[b + 1] = Zero, !.mem[b + 2] = Zero]
  IN  SetPrevAllocated(h2, b + h.mem[b].sz, 1)

(* Variant of SplitBlock: the size of b is not updated.                      *)
SplitBlockNoShrink(h, b, rq, bs) ==
  LET rest == h.mem[b].sz - bs
  IN  Coalesce(AllocateBlock(MakeFree(h, b + bs, rest, 1), b, rq), b + bs).h

(* split_block: the rest is made a free block before b is allocated, and b   *)
(* shrunk after that: the bit set is that of the block after the rest.       *)
SplitBlock(h, b, rq, bs) ==
  LET rest == h.mem[b].sz - bs
      h1   == AllocateBlock(MakeFree(h, b + bs, rest, 1), b, rq)
  IN  Coalesce([h1 EXCEPT !.mem[b].sz = bs], b + bs).h

(* Variant of ProcessRequest: what is left over is split off, however small. *)
ProcessRequestSplinter(h, b, rq) ==
  LET bs == TotalBlockSz(rq)
  IN  IF h.mem[b].sz = bs THEN AllocateBlock(h, b, rq) ELSE SplitBlock(h, b, rq, bs)

(* process_request *)
ProcessRequest(h, b, rq) ==
  LET bs == TotalBlockSz(rq)
  IN  IF h.mem[b].sz - bs < 4 THEN AllocateBlock(h, b, rq) ELSE SplitBlock(h, b, rq, bs)

(* search_freeblock: the first block of the first list that fits.            *)
Fitting(h, bs) == {s \in h.lists : s >= bs /\ h.nxt[-s] # -s}
SearchFreeblock(h, bs) == h.nxt[-Min(Fitting(h, bs))]

(* initialSetup, in the first call of sf_malloc *)
InitialSetup(h) ==
  LET h1 == [h EXCEPT !.pages = 1, !.mem[1].al = 1, !.mem[First - 1].al = 1, !.mem[W - 1].al = 1]
  IN  InsertBlock(MakeFree(h1, First, W - 6, 1), First)

----------------------------------------------------------------------------
(* sf_free *)

(* is_allocated_block, for a pointer the client holds *)
IsAllocatedBlock(h, b) ==
  /\ b >= First /\ b <= Epilogue(h)
  /\ h.mem[b].al = 1
  /\ h.mem[b].sz % 2 = 0 /\ h.mem[b].sz >= 4
  /\ h.mem[b].rq + 1 <= h.mem[b].sz
  /\ h.mem[b].pal = 0 => /\ h.mem[b - 1].al = 0
                         /\ h.mem[b - h.mem[b - 1].sz].al = 0

(* Variant of FreeBlock: no footer is written.                               *)
FreeBlockNoFooter(h, b) ==
  Coalesce(SetPrevAllocated([h EXCEPT !.mem[b].al = 0, !.mem[b].rq = 0], b + h.mem[b].sz, 0), b).h

(* The body of sf_free: of the footer only size and prev_allocated are set.  *)
FreeBlock(h, b) ==
  LET h1 == [h EXCEPT !.mem[b].al = 0, !.mem[b].rq = 0,
                      !.mem[Foot(h, b)].pal = h.mem[b].pal, !.mem[Foot(h, b)].sz = h.mem[b].sz]
  IN  Coalesce(SetPrevAllocated(h1, b + h.mem[b].sz, 0), b).h

(* sf_free ends the program if the pointer seems invalid.                    *)
SfFree(h, b) == IF IsAllocatedBlock(h, b) THEN FreeBlock(h, b) ELSE [h EXCEPT !.damage = "abort"]

----------------------------------------------------------------------------
(* The client, and what runs on its behalf. *)

NoMem == [mem |-> [a \in Addr |-> Zero], nxt |-> [p \in Pointer |-> Null],
          prv |-> [p \in Pointer |-> Null], lists |-> {}, pages |-> 0, damage |-> "none"]

Init == heap = NoMem /\ want = Idle /\ live = <<>>

Ready == want = Idle /\ heap.damage = "none"
Holds(b) == b \in DOMAIN live
Forget(b) == [c \in DOMAIN live \ {b} |-> live[c]]
Hold(l, b, rq, n, data) ==
  [c \in DOMAIN l \cup {b} |-> IF c = b THEN [rq |-> rq, n |-> n, data |-> data] ELSE l[c]]

(* The client writes to all it has asked for.                                *)
Write(b, data) ==
  /\ Ready /\ Holds(b) /\ live[b].n < live[b].rq
  /\ live' = Hold(live, b, live[b].rq, live[b].rq, data)
  /\ heap' = [heap EXCEPT !.mem = [a \in Addr |-> IF a \in (b + 1)..(b + live[b].rq) THEN data ELSE @[a]]]
  /\ UNCHANGED want

(* The client calls sf_malloc.                                               *)
Malloc(rq) ==
  /\ Ready /\ Cardinality(DOMAIN live) < MaxHeld
  /\ want' = [rq |-> rq, old |-> Null]
  /\ heap' = IF heap.pages = 0 THEN InitialSetup(heap) ELSE heap
  /\ UNCHANGED live

(* Variant of Return: one word too few is copied.                            *)
ReturnShort(h, b) ==
  /\ want' = Idle
  /\ IF want.old = Null
     THEN heap' = h /\ live' = Hold(live, b, want.rq, 0, Zero)
     ELSE LET old  == live[want.old]
              copy == [h EXCEPT !.mem = [a \in Addr |-> IF a \in (b + 1)..(b + old.rq - 1)
                                                        THEN @[a - b + want.old] ELSE @[a]]]
          IN  /\ heap' = SfFree(copy, want.old)
              /\ live' = Hold(Forget(want.old), b, want.rq, old.n, old.data)

(* sf_malloc returns b; under sf_realloc the contents of the old block are   *)
(* copied and it is freed.                                                  *)
Return(h, b) ==
  /\ want' = Idle
  /\ IF want.old = Null
     THEN heap' = h /\ live' = Hold(live, b, want.rq, 0, Zero)
     ELSE LET old  == live[want.old]
              copy == [h EXCEPT !.mem = [a \in Addr |-> IF a \in (b + 1)..(b + old.rq)
                                                        THEN @[a - b + want.old] ELSE @[a]]]
          IN  /\ heap' = SfFree(copy, want.old)
              /\ live' = Hold(Forget(want.old), b, want.rq, old.n, old.data)

Asked == TotalBlockSz(want.rq)
Searching == want # Idle /\ heap.damage = "none"

Found ==
  /\ Searching /\ Fitting(heap, Asked) # {}
  /\ LET b == SearchFreeblock(heap, Asked) IN Return(ProcessRequest(heap, b, want.rq), b)

(* The heap is extended by a page, which becomes a block together with the   *)
(* old epilogue.  Whether the block before it is free is read from the word  *)
(* where its footer would be: of an allocated block, anything.               *)
Extend ==
  /\ Searching /\ Fitting(heap, Asked) = {} /\ heap.pages < Pages
  /\ LET e       == Epilogue(heap)
         before  == heap.mem[e - 1].al
         misread == before = 0 /\ \E b \in DOMAIN live : b + heap.mem[b].sz = e
         h       == [MakeFree(heap, e, W, before) EXCEPT !.pages = @ + 1, !.mem[e + W] = Word(1, 0, 0, 0)]
         c       == Coalesce(h, e)
     IN  IF misread
         THEN heap' = [heap EXCEPT !.damage = "extend"] /\ UNCHANGED <<want, live>>
         ELSE IF c.h.mem[c.b].sz >= Asked
         THEN Return(ProcessRequest(c.h, c.b, want.rq), c.b)
         ELSE heap' = c.h /\ UNCHANGED <<want, live>>

(* sf_mem_grow fails: NULL, and ENOMEM.                                      *)
Fail ==
  /\ Searching /\ Fitting(heap, Asked) = {} /\ heap.pages = Pages
  /\ want' = Idle
  /\ UNCHANGED <<heap, live>>

(* The client calls sf_free, or sf_realloc with size 0.                      *)
Free(b) ==
  /\ Ready /\ Holds(b)
  /\ heap' = SfFree(heap, b)
  /\ live' = Forget(b)
  /\ UNCHANGED want

(* sf_realloc with more than the block has: a new block is looked for.       *)
ReallocLarger(b, rs) ==
  /\ Ready /\ Holds(b) /\ IsAllocatedBlock(heap, b)
  /\ rs > heap.mem[b].sz
  /\ want' = [rq |-> rs, old |-> b]
  /\ UNCHANGED <<heap, live>>

(* sf_realloc otherwise (split_allocated_block): what is left over becomes a *)
(* free block.  The header is not counted: of rs = sz, less than nothing is  *)
(* left over, as an unsigned number a lot.                                  *)
ReallocSmaller(b, rs) ==
  /\ Ready /\ Holds(b) /\ IsAllocatedBlock(heap, b)
  /\ rs <= heap.mem[b].sz
  /\ LET bs   == TotalBlockSz(rs)
         rest == heap.mem[b].sz - bs
         h    == [MakeFree(heap, b + bs, rest, 1) EXCEPT !.mem[b].sz = bs, !.mem[b].rq = rs]
     IN  heap' = CASE rest < 0           -> [heap EXCEPT !.damage = "realloc"]
                   [] rest \in 0..3      -> [heap EXCEPT !.mem[b].rq = rs]
                   [] OTHER              -> Coalesce(h, b + bs).h
  /\ live' = Hold(live, b, rs, IF live[b].n < rs THEN live[b].n ELSE rs, live[b].data)
  /\ UNCHANGED want

Next == \/ \E rq \in Requests : Malloc(rq)
        \/ Found \/ Extend \/ Fail
        \/ \E b \in DOMAIN live :
             \/ \E data \in Contents : Write(b, data)
             \/ Free(b)
             \/ \E rs \in Requests : ReallocLarger(b, rs) \/ ReallocSmaller(b, rs)

Spec == Init /\ [][Next]_vars

----------------------------------------------------------------------------
Undamaged == heap.damage = "none" /\ heap.pages > 0

(* The blocks in the list of size s, as they are found from its sentinel.    *)
Walk(s) ==
  LET at[k \in 0..End] == IF k = 0 THEN heap.nxt[-s]
                           ELSE LET b == at[k - 1] IN IF b \in Addr THEN heap.nxt[b] ELSE b
  IN  {at[k] : k \in 0..(End \div 4)} \ {-s}

FreeBlocks == UNION {Walk(s) : s \in heap.lists}
After(b) == b + heap.mem[b].sz

(* What the client holds and what is in the free lists tile the heap from    *)
(* the prologue to the epilogue: nothing overlaps and nothing is lost.      *)
BlocksTile ==
  Undamaged =>
    LET free == FreeBlocks
        all  == DOMAIN live \cup free
    IN  /\ First \in all /\ DOMAIN live \cap free = {}
        /\ \A b \in all : /\ After(b) \in all \cup {Epilogue(heap)}
                          /\ \A c \in all : b < c => After(b) <= c

(* A block is marked as what it is, and large enough for its request; the    *)
(* free ones are in the list of their size, linked in both directions.      *)
BlocksMarked ==
  Undamaged =>
    /\ \A b \in DOMAIN live : heap.mem[b].al = 1 /\ live[b].rq < heap.mem[b].sz
    /\ \A s \in heap.lists : \A b \in Walk(s) :
         /\ heap.mem[b].al = 0 /\ heap.mem[b].sz = s
         /\ heap.prv[heap.nxt[b]] = b /\ heap.nxt[heap.prv[b]] = b

(* Where the prev_allocated bit is clear, the word before the header is the  *)
(* footer of a free block: the bit errs on the safe side only.               *)
ClearBitMeansFree ==
  Undamaged =>
    LET free == FreeBlocks
    IN  \A b \in DOMAIN live \cup free :
          heap.mem[b].pal = 0 => \E p \in free : After(p) = b /\ p = b - heap.mem[b - 1].sz

(* Two neighbours stay free side by side only if that bit was wrong.         *)
FreeNeighbours ==
  Undamaged =>
    LET free == FreeBlocks
    IN  \A b \in free : After(b) \in free => heap.mem[After(b)].pal = 1

(* sf_free and sf_realloc refuse a pointer the client holds only because the *)
(* footer of the free block before it has kept a bit of former contents.     *)
RefusedByFormerContents ==
  Undamaged => \A b \in DOMAIN live :
    ~IsAllocatedBlock(heap, b) => heap.mem[b].pal = 0 /\ heap.mem[b - 1].al = 1

(* Contents last until they are freed, through sf_realloc too, but for the   *)
(* bit that is set in the word where a footer would be.                     *)
ContentsLast ==
  Undamaged => \A b \in DOMAIN live : \A k \in 1..live[b].n :
    [heap.mem[b + k] EXCEPT !.pal = live[b].data.pal] = live[b].data
=============================================================================
