-------------------------------- MODULE MCSfmm --------------------------------
(* Values for the model of the allocator, and a view of its states. *)
EXTENDS Sfmm

(* A filling that reads, as a footer, as that of an allocated block.         *)
MCContents == {Word(1, 1, 2, 0)}

(* What the code, or a property, may still read: headers and footers, what    *)
(* the client has written, the links of lists that are not empty; of any other *)
(* word at an even address, where footers are, the allocated bit.            *)
Written == UNION {(b + 1)..(b + live[b].n) : b \in DOMAIN live}
Live ==
  LET free  == FreeBlocks
      lists == {s \in heap.lists : heap.nxt[-s] # -s}
      marks == DOMAIN live \cup free \cup {Foot(heap, b) : b \in free}
  IN  <<want, live, heap.pages, heap.damage,
        [a \in Addr |-> CASE a \in marks   -> heap.mem[a]
                          [] a \in Written -> [heap.mem[a] EXCEPT !.pal = 0]
                          [] OTHER         -> IF a % 2 = 0 THEN heap.mem[a].al ELSE 0],
        [p \in free \cup {-s : s \in lists} |-> <<heap.nxt[p], heap.prv[p]>>]>>
View == IF Undamaged THEN Live ELSE heap.damage
=============================================================================
