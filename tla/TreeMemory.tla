------------------------------ MODULE TreeMemory ------------------------------
(***************************************************************************)
(* Tree-sitter's memory while one code block is written                     *)
(* (src/formats/highlight.c): allocations come from the block's arena, and  *)
(* a freed one waits on the free list of its size for the next of that size.*)
(*                                                                         *)
(* A memory is a record: the bytes requested, headers included; the table   *)
(* of free lists, open addressing over slots 0..slots-1; the header of each *)
(* address the arena has handed out, numbered in order, with the size it    *)
(* can hold; and the live allocations with the size each was asked for.     *)
(***************************************************************************)
EXTENDS Integers, Sequences, FiniteSets, Functions

HeaderLen == 1

NewMemory(slots) ==
  [len |-> 0, next |-> 1, live |-> <<>>, header |-> <<>>,
   lists |-> [slot \in 0..(slots - 1) |-> [key |-> 0, free |-> <<>>]]]

\* The slot of a size: the first in probing order that holds it or is unused,
\* or -1 when every slot holds another size.
FreeListSlot(memory, size) ==
  LET count    == Cardinality(DOMAIN memory.lists)
      Probe(i) == (size + i) % count
      hits     == {i \in 0..(count - 1) : memory.lists[Probe(i)].key \in {0, size + 1}}
  IN  IF hits = {} THEN -1 ELSE Probe(CHOOSE i \in hits : \A j \in hits : i <= j)

\* tree_memory_take: a free allocation of the same size, or a new one.
TakenAddress(memory, size) ==
  LET slot == FreeListSlot(memory, size)
  IN  IF slot >= 0 /\ memory.lists[slot].free # <<>>
      THEN Head(memory.lists[slot].free) ELSE memory.next

Take(memory, size) ==
  LET slot    == FreeListSlot(memory, size)
      claimed == IF slot < 0 THEN memory ELSE [memory EXCEPT !.lists[slot].key = size + 1]
      address == TakenAddress(memory, size)
      given   == [claimed EXCEPT !.live =
                     [a \in DOMAIN @ \cup {address} |-> IF a = address THEN size ELSE @[a]]]
  IN  IF address # memory.next THEN [given EXCEPT !.lists[slot].free = Tail(@)]
      ELSE [given EXCEPT !.next = @ + 1, !.len = @ + HeaderLen + size,
                         !.header = Append(@, size)]

\* tree_memory_give: onto the free list of its size, unless the table is full.
Give(memory, address) ==
  LET size == memory.header[address]
      slot == FreeListSlot(memory, size)
      gone == [memory EXCEPT !.live = Restrict(@, DOMAIN @ \ {address})]
  IN  IF slot < 0 THEN gone
      ELSE [gone EXCEPT !.lists[slot] = [key |-> size + 1, free |-> <<address>> \o @.free]]

(* Mutant: an allocation grows in place. *)
ResizeInPlace(memory, address, size) == [memory EXCEPT !.live[address] = size]

\* tree_memory_realloc of an allocation: it stays where it is when it holds the
\* new size, else a larger one is taken before the old one is given back.
Resize(memory, address, size) ==
  IF size <= memory.header[address] THEN [memory EXCEPT !.live[address] = size]
  ELSE Give(Take(memory, size), address)
=============================================================================
