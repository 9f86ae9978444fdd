-------------------------- MODULE TemporaryStorage --------------------------
(***************************************************************************)
(* Temporary_Storage of utils.hpp, the arena every draw call allocates     *)
(* from: a cursor that only moves forward, and a stack of saved cursors.   *)
(* Sizes and addresses are in words of four bytes. A storage is a record   *)
(* of its cursor and its scopes; a block is where a caller's pointer       *)
(* points. An assertion that fails leaves the storage unusable.            *)
(***************************************************************************)
EXTENDS Naturals, Sequences

CONSTANTS
  Page,       \* get_page_size, a power of two
  Base,       \* where the storage begins, after the stack of scopes
  Capacity,   \* what the cursor must stay below
  MaxScopes   \* stack_capacity, in saved cursors

ASSUME StorageAssumption ==
  /\ Page \in Nat \ {0}
  /\ Base \in Nat
  /\ Capacity \in Nat \ {0}
  /\ MaxScopes \in Nat \ {0, 1}

Storages == [cursor : Nat, scopes : Seq(Nat)]

create == [cursor |-> 0, scopes |-> <<>>]

AlignUp(n, a) == ((n + a - 1) \div a) * a

page_align_down(n) == (n \div Page) * Page

(* What the code computes is not n rounded up: a page and a byte are taken *)
(* off n before it is rounded down. (A byte is less than a word: for a     *)
(* whole number of words it makes a difference only at a whole page.)      *)
page_align_up(n) == IF n % Page = 0 THEN n - 2 * Page ELSE page_align_down(n) - Page

(* The address the next block would have.                                  *)
Top(s) == Base + s.cursor

alloc(s, n) == [s EXCEPT !.cursor = @ + n]

(* alignment words more than needed, and the pointer moved up into them.   *)
alloc_align(s, n, alignment) == alloc(s, n + alignment)

AlignedBlock(s, alignment) == AlignUp(Top(s), alignment)

alloc_page_aligned(s, n) == alloc(s, page_align_up(n) + Page)

PageBlock(s) == page_align_down(Top(s) + Page)

enter_scope(s) == [s EXCEPT !.scopes = Append(@, s.cursor)]

exit_scope(s) ==
  [cursor |-> s.scopes[Len(s.scopes)],
   scopes |-> SubSeq(s.scopes, 1, Len(s.scopes) - 1)]

(* The assertions made after a block was taken and a scope entered.        *)
Holds(s) == s.cursor < Capacity /\ Len(s.scopes) < MaxScopes
=============================================================================
