----------------------------- MODULE LeptValue -----------------------------
(***************************************************************************)
(* The values of lib/json/leptjson.c in the hands of a program that may    *)
(* call every function that changes one, on its variables and on the       *)
(* elements of its arrays: who owns which block of the heap, and how large *)
(* an array believes its block to be.                                      *)
(***************************************************************************)
EXTENDS Integers, Sequences, FiniteSets

CONSTANTS
  Root,          \* the lept_value variables of the program
  Cell,          \* heap blocks
  None,          \* the null pointer
  Unset,         \* a field that nobody has written
  Scalars,       \* bound: the types without a block that the program uses
  MaxCapacity    \* bound: elements of an array


VARIABLES
  mem,       \* the variables and the heap: per block, its slots
  doubts,    \* what the last call relied on that the library does not provide
  wild       \* memory outside a block was used, or garbage was freed

vars == <<mem, doubts, wild>>

\* "capacity": the capacity that lept_parse left unset was read;
\* "slot": lept_free looked at a slot of a new array that nobody had written;
\* "hole": an object in a copied array was left out, so its slot stays unwritten;
\* "self": a value was moved, swapped or copied into one of its own elements, or back.
Doubts == {"capacity", "slot", "hole", "self"}

\* A lept_value.  A member of an object takes two slots, its key and its value; a string
\* and a key are told apart by their length only.
Value(type, p, size, capacity) == [type |-> type, p |-> p, size |-> size, capacity |-> capacity]
Simple(type) == Value(type, None, 0, 0)
Null    == Simple("null")
Garbage == Simple("garbage")
NoSlots == [i \in {} |-> Null]

\* lept_set_boolean, whose argument is FALSE when it is 0.
Boolean(b) == Simple(IF b = 0 THEN "false" ELSE "true")
\* The numbers of the enumeration lept_type that lept_copy passes for a boolean.
TypeNumber(type) == IF type = "false" THEN 1 ELSE 2

Compound(x) == x.type \in {"array", "object"}

Get(m, l) == IF l \in Root THEN m.root[l] ELSE m.heap[l[1]][l[2]]
Put(m, l, x) ==
  IF l \in Root THEN [m EXCEPT !.root[l] = x] ELSE [m EXCEPT !.heap[l[1]][l[2]] = x]

\* The elements of the values at S that have one of the types, and of their elements: a block
\* further with every step.
Below(m, S, types) ==
  UNION {LET x == Get(m, l)
         IN IF x.type \in types /\ x.p # None THEN {<<x.p, i>> : i \in 1..x.size} ELSE {} : l \in S}
Reach(m, l, types) ==
  LET n == IF Get(m, l).p = None THEN 0 ELSE Cardinality(DOMAIN m.heap)
      reach[k \in 0..n] ==
        IF k = 0 THEN {l} ELSE {l} \cup Below(m, reach[k - 1], types)
  IN reach[n]

\* The place l and those of the elements and members below it.
Inside(m, l) == Reach(m, l, {"array", "object"})
Pointers(m, l) == {Get(m, k).p : k \in Inside(m, l)} \ {None}
Everywhere(m) == UNION {Inside(m, r) : r \in Root}

(* malloc, realloc and free.                                               *)
Room(m) == Cell \ DOMAIN m.heap # {}
Fresh(m) == CHOOSE c \in Cell : c \notin DOMAIN m.heap
Malloc(m, n) ==
  [m EXCEPT !.heap = [c \in DOMAIN @ \cup {Fresh(m)} |->
                        IF c \in DOMAIN @ THEN @[c] ELSE [i \in 1..n |-> Garbage]]]
Release(m, cells) == [m EXCEPT !.heap = [c \in DOMAIN @ \ cells |-> @[c]]]
Resized(m, p, n) ==
  [m EXCEPT !.heap[p] = [i \in 1..n |-> IF i \in DOMAIN @ THEN @[i] ELSE Garbage]]

\* lept_free, lept_set_null
Free(m, l) == Put(Release(m, Pointers(m, l)), l, Null)
SetSimple(m, l, x) == Put(Free(m, l), l, x)

\* lept_set_string
SetString(m, l, len) ==
  LET f == Free(m, l) IN Put(Malloc(f, 0), l, Value("string", Fresh(f), len, 0))

\* lept_set_array
SetArray(m, l, n) ==
  LET f == Free(m, l)
  IN IF n = 0 THEN Put(f, l, Value("array", None, 0, 0))
     ELSE Put(Malloc(f, n), l, Value("array", Fresh(f), 0, n))

\* lept_reserve_array beyond the capacity; realloc of no block is malloc.
ReservedBySize(m, l, n) ==
  LET x == Get(m, l)
  IN IF x.p = None
     THEN Put(Malloc(m, n), l, Value(x.type, Fresh(m), x.size, n))
     ELSE Put(Resized(m, x.p, x.size), l, [x EXCEPT !.capacity = n])
Reserved(m, l, n) ==
  LET x == Get(m, l)
  IN IF x.p = None
     THEN Put(Malloc(m, n), l, Value(x.type, Fresh(m), x.size, n))
     ELSE Put(Resized(m, x.p, n), l, [x EXCEPT !.capacity = n])

\* lept_shrink_array below the capacity; realloc to nothing frees the block.
Shrunk(m, l) ==
  LET x == Get(m, l)
  IN IF x.size = 0
     THEN Put(Release(m, {x.p} \ {None}), l, Value(x.type, None, x.size, 0))
     ELSE Put(Resized(m, x.p, x.size), l, [x EXCEPT !.capacity = x.size])

\* What is read as the capacity of x: c, if it is unset.
Capacity(x, c) == IF x.capacity = Unset THEN c ELSE x.capacity
Readings(x) == {Capacity(x, c) : c \in 0..MaxCapacity}

\* The slots that the block of x has.
Slots(m, x) == IF x.p = None THEN {} ELSE DOMAIN m.heap[x.p]

\* lept_move and lept_swap
Moved(m, dst, src) == Put(Put(Free(m, dst), dst, Get(m, src)), src, Null)
Swapped(m, l, r) == Put(Put(m, l, Get(m, r)), r, Get(m, l))

\* lept_copy, where unset capacities read as c: a new block for each string and each array
\* with room that is reached through arrays.  An object is not copied: the place it should go
\* to stays as it was.  In an array a boolean comes out as its number says.
Carried(m, src, c) ==
  {x \in {Get(m, l) : l \in Reach(m, src, {"array"})} :
     x.type = "string" \/ (x.type = "array" /\ Capacity(x, c) > 0)}
NewBlocks(carried, free) ==
  CHOOSE g \in [{x.p : x \in carried} -> free] : \A p, q \in DOMAIN g : g[p] = g[q] => p = q
CopyOf(x, c, new) ==
  CASE x.type = "string" -> Value("string", new[x.p], x.size, 0)
    [] x.type = "array" /\ Capacity(x, c) > 0 -> Value("array", new[x.p], x.size, Capacity(x, c))
    [] x.type = "array" /\ Capacity(x, c) = 0 -> Value("array", None, x.size, 0)
    [] OTHER -> x
Element(x, c, new) ==
  CASE x.type \in {"false", "true"} -> Boolean(TypeNumber(x.type))
    [] x.type = "object" -> Garbage
    [] OTHER -> CopyOf(x, c, new)
CopiedBlock(m, x, c, new) ==
  [i \in 1..(IF x.type = "string" THEN 0 ELSE Capacity(x, c)) |->
     IF i <= x.size THEN Element(m.heap[x.p][i], c, new) ELSE Garbage]
Copied(m, dst, src, c) ==
  LET f       == Free(m, dst)
      carried == Carried(m, src, c)
      new     == NewBlocks(carried, Cell \ DOMAIN f.heap)
      all     == [f EXCEPT !.heap = [b \in DOMAIN @ \cup {new[x.p] : x \in carried} |->
                    IF b \in DOMAIN @ THEN @[b]
                    ELSE CopiedBlock(m, CHOOSE x \in carried : new[x.p] = b, c, new)]]
  IN IF Get(m, src).type = "object" THEN m ELSE Put(all, dst, CopyOf(Get(m, src), c, new))

-----------------------------------------------------------------------------
Init ==
  /\ mem = [root |-> [r \in Root |-> Null], heap |-> NoSlots]   \* lept_init
  /\ doubts = {} /\ wild = FALSE

\* The program goes on while it knows what it has.
Trusted == ~wild /\ doubts = {}
Becomes(m) == Trusted /\ mem' = m /\ UNCHANGED <<doubts, wild>>

\* A call with the doubts D, which stays inside its blocks if safe holds.  Slots that nobody
\* wrote, and that did no harm when lept_free looked at them, leave no trace.
Uses(D, safe, m) ==
  /\ Trusted
  /\ doubts' = IF safe THEN D \ {"slot"} ELSE D
  /\ wild' = ~safe
  /\ mem' = IF safe THEN m ELSE mem

Places == Everywhere(mem)
IsArray(l) == Get(mem, l).type = "array"
Apart(l, r) == l \notin Inside(mem, r) /\ r \notin Inside(mem, l)
Idle(l) == Pointers(mem, l) = {}
Unknown(x) == IF x.capacity = Unset THEN {"capacity"} ELSE {}

\* lept_parse of an array or an object with one element, into a value that owns nothing.
ParseArray(l, type) ==
  /\ Idle(l) /\ Room(mem)
  /\ LET a == Put(Malloc(mem, 1), l, Value("array", Fresh(mem), 1, Unset))
     IN Becomes(Put(a, <<Fresh(mem), 1>>, Simple(type)))
ParseObject(l, type) ==
  /\ Idle(l) /\ Cardinality(Cell \ DOMAIN mem.heap) >= 2
  /\ LET o == Put(Malloc(mem, 2), l, Value("object", Fresh(mem), 2, 2))
     IN Becomes(Put(SetString(o, <<Fresh(mem), 1>>, 1), <<Fresh(mem), 2>>, Simple(type)))

\* lept_set_null is lept_free.
SetScalar(l, type) == Becomes(SetSimple(mem, l, Simple(type)))
SetText(l, len) == Room(Free(mem, l)) /\ Becomes(SetString(mem, l, len))
SetNewArray(l, n) == Room(Free(mem, l)) /\ Becomes(SetArray(mem, l, n))

\* lept_move frees dst before it reads src, which may be in a block of dst.
MoveValue(dst, src) ==
  /\ dst # src
  /\ IF Apart(dst, src) THEN Becomes(Moved(mem, dst, src))
     ELSE Uses({"self"}, src \notin Inside(mem, dst), Moved(mem, dst, src))
Swap(l, r) ==
  /\ l # r
  /\ IF Apart(l, r) THEN Becomes(Swapped(mem, l, r))
     ELSE Uses({"self"}, TRUE, Swapped(mem, l, r))

Reserve(l, n) ==
  LET x == Get(mem, l)
  IN /\ IsArray(l) /\ Room(mem)
     /\ \E c \in Readings(x) :
          IF c < n THEN Uses(Unknown(x), x.size <= n, Reserved(mem, l, n))
                   ELSE Uses(Unknown(x), TRUE, mem)

Shrink(l) ==
  LET x == Get(mem, l)
  IN /\ IsArray(l)
     /\ \E c \in Readings(x) :
          Uses(Unknown(x), TRUE, IF c > x.size THEN Shrunk(mem, l) ELSE mem)

Doubled(c) == IF c = 0 THEN 1 ELSE c * 2
PushBack(l) ==
  LET x == Get(mem, l)
  IN /\ IsArray(l) /\ Room(mem) /\ x.size < MaxCapacity
     /\ \E c \in Readings(x) :
          LET m == IF x.size = c THEN Reserved(mem, l, Doubled(c)) ELSE mem
              y == Get(m, l)
          IN Uses(Unknown(x), x.size + 1 \in Slots(m, y),
                  Put(Put(m, <<y.p, x.size + 1>>, Null), l, [y EXCEPT !.size = @ + 1]))

PopBack(l) ==
  LET x == Get(mem, l)
  IN /\ IsArray(l) /\ x.size > 0
     /\ Becomes(Put(Free(mem, <<x.p, x.size>>), l, [x EXCEPT !.size = @ - 1]))

\* Every element of a copied array goes to a slot that malloc has just given out, which
\* lept_free looks at first; only an object does not go anywhere.
CopyDoubts(dst, src) ==
  LET arrays   == {x \in {Get(mem, l) : l \in Reach(mem, src, {"array"})} : x.type = "array"}
      elements == UNION {{mem.heap[x.p][i] : i \in 1..x.size} : x \in {y \in arrays : y.p # None}}
  IN (UNION {Unknown(x) : x \in arrays})
     \cup (IF \E x \in elements : x.type # "object" THEN {"slot"} ELSE {})
     \cup (IF \E x \in elements : x.type = "object" THEN {"hole"} ELSE {})
     \cup (IF dst \in Inside(mem, src) THEN {"self"} ELSE {})

\* The values when the elements are read: if dst is one of them, it is the new array by then.
Source(dst, src, c) ==
  IF dst \in Reach(mem, src, {"array"})
  THEN SetArray(mem, dst, Capacity(Get(mem, src), c)) ELSE mem

CopyOver(dst, src) ==
  /\ Room(mem) \/ Pointers(mem, src) = {}
  /\ LET arrays == {Get(mem, l) : l \in {k \in Reach(mem, src, {"array"}) : IsArray(k)}}
         D      == CopyDoubts(dst, src)
         reads  == IF "capacity" \in D THEN 0..MaxCapacity ELSE {0}
     IN \/ "slot" \in D /\ Uses(D, FALSE, mem)
        \/ \E c \in reads : \E from \in {Source(dst, src, c)} :
             /\ Cardinality(Cell \ DOMAIN mem.heap) >= Cardinality(Pointers(from, src))
             /\ Uses(D, \A x \in arrays : x.size <= Capacity(x, c), Copied(from, dst, src, c))

\* lept_copy leaves dst alone if src is an object; else it frees dst before it reads all of src.
Copy(dst, src) ==
  /\ dst # src
  /\ CASE Get(mem, src).type = "object" -> Becomes(mem)
       [] Get(mem, src).type # "object" /\ src \in Inside(mem, dst) -> Uses({"self"}, FALSE, mem)
       [] OTHER -> CopyOver(dst, src)

\* The calls that take one value, and those that take two; one of the two is a variable.
Call(l) ==
  \/ SetText(l, 1) \/ Shrink(l) \/ PushBack(l) \/ PopBack(l)
  \/ \E type \in Scalars : SetScalar(l, type)
  \/ \E n \in {0, MaxCapacity} : SetNewArray(l, n)
  \/ \E n \in 1..MaxCapacity : Reserve(l, n)
Call2(l, r) ==
  \/ MoveValue(l, r) \/ Swap(l, r) \/ Copy(l, r)
  \/ l \notin Root /\ (MoveValue(r, l) \/ Copy(r, l))

\* What the program has no pointer to a lept_value for: the key of an object's member.
Keys == {<<Get(mem, l).p, 1>> : l \in {k \in Places : Get(mem, k).type = "object"}}

Next ==
  /\ Trusted
  /\ \/ \E l \in Root, type \in Scalars : ParseArray(l, type) \/ ParseObject(l, type)
     \/ LET places == Places \ Keys
        IN \E l \in places : Call(l) \/ \E r \in Root : Call2(l, r)

Spec == Init /\ [][Next]_vars
-----------------------------------------------------------------------------
(* Every block has one owner, whatever is moved, swapped, overwritten,     *)
(* pushed, popped or copied: nothing leaks, nothing is freed twice, until  *)
(* garbage is freed or a value is moved, swapped or copied within itself.  *)
OneOwner ==
  ~wild /\ "self" \notin doubts =>
    /\ UNION {Pointers(mem, r) : r \in Root} = DOMAIN mem.heap
    /\ \A l, k \in Places :
         l # k /\ Get(mem, l).p # None => Get(mem, l).p # Get(mem, k).p

(* An array knows how large its block is, until a capacity that lept_parse *)
(* left unset is read, an object is left out of a copied array or a value  *)
(* goes into itself; and only a call that does one of these, or that       *)
(* copies an array with elements, uses memory outside a block.             *)
KnowsItsBlock ==
  /\ wild => doubts # {}
  /\ Trusted => \A l \in {k \in Places : IsArray(k)} :
       LET x == Get(mem, l)
       IN /\ x.size <= Cardinality(Slots(mem, x))
          /\ x.capacity \in {Unset, Cardinality(Slots(mem, x))}
=============================================================================
