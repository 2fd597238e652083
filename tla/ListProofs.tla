----------------------------- MODULE ListProofs -----------------------------
(***************************************************************************)
(* The tape of an accepted document is well formed, for every document,    *)
(* option and build: every container spans exactly its entries.            *)
(*                                                                         *)
(* ListInv of Stage2Properties is inductive relative to IndInv and NestInv.*)
(* First what is listed on a tape, then what the operations on the scopes  *)
(* do to it, then each action, then the theorems.                          *)
(*                                                                         *)
(* In the second half the same for LengthInv: in strict mode an accepted   *)
(* document has as many entries in every array and table as their headers  *)
(* declare, with or without lapses.                                        *)
(***************************************************************************)
EXTENDS ScopeProofs

-----------------------------------------------------------------------------
(* What is listed on a tape. *)

(* The numbers a node carries.                                             *)
LEMMA NodeNumbers ==
  ASSUME NEW t \in Seq(Nodes), NEW k \in 1..Len(t)
  PROVE  /\ t[k] \in Nodes /\ k \in Nat /\ Len(t) \in Nat
         /\ t[k].len \in Nat /\ t[k].count \in Nat
         /\ EndIn(t, k) = k + t[k].count /\ EndIn(t, k) \in Nat /\ EndIn(t, k) >= k
<1>1. t[k] \in Nodes /\ Len(t) \in Nat /\ k \in Nat
  BY ElementOfSeq
<1>2. t[k].len \in Nat /\ t[k].count \in Nat
  BY <1>1 DEF Nodes
<1>3. QED
  BY <1>1, <1>2 DEF EndIn

(* Entries can be counted.                                                 *)
LEMMA EntriesFinite ==
  ASSUME NEW t, NEW k \in Int, NEW e \in Int
  PROVE  /\ EntriesIn(t, k, e) \subseteq (k + 1)..e
         /\ KeysIn(t, k, e) \subseteq EntriesIn(t, k, e)
         /\ IsFiniteSet(EntriesIn(t, k, e)) /\ IsFiniteSet(KeysIn(t, k, e))
         /\ Cardinality(EntriesIn(t, k, e)) \in Nat /\ Cardinality(KeysIn(t, k, e)) \in Nat
<1>1. EntriesIn(t, k, e) \in SUBSET ((k + 1)..e) /\ KeysIn(t, k, e) \in SUBSET EntriesIn(t, k, e)
  BY DEF EntriesIn, KeysIn
<1>2. IsFiniteSet((k + 1)..e)
  BY FS_Interval
<1>3. IsFiniteSet(EntriesIn(t, k, e))
  BY <1>1, <1>2, FS_Subset
<1>4. IsFiniteSet(KeysIn(t, k, e))
  BY <1>1, <1>3, FS_Subset
<1>5. QED
  BY <1>1, <1>3, <1>4, FS_CardinalityType

(* What a container holds up to e is settled by the nodes up to e, of which*)
(* the last may be a container whose entries are still to come.            *)
LEMMA SameEntries ==
  ASSUME NEW t, NEW u, NEW k \in Int, NEW e \in Int, u[k].kind = t[k].kind,
         \A j \in (k + 1)..e : u[j].kind = t[j].kind,
         \A j \in (k + 1)..(e - 1) : u[j].count = t[j].count
  PROVE  /\ EntriesIn(u, k, e) = EntriesIn(t, k, e)
         /\ KeysIn(u, k, e) = KeysIn(t, k, e)
         /\ \A n : Holds(u, k, e, n) <=> Holds(t, k, e, n)
         /\ \A n : KeyAwaits(u, k, e, n) <=> KeyAwaits(t, k, e, n)
<1>1. EntriesIn(u, k, e) = EntriesIn(t, k, e)
  <2>1. ASSUME NEW j \in (k + 1)..e, NEW m \in (k + 1)..(j - 1)
        PROVE  EndIn(u, m) = EndIn(t, m)
    <3>1. m \in (k + 1)..(e - 1)
      OBVIOUS
    <3>2. QED
      BY <3>1 DEF EndIn
  <2>2. QED
    BY <2>1 DEF EntriesIn
<1>2. KeysIn(u, k, e) = KeysIn(t, k, e)
  <2>1. ASSUME NEW j \in EntriesIn(t, k, e)
        PROVE  u[j].kind = t[j].kind
    BY DEF EntriesIn
  <2>2. QED
    BY <1>1, <2>1 DEF KeysIn
<1>3. QED
  BY <1>1, <1>2 DEF Holds, KeyAwaits

(* A container whose entries are still to come holds nothing.              *)
LEMMA HoldsNothing ==
  ASSUME NEW t, NEW k \in Int
  PROVE  EntriesIn(t, k, k) = {} /\ Holds(t, k, k, 0)
<1>1. (k + 1)..k = {}
  OBVIOUS
<1>2. EntriesIn(t, k, k) = {} /\ KeysIn(t, k, k) = {}
  BY <1>1 DEF EntriesIn, KeysIn
<1>3. QED
  BY <1>2, FS_EmptySet DEF Holds

(* A node behind what is closed is the next entry.                         *)
LEMMA NextEntry ==
  ASSUME NEW t, NEW k \in Nat, NEW e \in Nat, k <= e,
         \A m \in (k + 1)..e : EndIn(t, m) <= e /\ EndIn(t, m) \in Nat
  PROVE  /\ EntriesIn(t, k, e + 1) = EntriesIn(t, k, e) \cup {e + 1}
         /\ KeysIn(t, k, e + 1) = KeysIn(t, k, e) \cup (IF t[e + 1].kind = "Key" THEN {e + 1} ELSE {})
         /\ Cardinality(EntriesIn(t, k, e + 1)) = Cardinality(EntriesIn(t, k, e)) + 1
         /\ Cardinality(KeysIn(t, k, e + 1))
              = Cardinality(KeysIn(t, k, e)) + (IF t[e + 1].kind = "Key" THEN 1 ELSE 0)
         /\ \A j \in EntriesIn(t, k, e) : j < e + 1
<1>1. EntriesIn(t, k, e + 1) = EntriesIn(t, k, e) \cup {e + 1}
  <2>1. ASSUME NEW j \in EntriesIn(t, k, e + 1)
        PROVE  j \in EntriesIn(t, k, e) \cup {e + 1}
    <3>1. j \in (k + 1)..(e + 1) /\ \A m \in (k + 1)..(j - 1) : EndIn(t, m) < j
      BY DEF EntriesIn
    <3>2. j = e + 1 \/ j \in (k + 1)..e
      BY <3>1
    <3>3. QED
      BY <3>1, <3>2 DEF EntriesIn
  <2>2. e + 1 \in EntriesIn(t, k, e + 1)
    <3>1. e + 1 \in (k + 1)..(e + 1)
      OBVIOUS
    <3>2. \A m \in (k + 1)..(e + 1 - 1) : m \in (k + 1)..e
      OBVIOUS
    <3>3. \A m \in (k + 1)..(e + 1 - 1) : EndIn(t, m) < e + 1
      BY <3>2
    <3>4. QED
      BY <3>1, <3>3 DEF EntriesIn
  <2>3. ASSUME NEW j \in EntriesIn(t, k, e)
        PROVE  j \in EntriesIn(t, k, e + 1)
    <3>1. j \in (k + 1)..e /\ \A m \in (k + 1)..(j - 1) : EndIn(t, m) < j
      BY DEF EntriesIn
    <3>2. j \in (k + 1)..(e + 1)
      BY <3>1
    <3>3. QED
      BY <3>1, <3>2 DEF EntriesIn
  <2>4. QED
    BY <2>1, <2>2, <2>3
<1>2. \A j \in EntriesIn(t, k, e) : j < e + 1
  BY EntriesFinite
<1>3. e + 1 \notin EntriesIn(t, k, e) /\ e + 1 \notin KeysIn(t, k, e)
  BY <1>2 DEF KeysIn
<1>4. KeysIn(t, k, e + 1) = KeysIn(t, k, e) \cup (IF t[e + 1].kind = "Key" THEN {e + 1} ELSE {})
  BY <1>1 DEF KeysIn
<1>5. Cardinality(EntriesIn(t, k, e + 1)) = Cardinality(EntriesIn(t, k, e)) + 1
  <2>1. IsFiniteSet(EntriesIn(t, k, e))
    BY EntriesFinite
  <2>2. QED
    BY <1>1, <1>3, <2>1, FS_AddElement
<1>6. Cardinality(KeysIn(t, k, e + 1))
        = Cardinality(KeysIn(t, k, e)) + (IF t[e + 1].kind = "Key" THEN 1 ELSE 0)
  <2>1. IsFiniteSet(KeysIn(t, k, e)) /\ Cardinality(KeysIn(t, k, e)) \in Nat
    BY EntriesFinite
  <2>2. CASE t[e + 1].kind = "Key"
    BY <1>3, <1>4, <2>1, <2>2, FS_AddElement
  <2>3. CASE t[e + 1].kind # "Key"
    <3>1. KeysIn(t, k, e + 1) = KeysIn(t, k, e)
      BY <1>4, <2>3
    <3>2. QED
      BY <2>1, <2>3, <3>1
  <2>4. QED
    BY <2>2, <2>3
<1>7. QED
  BY <1>1, <1>2, <1>4, <1>5, <1>6

(* One more value in an array, or the key or the value of one more pair in *)
(* an object.                                                              *)
LEMMA NextHolds ==
  ASSUME NEW t, NEW k \in Nat, NEW e \in Nat, k <= e, NEW n \in Int,
         \A m \in (k + 1)..e : EndIn(t, m) <= e /\ EndIn(t, m) \in Nat
  PROVE  /\ t[k].kind = "Array" /\ t[e + 1].kind # "Key" /\ Holds(t, k, e, n)
              => Holds(t, k, e + 1, n + 1)
         /\ t[k].kind = "Object" /\ t[e + 1].kind = "Key" /\ Holds(t, k, e, n)
              => KeyAwaits(t, k, e + 1, n + 1)
         /\ t[k].kind = "Object" /\ t[e + 1].kind # "Key" /\ KeyAwaits(t, k, e, n)
              => Holds(t, k, e + 1, n)
<1> DEFINE E == EntriesIn(t, k, e)
           F == EntriesIn(t, k, e + 1)
           K == KeysIn(t, k, e)
           G == KeysIn(t, k, e + 1)
<1>1. /\ F = E \cup {e + 1}
      /\ G = K \cup (IF t[e + 1].kind = "Key" THEN {e + 1} ELSE {})
      /\ Cardinality(F) = Cardinality(E) + 1
      /\ Cardinality(G) = Cardinality(K) + (IF t[e + 1].kind = "Key" THEN 1 ELSE 0)
      /\ \A j \in E : j < e + 1
  BY NextEntry
<1>2. Cardinality(E) \in Nat /\ Cardinality(K) \in Nat /\ K \subseteq E /\ E \subseteq (k + 1)..e
  BY EntriesFinite
<1>3. ASSUME t[k].kind = "Array", t[e + 1].kind # "Key", Holds(t, k, e, n)
      PROVE  Holds(t, k, e + 1, n + 1)
  <2>1. K = {} /\ Cardinality(E) = n
    BY <1>3 DEF Holds
  <2>2. G = {} /\ Cardinality(F) = n + 1
    BY <1>1, <1>3, <2>1
  <2>3. QED
    BY <1>3, <2>2 DEF Holds
<1>4. ASSUME t[k].kind = "Object", t[e + 1].kind = "Key", Holds(t, k, e, n)
      PROVE  KeyAwaits(t, k, e + 1, n + 1)
  <2>1. Cardinality(K) = n /\ Cardinality(E) = 2 * n /\ \A j \in K : j + 1 \in E \ K
    BY <1>4 DEF Holds
  <2>2. e + 1 \in G /\ Cardinality(G) = n + 1 /\ Cardinality(F) = 2 * (n + 1) - 1
    BY <1>1, <1>2, <1>4, <2>1
  <2>3. ASSUME NEW j \in G \ {e + 1}
        PROVE  j + 1 \in F \ G
    <3>1. j \in K
      BY <1>1
    <3>2. j + 1 \in E \ K
      BY <2>1, <3>1
    <3>3. j + 1 < e + 1 /\ j + 1 \in Int
      BY <1>1, <1>2, <3>2
    <3>4. j + 1 # e + 1
      BY <3>3
    <3>5. QED
      BY <1>1, <3>2, <3>4
  <2>4. QED
    BY <2>2, <2>3 DEF KeyAwaits
<1>5. ASSUME t[k].kind = "Object", t[e + 1].kind # "Key", KeyAwaits(t, k, e, n)
      PROVE  Holds(t, k, e + 1, n)
  <2>1. /\ Cardinality(K) = n /\ Cardinality(E) = 2 * n - 1
        /\ \A j \in K \ {e} : j + 1 \in E \ K
    BY <1>5 DEF KeyAwaits
  <2>2. G = K /\ Cardinality(F) = 2 * n
    BY <1>1, <1>2, <1>5, <2>1
  <2>3. ASSUME NEW j \in G
        PROVE  j + 1 \in F \ G
    <3>1. CASE j = e
      <4>1. e + 1 \notin K
        BY <1>1, <1>2
      <4>2. QED
        BY <1>1, <2>2, <3>1, <4>1
    <3>2. CASE j # e
      BY <1>1, <2>1, <2>2, <3>2
    <3>3. QED
      BY <3>1, <3>2
  <2>4. QED
    BY <1>5, <2>1, <2>2, <2>3 DEF Holds
<1>6. QED
  BY <1>3, <1>4, <1>5

(* A well formed node stays so when the tape changes elsewhere.            *)
LEMMA StaysWellFormed ==
  ASSUME NEW t \in Seq(Nodes), NEW u \in Seq(Nodes), Len(t) <= Len(u), NEW k \in 1..Len(t),
         NodeWellFormed(t, k), \A j \in k..EndIn(t, k) : u[j] = t[j]
  PROVE  NodeWellFormed(u, k) /\ EndIn(u, k) = EndIn(t, k)
<1> DEFINE e == EndIn(t, k)
<1>1. /\ k \in Nat /\ e \in Nat /\ e >= k /\ Len(t) \in Nat /\ e = k + t[k].count
  BY NodeNumbers
<1>2. u[k] = t[k]
  BY <1>1
<1>3. EndIn(u, k) = e
  BY <1>1, <1>2 DEF EndIn
<1>4. \A j \in (k + 1)..e : u[j] = t[j]
  BY <1>1
<1>5. /\ EntriesIn(u, k, e) = EntriesIn(t, k, e)
      /\ \A n : Holds(u, k, e, n) <=> Holds(t, k, e, n)
  <2>1. k \in Int /\ e \in Int
    BY <1>1
  <2>2. \A j \in (k + 1)..e : u[j].kind = t[j].kind
    BY <1>4
  <2>3. \A j \in (k + 1)..(e - 1) : u[j].count = t[j].count
    <3>1. ASSUME NEW j \in (k + 1)..(e - 1)
          PROVE  j \in (k + 1)..e
      BY <1>1
    <3>2. QED
      BY <1>4, <3>1
  <2> HIDE DEF e
  <2>4. QED
    BY <1>2, <2>1, <2>2, <2>3, SameEntries
<1>6. \A j \in EntriesIn(t, k, e) : EndIn(u, j) = EndIn(t, j)
  <2>1. EntriesIn(t, k, e) \subseteq (k + 1)..e
    BY <1>1, EntriesFinite
  <2>2. QED
    BY <1>4, <2>1 DEF EndIn
<1>7. e <= Len(u)
  <2>1. e <= Len(t) /\ Len(u) \in Nat
    BY DEF NodeWellFormed
  <2>2. QED
    BY <1>1, <2>1
<1>8. /\ \A j \in EntriesIn(t, k, e) : EndIn(t, j) <= e
      /\ Holds(t, k, e, t[k].len)
      /\ t[k].kind \notin Containers => t[k].len = 0 /\ t[k].count = 0
  BY DEF NodeWellFormed
<1> HIDE DEF e
<1>9. QED
  BY <1>2, <1>3, <1>5, <1>6, <1>7, <1>8 DEF NodeWellFormed, e

(* A node without slots below it is well formed.                           *)
LEMMA LeafWellFormed ==
  ASSUME NEW t \in Seq(Nodes), NEW k \in 1..Len(t), t[k].len = 0, t[k].count = 0
  PROVE  NodeWellFormed(t, k) /\ EndIn(t, k) = k
<1>1. k \in Int /\ k <= Len(t) /\ EndIn(t, k) = k
  BY NodeNumbers
<1>2. EntriesIn(t, k, k) = {} /\ Holds(t, k, k, 0)
  BY <1>1, HoldsNothing
<1>3. QED
  BY <1>1, <1>2 DEF NodeWellFormed

-----------------------------------------------------------------------------
(* What the operations on the scopes do to it.                             *)

(* Scopes in order, around a tape that is well formed but for their slots. *)
Lists(x) == ScopesOK(x) /\ Ordered(x) /\ Listed(x)

(* The slots of the open scopes.                                           *)
LEMMA SlotFacts ==
  ASSUME NEW x, ScopesOK(x), Ordered(x)
  PROVE  /\ x \in Builders /\ x.tape \in Seq(Nodes) /\ Len(x.tape) \in Nat
         /\ Len(x.stack) \in Nat /\ Len(x.stack) >= 1 /\ x.cnt \in Nat
         /\ x.start \in 1..Len(x.tape) /\ x.start \in Nat /\ x.start \in Slots(x)
         /\ x.tape[x.start].kind \in Containers
         /\ \A s \in Slots(x) : s \in 1..Len(x.tape) /\ s <= x.start
         /\ \A d \in 1..Len(x.stack) : Slot(x, d) \in Slots(x)
         /\ \A d \in 2..Len(x.stack) : /\ x.stack[d].start \in Slots(x)
                                       /\ x.stack[d].start < Slot(x, d)
<1>1. /\ x \in Builders /\ x.tape \in Seq(Nodes) /\ x.stack \in Seq(Frames)
      /\ x.cnt \in Nat
  BY BuilderFields DEF ScopesOK
<1>2. /\ Len(x.tape) \in Nat /\ Len(x.stack) \in Nat /\ Len(x.stack) >= 1
      /\ x.start \in 1..Len(x.tape) /\ x.start \in Slots(x) /\ x.start \in Nat
      /\ x.tape[x.start].kind \in Containers
  BY <1>1 DEF ScopesOK, Slots
<1>3. \A d \in 2..Len(x.stack) : /\ x.stack[d].start \in 1..Len(x.tape)
                                 /\ x.stack[d].start < x.start
                                 /\ x.stack[d].start \in Slots(x)
  BY DEF ScopesOK, Ordered, Slots
<1>4. \A s \in Slots(x) : s \in 1..Len(x.tape) /\ s <= x.start
  BY <1>2, <1>3 DEF Slots
<1>5. ASSUME NEW d \in 1..Len(x.stack)
      PROVE  Slot(x, d) \in Slots(x) /\ (d >= 2 => x.stack[d].start < Slot(x, d))
  <2>1. CASE d = Len(x.stack)
    BY <1>2, <1>3, <2>1 DEF Slot
  <2>2. CASE d # Len(x.stack)
    <3>1. d + 1 \in 2..Len(x.stack) /\ d < d + 1
      BY <1>2, <2>2
    <3>2. Slot(x, d) = x.stack[d + 1].start
      BY <2>2 DEF Slot
    <3>3. d >= 2 => x.stack[d].start < x.stack[d + 1].start
      BY <3>1 DEF Ordered
    <3>4. QED
      BY <1>3, <3>1, <3>2, <3>3
  <2>3. QED
    BY <2>1, <2>2
<1>6. \A d \in 2..Len(x.stack) : d \in 1..Len(x.stack) /\ d >= 2
  BY <1>2
<1>7. QED
  BY <1>1, <1>2, <1>3, <1>4, <1>5, <1>6

(* Behind the slot of the innermost scope everything is closed.            *)
LEMMA ClosedBehind ==
  ASSUME NEW x, Lists(x), NEW m \in (x.start + 1)..Len(x.tape)
  PROVE  /\ m \in (1..Len(x.tape)) \ Slots(x) /\ NodeWellFormed(x.tape, m)
         /\ EndIn(x.tape, m) <= Len(x.tape) /\ EndIn(x.tape, m) \in Nat
<1>1. /\ x.tape \in Seq(Nodes) /\ Len(x.tape) \in Nat /\ x.start \in 1..Len(x.tape)
      /\ \A s \in Slots(x) : s \in 1..Len(x.tape) /\ s <= x.start
  BY SlotFacts DEF Lists
<1>2. m \in 1..Len(x.tape) /\ m \notin Slots(x)
  BY <1>1
<1>3. NodeWellFormed(x.tape, m)
  BY <1>2 DEF Lists, Listed
<1>4. EndIn(x.tape, m) \in Nat
  BY <1>1, <1>2, NodeNumbers
<1>5. QED
  BY <1>2, <1>3, <1>4 DEF NodeWellFormed

(* The scopes stay listed when well formed nodes are written behind them.  *)
LEMMA ExtendsListed ==
  ASSUME NEW x, Lists(x), NEW y, Extends(x, y), y.stack = x.stack, y.start = x.start,
         \A k \in (Len(x.tape) + 1)..Len(y.tape) : NodeWellFormed(y.tape, k)
  PROVE  Listed(y)
<1>1. /\ x.tape \in Seq(Nodes) /\ Len(x.tape) \in Nat
      /\ Len(x.stack) \in Nat /\ x.start \in 1..Len(x.tape)
      /\ \A s \in Slots(x) : s \in 1..Len(x.tape) /\ s <= x.start
      /\ \A d \in 1..Len(x.stack) : Slot(x, d) \in Slots(x)
      /\ \A d \in 2..Len(x.stack) : x.stack[d].start \in Slots(x)
  BY SlotFacts DEF Lists
<1>2. /\ y.tape \in Seq(Nodes) /\ Len(y.tape) \in Nat /\ Len(x.tape) <= Len(y.tape)
      /\ \A k \in 1..Len(x.tape) : y.tape[k] = x.tape[k]
  BY DEF Extends
<1>3. Slots(y) = Slots(x) /\ \A d : Slot(y, d) = Slot(x, d)
  BY DEF Slots, Slot
<1>4. Slot(y, 1) = 1
  BY <1>3 DEF Lists, Listed
<1>5. ASSUME NEW k \in (1..Len(y.tape)) \ Slots(y)
      PROVE  /\ NodeWellFormed(y.tape, k)
             /\ \A s \in Slots(y) : k < s => EndIn(y.tape, k) < s
  <2>1. CASE k \in 1..Len(x.tape)
    <3>1. /\ NodeWellFormed(x.tape, k)
          /\ \A s \in Slots(x) : k < s => EndIn(x.tape, k) < s
      BY <1>3, <2>1 DEF Lists, Listed
    <3>2. EndIn(x.tape, k) <= Len(x.tape) /\ EndIn(x.tape, k) \in Nat /\ k \in Nat
      BY <1>1, <2>1, <3>1, NodeNumbers DEF NodeWellFormed
    <3>3. \A j \in k..EndIn(x.tape, k) : y.tape[j] = x.tape[j]
      BY <1>1, <1>2, <2>1, <3>2
    <3>4. NodeWellFormed(y.tape, k) /\ EndIn(y.tape, k) = EndIn(x.tape, k)
      BY <1>1, <1>2, <2>1, <3>1, <3>3, StaysWellFormed
    <3>5. QED
      BY <1>3, <3>1, <3>4
  <2>2. CASE k \notin 1..Len(x.tape)
    <3>1. k \in (Len(x.tape) + 1)..Len(y.tape)
      BY <1>1, <1>2, <2>2
    <3>2. \A s \in Slots(y) : ~ (k < s)
      BY <1>1, <1>3, <3>1
    <3>3. QED
      BY <3>1, <3>2
  <2>3. QED
    BY <2>1, <2>2
<1>6. ASSUME NEW d \in 2..Len(x.stack)
      PROVE  Holds(y.tape, x.stack[d].start, Slot(x, d), x.stack[d].cnt)
  <2> DEFINE k == x.stack[d].start
             e == Slot(x, d)
  <2>1. k \in 1..Len(x.tape) /\ e \in 1..Len(x.tape)
    <3>1. d \in 1..Len(x.stack)
      BY <1>1
    <3>2. QED
      BY <1>1, <3>1
  <2>2. Holds(x.tape, k, e, x.stack[d].cnt)
    BY DEF Lists, Listed
  <2> HIDE DEF k, e
  <2>3. k \in Int /\ e \in Int /\ y.tape[k] = x.tape[k]
    BY <1>1, <1>2, <2>1
  <2>4. \A j \in (k + 1)..e : y.tape[j] = x.tape[j]
    BY <1>1, <1>2, <2>1
  <2>5. \A j \in (k + 1)..(e - 1) : j \in (k + 1)..e
    BY <2>3
  <2>6. Holds(y.tape, k, e, x.stack[d].cnt)
    BY <2>2, <2>3, <2>4, <2>5, SameEntries
  <2>7. QED
    BY <2>6 DEF k, e
<1>7. QED
  BY <1>3, <1>4, <1>5, <1>6 DEF Listed

(* A key, a value or an empty container is written in the innermost scope. *)
LEMMA WriteLists ==
  ASSUME NEW x, Lists(x), NEW node \in Nodes, node.len = 0, node.count = 0,
         NEW y, y = Write(x, node)
  PROVE  /\ Lists(y) /\ y.cnt = x.cnt /\ y.stack = x.stack /\ y.start = x.start
         /\ Len(y.tape) = Len(x.tape) + 1
         /\ \A kind : Inside(x, kind) => Inside(y, kind)
         /\ node.kind # "Key" /\ Awaits(x) => Ready(y)
         /\ node.kind = "Key" /\ Ready(x) /\ Inside(x, "Object") =>
              KeyAwaits(y.tape, y.start, Len(y.tape), y.cnt + 1)
<1> DEFINE e == Len(x.tape)
           s == x.start
           tape == Append(x.tape, node)
<1>1. /\ x \in Builders /\ x.tape \in Seq(Nodes) /\ e \in Nat /\ x.cnt \in Nat
      /\ s \in 1..e /\ s \in Nat /\ x.tape[s].kind \in Containers
  BY SlotFacts DEF Lists
<1>2. /\ tape \in Seq(Nodes) /\ Len(tape) = e + 1 /\ tape[e + 1] = node
      /\ \A k \in 1..e : tape[k] = x.tape[k]
  BY <1>1
<1>3. y = [x EXCEPT !.tape = tape]
  BY DEF Write
<1> HIDE DEF tape
<1>4. /\ y.tape = tape /\ y.start = s /\ y.stack = x.stack /\ y.indents = x.indents
      /\ y.cnt = x.cnt
  BY <1>1, <1>2, <1>3 DEF Builders
<1>5. ScopesOK(y)
  BY WriteFacts DEF Lists
<1>6. Ordered(y)
  BY <1>4 DEF Lists, Ordered
<1>7. Extends(x, y)
  BY <1>1, <1>2, <1>4 DEF Extends
<1>8. ASSUME NEW k \in (e + 1)..Len(y.tape)
      PROVE  NodeWellFormed(y.tape, k)
  <2>1. k = e + 1 /\ k \in 1..Len(y.tape)
    BY <1>1, <1>2, <1>4
  <2>2. QED
    BY <1>2, <1>4, <2>1, LeafWellFormed
<1> HIDE DEF s, e
<1>9. Lists(y)
  BY <1>4, <1>5, <1>6, <1>7, <1>8, ExtendsListed DEF Lists, e, s
<1>10. \A kind : Inside(x, kind) => Inside(y, kind)
  BY <1>1, <1>2, <1>4 DEF Inside, s
<1>11. \A n : /\ Holds(y.tape, s, e, n) <=> Holds(x.tape, s, e, n)
              /\ KeyAwaits(y.tape, s, e, n) <=> KeyAwaits(x.tape, s, e, n)
  <2>1. s \in Int /\ e \in Int /\ y.tape[s] = x.tape[s]
    BY <1>1, <1>2, <1>4
  <2>2. \A j \in (s + 1)..e : y.tape[j] = x.tape[j]
    BY <1>1, <1>2, <1>4
  <2>3. \A j \in (s + 1)..(e - 1) : j \in (s + 1)..e
    BY <2>1
  <2>4. QED
    BY <2>1, <2>2, <2>3, SameEntries
<1>12. \A m \in (s + 1)..e : EndIn(y.tape, m) <= e /\ EndIn(y.tape, m) \in Nat
  <2>1. ASSUME NEW m \in (s + 1)..e
        PROVE  EndIn(y.tape, m) <= e /\ EndIn(y.tape, m) \in Nat
    <3>1. m \in 1..e
      BY <1>1
    <3>2. y.tape[m] = x.tape[m]
      BY <1>2, <1>4, <3>1
    <3>3. EndIn(x.tape, m) <= e /\ EndIn(x.tape, m) \in Nat
      BY ClosedBehind DEF e, s
    <3>4. QED
      BY <3>2, <3>3 DEF EndIn
  <2>2. QED
    BY <2>1
<1>13. y.tape[s] = x.tape[s] /\ y.tape[e + 1] = node /\ s <= e
  BY <1>1, <1>2, <1>4
<1>14. Len(y.tape) = e + 1
  BY <1>2, <1>4
<1>15. ASSUME node.kind # "Key", Awaits(x)
       PROVE  Ready(y)
  <2>1. CASE Inside(x, "Array")
    <3>1. x.tape[s].kind = "Array" /\ Holds(x.tape, s, e, x.cnt - 1)
      BY <1>15, <2>1 DEF Awaits, Inside, s, e
    <3>2. x.cnt - 1 \in Int /\ x.cnt - 1 + 1 = x.cnt
      BY <1>1
    <3>3. Holds(y.tape, s, e + 1, x.cnt - 1 + 1)
      BY <1>1, <1>11, <1>12, <1>13, <1>15, <3>1, <3>2, NextHolds
    <3>4. QED
      BY <1>4, <1>14, <3>2, <3>3 DEF Ready
  <2>2. CASE ~ Inside(x, "Array")
    <3>1. x.tape[s].kind = "Object" /\ KeyAwaits(x.tape, s, e, x.cnt)
      BY <1>1, <1>15, <2>2 DEF Awaits, Inside, Containers, s, e
    <3>2. x.cnt \in Int
      BY <1>1
    <3>3. Holds(y.tape, s, e + 1, x.cnt)
      BY <1>1, <1>11, <1>12, <1>13, <1>15, <3>1, <3>2, NextHolds
    <3>4. QED
      BY <1>4, <1>14, <3>3 DEF Ready
  <2>3. QED
    BY <2>1, <2>2
<1>16. ASSUME node.kind = "Key", Ready(x), Inside(x, "Object")
       PROVE  KeyAwaits(y.tape, y.start, Len(y.tape), y.cnt + 1)
  <2>1. x.tape[s].kind = "Object" /\ Holds(x.tape, s, e, x.cnt) /\ x.cnt \in Int
    BY <1>1, <1>16 DEF Ready, Inside, s, e
  <2>2. KeyAwaits(y.tape, s, e + 1, x.cnt + 1)
    BY <1>1, <1>11, <1>12, <1>13, <1>16, <2>1, NextHolds
  <2>3. QED
    BY <1>4, <1>14, <2>2
<1>17. QED
  BY <1>4, <1>9, <1>10, <1>14, <1>15, <1>16 DEF s, e

(* The node of a key, of a value or of a container.                        *)
LEMMA NewNode ==
  ASSUME NEW kind \in {"Key", "Value"} \cup Containers, NEW tok \in Nat,
         NEW declared \in Nat \cup {-1}
  PROVE  LET node == Node(kind, tok, declared)
         IN  node \in Nodes /\ node.kind = kind /\ node.len = 0 /\ node.count = 0
BY NodeFacts DEF Node

(* Counting an entry does not touch the tape.                              *)
LEMMA CountedLists ==
  ASSUME NEW x, Lists(x), NEW y, y = Counted(x)
  PROVE  /\ Lists(y) /\ y.tape = x.tape /\ y.start = x.start /\ y.stack = x.stack
         /\ y.cnt = x.cnt + 1
         /\ \A kind : Inside(x, kind) => Inside(y, kind)
         /\ Ready(x) /\ Inside(x, "Array") => Awaits(y)
<1>1. x \in Builders /\ x.cnt \in Nat
  BY SlotFacts DEF Lists
<1>2. /\ y.tape = x.tape /\ y.start = x.start /\ y.stack = x.stack /\ y.indents = x.indents
      /\ y.cnt = x.cnt + 1
  BY <1>1 DEF Counted, Builders
<1>3. ScopesOK(y) /\ Ordered(y)
  BY <1>2, CountedFacts DEF Lists, Ordered
<1>4. Listed(y)
  BY <1>2 DEF Lists, Listed, Slots, Slot
<1>5. \A kind : Inside(x, kind) => Inside(y, kind)
  BY <1>2 DEF Inside
<1>6. ASSUME Ready(x), Inside(x, "Array")
      PROVE  Awaits(y)
  <2>1. Inside(y, "Array") /\ y.cnt - 1 = x.cnt
    BY <1>1, <1>2, <1>5, <1>6
  <2>2. Holds(y.tape, y.start, Len(y.tape), y.cnt - 1)
    BY <1>2, <1>6, <2>1 DEF Ready
  <2>3. QED
    BY <2>1, <2>2 DEF Awaits
<1>7. QED
  BY <1>2, <1>3, <1>4, <1>5, <1>6 DEF Lists

(* The inserts: a key in an object awaits its value, a value completes     *)
(* the entry.                                                              *)
LEMMA PutLists ==
  ASSUME NEW x, Lists(x), NEW p \in Nat
  PROVE  /\ Ready(x) /\ Inside(x, "Object") =>
              Lists(PutKey(x, p)) /\ Awaits(PutKey(x, p)) /\ Inside(PutKey(x, p), "Object")
         /\ Awaits(x) =>
              /\ Lists(PutValue(x, p)) /\ Ready(PutValue(x, p))
              /\ \A kind \in Containers : Lists(PutEmpty(x, kind)) /\ Ready(PutEmpty(x, kind))
         /\ \A kind : Inside(x, kind) => /\ Inside(PutValue(x, p), kind)
                                         /\ \A k \in Containers : Inside(PutEmpty(x, k), kind)
<1>1. ASSUME Ready(x), Inside(x, "Object")
      PROVE  Lists(PutKey(x, p)) /\ Awaits(PutKey(x, p)) /\ Inside(PutKey(x, p), "Object")
  <2> DEFINE node == Node("Key", p, -1)
             y == Write(x, node)
             z == Counted(y)
  <2>1. node \in Nodes /\ node.kind = "Key" /\ node.len = 0 /\ node.count = 0
    BY NewNode
  <2> HIDE DEF node
  <2>2. /\ Lists(y) /\ KeyAwaits(y.tape, y.start, Len(y.tape), y.cnt + 1)
        /\ Inside(y, "Object")
    BY <1>1, <2>1, WriteLists
  <2> HIDE DEF y
  <2>3. /\ Lists(z) /\ z.tape = y.tape /\ z.start = y.start /\ z.cnt = y.cnt + 1
        /\ Inside(z, "Object")
    BY <2>2, CountedLists
  <2>4. z = PutKey(x, p)
    BY DEF PutKey, y, node
  <2> HIDE DEF z
  <2>5. ~ Inside(z, "Array")
    BY <2>3 DEF Inside
  <2>6. Awaits(z)
    BY <2>2, <2>3, <2>5 DEF Awaits
  <2>7. QED
    BY <2>3, <2>4, <2>6
<1>2. ASSUME NEW node \in Nodes, node.kind # "Key", node.len = 0, node.count = 0
      PROVE  /\ Lists(Write(x, node)) /\ (Awaits(x) => Ready(Write(x, node)))
             /\ \A kind : Inside(x, kind) => Inside(Write(x, node), kind)
  <2> DEFINE y == Write(x, node)
  <2>1. y = Write(x, node)
    OBVIOUS
  <2> HIDE DEF y
  <2>2. /\ Lists(y) /\ (Awaits(x) => Ready(y))
        /\ \A kind : Inside(x, kind) => Inside(y, kind)
    BY <1>2, <2>1, WriteLists
  <2>3. QED
    BY <2>1, <2>2
<1>3. /\ Node("Value", p, -1) \in Nodes /\ Node("Value", p, -1).kind = "Value"
      /\ Node("Value", p, -1).len = 0 /\ Node("Value", p, -1).count = 0
  BY NewNode
<1>4. ASSUME NEW kind \in Containers
      PROVE  /\ Node(kind, 0, -1) \in Nodes /\ Node(kind, 0, -1).kind # "Key"
             /\ Node(kind, 0, -1).len = 0 /\ Node(kind, 0, -1).count = 0
  BY NewNode DEF Containers
<1>5. /\ Lists(PutValue(x, p)) /\ (Awaits(x) => Ready(PutValue(x, p)))
      /\ \A kind : Inside(x, kind) => Inside(PutValue(x, p), kind)
  BY <1>2, <1>3 DEF PutValue
<1>6. ASSUME NEW kind \in Containers
      PROVE  /\ Lists(PutEmpty(x, kind)) /\ (Awaits(x) => Ready(PutEmpty(x, kind)))
             /\ \A k : Inside(x, k) => Inside(PutEmpty(x, kind), k)
  BY <1>2, <1>4 DEF PutEmpty
<1>7. QED
  BY <1>1, <1>5, <1>6

(* A scope that is opened has the slot behind the tape; the others keep    *)
(* theirs.                                                                 *)
LEMMA OpenSlots ==
  ASSUME NEW x, ScopesOK(x), Ordered(x), NEW kind \in Containers, NEW tag, NEW ws,
         NEW declared \in Nat \cup {-1}, NEW n, n = Len(x.stack), NEW e, e = Len(x.tape),
         NEW y, y = OpenScope(x, kind, tag, ws, declared)
  PROVE  /\ Len(y.stack) = n + 1 /\ y.stack[n + 1].start = x.start /\ y.stack[n + 1].cnt = x.cnt
         /\ \A d \in 1..n : y.stack[d] = x.stack[d]
         /\ \A d \in 1..n : Slot(y, d) = Slot(x, d) /\ CountIn(y, d) = CountIn(x, d)
         /\ Slot(y, n + 1) = e + 1 /\ CountIn(y, n + 1) = 0
         /\ Slots(y) = Slots(x) \cup {e + 1}
<1> DEFINE frame == [tag |-> tag, start |-> x.start, cnt |-> x.cnt]
           stack == Append(x.stack, frame)
<1>1. /\ x \in Builders /\ e \in Nat /\ n \in Nat /\ n >= 1 /\ x.start \in 1..e
  BY SlotFacts
<1>2. Len(stack) = n + 1 /\ stack[n + 1] = frame /\ \A d \in 1..n : stack[d] = x.stack[d]
  <2>1. x.stack \in Seq(Frames)
    BY <1>1, BuilderFields
  <2> HIDE DEF frame
  <2>2. QED
    BY <2>1
<1>3. y.stack = stack /\ y.start = e + 1 /\ y.cnt = 0
  BY DEF OpenScope
<1>4. frame.start = x.start /\ frame.cnt = x.cnt
  OBVIOUS
<1> HIDE DEF stack, frame
<1>5. \A d \in 1..n : Slot(y, d) = Slot(x, d) /\ CountIn(y, d) = CountIn(x, d)
  <2>1. ASSUME NEW d \in 1..n
        PROVE  Slot(y, d) = Slot(x, d) /\ CountIn(y, d) = CountIn(x, d)
    <3>1. CASE d = n
      <4>1. Slot(x, d) = x.start /\ CountIn(x, d) = x.cnt
        BY <3>1 DEF Slot, CountIn
      <4>2. d # Len(y.stack) /\ y.stack[d + 1].start = x.start /\ y.stack[d + 1].cnt = x.cnt
        BY <1>1, <1>2, <1>3, <1>4, <3>1
      <4>3. QED
        BY <4>1, <4>2 DEF Slot, CountIn
    <3>2. CASE d # n
      <4>1. Slot(x, d) = x.stack[d + 1].start /\ CountIn(x, d) = x.stack[d + 1].cnt
        BY <3>2 DEF Slot, CountIn
      <4>2. d + 1 \in 1..n /\ d # Len(y.stack)
        BY <1>1, <1>2, <1>3, <3>2
      <4>3. y.stack[d + 1] = x.stack[d + 1]
        BY <1>2, <1>3, <4>2
      <4>4. QED
        BY <4>1, <4>2, <4>3 DEF Slot, CountIn
    <3>3. QED
      BY <3>1, <3>2
  <2>2. QED
    BY <2>1
<1>6. Slots(y) = Slots(x) \cup {e + 1}
  <2>1. ASSUME NEW s \in Slots(y)
        PROVE  s \in Slots(x) \cup {e + 1}
    <3>1. CASE s = y.start
      BY <1>3, <3>1
    <3>2. CASE s # y.start
      <4>1. PICK d \in 2..(n + 1) : s = y.stack[d].start
        BY <1>2, <1>3, <3>2 DEF Slots
      <4>2. CASE d = n + 1
        BY <1>2, <1>3, <1>4, <4>1, <4>2 DEF Slots
      <4>3. CASE d # n + 1
        <5>1. d \in 2..n /\ d \in 1..n
          BY <1>1, <4>3
        <5>2. s = x.stack[d].start
          BY <1>2, <1>3, <4>1, <5>1
        <5>3. QED
          BY <5>1, <5>2 DEF Slots
      <4>4. QED
        BY <4>2, <4>3
    <3>3. QED
      BY <3>1, <3>2
  <2>2. e + 1 \in Slots(y)
    BY <1>3 DEF Slots
  <2>3. ASSUME NEW s \in Slots(x)
        PROVE  s \in Slots(y)
    <3>1. CASE s = x.start
      <4>1. n + 1 \in 2..Len(y.stack) /\ s = y.stack[n + 1].start
        BY <1>1, <1>2, <1>3, <1>4, <3>1
      <4>2. QED
        BY <4>1 DEF Slots
    <3>2. CASE s # x.start
      <4>1. PICK d \in 2..n : s = x.stack[d].start
        BY <3>2 DEF Slots
      <4>2. d \in 2..Len(y.stack) /\ s = y.stack[d].start
        BY <1>1, <1>2, <1>3, <4>1
      <4>3. QED
        BY <4>2 DEF Slots
    <3>3. QED
      BY <3>1, <3>2
  <2>4. QED
    BY <2>1, <2>2, <2>3
<1>7. Slot(y, n + 1) = e + 1 /\ CountIn(y, n + 1) = 0
  BY <1>2, <1>3 DEF Slot, CountIn
<1>8. QED
  BY <1>2, <1>3, <1>4, <1>5, <1>6, <1>7

(* open_scope! writes the container that is the awaited value, with        *)
(* nothing in it.                                                          *)
LEMMA OpenLists ==
  ASSUME NEW x, Lists(x), Awaits(x), NEW kind \in Containers, NEW tag, NEW ws,
         NEW declared \in Nat \cup {-1}, NEW y, y = OpenScope(x, kind, tag, ws, declared)
  PROVE  Listed(y) /\ Ready(y)
<1> DEFINE e == Len(x.tape)
           n == Len(x.stack)
           node == Node(kind, 0, declared)
           z == Write(x, node)
           tape == Append(x.tape, node)
<1>1. /\ x \in Builders /\ x.tape \in Seq(Nodes) /\ e \in Nat /\ n \in Nat /\ n >= 1
      /\ x.start \in 1..e
      /\ \A s \in Slots(x) : s \in 1..e /\ s <= x.start
      /\ \A d \in 1..n : Slot(x, d) \in Slots(x)
  BY SlotFacts DEF Lists
<1>2. node \in Nodes /\ node.kind = kind /\ node.len = 0 /\ node.count = 0 /\ node.kind # "Key"
  BY NewNode DEF Containers
<1> HIDE DEF node
<1>3. tape \in Seq(Nodes) /\ Len(tape) = e + 1 /\ \A k \in 1..e : tape[k] = x.tape[k]
  BY <1>1, <1>2
<1>4. z = [x EXCEPT !.tape = tape]
  BY DEF Write
<1>5. ScopesOK(x) /\ Ordered(x) /\ n = Len(x.stack) /\ e = Len(x.tape)
  BY DEF Lists
<1>6. y.tape = tape
  BY DEF OpenScope, node
<1>7. Lists(z) /\ Ready(z) /\ z.stack = x.stack /\ z.start = x.start /\ z.cnt = x.cnt
  BY <1>2, WriteLists
<1> HIDE DEF tape
<1>8. z.tape = tape
  BY <1>1, <1>3, <1>4 DEF Builders
<1> HIDE DEF z, e, n
<1>9. /\ Len(y.stack) = n + 1 /\ \A d \in 1..n : y.stack[d] = x.stack[d]
      /\ y.stack[n + 1].start = x.start /\ y.stack[n + 1].cnt = x.cnt
      /\ Slot(y, n + 1) = e + 1 /\ \A d \in 1..n : Slot(y, d) = Slot(x, d)
      /\ Slots(y) = Slots(x) \cup {e + 1}
  <2>1. y = OpenScope(x, kind, tag, ws, declared)
    OBVIOUS
  <2> HIDE DEF OpenScope
  <2>2. \A d \in 1..n : y.stack[d] = x.stack[d] /\ Slot(y, d) = Slot(x, d)
    BY ONLY <1>5, <2>1, OpenSlots
  <2>3. /\ Len(y.stack) = n + 1
        /\ y.stack[n + 1].start = x.start /\ y.stack[n + 1].cnt = x.cnt
        /\ Slot(y, n + 1) = e + 1 /\ Slots(y) = Slots(x) \cup {e + 1}
    BY ONLY <1>5, <2>1, OpenSlots
  <2>4. QED
    BY <2>2, <2>3
<1>10. y.start = e + 1 /\ y.cnt = 0
  BY DEF OpenScope, e
<1>11. Slots(z) = Slots(x) /\ \A d \in 1..n : Slot(z, d) = Slot(x, d)
  BY <1>7 DEF Slots, Slot
<1>13. Slot(y, 1) = 1
  <2>1. Slot(x, 1) = 1 /\ 1 \in 1..n
    BY <1>1 DEF Lists, Listed
  <2>2. QED
    BY <1>9, <2>1
<1>14. ASSUME NEW k \in (1..Len(y.tape)) \ Slots(y)
       PROVE  /\ NodeWellFormed(y.tape, k)
              /\ \A s \in Slots(y) : k < s => EndIn(y.tape, k) < s
  <2>1. k \in (1..Len(z.tape)) \ Slots(z)
    BY <1>6, <1>8, <1>11, <1>9
  <2>2. /\ NodeWellFormed(y.tape, k)
        /\ \A s \in Slots(x) : k < s => EndIn(y.tape, k) < s
    BY <1>6, <1>7, <1>8, <1>11, <2>1 DEF Lists, Listed
  <2>3. EndIn(y.tape, k) < e + 1
    <3>1. k \in (1..e) \ Slots(x)
      BY <1>1, <1>3, <1>6, <1>9
    <3>2. NodeWellFormed(x.tape, k)
      BY <3>1 DEF Lists, Listed, e
    <3>3. EndIn(x.tape, k) \in Nat /\ EndIn(x.tape, k) <= e
      BY <1>1, <3>1, <3>2, NodeNumbers DEF NodeWellFormed, e
    <3>4. EndIn(y.tape, k) = EndIn(x.tape, k)
      BY <1>3, <1>6, <3>1 DEF EndIn
    <3>5. QED
      BY <1>1, <3>3, <3>4
  <2>4. QED
    BY <1>9, <2>2, <2>3
<1>15. ASSUME NEW d \in 2..Len(y.stack)
       PROVE  Holds(y.tape, y.stack[d].start, Slot(y, d), y.stack[d].cnt)
  <2>1. CASE d = n + 1
    <3>1. y.stack[d].start = x.start /\ y.stack[d].cnt = x.cnt /\ Slot(y, d) = e + 1
      BY <1>9, <2>1
    <3>2. Holds(z.tape, x.start, Len(z.tape), x.cnt)
      BY <1>7 DEF Ready
    <3>3. QED
      BY <1>3, <1>6, <1>8, <3>1, <3>2
  <2>2. CASE d # n + 1
    <3>1. d \in 2..n /\ d \in 1..n
      BY <1>1, <1>9, <2>2
    <3>2. y.stack[d] = x.stack[d] /\ Slot(y, d) = Slot(z, d)
      BY <1>9, <1>11, <3>1
    <3>3. Holds(z.tape, z.stack[d].start, Slot(z, d), z.stack[d].cnt)
      BY <1>7, <3>1 DEF Lists, Listed, n
    <3>4. QED
      BY <1>6, <1>7, <1>8, <3>2, <3>3
  <2>3. QED
    BY <2>1, <2>2
<1>16. Listed(y)
  BY <1>13, <1>14, <1>15 DEF Listed
<1>17. Ready(y)
  <2>1. e + 1 \in Int /\ Len(y.tape) = e + 1
    BY <1>1, <1>3, <1>6
  <2>2. Holds(y.tape, e + 1, e + 1, 0)
    BY <2>1, HoldsNothing
  <2>3. QED
    BY <1>10, <2>1, <2>2 DEF Ready
<1>18. QED
  BY <1>16, <1>17

(* CloseScope backfills the innermost container: then every node that is   *)
(* not the slot of a scope still open is well formed.                      *)
LEMMA CloseFills ==
  ASSUME NEW x, Lists(x), Ready(x), NEW y, y = CloseScope(x)
  PROVE  /\ y.tape \in Seq(Nodes) /\ Len(y.tape) = Len(x.tape)
         /\ \A k \in 1..Len(x.tape) : k # x.start => y.tape[k] = x.tape[k]
         /\ y.tape[x.start].kind = x.tape[x.start].kind
         /\ EndIn(y.tape, x.start) = Len(x.tape)
         /\ \A k \in (1..Len(x.tape)) \ (Slots(x) \ {x.start}) :
              /\ NodeWellFormed(y.tape, k)
              /\ \A s \in Slots(x) \ {x.start} : k < s => EndIn(y.tape, k) < s
<1> DEFINE e == Len(x.tape)
           s == x.start
           n == e - s
           node == [x.tape[s] EXCEPT !.len = x.cnt, !.count = n]
           tape == Backfill(x, s, n)
<1>1. /\ x \in Builders /\ x.tape \in Seq(Nodes) /\ e \in Nat /\ x.cnt \in Nat
      /\ s \in 1..e /\ s \in Nat /\ s \in Slots(x) /\ x.tape[s].kind \in Containers
      /\ \A r \in Slots(x) : r \in 1..e /\ r <= s
  BY SlotFacts DEF Lists
<1>2. n \in Nat /\ s + n = e
  BY <1>1
<1>3. y.tape = tape
  BY DEF CloseScope, Close
<1>4. tape = [x.tape EXCEPT ![s] = node]
  BY <1>1 DEF Backfill
<1> HIDE DEF n
<1>5. node \in Nodes /\ node.kind = x.tape[s].kind /\ node.len = x.cnt /\ node.count = n
  <2>1. x.tape[s] \in Nodes
    BY <1>1
  <2>2. QED
    BY <1>1, <1>2, <2>1 DEF Nodes
<1> HIDE DEF node, tape
<1>6. /\ y.tape \in Seq(Nodes) /\ Len(y.tape) = e /\ y.tape[s] = node
      /\ \A k \in 1..e : k # s => y.tape[k] = x.tape[k]
  BY <1>1, <1>3, <1>4, <1>5
<1>7. EndIn(y.tape, s) = e
  BY <1>2, <1>5, <1>6 DEF EndIn
<1> HIDE DEF s, e
<1>8. ASSUME NEW k \in (1..e) \ Slots(x)
      PROVE  /\ NodeWellFormed(y.tape, k)
             /\ \A r \in Slots(x) : k < r => EndIn(y.tape, k) < r
             /\ EndIn(y.tape, k) <= e
  <2>1. NodeWellFormed(x.tape, k) /\ \A r \in Slots(x) : k < r => EndIn(x.tape, k) < r
    BY DEF Lists, Listed, e
  <2>2. EndIn(x.tape, k) \in Nat /\ EndIn(x.tape, k) <= e /\ k \in Nat
    BY <1>1, <2>1, NodeNumbers DEF NodeWellFormed, e
  <2>3. ASSUME NEW j \in k..EndIn(x.tape, k)
        PROVE  y.tape[j] = x.tape[j]
    <3>1. j \in 1..e /\ j # s
      BY <1>1, <2>1, <2>2
    <3>2. QED
      BY <1>6, <3>1
  <2>4. NodeWellFormed(y.tape, k) /\ EndIn(y.tape, k) = EndIn(x.tape, k)
    BY <1>1, <1>6, <2>1, <2>2, <2>3, StaysWellFormed DEF e
  <2>5. QED
    BY <2>1, <2>2, <2>4
<1>9. NodeWellFormed(y.tape, s)
  <2>1. Holds(y.tape, s, e, x.cnt)
    <3>1. Holds(x.tape, s, e, x.cnt)
      BY DEF Ready, s, e
    <3>2. \A j \in (s + 1)..e : y.tape[j] = x.tape[j]
      BY <1>1, <1>6
    <3>3. \A j \in (s + 1)..(e - 1) : j \in (s + 1)..e
      BY <1>1
    <3>4. s \in Int /\ e \in Int /\ y.tape[s].kind = x.tape[s].kind
      BY <1>1, <1>5, <1>6
    <3>5. QED
      BY <3>1, <3>2, <3>3, <3>4, SameEntries
  <2>2. \A j \in EntriesIn(y.tape, s, e) : EndIn(y.tape, j) <= e
    <3>1. EntriesIn(y.tape, s, e) \subseteq (s + 1)..e
      BY <1>1, EntriesFinite
    <3>2. \A j \in (s + 1)..e : j \in (1..e) \ Slots(x)
      BY <1>1
    <3>3. QED
      BY <1>8, <3>1, <3>2
  <2>3. y.tape[s].kind \in Containers /\ y.tape[s].len = x.cnt
    BY <1>1, <1>5, <1>6
  <2>4. e <= Len(y.tape)
    BY <1>1, <1>6
  <2>5. QED
    BY <1>7, <2>1, <2>2, <2>3, <2>4 DEF NodeWellFormed
<1>10. \A r \in Slots(x) \ {s} : ~ (s < r)
  BY <1>1
<1>11. QED
  BY <1>5, <1>6, <1>7, <1>8, <1>9, <1>10 DEF s, e

(* A scope that is closed gives up its slot; the others keep theirs.       *)
LEMMA CloseSlots ==
  ASSUME NEW x, ScopesOK(x), Ordered(x), NEW n, n = Len(x.stack), n >= 2,
         NEW y, y = CloseScope(x)
  PROVE  /\ Len(y.stack) = n - 1 /\ \A d \in 1..(n - 1) : y.stack[d] = x.stack[d]
         /\ y.start = x.stack[n].start /\ y.cnt = x.stack[n].cnt
         /\ \A d \in 1..(n - 1) : Slot(y, d) = Slot(x, d) /\ CountIn(y, d) = CountIn(x, d)
         /\ Slots(y) = Slots(x) \ {x.start}
<1> DEFINE s == x.start
           k == x.stack[n].start
<1>1. /\ x \in Builders /\ n \in Nat /\ x.stack \in Seq(Frames) /\ s \in Nat /\ s \in Slots(x)
      /\ \A r \in Slots(x) : r \in Nat /\ r <= s
      /\ \A d \in 1..n : Slot(x, d) \in Slots(x)
      /\ \A d \in 2..n : x.stack[d].start \in Slots(x) /\ x.stack[d].start < Slot(x, d)
  BY SlotFacts, BuilderFields
<1>2. /\ y.stack = Front(x.stack) /\ y.start = Last(x.stack).start
      /\ y.cnt = Last(x.stack).cnt
  BY DEF CloseScope, Close
<1> HIDE DEF s
<1>3. /\ Len(y.stack) = n - 1 /\ \A d \in 1..(n - 1) : y.stack[d] = x.stack[d]
      /\ y.start = k /\ y.cnt = x.stack[n].cnt
  <2>1. n >= 1
    BY <1>1
  <2>2. /\ Len(Front(x.stack)) = n - 1 /\ Last(x.stack) = x.stack[n]
        /\ \A d \in 1..(n - 1) : Front(x.stack)[d] = x.stack[d]
    BY <1>1, <2>1, FrontFacts
  <2>3. QED
    BY <1>2, <2>2
<1>4. n \in 2..n
  BY <1>1
<1>5. k \in Slots(x) /\ k < s
  <2>1. Slot(x, n) = s
    BY DEF Slot, s
  <2>2. QED
    BY <1>1, <1>4, <2>1
<1> HIDE DEF k
<1>6. \A d \in 1..(n - 1) : Slot(y, d) = Slot(x, d) /\ CountIn(y, d) = CountIn(x, d)
  <2>1. ASSUME NEW d \in 1..(n - 1)
        PROVE  Slot(y, d) = Slot(x, d) /\ CountIn(y, d) = CountIn(x, d)
    <3>1. d # n
      BY <1>1
    <3>2. Slot(x, d) = x.stack[d + 1].start /\ CountIn(x, d) = x.stack[d + 1].cnt
      BY <3>1 DEF Slot, CountIn
    <3>3. CASE d = n - 1
      <4>1. d + 1 = n
        BY <1>1, <3>3
      <4>2. QED
        BY <1>3, <3>2, <3>3, <4>1 DEF Slot, CountIn, k
    <3>4. CASE d # n - 1
      <4>1. d + 1 \in 1..(n - 1)
        BY <1>1, <3>4
      <4>2. y.stack[d + 1] = x.stack[d + 1]
        BY <1>3, <4>1
      <4>3. QED
        BY <1>3, <3>2, <3>4, <4>2 DEF Slot, CountIn
    <3>5. QED
      BY <3>3, <3>4
  <2>2. QED
    BY <2>1
<1>7. Slots(y) = Slots(x) \ {s}
  <2>1. ASSUME NEW r \in Slots(y)
        PROVE  r \in Slots(x) \ {s}
    <3>1. CASE r = y.start
      BY <1>1, <1>3, <1>5, <3>1
    <3>2. CASE r # y.start
      <4>1. PICK d \in 2..(n - 1) : r = y.stack[d].start
        BY <1>3, <3>2 DEF Slots
      <4>2. d \in 1..(n - 1) /\ d \in 2..n /\ d \in 1..n
        BY <1>1, <4>1
      <4>3. r = x.stack[d].start
        BY <1>3, <4>1, <4>2
      <4>4. r \in Slots(x) /\ r < Slot(x, d) /\ Slot(x, d) <= s /\ Slot(x, d) \in Nat
        BY <1>1, <4>2, <4>3
      <4>5. r # s
        BY <1>1, <4>4
      <4>6. QED
        BY <4>4, <4>5
    <3>3. QED
      BY <3>1, <3>2
  <2>2. ASSUME NEW r \in Slots(x), r # s
        PROVE  r \in Slots(y)
    <3>1. PICK d \in 2..n : r = x.stack[d].start
      BY <2>2 DEF Slots, s
    <3>2. CASE d = n
      BY <1>3, <3>1, <3>2 DEF Slots, k
    <3>3. CASE d # n
      <4>1. d \in 2..(n - 1) /\ d \in 1..(n - 1)
        BY <1>1, <3>1, <3>3
      <4>2. d \in 2..Len(y.stack) /\ r = y.stack[d].start
        BY <1>3, <3>1, <4>1
      <4>3. QED
        BY <4>2 DEF Slots
    <3>4. QED
      BY <3>2, <3>3
  <2>3. QED
    BY <2>1, <2>2
<1>8. QED
  BY <1>3, <1>6, <1>7 DEF k, s

(* Back in the scope around it the container is an entry that was counted. *)
LEMMA CloseLists ==
  ASSUME NEW x, Lists(x), Ready(x), Len(x.stack) >= 2, NEW y, y = CloseScope(x)
  PROVE  Listed(y) /\ Ready(y)
<1> DEFINE e == Len(x.tape)
           n == Len(x.stack)
           s == x.start
           k == x.stack[n].start
<1>1. /\ x \in Builders /\ x.tape \in Seq(Nodes) /\ e \in Nat /\ n \in Nat
      /\ x.stack \in Seq(Frames)
      /\ s \in 1..e /\ s \in Nat /\ s \in Slots(x)
      /\ \A r \in Slots(x) : r \in 1..e /\ r <= s
      /\ \A d \in 1..n : Slot(x, d) \in Slots(x)
      /\ \A d \in 2..n : x.stack[d].start \in Slots(x) /\ x.stack[d].start < Slot(x, d)
  BY SlotFacts, BuilderFields DEF Lists
<1>2. /\ y.tape \in Seq(Nodes) /\ Len(y.tape) = e
      /\ \A j \in 1..e : j # s => y.tape[j] = x.tape[j]
      /\ y.tape[s].kind = x.tape[s].kind
      /\ EndIn(y.tape, s) = e
      /\ \A j \in (1..e) \ (Slots(x) \ {s}) :
           /\ NodeWellFormed(y.tape, j)
           /\ \A r \in Slots(x) \ {s} : j < r => EndIn(y.tape, j) < r
  BY CloseFills
<1> HIDE DEF e, s
<1>3. n \in 2..n /\ n >= 2
  BY <1>1
<1>4. ScopesOK(x) /\ Ordered(x) /\ n = Len(x.stack)
  BY DEF Lists
<1>5. /\ Len(y.stack) = n - 1 /\ \A d \in 1..(n - 1) : y.stack[d] = x.stack[d]
      /\ y.start = x.stack[n].start /\ y.cnt = x.stack[n].cnt
      /\ \A d \in 1..(n - 1) : Slot(y, d) = Slot(x, d)
      /\ Slots(y) = Slots(x) \ {x.start}
  <2> HIDE DEF n, k
  <2>1. QED
    BY <1>3, <1>4, CloseSlots
<1>6. k \in Slots(x) /\ k \in 1..e /\ k < s
  <2>1. Slot(x, n) = s
    BY DEF Slot, s
  <2>2. QED
    BY <1>1, <1>3, <2>1
<1>7. y.start = k
  BY <1>5
<1>8. Slots(y) = Slots(x) \ {s}
  BY <1>5 DEF s
<1> HIDE DEF n, k
<1>9. Slot(y, 1) = 1
  <2>1. Slot(x, 1) = 1
    BY DEF Lists, Listed
  <2>2. 1 \in 1..(n - 1)
    BY <1>1, <1>3
  <2>3. QED
    BY <1>5, <2>1, <2>2
<1>10. ASSUME NEW d \in 2..n
       PROVE  Holds(y.tape, x.stack[d].start, Slot(x, d), x.stack[d].cnt)
  <2> DEFINE p == x.stack[d].start
             q == Slot(x, d)
  <2>1. p \in 1..e /\ q \in 1..e /\ p < q /\ q <= s
    <3>1. d \in 1..n
      BY <1>1
    <3>2. QED
      BY <1>1, <3>1
  <2>2. Holds(x.tape, p, q, x.stack[d].cnt)
    BY DEF Lists, Listed, n
  <2> HIDE DEF p, q
  <2>3. p \in Int /\ q \in Int /\ p \in Nat /\ q \in Nat
    BY <2>1
  <2>4. \A j \in p..q : j \in 1..e /\ (j = s \/ y.tape[j] = x.tape[j])
    <3>1. \A j \in p..q : j \in 1..e
      BY <1>1, <2>1, <2>3
    <3>2. QED
      BY <1>2, <3>1
  <2>5. \A j \in p..q : y.tape[j].kind = x.tape[j].kind
    BY <1>2, <2>4
  <2>6. \A j \in p..(q - 1) : y.tape[j] = x.tape[j]
    <3>1. \A j \in p..(q - 1) : j \in p..q /\ j # s
      BY <1>1, <2>1, <2>3
    <3>2. QED
      BY <2>4, <3>1
  <2>7. /\ p \in p..q /\ \A j \in (p + 1)..q : j \in p..q
        /\ \A j \in (p + 1)..(q - 1) : j \in p..(q - 1)
    BY <2>1, <2>3
  <2>8. /\ y.tape[p].kind = x.tape[p].kind
        /\ \A j \in (p + 1)..q : y.tape[j].kind = x.tape[j].kind
        /\ \A j \in (p + 1)..(q - 1) : y.tape[j].count = x.tape[j].count
    BY <2>5, <2>6, <2>7
  <2>9. Holds(y.tape, p, q, x.stack[d].cnt)
    BY <2>2, <2>3, <2>8, SameEntries
  <2>10. QED
    BY <2>9 DEF p, q
<1>11. Listed(y)
  <2>1. ASSUME NEW j \in (1..Len(y.tape)) \ Slots(y)
        PROVE  /\ NodeWellFormed(y.tape, j)
               /\ \A r \in Slots(y) : j < r => EndIn(y.tape, j) < r
    BY <1>2, <1>8
  <2>2. ASSUME NEW d \in 2..Len(y.stack)
        PROVE  Holds(y.tape, y.stack[d].start, Slot(y, d), y.stack[d].cnt)
    <3>1. d \in 1..(n - 1) /\ d \in 2..n
      BY <1>1, <1>5
    <3>2. y.stack[d] = x.stack[d] /\ Slot(y, d) = Slot(x, d)
      BY <1>5, <3>1
    <3>3. QED
      BY <1>10, <3>1, <3>2
  <2>3. QED
    BY <1>9, <2>1, <2>2 DEF Listed
<1>12. Ready(y)
  <2>1. Holds(y.tape, k, s, y.cnt)
    <3>1. Slot(x, n) = s
      BY DEF Slot, n, s
    <3>2. QED
      BY <1>3, <1>5, <1>10, <3>1 DEF k
  <2>2. EntriesIn(y.tape, k, e) = EntriesIn(y.tape, k, s)
    <3>1. ASSUME NEW j \in EntriesIn(y.tape, k, e)
          PROVE  j \in EntriesIn(y.tape, k, s)
      <4>1. j \in (k + 1)..e /\ \A m \in (k + 1)..(j - 1) : EndIn(y.tape, m) < j
        BY DEF EntriesIn
      <4>2. ~ (s < j)
        <5>1. s < j => s \in (k + 1)..(j - 1)
          BY <1>1, <1>6, <4>1
        <5>2. ~ (e < j)
          BY <1>1, <4>1
        <5>3. QED
          BY <1>2, <4>1, <5>1, <5>2
      <4>3. j \in (k + 1)..s
        BY <1>1, <1>6, <4>1, <4>2
      <4>4. QED
        BY <4>1, <4>3 DEF EntriesIn
    <3>2. ASSUME NEW j \in EntriesIn(y.tape, k, s)
          PROVE  j \in EntriesIn(y.tape, k, e)
      <4>1. j \in (k + 1)..s /\ \A m \in (k + 1)..(j - 1) : EndIn(y.tape, m) < j
        BY DEF EntriesIn
      <4>2. j \in (k + 1)..e
        BY <1>1, <1>6, <4>1
      <4>3. QED
        BY <4>1, <4>2 DEF EntriesIn
    <3>3. QED
      BY <3>1, <3>2
  <2>3. Holds(y.tape, k, e, y.cnt)
    BY <2>1, <2>2 DEF Holds, KeysIn
  <2>4. QED
    BY <1>2, <1>7, <2>3 DEF Ready
<1>13. QED
  BY <1>11, <1>12

(* The end of the outermost scope completes the tape.                      *)
LEMMA CloseCompletes ==
  ASSUME NEW x, Lists(x), Ready(x), Len(x.stack) = 1, NEW y, y = CloseScope(x)
  PROVE  WholeTapeWellFormed(y.tape)
<1>1. /\ x.tape \in Seq(Nodes) /\ Len(x.tape) \in Nat /\ x.start \in 1..Len(x.tape)
      /\ x.tape[x.start].kind \in Containers
  BY SlotFacts DEF Lists
<1>2. x.start = 1
  BY DEF Lists, Listed, Slot
<1>3. Slots(x) \ {x.start} = {}
  <2>1. 2..Len(x.stack) = {}
    OBVIOUS
  <2>2. QED
    BY <2>1 DEF Slots
<1>4. /\ y.tape \in Seq(Nodes) /\ Len(y.tape) = Len(x.tape)
      /\ y.tape[1].kind \in Containers /\ EndIn(y.tape, 1) = Len(y.tape)
      /\ \A k \in 1..Len(y.tape) : NodeWellFormed(y.tape, k)
  BY <1>1, <1>2, <1>3, CloseFills
<1>5. y.tape # << >> /\ y.tape[1].kind # "Key"
  BY <1>1, <1>4 DEF Containers
<1>6. QED
  BY <1>4, <1>5 DEF WholeTapeWellFormed

-----------------------------------------------------------------------------
(* Every step keeps the scopes listed.                                     *)

(* The next state. *)
ListNext ==
  lapses' = {} =>
    \/ pc' \in {"Failed", "Panicked"}
    \/ pc' = "Success" /\ WholeTapeWellFormed(b'.tape)
    \/ pc' \notin Final \cup {"Start"} /\ Listed(b') /\ Filling(pc', hdr', b')

(* The invariant speaks of nothing else.                                   *)
LEMMA ListNextSuffices ==
  ASSUME ListNext
  PROVE  ListInv'
<1>1. ListInv' <=> (lapses' = {} => /\ pc' = "Start" => b'.tape = << >>
                                    /\ Running' => Listed(b') /\ Filling(pc', hdr', b')
                                    /\ pc' = "Success" => WholeTapeWellFormed(b'.tape))
  BY DEF ListInv
<1>2. Running' <=> pc' \notin Final \cup {"Start"}
  BY DEF Running, Done, Final
<1>3. QED
  BY <1>1, <1>2 DEF ListNext, Final

(* What the invariant says of this state. *)
LEMMA ListNow ==
  ASSUME IndInv, NestInv, ListInv, lapses = {}, pc \notin Final \cup {"Start"}
  PROVE  /\ Lists(b) /\ Filling(pc, hdr, b) /\ AtHome(pc, hdr, cell, b, pending)
         /\ ScopesOK(b) /\ b \in Builders
<1>1. /\ ScopesIn(b, Base(pc, hdr, cell, b), pending, Clean)
      /\ Clean => AtHome(pc, hdr, cell, b, pending)
      /\ b \in Builders
  BY Now
<1>2. Clean
  BY DEF Clean
<1>3. Listed(b) /\ Filling(pc, hdr, b)
  BY DEF ListInv, Running, Done, Final
<1>4. QED
  BY <1>1, <1>2, <1>3 DEF ScopesIn, Lists

(* The position of the cursor.                                             *)
LEMMA CursorFacts ==
  ASSUME IndInv
  PROVE  i \in Nat /\ N \in Nat /\ i <= N
<1>1. N \in Nat /\ i \in 1..N
  BY Here
<1>2. QED
  BY <1>1

(* The States that find what was counted.                                  *)
Filled == {"ParseHeader", "ScopeEnd", "ExpectBlockArrayItem", "Row", "Cell", "EndRow"}

(* Steps to one of them. *)
LEMMA ArrivesListed ==
  ASSUME pc' \in Filled, Listed(b'), Ready(b')
  PROVE  ListNext
BY DEF ListNext, Filled, Filling, HeaderStates, TableStates, Final

(* Handing a header over to its State: a field writes its key, and what has*)
(* no key is an entry that was counted, or the root.                       *)
LEMMA DispatchLists ==
  ASSUME NEW h, HeaderOK(h), NEW x, Lists(x), NEW first \in BOOLEAN, Dispatch(h, x, first),
         IF h.key = 0 /\ ~first THEN Awaits(x) ELSE Ready(x),
         h.type = "ObjectStart" => Inside(x, "Object")
  PROVE  ListNext
<1>1. h \in Headers /\ h.key \in Nat
  BY DEF HeaderOK, Headers
<1>2. hdr'.root = (first /\ h.key = 0) /\ hdr'.key = h.key
  BY <1>1 DEF Dispatch, Headers
<1>3. CASE pc' = "ParseSimpleObjectValue" /\ b' = PutKey(x, h.key) /\ h.type = "ObjectStart"
  <2>1. h.key # 0
    BY <1>3 DEF HeaderOK
  <2>2. Lists(b') /\ Awaits(b')
    BY <1>1, <1>3, <2>1, PutLists
  <2>3. QED
    BY <1>3, <2>2 DEF ListNext, Lists, Filling, HeaderStates, TableStates, Final
<1>4. CASE b' = x /\ pc' \in HeaderStates
  <2>1. pc' \notin Final \cup {"Start", "ParseSimpleObjectValue", "Element"}
    BY <1>4 DEF HeaderStates, TableStates, Final
  <2>2. Filling(pc', hdr', b')
    BY <1>2, <1>4, <2>1 DEF Filling
  <2>3. QED
    BY <1>4, <2>1, <2>2 DEF ListNext, Lists
<1>5. CASE pc' = "Failed"
  BY <1>5 DEF ListNext
<1>6. QED
  <2>1. CASE h.type = "ObjectStart"
    BY <1>3, <1>5, <2>1 DEF Dispatch, Goto, Fail
  <2>2. CASE h.type = "SimpleArray"
    BY <1>4, <1>5, <2>2 DEF Dispatch, Goto, Fail, HeaderStates
  <2>3. CASE h.type \in ContainerTypes \ {"SimpleArray"}
    <3>1. Arm(h.type, first) \in HeaderStates
      BY <2>3 DEF Arm, ContainerTypes, HeaderStates, TableStates
    <3>2. pc' = Arm(h.type, first) /\ b' = x
      BY <2>3 DEF Dispatch, Goto, ContainerTypes
    <3>3. QED
      BY <1>4, <3>1, <3>2
  <2>4. CASE h.type \notin ContainerTypes \cup {"ObjectStart"}
    BY <1>5, <2>4 DEF Dispatch, Fail, ContainerTypes
  <2>5. QED
    BY <2>1, <2>2, <2>3, <2>4

(* The prologue writes an empty root, or the value that is all there is.   *)
LEMMA StartLists ==
  ASSUME IndInv, ListInv, Start
  PROVE  ListNext
<1> DEFINE first == IF Tok(1) = "#" THEN 2 ELSE 1
           lines == {j \in first..N : Tok(j) # "NL"}
           p == Min(lines)
           h == ReadHeader(p)
           array == h.key = 0 /\ h.type \in {"SimpleArray", "EmptyArray", "TabularArray",
                                             "NestedFieldGroupsArray"}
           kind == IF array THEN "Array" ELSE "Object"
           node == Node(kind, 0, IF h.key = 0 THEN h.n ELSE -1)
           root == [stack   |-> <<[tag |-> "Start", start |-> 1, cnt |-> 0]>>,
                    indents |-> <<0>>, start |-> 1, cnt |-> 0,
                    tape    |-> <<node>>]
<1>1. toks \in Document /\ N \in Nat /\ b \in Builders
  BY Here
<1>2. lines # {} => HeaderOK(h)
  <2>1. lines # {} => p \in 1..N
    BY <1>1, MinOfNaturals
  <2>2. QED
    BY <1>1, <2>1, ReadHeaderFacts
<1>3. CASE lines # {} /\ Dispatch(h, root, TRUE)
  <2>1. HeaderOK(h) /\ h.key \in Nat /\ h.n \in Nat
    BY <1>2, <1>3 DEF HeaderOK, Headers
  <2>2. kind \in Containers
    BY DEF Containers
  <2>3. node \in Nodes /\ node.kind = kind /\ node.len = 0 /\ node.count = 0
    BY <2>1, <2>2, NewNode
  <2>4. h.type = "ObjectStart" => kind = "Object"
    OBVIOUS
  <2> HIDE DEF node, kind
  <2>5. root \in Builders
    <3>1. [tag |-> "Start", start |-> 1, cnt |-> 0] \in Frames
      BY DEF Frames
    <3>2. QED
      BY <2>3, <3>1 DEF Builders
  <2>6. /\ ScopesOK(root) /\ Len(root.stack) = 1 /\ Len(root.indents) = 1 /\ Inside(root, kind)
        /\ root.start = 1 /\ root.cnt = 0 /\ Len(root.tape) = 1
    BY <2>2, <2>3, <2>5 DEF ScopesOK, Inside
  <2> HIDE DEF root, h
  <2>7. Ordered(root)
    BY <2>6 DEF Ordered
  <2>8. Slots(root) = {1} /\ Slot(root, 1) = 1
    <3>1. 2..Len(root.stack) = {}
      BY <2>6
    <3>2. QED
      BY <2>6, <3>1 DEF Slots, Slot
  <2>9. Listed(root)
    <3>1. (1..Len(root.tape)) \ Slots(root) = {} /\ 2..Len(root.stack) = {}
      BY <2>6, <2>8
    <3>2. QED
      BY <2>8, <3>1 DEF Listed
  <2>10. Ready(root)
    <3>1. Holds(root.tape, 1, 1, 0)
      BY HoldsNothing
    <3>2. QED
      BY <2>6, <3>1 DEF Ready
  <2>11. h.type = "ObjectStart" => Inside(root, "Object")
    BY <2>4, <2>6
  <2>12. Lists(root)
    BY <2>6, <2>7, <2>9 DEF Lists
  <2>13. QED
    BY <1>3, <2>1, <2>10, <2>11, <2>12, DispatchLists
<1>4. CASE lines # {} /\ Goto("Success", PutValue(b, h.key), N)
  <2> DEFINE value == Node("Value", h.key, -1)
  <2>1. h.key \in Nat
    BY <1>2, <1>4 DEF HeaderOK, Headers
  <2>2. value \in Nodes /\ value.kind = "Value" /\ value.len = 0 /\ value.count = 0
    BY <2>1, NewNode
  <2>3. pc' = "Success" /\ b' = Write(b, value)
    BY <1>4 DEF Goto, PutValue
  <2> HIDE DEF value
  <2>4. CASE lapses' = {}
    <3>1. lapses = {} /\ pc = "Start"
      BY <2>4 DEF Start
    <3>2. b.tape = << >>
      BY <3>1 DEF ListInv
    <3>3. b'.tape = <<value>>
      BY <1>1, <2>3, <3>2 DEF Write, Builders
    <3>4. b'.tape \in Seq(Nodes) /\ Len(b'.tape) = 1 /\ b'.tape[1] = value
      BY <2>2, <3>3
    <3>5. NodeWellFormed(b'.tape, 1) /\ EndIn(b'.tape, 1) = 1
      BY <2>2, <3>4, LeafWellFormed
    <3>6. WholeTapeWellFormed(b'.tape)
      <4>1. b'.tape # << >> /\ b'.tape[1].kind # "Key"
        BY <2>2, <3>4
      <4>2. \A k \in 1..1 : k = 1
        OBVIOUS
      <4>3. QED
        BY <3>4, <3>5, <4>1, <4>2 DEF WholeTapeWellFormed
    <3>7. QED
      BY <2>3, <3>6 DEF ListNext
  <2>5. QED
    BY <2>4 DEF ListNext
<1>5. CASE pc' = "Failed"
  BY <1>5 DEF ListNext
<1>6. QED
  BY <1>3, <1>4, <1>5 DEF Start, Fail

(* A field's key is counted, unless the header has none.                   *)
LEMMA ParseHeaderLists ==
  ASSUME IndInv, NestInv, ListInv, ParseHeader
  PROVE  ListNext
<1> DEFINE h == ReadHeader(i)
<1>1. /\ pc = "ParseHeader" /\ Dispatch(h, b, FALSE)
      /\ lapses' = IF h.key = 0 /\ pc' # "Failed" THEN lapses \cup {"keyless field"} ELSE lapses
  BY DEF ParseHeader
<1>2. HeaderOK(h)
  BY Here, ReadHeaderFacts
<1> HIDE DEF h
<1>3. CASE lapses' = {} /\ pc' # "Failed"
  <2>1. lapses = {} /\ h.key # 0
    BY <1>1, <1>3
  <2>2. Lists(b) /\ Ready(b) /\ Inside(b, "Object")
    BY <1>1, <2>1, ListNow DEF Final, Filling, AtHome, HeaderStates, TableStates
  <2>3. QED
    BY <1>1, <1>2, <2>1, <2>2, DispatchLists
<1>4. QED
  BY <1>3 DEF ListNext

(* Behind a key comes a value, or nothing, which is a lapse.               *)
LEMMA ParseSimpleObjectValueWrites ==
  ASSUME IndInv, ParseSimpleObjectValue
  PROVE  \/ pc' = "Failed"
         \/ /\ pc' \in {"ParseHeader", "ScopeEnd"}
            /\ b' \in {PutValue(b, i), PutEmpty(b, "Array"), PutEmpty(b, "Object"),
                       OpenScope(b, "Object", "Object", Indent(b) + IndentSize, -1)}
         \/ pc' = "ScopeEnd" /\ b' = b /\ lapses' = lapses \cup {"no value"}
<1> DEFINE open == OpenScope(b, "Object", "Object", Indent(b) + IndentSize, -1)
           written == {PutValue(b, i), PutEmpty(b, "Array"), PutEmpty(b, "Object"), open}
           e == EolState(i, b, pending, FALSE)
<1>1. SUFFICES \/ pc' = "Failed"
               \/ pc' \in {"ParseHeader", "ScopeEnd"} /\ b' \in written
               \/ pc' = "ScopeEnd" /\ b' = b /\ lapses' = lapses \cup {"no value"}
  OBVIOUS
<1>2. i \in Nat /\ N \in Nat /\ i <= N
  BY CursorFacts
<1>3. e.is \in {"Sibling", "Nested", "CloseScope", "Fail"}
  BY EolAnswers
<1>4. CASE Tok(i) = "NL" /\ i < N
  <2> HIDE DEF e, open
  <2>1. i # N
    BY <1>2, <1>4
  <2>2. CASE e.is = "Nested"
    <3>1. Follow(e, open, [Nested |-> "ParseHeader"])
      BY <1>4, <2>1, <2>2 DEF ParseSimpleObjectValue, e, open
    <3>2. QED
      BY <3>1, FollowsOne
  <2>3. CASE e.is = "Sibling"
    <3>1. Follow(e, PutEmpty(b, "Object"), [Sibling |-> "ParseHeader"])
      BY <1>4, <2>1, <2>3 DEF ParseSimpleObjectValue, e
    <3>2. QED
      BY <3>1, FollowsOne
  <2>4. CASE e.is = "CloseScope"
    <3>1. /\ lapses' = lapses \cup {"no value"}
          /\ Follow(e, b, [CloseScope |-> "ScopeEnd"])
      BY <1>4, <2>1, <2>4 DEF ParseSimpleObjectValue, e
    <3>2. QED
      BY <3>1, FollowsOne
  <2>5. CASE e.is = "Fail"
    BY <1>4, <2>1, <2>5 DEF ParseSimpleObjectValue, Fail, e
  <2>6. QED
    BY <1>3, <2>2, <2>3, <2>4, <2>5
<1>5. CASE Tok(i) = "NL" /\ i = N
  <2>1. ~ (i < N)
    BY <1>2, <1>5
  <2>2. Goto("ScopeEnd", PutEmpty(b, "Object"), i)
    BY <1>5, <2>1 DEF ParseSimpleObjectValue
  <2>3. QED
    BY <2>2 DEF Goto
<1>6. CASE Tok(i) # "NL"
  <2> DEFINE end == ValueEnd(i, {})
             x == IF IsEmptyList(i, end) THEN PutEmpty(b, "Array") ELSE PutValue(b, i)
             f == EolState(end, x, pending, FALSE)
             arms == [Sibling |-> "ParseHeader", CloseScope |-> "ScopeEnd"]
  <2>1. Follow(f, x, arms) \/ Fail
    BY <1>6 DEF ParseSimpleObjectValue
  <2>2. x \in written
    OBVIOUS
  <2> HIDE DEF x, f, end
  <2>3. pc' = "Failed" \/ (pc' \in {"ParseHeader", "ScopeEnd"} /\ b' = x)
    BY <2>1, FollowsTwo DEF Fail
  <2>4. QED
    BY <2>2, <2>3
<1>7. i < N \/ i = N
  BY <1>2
<1> HIDE DEF written
<1>8. QED
  BY <1>4, <1>5, <1>6, <1>7

(* The value of a field completes the entry of its key.                    *)
LEMMA ParseSimpleObjectValueLists ==
  ASSUME IndInv, NestInv, ListInv, ParseSimpleObjectValue
  PROVE  ListNext
<1> DEFINE open == OpenScope(b, "Object", "Object", Indent(b) + IndentSize, -1)
           written == {PutValue(b, i), PutEmpty(b, "Array"), PutEmpty(b, "Object"), open}
<1>1. pc = "ParseSimpleObjectValue"
  BY DEF ParseSimpleObjectValue
<1>2. SUFFICES ASSUME lapses' = {}
               PROVE  ListNext
  BY DEF ListNext
<1>3. lapses = {}
  BY <1>2 DEF ParseSimpleObjectValue
<1>4. Lists(b) /\ Awaits(b) /\ i \in Nat
  BY <1>1, <1>3, ListNow, CursorFacts DEF Final, Filling
<1>5. ASSUME b' \in written, pc' \in {"ParseHeader", "ScopeEnd"}
      PROVE  ListNext
  <2>1. /\ Listed(PutValue(b, i)) /\ Ready(PutValue(b, i))
        /\ Listed(PutEmpty(b, "Array")) /\ Ready(PutEmpty(b, "Array"))
        /\ Listed(PutEmpty(b, "Object")) /\ Ready(PutEmpty(b, "Object"))
    BY <1>4, PutLists DEF Containers, Lists
  <2>2. Listed(open) /\ Ready(open)
    BY <1>4, OpenLists DEF Containers
  <2> HIDE DEF open
  <2>3. Listed(b') /\ Ready(b')
    BY <1>5, <2>1, <2>2
  <2>4. QED
    BY <1>5, <2>3, ArrivesListed DEF Filled
<1>6. CASE pc' = "Failed"
  BY <1>6 DEF ListNext
<1>7. QED
  BY <1>2, <1>5, <1>6, ParseSimpleObjectValueWrites

(* The container of the header at hand is the awaited value, or the root.  *)
LEMMA EnterLists ==
  ASSUME IndInv, NestInv, ListInv, lapses = {}, pc \in HeaderStates, NEW kind \in Containers,
         NEW ws, NEW x, x = Enter(PutHeaderKey(b, hdr.key), kind, ws)
  PROVE  Listed(x) /\ Ready(x)
<1> DEFINE y == PutHeaderKey(b, hdr.key)
<1>1. pc \notin Final \cup {"Start", "ParseSimpleObjectValue"}
  BY DEF HeaderStates, TableStates, Final
<1>2. Lists(b) /\ Filling(pc, hdr, b) /\ AtHome(pc, hdr, cell, b, pending) /\ b \in Builders
  BY <1>1, ListNow
<1>3. hdr.key \in Nat /\ hdr.n \in Nat /\ hdr.root \in BOOLEAN
  BY Here
<1>4. CASE hdr.root
  <2> DEFINE indents == Append(b.indents, ws)
  <2>1. hdr.key = 0 /\ Ready(b)
    BY <1>1, <1>2, <1>4 DEF Filling
  <2>2. x = [b EXCEPT !.indents = indents]
    BY <1>4, <2>1 DEF Enter, PutHeaderKey
  <2> HIDE DEF indents
  <2>3. x.tape = b.tape /\ x.stack = b.stack /\ x.start = b.start /\ x.cnt = b.cnt
    BY <1>2, <2>2 DEF Builders
  <2>4. Slots(x) = Slots(b) /\ \A d : Slot(x, d) = Slot(b, d)
    BY <2>3 DEF Slots, Slot
  <2>5. Listed(x)
    BY <1>2, <2>3, <2>4 DEF Lists, Listed
  <2>6. QED
    BY <2>1, <2>3, <2>5 DEF Ready
<1>5. CASE ~ hdr.root
  <2>1. Lists(y) /\ Awaits(y)
    <3>1. CASE hdr.key = 0
      BY <1>2, <1>5, <3>1 DEF Filling, PutHeaderKey
    <3>2. CASE hdr.key # 0
      <4>1. Ready(b) /\ Inside(b, "Object")
        BY <1>1, <1>2, <1>5, <3>2 DEF Filling, AtHome, FrameTag
      <4>2. QED
        BY <1>2, <1>3, <3>2, <4>1, PutLists DEF PutHeaderKey
    <3>3. QED
      BY <3>1, <3>2
  <2>2. x = OpenScope(y, kind, FrameTag(hdr.key), ws, hdr.n)
    BY <1>5 DEF Enter
  <2> HIDE DEF y
  <2>3. QED
    BY <1>3, <2>1, <2>2, OpenLists
<1>6. QED
  BY <1>3, <1>4, <1>5

(* An empty array is closed next.                                          *)
LEMMA ParseEmptyArrayLists ==
  ASSUME IndInv, NestInv, ListInv, ParseEmptyArray
  PROVE  ListNext
<1> DEFINE y == PutHeaderKey(b, hdr.key)
           x == Enter(y, "Array", Indent(y) + IndentSize)
           e == EolState(i + 1, x, pending, FALSE)
           arms == [Sibling |-> "ScopeEnd", CloseScope |-> "ScopeEnd"]
<1>1. pc = "ParseEmptyArray" /\ UNCHANGED lapses
  BY DEF ParseEmptyArray
<1>2. lapses = {} => Listed(x) /\ Ready(x)
  BY <1>1, EnterLists DEF HeaderStates, Containers
<1>3. Follow(e, x, arms) \/ Fail
  BY DEF ParseEmptyArray
<1> HIDE DEF e, x
<1>4. pc' = "Failed" \/ (pc' = "ScopeEnd" /\ b' = x)
  BY <1>3, FollowsTwo DEF Fail
<1>5. QED
  BY <1>1, <1>2, <1>4, ArrivesListed DEF ListNext, Filled

(* The elements of an inline array come behind its slot.                   *)
LEMMA ParseInlineArrayLists ==
  ASSUME IndInv, NestInv, ListInv, ParseInlineArray
  PROVE  ListNext
<1> DEFINE y == PutHeaderKey(b, hdr.key)
           ws == IF hdr.root THEN Indent(y) + IndentSize ELSE Indent(y)
           x == Enter(y, "Array", ws)
<1>1. pc = "ParseInlineArray" /\ UNCHANGED lapses
  BY DEF ParseInlineArray
<1>2. ws \in {Indent(y), Indent(y) + IndentSize} /\ pc \in HeaderStates /\ "Array" \in Containers
      /\ TableKind(pc) = "Array"
  BY <1>1 DEF HeaderStates, Containers, TableKind
<1>3. pc' = "Failed" \/ (pc' = "Element" /\ b' = x)
  BY DEF ParseInlineArray, Goto, Fail
<1> HIDE DEF ws
<1>4. lapses = {} => Listed(x) /\ Ready(x)
  BY <1>2, EnterLists
<1>5. Clean => Inside(x, "Array")
  BY <1>2, EnterNests
<1> HIDE DEF x
<1>6. CASE lapses = {} /\ pc' = "Element" /\ b' = x
  BY <1>4, <1>5, <1>6 DEF ListNext, Filling, HeaderStates, TableStates, Final, Clean
<1>7. QED
  BY <1>1, <1>3, <1>6 DEF ListNext

(* An element is counted and written.                                      *)
LEMMA ElementLists ==
  ASSUME IndInv, NestInv, ListInv, Element
  PROVE  ListNext
<1> DEFINE y == Counted(b)
           x == PutValue(y, i)
           delims == IF left > 1 THEN {hdr.delim} ELSE {"NL"}
           end == ValueEnd(i, delims)
           e == EolState(end, x, pending, TRUE)
           arms == [Sibling |-> "ScopeEnd", CloseScope |-> "ScopeEnd"]
<1>1. pc = "Element" /\ UNCHANGED lapses
  BY DEF Element, ElementEnds
<1>2. Follow(e, x, arms) \/ Goto("Element", x, end + 1) \/ Fail
  BY DEF Element, ElementEnds
<1>3. lapses = {} => Listed(x) /\ Ready(x) /\ Inside(x, "Array")
  <2>1. SUFFICES ASSUME lapses = {}
                 PROVE  Listed(x) /\ Ready(x) /\ Inside(x, "Array")
    OBVIOUS
  <2>2. Lists(b) /\ Ready(b) /\ Inside(b, "Array") /\ i \in Nat
    BY <1>1, <2>1, ListNow, CursorFacts DEF Final, Filling, HeaderStates, TableStates
  <2>3. Lists(y) /\ Awaits(y) /\ Inside(y, "Array")
    BY <2>2, CountedLists
  <2> HIDE DEF y
  <2>4. QED
    BY <2>2, <2>3, PutLists DEF Lists
<1> HIDE DEF e, x, end
<1>4. pc' = "Failed" \/ (pc' \in {"Element", "ScopeEnd"} /\ b' = x)
  BY <1>2, FollowsTwo DEF Goto, Fail
<1>5. QED
  BY <1>1, <1>3, <1>4 DEF ListNext, Filling, HeaderStates, TableStates, Final

(* The items of a block array come behind its slot.                        *)
LEMMA ParseBlockArrayLists ==
  ASSUME IndInv, NestInv, ListInv, ParseBlockArray
  PROVE  ListNext
<1> DEFINE y == PutHeaderKey(b, hdr.key)
           x == Enter(y, "Array", Indent(y) + IndentSize)
           e == EolState(i, y, pending, FALSE)
<1>1. pc = "ParseBlockArray" /\ UNCHANGED lapses
  BY DEF ParseBlockArray
<1>2. lapses = {} => Listed(x) /\ Ready(x)
  BY <1>1, EnterLists DEF HeaderStates, Containers
<1>3. Follow(e, x, [Nested |-> "ExpectBlockArrayItem"]) \/ Fail
  BY DEF ParseBlockArray
<1> HIDE DEF e, x
<1>4. pc' = "Failed" \/ (pc' = "ExpectBlockArrayItem" /\ b' = x)
  BY <1>3, FollowsOne DEF Fail
<1>5. QED
  BY <1>1, <1>2, <1>4, ArrivesListed DEF ListNext, Filled

(* An item is counted, and is a value or a container.                      *)
LEMMA ExpectBlockArrayItemLists ==
  ASSUME IndInv, NestInv, ListInv, ExpectBlockArrayItem
  PROVE  ListNext
<1> DEFINE h       == ReadHeader(i + 1)
           x       == Counted(b)
           simple  == h.type \in {"PrimitiveValue", "EmptyObject"}
           y       == IF h.type = "EmptyObject" THEN PutEmpty(x, "Object")
                                                ELSE PutValue(x, h.key)
           ws      == Indent(x) + BehindHyphen(h)
           z       == IF h.key = 0 THEN x ELSE OpenScope(x, "Object", "Array", ws, -1)
           e       == EolState(h.end, y, pending, FALSE)
           arms    == [Sibling |-> "ExpectBlockArrayItem", CloseScope |-> "ScopeEnd"]
<1>1. pc = "ExpectBlockArrayItem" /\ UNCHANGED lapses
  BY DEF ExpectBlockArrayItem
<1>2. \/ Fail \/ Underflow
      \/ Tok(i) = "-" /\ ~ simple /\ Dispatch(h, z, FALSE)
      \/ Tok(i) = "-" /\ simple /\ Follow(e, y, arms)
  BY DEF ExpectBlockArrayItem
<1>3. SUFFICES ASSUME lapses = {}
               PROVE  ListNext
  BY <1>1 DEF ListNext
<1>4. toks \in Document /\ N \in Nat /\ i \in 1..N
  BY Here
<1>5. Lists(b) /\ Ready(b) /\ Inside(b, "Array") /\ b \in Builders
  BY <1>1, <1>3, ListNow DEF Final, Filling, AtHome, HeaderStates, TableStates
<1>6. Lists(x) /\ Awaits(x)
  BY <1>5, CountedLists
<1>7. ScopesIn(x, Len(x.stack), pending, Clean) /\ (Clean => Inside(x, "Array"))
      /\ (Clean => IsPending(pending, Len(x.stack)))
  <2>1. /\ ScopesIn(b, Len(b.stack), pending, Clean)
        /\ Clean => Inside(b, "Array") /\ IsPending(pending, Len(b.stack))
        /\ ScopesOK(b)
    BY <1>1, NowOutsideRows DEF Final, AtHome
  <2>2. ScopesOK(x) /\ x.stack = b.stack /\ WritesIn(b, x)
    BY <1>5, <2>1, CountedFacts, CountedWritesIn
  <2> HIDE DEF x
  <2>3. QED
    BY <2>1, <2>2, WritesInKeeps
<1> HIDE DEF x, h
<1>8. ASSUME Tok(i) = "-"
      PROVE  HeaderOK(h)
  <2>1. i < N
    BY <1>4, <1>8, DocumentFacts
  <2>2. i + 1 \in 1..N
    BY <1>4, <2>1, Behind, Zenon
  <2>3. QED
    BY <1>4, <2>2, ReadHeaderFacts DEF h
<1>9. CASE Tok(i) = "-" /\ ~ simple /\ Dispatch(h, z, FALSE)
  <2>1. HeaderOK(h)
    BY <1>8, <1>9
  <2>2. h.type = "ObjectStart" => h.key # 0
    BY <2>1 DEF HeaderOK
  <2>3. CASE h.key = 0
    <3>1. z = x
      BY <2>3
    <3> HIDE DEF z
    <3>2. QED
      BY <1>6, <1>9, <2>1, <2>2, <2>3, <3>1, DispatchLists
  <2>4. CASE h.key # 0
    <3>1. z = OpenScope(x, "Object", "Array", ws, -1)
      BY <2>4
    <3>2. Indent(x) \in Nat /\ IndentSize \in Nat
      BY <1>6, ScopesFacts, ConstantsAssumption DEF Lists
    <3>3. ws \in Nat /\ ws >= Indent(x)
      BY <3>2 DEF BehindHyphen
    <3> HIDE DEF ws, z
    <3>4. Listed(z) /\ Ready(z)
      BY <1>6, <3>1, OpenLists DEF Containers
    <3>5. ScopesIn(z, Len(z.stack), pending, Clean) /\ Inside(z, "Object")
      <4>1. "Object" \in Containers /\ -1 \in Nat \cup {-1} /\ Clean \in BOOLEAN
        BY DEF Containers, Clean
      <4>2. /\ ScopesIn(OpenScope(x, "Object", "Array", ws, -1),
                        Len(OpenScope(x, "Object", "Array", ws, -1).stack), pending, Clean)
            /\ Inside(OpenScope(x, "Object", "Array", ws, -1), "Object")
        BY <1>7, <3>3, <4>1, OpenHere
      <4>3. QED
        BY <3>1, <4>2
    <3>6. Lists(z)
      BY <3>4, <3>5 DEF Lists, ScopesIn
    <3>7. QED
      BY <1>9, <2>1, <2>4, <3>4, <3>5, <3>6, DispatchLists
  <2>5. QED
    BY <2>3, <2>4
<1>10. CASE Tok(i) = "-" /\ simple /\ Follow(e, y, arms)
  <2>1. h.key \in Nat
    BY <1>8, <1>10 DEF HeaderOK, Headers
  <2>2. Listed(y) /\ Ready(y)
    BY <1>6, <2>1, PutLists DEF Lists, Containers
  <2> HIDE DEF e, y
  <2>3. pc' = "Failed" \/ (pc' \in {"ExpectBlockArrayItem", "ScopeEnd"} /\ b' = y)
    BY <1>10, FollowsTwo
  <2>4. QED
    BY <2>2, <2>3, ArrivesListed DEF ListNext, Filled
<1>11. Fail \/ Underflow => ListNext
  BY DEF Fail, Underflow, ListNext
<1>12. QED
  BY <1>2, <1>9, <1>10, <1>11

(* The rows of a table come behind its slot.                               *)
LEMMA TableLists ==
  ASSUME IndInv, NestInv, ListInv, pc \in TableStates,
         NEW next \in {"Row", "ScopeEnd", "Panicked"},
         OpenTable(TableKind(pc), next), UNCHANGED lapses
  PROVE  ListNext
<1> DEFINE kind == TableKind(pc)
           y == PutHeaderKey(b, hdr.key)
           e == EolState(i + 1, y, pending, FALSE)
           x == Enter(y, kind, Indent(y) + IndentSize)
<1>1. kind \in Containers /\ pc \in HeaderStates
  BY DEF TableKind, Containers, HeaderStates
<1>2. Follow(e, x, [Nested |-> next]) \/ Fail
  BY DEF OpenTable
<1> HIDE DEF e, kind
<1>3. lapses = {} => Listed(x) /\ Ready(x)
  BY <1>1, EnterLists
<1> HIDE DEF x
<1>4. pc' = "Failed" \/ (pc' = next /\ b' = x)
  BY <1>2, FollowsOne DEF Fail
<1>5. CASE pc' = next /\ b' = x /\ next \in {"Row", "ScopeEnd"} /\ lapses = {}
  BY <1>3, <1>5, ArrivesListed DEF Filled
<1>6. QED
  BY <1>4, <1>5 DEF ListNext

(* All four kinds of table do.                                             *)
LEMMA TablesList ==
  ASSUME IndInv, NestInv, ListInv,
         \/ ParseTabularObjects \/ ParseTabularArrayStrict \/ ParseTabularArrayLenient
         \/ ParseNestedFieldGroupsArrayStrict
  PROVE  ListNext
<1>1. RowsOrEnd \in {"Row", "ScopeEnd", "Panicked"}
  BY DEF RowsOrEnd
<1>2. /\ TableKind("ParseTabularObjects") = "Object"
      /\ TableKind("ParseTabularArrayStrict") = "Array"
      /\ TableKind("ParseTabularArrayLenient") = "Array"
      /\ TableKind("ParseNestedFieldGroupsArrayStrict") = "Array"
  BY DEF TableKind
<1>3. CASE ParseTabularObjects
  BY <1>1, <1>2, <1>3, TableLists DEF ParseTabularObjects, TableStates
<1>4. CASE ParseTabularArrayStrict
  BY <1>1, <1>2, <1>4, TableLists DEF ParseTabularArrayStrict, TableStates
<1>5. CASE ParseTabularArrayLenient
  BY <1>2, <1>5, TableLists DEF ParseTabularArrayLenient, TableStates
<1>6. CASE ParseNestedFieldGroupsArrayStrict
  BY <1>2, <1>6, TableLists DEF ParseNestedFieldGroupsArrayStrict, TableStates
<1>7. QED
  BY <1>3, <1>4, <1>5, <1>6

(* A row is an entry of the table: an item of an array, or behind its key. *)
LEMMA RowLists ==
  ASSUME IndInv, NestInv, ListInv, Row
  PROVE  ListNext
<1> DEFINE keyed == hdr.type = "ParseTabularObjects"
           end   == ValueEnd(i, {":"})
           row(x, tag) == OpenScope(x, "Object", tag, Indent(x), -1)
<1>1. pc = "Row" /\ UNCHANGED lapses
  BY DEF Row
<1>2. SUFFICES ASSUME lapses = {}
               PROVE  ListNext
  BY <1>1 DEF ListNext
<1>3. Lists(b) /\ Ready(b) /\ Inside(b, TableKind(hdr.type)) /\ i \in Nat
  BY <1>1, <1>2, ListNow, CursorFacts DEF Final, Filling, AtHome, HeaderStates, TableStates
<1>4. ASSUME NEW x, Lists(x), Awaits(x), NEW tag, pc' = "Cell", b' = row(x, tag)
      PROVE  ListNext
  <2> DEFINE y == row(x, tag)
  <2>1. Listed(y) /\ Ready(y)
    BY <1>4, OpenLists DEF Containers
  <2> HIDE DEF y
  <2>2. b' = y
    BY <1>4 DEF y
  <2>3. QED
    BY <1>4, <2>1, <2>2, ArrivesListed DEF Filled
<1>5. CASE ~ keyed /\ Goto("Cell", row(Counted(b), "Array"), i)
  <2>1. Lists(Counted(b)) /\ Awaits(Counted(b))
    BY <1>3, <1>5, CountedLists DEF TableKind
  <2>2. QED
    BY <1>4, <1>5, <2>1 DEF Goto
<1>6. CASE keyed /\ Goto("Cell", row(PutKey(b, i), "Object"), end + 1)
  <2>1. Lists(PutKey(b, i)) /\ Awaits(PutKey(b, i))
    BY <1>3, <1>6, PutLists DEF TableKind
  <2>2. QED
    BY <1>4, <1>6, <2>1 DEF Goto
<1>7. QED
  <2>1. \/ ~ keyed /\ Goto("Cell", row(Counted(b), "Array"), i)
        \/ keyed /\ Goto("Cell", row(PutKey(b, i), "Object"), end + 1)
        \/ Underflow \/ Fail
    BY Zenon DEF Row
  <2>2. Underflow \/ Fail => ListNext
    BY DEF Underflow, Fail, ListNext
  <2>3. QED
    BY <1>5, <1>6, <2>1, <2>2

(* The end of a row leads back to the container of the table. *)
LEMMA EndRowLists ==
  ASSUME IndInv, NestInv, ListInv, EndRow
  PROVE  ListNext
<1> DEFINE x == CloseScope(b)
           lenient == hdr.type = "ParseTabularArrayLenient"
           arms == IF lenient THEN [Sibling |-> "Row", CloseScope |-> "ScopeEnd"]
                   ELSE [Sibling |-> "Row"]
           e == EolState(i, x, pending, TRUE)
<1>1. pc = "EndRow" /\ UNCHANGED lapses
  BY DEF EndRow
<1>2. SUFFICES ASSUME lapses = {}
               PROVE  ListNext
  BY <1>1 DEF ListNext
<1>3. Lists(b) /\ Ready(b)
  BY <1>1, <1>2, ListNow DEF Final, Filling, HeaderStates, TableStates
<1>4. Len(b.stack) >= 2
  <2>1. Base(pc, hdr, cell, b) = Len(b.stack) - 1
    BY <1>1 DEF Base
  <2>2. Base(pc, hdr, cell, b) >= 1
    BY <1>1, Here DEF Final
  <2>3. Len(b.stack) \in Nat
    BY <1>3, SlotFacts DEF Lists
  <2>4. QED
    BY <2>1, <2>2, <2>3
<1>5. Listed(x) /\ Ready(x)
  BY <1>3, <1>4, CloseLists
<1> HIDE DEF x
<1>6. pc' = "Failed" \/ (pc' \in {"Row", "ScopeEnd"} /\ b' = x)
  <2>1. Goto("ScopeEnd", x, i) \/ Follow(e, x, arms)
    BY DEF EndRow, x
  <2>2. CASE Follow(e, x, arms) /\ lenient
    <3>1. Follow(e, x, [Sibling |-> "Row", CloseScope |-> "ScopeEnd"])
      BY <2>2
    <3>2. QED
      BY <3>1, FollowsTwo
  <2>3. CASE Follow(e, x, arms) /\ ~ lenient
    <3>1. Follow(e, x, [Sibling |-> "Row"])
      BY <2>3
    <3>2. QED
      BY <3>1, FollowsOne
  <2>4. QED
    BY <2>1, <2>2, <2>3 DEF Goto
<1>7. QED
  BY <1>5, <1>6, ArrivesListed DEF Filled, ListNext

(* A field of a row is a key with its value, a group a key with an object  *)
(* that is filled next and closed at the end of the group.                 *)
LEMMA CellLists ==
  ASSUME IndInv, NestInv, ListInv, Cell
  PROVE  ListNext
<1> DEFINE leaf   == IsLeaf(hdr, cell)
           last   == \A j \in Leaves(hdr) : j <= cell
           delims == CellEnds(last)
           end    == ValueEnd(i, delims)
           name   == NameStart(hdr, cell)
           key    == PutKey(b, name)
           before == IF leaf THEN PutValue(key, i)
                     ELSE IF IsGroup(hdr, cell)
                     THEN OpenScope(key, "Object", "Object", Indent(b), -1)
                     ELSE b
           after  == IF IsGroupEnd(hdr, cell) THEN CloseScope(before) ELSE before
           todo   == {j \in (cell + 1)..hdr.hi :
                        IsLeaf(hdr, j) \/ IsGroup(hdr, j) \/ IsGroupEnd(hdr, j)}
           next   == IF todo = {} THEN "EndRow" ELSE "Cell"
           outer  == Base("Cell", hdr, cell, b)
           write  == Goto(next, after, IF Tok(end) = "NL" THEN end ELSE end + 1)
                     \/ Goto(next, after, i)
<1>1. pc = "Cell" /\ UNCHANGED lapses
  BY DEF Cell
<1>2. SUFFICES ASSUME lapses = {}
               PROVE  ListNext
  BY <1>1 DEF ListNext
<1>3. Lists(b) /\ Ready(b) /\ Inside(b, "Object") /\ i \in Nat
  BY <1>1, <1>2, ListNow, CursorFacts DEF Final, Filling, AtHome, HeaderStates, TableStates
<1>4. hdr.lo # 0 /\ cell \in (hdr.lo + 1)..hdr.hi
  BY <1>1 DEF IndInv, Good
<1>5. /\ toks \in Document /\ FieldList(hdr.lo, hdr.hi) /\ hdr.delim \in Delims
      /\ hdr.lo \in Nat /\ hdr.hi \in Nat
  BY <1>4, Here
<1>6. cell \in Nat /\ cell > hdr.lo
  BY <1>4, <1>5
<1>7. name \in Nat
  BY <1>5, <1>6, NameStartFacts
<1> HIDE DEF name
<1>8. IsGroupEnd(hdr, cell) => Len(b.stack) >= 2 /\ ~ IsGroup(hdr, cell)
  <2>1. SUFFICES ASSUME IsGroupEnd(hdr, cell)
                 PROVE  Len(b.stack) >= 2 /\ ~ IsGroup(hdr, cell)
    OBVIOUS
  <2>2. ~ IsGroup(hdr, cell)
    BY <2>1 DEF IsGroup, IsGroupEnd, Opens
  <2>3. outer >= 1 /\ outer = Len(b.stack) - Level(hdr.lo, cell - 1)
    BY <1>1, Here DEF Final, Base
  <2>4. Level(hdr.lo, cell - 1) \in Int /\ Level(hdr.lo, cell - 1) >= 1
    BY <1>4, <1>5, LevelAt
  <2>5. Len(b.stack) \in Nat
    BY <1>3, SlotFacts DEF Lists
  <2>6. QED
    BY <2>2, <2>3, <2>4, <2>5
<1>9. Lists(key) /\ Awaits(key)
  BY <1>3, <1>7, PutLists
<1> HIDE DEF key
<1>10. /\ Listed(before) /\ Ready(before)
       /\ IsGroupEnd(hdr, cell) => Lists(before) /\ before.stack = b.stack
  <2>1. CASE leaf
    <3>1. Lists(PutValue(key, i)) /\ Ready(PutValue(key, i))
      BY <1>3, <1>9, PutLists
    <3>2. PutValue(key, i).stack = b.stack
      <4>1. ScopesOK(key) /\ key \in Builders /\ b \in Builders
        BY <1>3, <1>9, SlotFacts DEF Lists
      <4>2. PutValue(key, i).stack = key.stack
        BY <1>3, <4>1, PutFacts
      <4>3. key.stack = b.stack
        BY <1>3, <1>7, <4>1, PutFacts DEF key, Lists
      <4>4. QED
        BY <4>2, <4>3
    <3>3. QED
      BY <2>1, <3>1, <3>2 DEF Lists
  <2>2. CASE ~ leaf /\ IsGroup(hdr, cell)
    <3>1. before = OpenScope(key, "Object", "Object", Indent(b), -1)
      BY <2>2
    <3> HIDE DEF before
    <3>2. Listed(before) /\ Ready(before)
      BY <1>9, <3>1, OpenLists DEF Containers
    <3>3. QED
      BY <1>8, <2>2, <3>2
  <2>3. CASE ~ leaf /\ ~ IsGroup(hdr, cell)
    BY <1>3, <2>3 DEF Lists
  <2>4. QED
    BY <2>1, <2>2, <2>3
<1> HIDE DEF before, leaf
<1>11. Listed(after) /\ Ready(after)
  <2>1. CASE ~ IsGroupEnd(hdr, cell)
    BY <1>10, <2>1
  <2>2. CASE IsGroupEnd(hdr, cell)
    <3>1. after = CloseScope(before) /\ Len(before.stack) >= 2
      BY <1>8, <1>10, <2>2
    <3> HIDE DEF after
    <3>2. QED
      BY <1>10, <2>2, <3>1, CloseLists
  <2>3. QED
    BY <2>1, <2>2
<1>12. write \/ Fail
  BY Zenon DEF Cell, after, before, key, leaf, name
<1> HIDE DEF after, todo
<1>13. pc' = "Failed" \/ (pc' \in {"Cell", "EndRow"} /\ b' = after)
  BY <1>12 DEF Goto, Fail
<1>14. QED
  BY <1>11, <1>13, ArrivesListed DEF Filled, ListNext

(* A container that ends is an entry of the one around it; the outermost   *)
(* one is the tape.                                                        *)
LEMMA ScopeEndLists ==
  ASSUME IndInv, NestInv, ListInv, ScopeEnd
  PROVE  ListNext
<1> DEFINE own   == pending # << >> /\ Last(pending).depth = Len(b.stack)
           pend  == IF own THEN Front(pending) ELSE pending
           outer == CloseScope(b)
           tag   == Last(b.stack).tag
           e     == IF Tok(i) = "NL" THEN EolState(i, outer, pend, FALSE) ELSE Cascade(outer, pend)
           back  == IF tag = "Object" THEN "ParseHeader" ELSE "ExpectBlockArrayItem"
           arms  == [Sibling |-> back, CloseScope |-> "ScopeEnd"]
<1>1. pc = "ScopeEnd" /\ UNCHANGED lapses
  BY DEF ScopeEnd
<1>2. SUFFICES ASSUME lapses = {}
               PROVE  ListNext
  BY <1>1 DEF ListNext
<1>3. Lists(b) /\ Ready(b) /\ ScopesOK(b)
  BY <1>1, <1>2, ListNow DEF Final, Filling, HeaderStates, TableStates
<1>4. /\ Len(b.stack) \in Nat /\ Len(b.stack) >= 1
      /\ tag = b.stack[Len(b.stack)].tag
  BY <1>3, SlotFacts DEF Lists, Last
<1>5. tag = "Start" <=> Len(b.stack) = 1
  <2> DEFINE d == Len(b.stack)
  <2>1. d \in 1..Len(b.stack)
    BY <1>4
  <2>2. b.stack[d].tag = "Start" <=> d = 1
    BY <1>3, <2>1 DEF ScopesOK
  <2>3. QED
    BY <1>4, <2>2
<1> HIDE DEF own, pend, tag
<1>6. CASE tag = "Start" /\ Goto("Success", outer, N)
  <2>1. WholeTapeWellFormed(outer.tape)
    BY <1>3, <1>5, <1>6, CloseCompletes
  <2> HIDE DEF outer
  <2>2. pc' = "Success" /\ b' = outer
    BY <1>6 DEF Goto
  <2>3. QED
    BY <2>1, <2>2 DEF ListNext
<1>7. CASE tag # "Start" /\ pc' \in {back, "ScopeEnd"} /\ b' = outer
  <2>1. Len(b.stack) >= 2
    <3> DEFINE d == Len(b.stack)
    <3>1. d # 1 /\ d \in Nat /\ d >= 1
      BY <1>4, <1>5, <1>7
    <3> HIDE DEF d
    <3>2. d >= 2
      BY <3>1
    <3>3. QED
      BY <3>2 DEF d
  <2>2. Listed(outer) /\ Ready(outer)
    BY <1>3, <2>1, CloseLists
  <2> HIDE DEF outer
  <2>3. QED
    BY <1>7, <2>2, ArrivesListed DEF Filled
<1>8. QED
  <2>1. \/ Fail
        \/ tag = "Start" /\ Goto("Success", outer, N)
        \/ tag = "Array" /\ Goto("ScopeEnd", outer, i)
        \/ tag \in {"Object", "Array"} /\ Follow(e, outer, arms)
    BY DEF ScopeEnd, pend, own, tag
  <2> HIDE DEF e, back, outer
  <2>2. Follow(e, outer, arms) => pc' = "Failed" \/ (pc' \in {back, "ScopeEnd"} /\ b' = outer)
    BY FollowsTwo
  <2>3. Fail \/ pc' = "Failed" => ListNext
    BY DEF Fail, ListNext
  <2>4. QED
    BY <1>6, <1>7, <2>1, <2>2, <2>3 DEF Goto

(* Every step keeps the scopes listed.                                     *)
LEMMA NextLists ==
  ASSUME IndInv, NestInv, ListInv, [Next]_vars
  PROVE  ListInv'
<1>1. CASE UNCHANGED vars
  <2>1. pc' = pc /\ hdr' = hdr /\ b' = b /\ lapses' = lapses
    BY <1>1 DEF vars
  <2>2. CASE pc \in Final \cup {"Start"}
    BY <2>1, <2>2 DEF ListInv, Running, Done, Final
  <2>3. CASE pc \notin Final \cup {"Start"}
    <3>1. lapses = {} => Listed(b) /\ Filling(pc, hdr, b)
      BY <2>3, ListNow DEF Lists
    <3>2. ListNext
      BY <2>1, <2>3, <3>1 DEF ListNext
    <3>3. QED
      BY <3>2, ListNextSuffices
  <2>4. QED
    BY <2>2, <2>3
<1>2. CASE Return
  BY <1>1, <1>2 DEF Return
<1>3. CASE Next /\ ~ Return
  <2>1. ListNext
    BY <1>3, StartLists, ParseHeaderLists, ParseSimpleObjectValueLists, ParseEmptyArrayLists,
       ParseInlineArrayLists, ElementLists, ParseBlockArrayLists, ExpectBlockArrayItemLists,
       TablesList, RowLists, CellLists, EndRowLists, ScopeEndLists DEF Next
  <2>2. QED
    BY <2>1, ListNextSuffices
<1>4. QED
  BY <1>1, <1>2, <1>3

-----------------------------------------------------------------------------
(* The theorems. *)

(* While a document without lapses is read, the slots of the open scopes   *)
(* are all that the tape lacks, and every count is what its container      *)
(* holds.                                                                  *)
THEOREM ListInductive == Spec => []ListInv
<1>1. Init => ListInv
  BY DEF Init, ListInv, Running, NoTape
<1>2. IndInv /\ NestInv /\ ListInv /\ [Next]_vars => ListInv'
  BY NextLists
<1>3. QED
  BY <1>1, <1>2, Inductive, NestsInductive, PTL DEF Spec

(* On the tape of every document that is accepted without a lapse, every   *)
(* container spans exactly its entries: the readers of the tape, which     *)
(* trust len and count, stay inside of it.                                 *)
THEOREM WellFormedTapes == Spec => []TapeWellFormedOtherwise
<1>1. ListInv => TapeWellFormedOtherwise
  BY DEF ListInv, TapeWellFormedOtherwise, Tape
<1>2. QED
  BY <1>1, ListInductive, PTL

-----------------------------------------------------------------------------
(* Declared lengths: what the operations on the scopes do to promises and   *)
(* counts.                                                                  *)

Kept(x) == ScopesOK(x) /\ Ordered(x) /\ PromisesKept(x)

(* The n outermost scopes of y are those of x, and what was counted in them*)
(* is the same except in the innermost one.                                *)
SamePromises(x, y, n) ==
  /\ \A d \in 1..n : Promised(y, d) = Promised(x, d)
  /\ \A d \in 1..(n - 1) : CountIn(y, d) = CountIn(x, d)

(* y is x with nodes behind it that no header declares a length for.       *)
WritesUndeclared(x, y) ==
  /\ WritesIn(x, y)
  /\ \A k \in (Len(x.tape) + 1)..Len(y.tape) : y.tape[k].declared = -1

(* Nothing is written in no step.                                          *)
LEMMA UndeclaredItself ==
  ASSUME NEW x \in Builders
  PROVE  WritesUndeclared(x, x)
<1>1. Len(x.tape) \in Nat
  BY BuilderFields
<1>2. QED
  BY <1>1, WritesInItself DEF WritesUndeclared

(* Writing twice.                                                          *)
LEMMA UndeclaredOn ==
  ASSUME NEW x, NEW y, NEW z, WritesUndeclared(x, y), WritesUndeclared(y, z)
  PROVE  WritesUndeclared(x, z)
<1>1. WritesIn(x, z)
  BY WritesInOn DEF WritesUndeclared
<1>2. /\ Len(x.tape) \in Nat /\ Len(y.tape) \in Nat /\ Len(z.tape) \in Nat
      /\ Len(x.tape) <= Len(y.tape)
      /\ \A k \in 1..Len(y.tape) : z.tape[k] = y.tape[k]
  BY DEF WritesUndeclared, WritesIn, Extends
<1>3. ASSUME NEW k \in (Len(x.tape) + 1)..Len(z.tape)
      PROVE  z.tape[k].declared = -1
  <2>1. CASE k <= Len(y.tape)
    <3>1. k \in 1..Len(y.tape) /\ k \in (Len(x.tape) + 1)..Len(y.tape)
      BY <1>2, <2>1
    <3>2. QED
      BY <1>2, <3>1 DEF WritesUndeclared
  <2>2. CASE ~ (k <= Len(y.tape))
    <3>1. k \in (Len(y.tape) + 1)..Len(z.tape)
      BY <1>2, <2>2
    <3>2. QED
      BY <3>1 DEF WritesUndeclared
  <2>3. QED
    BY <2>1, <2>2
<1>4. QED
  BY <1>1, <1>3 DEF WritesUndeclared

(* Counting an entry writes nothing.                                       *)
LEMMA CountedUndeclared ==
  ASSUME NEW x \in Builders
  PROVE  WritesUndeclared(x, Counted(x)) /\ Counted(x).cnt = x.cnt + 1
<1>1. Counted(x).tape = x.tape /\ Counted(x).cnt = x.cnt + 1 /\ Len(x.tape) \in Nat
  BY BuilderFields DEF Counted, Builders
<1>2. QED
  BY <1>1, CountedWritesIn DEF WritesUndeclared

(* Writing a node that no header declares a length for.                    *)
LEMMA WriteUndeclared ==
  ASSUME NEW x \in Builders, NEW node \in Nodes, node.declared = -1
  PROVE  /\ WritesUndeclared(x, Write(x, node)) /\ Write(x, node).cnt = x.cnt
         /\ Write(x, node) \in Builders
<1> DEFINE tape == Append(x.tape, node)
           y == Write(x, node)
<1>1. x.tape \in Seq(Nodes) /\ tape \in Seq(Nodes) /\ Len(x.tape) \in Nat
      /\ Len(tape) = Len(x.tape) + 1 /\ tape[Len(x.tape) + 1] = node
  BY BuilderFields
<1>2. y = [x EXCEPT !.tape = tape]
  BY DEF Write
<1> HIDE DEF tape
<1>3. y.tape = tape /\ y.cnt = x.cnt /\ y \in Builders
  BY <1>1, <1>2 DEF Builders, y
<1>4. WritesIn(x, y)
  BY WriteWritesIn
<1> HIDE DEF y
<1>5. ASSUME NEW k \in (Len(x.tape) + 1)..Len(y.tape)
      PROVE  y.tape[k].declared = -1
  <2>1. k = Len(x.tape) + 1
    BY <1>1, <1>3
  <2>2. QED
    BY <1>1, <1>3, <2>1
<1>6. QED
  BY <1>3, <1>4, <1>5 DEF WritesUndeclared, y

(* The inserts of keys, values and empty containers; a key is counted with *)
(* its value.                                                              *)
LEMMA PutsUndeclared ==
  ASSUME NEW x \in Builders, NEW p \in Nat
  PROVE  /\ WritesUndeclared(x, PutKey(x, p)) /\ PutKey(x, p).cnt = x.cnt + 1
         /\ WritesUndeclared(x, PutHeaderKey(x, p))
         /\ WritesUndeclared(x, PutValue(x, p)) /\ PutValue(x, p).cnt = x.cnt
         /\ \A kind \in Containers : /\ WritesUndeclared(x, PutEmpty(x, kind))
                                     /\ PutEmpty(x, kind).cnt = x.cnt
<1>1. /\ Node("Key", p, -1) \in Nodes /\ Node("Value", p, -1) \in Nodes
      /\ \A kind \in Containers : Node(kind, 0, -1) \in Nodes
  BY NodeFacts
<1>2. /\ Node("Key", p, -1).declared = -1 /\ Node("Value", p, -1).declared = -1
      /\ \A kind \in Containers : Node(kind, 0, -1).declared = -1
  BY DEF Node
<1>3. WritesUndeclared(x, PutKey(x, p)) /\ PutKey(x, p).cnt = x.cnt + 1
  <2> DEFINE y == Write(x, Node("Key", p, -1))
  <2>1. WritesUndeclared(x, y) /\ y.cnt = x.cnt /\ y \in Builders
    BY <1>1, <1>2, WriteUndeclared
  <2>2. PutKey(x, p) = Counted(y)
    BY DEF PutKey
  <2> HIDE DEF y
  <2>3. QED
    BY <2>1, <2>2, CountedUndeclared, UndeclaredOn
<1>4. WritesUndeclared(x, PutHeaderKey(x, p))
  BY <1>3, UndeclaredItself DEF PutHeaderKey
<1>5. WritesUndeclared(x, PutValue(x, p)) /\ PutValue(x, p).cnt = x.cnt
  BY <1>1, <1>2, WriteUndeclared DEF PutValue
<1>6. ASSUME NEW kind \in Containers
      PROVE  WritesUndeclared(x, PutEmpty(x, kind)) /\ PutEmpty(x, kind).cnt = x.cnt
  BY <1>1, <1>2, WriteUndeclared DEF PutEmpty
<1>7. QED
  BY <1>3, <1>4, <1>5, <1>6

(* They leave the promises and, outside of the innermost scope, the counts *)
(* as they are.                                                            *)
LEMMA WritesLengths ==
  ASSUME NEW x, Kept(x), NEW y, ScopesOK(y), WritesUndeclared(x, y),
         NEW n, n = Len(x.stack)
  PROVE  Kept(y) /\ y.stack = x.stack /\ SamePromises(x, y, n)
<1>1. /\ x.tape \in Seq(Nodes) /\ y.tape \in Seq(Nodes) /\ Len(x.tape) <= Len(y.tape)
      /\ \A k \in 1..Len(x.tape) : y.tape[k] = x.tape[k]
      /\ y.stack = x.stack /\ y.start = x.start /\ y.indents = x.indents
      /\ \A k \in (Len(x.tape) + 1)..Len(y.tape) : y.tape[k].declared = -1
  BY DEF WritesUndeclared, WritesIn, Extends
<1>2. Ordered(y) /\ Slots(y) = Slots(x) /\ \A d : Slot(y, d) = Slot(x, d)
  BY <1>1 DEF Kept, Ordered, Slots, Slot
<1>3. \A d \in 1..n : Slot(x, d) \in 1..Len(x.tape)
  BY SlotFacts DEF Kept
<1>4. ASSUME NEW d \in 1..n
      PROVE  Promised(y, d) = Promised(x, d)
  BY <1>1, <1>2, <1>3 DEF Promised
<1>5. ASSUME NEW d \in 1..(n - 1)
      PROVE  CountIn(y, d) = CountIn(x, d)
  <2>1. d # n
    BY SlotFacts DEF Kept
  <2>2. QED
    BY <1>1, <2>1 DEF CountIn
<1>6. ASSUME NEW k \in (1..Len(y.tape)) \ Slots(y)
      PROVE  KeepsPromise(y.tape[k])
  <2>1. CASE k \in 1..Len(x.tape)
    BY <1>1, <1>2, <2>1 DEF Kept, PromisesKept
  <2>2. CASE k \notin 1..Len(x.tape)
    <3>1. k \in (Len(x.tape) + 1)..Len(y.tape)
      BY <1>1, <2>2
    <3>2. QED
      BY <1>1, <3>1 DEF KeepsPromise
  <2>3. QED
    BY <2>1, <2>2
<1>7. QED
  BY <1>1, <1>2, <1>4, <1>5, <1>6 DEF Kept, PromisesKept, SamePromises

(* A scope that is opened is promised what the header declares, and has    *)
(* nothing in it.                                                          *)
LEMMA OpenLengths ==
  ASSUME NEW x, Kept(x), NEW kind \in Containers, NEW tag, NEW ws,
         NEW declared \in Nat \cup {-1}, NEW n, n = Len(x.stack),
         NEW y, y = OpenScope(x, kind, tag, ws, declared)
  PROVE  /\ PromisesKept(y) /\ SamePromises(x, y, n)
         /\ CountIn(y, n) = x.cnt
         /\ Len(y.stack) = n + 1 /\ Promised(y, n + 1) = declared /\ CountIn(y, n + 1) = 0
<1> DEFINE e == Len(x.tape)
           node == Node(kind, 0, declared)
           tape == Append(x.tape, node)
<1>1. ScopesOK(x) /\ Ordered(x) /\ n \in Nat /\ n >= 1 /\ e = Len(x.tape) /\ e \in Nat
      /\ x.tape \in Seq(Nodes)
      /\ \A d \in 1..n : Slot(x, d) \in 1..e
  BY SlotFacts DEF Kept
<1>2. node \in Nodes /\ node.declared = declared
  <2>1. node \in Nodes
    BY NodeFacts
  <2>2. QED
    BY <2>1 DEF Node
<1> HIDE DEF node
<1>3. Len(tape) = e + 1 /\ tape[e + 1] = node /\ \A k \in 1..e : tape[k] = x.tape[k]
  BY <1>1, <1>2
<1>4. y.tape = tape
  BY DEF OpenScope, node
<1> HIDE DEF tape, e
<1>5. /\ Len(y.stack) = n + 1
      /\ \A d \in 1..n : Slot(y, d) = Slot(x, d) /\ CountIn(y, d) = CountIn(x, d)
      /\ Slot(y, n + 1) = e + 1 /\ CountIn(y, n + 1) = 0
      /\ Slots(y) = Slots(x) \cup {e + 1}
  <2>1. /\ y = OpenScope(x, kind, tag, ws, declared) /\ n = Len(x.stack) /\ e = Len(x.tape)
        /\ ScopesOK(x) /\ Ordered(x)
    BY <1>1
  <2>2. QED
    BY ONLY <2>1, OpenSlots
<1>6. CountIn(x, n) = x.cnt
  BY DEF CountIn
<1>7. \A d \in 1..n : Promised(y, d) = Promised(x, d)
  BY <1>1, <1>3, <1>4, <1>5 DEF Promised
<1>8. Promised(y, n + 1) = declared
  BY <1>2, <1>3, <1>4, <1>5 DEF Promised
<1>9. ASSUME NEW k \in (1..Len(y.tape)) \ Slots(y)
      PROVE  KeepsPromise(y.tape[k])
  <2>1. k \in (1..Len(x.tape)) \ Slots(x) /\ k \in 1..e
    BY <1>1, <1>3, <1>4, <1>5
  <2>2. QED
    BY <1>3, <1>4, <2>1 DEF Kept, PromisesKept
<1>10. n \in 1..n /\ \A d \in 1..(n - 1) : d \in 1..n
  BY <1>1
<1>11. QED
  BY <1>1, <1>5, <1>6, <1>7, <1>8, <1>9, <1>10 DEF PromisesKept, SamePromises

(* A scope whose promise is kept, or that has none, may be closed.         *)
LEMMA CloseLengths ==
  ASSUME NEW x, Kept(x), NEW n, n = Len(x.stack),
         Promised(x, n) = -1 \/ x.cnt = Promised(x, n),
         NEW y, y = CloseScope(x)
  PROVE  /\ n = 1 => \A k \in 1..Len(y.tape) : KeepsPromise(y.tape[k])
         /\ n >= 2 => /\ PromisesKept(y) /\ Len(y.stack) = n - 1
                      /\ SamePromises(x, y, n - 1) /\ CountIn(y, n - 1) = CountIn(x, n - 1)
<1> DEFINE e == Len(x.tape)
           s == x.start
<1>1. /\ ScopesOK(x) /\ Ordered(x) /\ x \in Builders /\ x.tape \in Seq(Nodes) /\ e \in Nat
      /\ n \in Nat /\ n >= 1 /\ s \in 1..e /\ s \in Slots(x) /\ x.cnt \in Nat
      /\ \A d \in 1..n : Slot(x, d) \in 1..e
      /\ Slot(x, n) = s
  BY SlotFacts DEF Kept, Slot
<1>2. Backfills(x, y)
  BY <1>1, CloseScopeBackfills
<1>3. /\ Len(y.tape) = e /\ \A k \in 1..e : k # s => y.tape[k] = x.tape[k]
      /\ y.tape[s].len = x.cnt /\ y.tape[s].declared = x.tape[s].declared
  <2> DEFINE m == [x.tape[s] EXCEPT !.len = x.cnt, !.count = e - s]
  <2>1. x.tape[s] \in Nodes
    BY <1>1
  <2>2. y.tape = [x.tape EXCEPT ![s] = m]
    BY DEF CloseScope, Close, Backfill
  <2>3. m.len = x.cnt /\ m.declared = x.tape[s].declared
    BY <2>1 DEF Nodes
  <2> HIDE DEF m
  <2>4. y.tape[s] = m /\ Len(y.tape) = e /\ \A k \in 1..e : k # s => y.tape[k] = x.tape[k]
    BY <1>1, <2>2
  <2>5. QED
    BY <2>3, <2>4
<1>4. KeepsPromise(y.tape[s])
  BY <1>1, <1>3 DEF KeepsPromise, Promised
<1>5. \A k \in (1..e) \ Slots(x) : KeepsPromise(y.tape[k])
  BY <1>1, <1>3 DEF Kept, PromisesKept
<1>6. CASE n = 1
  <2>1. Slots(x) = {s}
    BY <1>1, <1>6 DEF Slots
  <2>2. \A k \in 1..Len(y.tape) : KeepsPromise(y.tape[k])
    BY <1>3, <1>4, <1>5, <2>1
  <2>3. ~ (n >= 2)
    BY <1>6
  <2>4. QED
    BY ONLY <2>2, <2>3
<1>7. CASE n >= 2
  <2>1. /\ Len(y.stack) = n - 1
        /\ \A d \in 1..(n - 1) : Slot(y, d) = Slot(x, d) /\ CountIn(y, d) = CountIn(x, d)
        /\ Slots(y) = Slots(x) \ {x.start}
    <3>1. ScopesOK(x) /\ Ordered(x)
      BY ONLY <1>1
    <3>2. n = Len(x.stack) /\ y = CloseScope(x)
      OBVIOUS
    <3>3. QED
      BY ONLY <1>7, <3>1, <3>2, CloseSlots
  <2>2. PromisesKept(y)
    BY <1>3, <1>4, <1>5, <2>1 DEF PromisesKept
  <2>3. \A d \in 1..(n - 1) : Promised(y, d) = Promised(x, d)
    <3>1. ASSUME NEW d \in 1..(n - 1)
          PROVE  Promised(y, d) = Promised(x, d)
      <4>1. d \in 1..n /\ d # n
        BY <1>1
      <4>2. Slot(x, d) = x.stack[d + 1].start /\ d + 1 \in 2..n
        BY <1>1, <4>1 DEF Slot
      <4>3. x.stack[d + 1].start # s
        BY <1>1, <4>2 DEF Ordered, ScopesOK
      <4>4. QED
        BY <1>1, <1>3, <2>1, <4>1, <4>2, <4>3 DEF Promised
    <3>2. QED
      BY <3>1
  <2>4. n - 1 \in 1..(n - 1) /\ \A d \in 1..(n - 1 - 1) : d \in 1..(n - 1)
    BY <1>1, <1>7
  <2>5. SamePromises(x, y, n - 1) /\ CountIn(y, n - 1) = CountIn(x, n - 1)
    BY <2>1, <2>3, <2>4 DEF SamePromises
  <2>6. n # 1 /\ Len(y.stack) = n - 1
    <3>1. n \in Nat
      BY <1>1
    <3>2. n # 1
      BY ONLY <1>7, <3>1
    <3>3. QED
      BY <2>1, <3>2
  <2>7. QED
    BY <2>2, <2>5, <2>6, Zenon
<1>8. QED
  BY <1>1, <1>6, <1>7

(* Opened inside of the others, it is in order.                            *)
LEMMA OpenKept ==
  ASSUME NEW x, Kept(x), NEW kind \in Containers, NEW tag \in {"Object", "Array"},
         NEW ws \in Nat, ws >= Indent(x), NEW declared \in Nat \cup {-1},
         NEW n, n = Len(x.stack), NEW y, y = OpenScope(x, kind, tag, ws, declared)
  PROVE  /\ Kept(y) /\ SamePromises(x, y, n) /\ CountIn(y, n) = x.cnt
         /\ Len(y.stack) = n + 1 /\ Promised(y, n + 1) = declared /\ CountIn(y, n + 1) = 0
<1>1. /\ Kept(x) /\ n = Len(x.stack) /\ y = OpenScope(x, kind, tag, ws, declared)
      /\ n \in Int /\ n <= Len(x.stack) /\ FALSE \in BOOLEAN
  BY SlotFacts DEF Kept
<1>2. /\ PromisesKept(y) /\ SamePromises(x, y, n) /\ CountIn(y, n) = x.cnt
      /\ Len(y.stack) = n + 1 /\ Promised(y, n + 1) = declared /\ CountIn(y, n + 1) = 0
  BY ONLY <1>1, OpenLengths
<1>3. ASSUME NEW clean \in BOOLEAN, ~ clean
      PROVE  ScopesIn(y, n, << >>, clean)
  <2>1. ScopesIn(x, n, << >>, clean)
    BY <1>3 DEF Kept, ScopesIn
  <2>2. QED
    BY <1>1, <1>3, <2>1, OpenScopeNests
<1>4. ScopesOK(y) /\ Ordered(y)
  BY <1>1, <1>3 DEF ScopesIn
<1>5. QED
  BY <1>2, <1>4 DEF Kept

(* What is left when one is closed is in order.                            *)
LEMMA CloseKept ==
  ASSUME NEW x, Kept(x), NEW n, n = Len(x.stack), n >= 2,
         Promised(x, n) = -1 \/ x.cnt = Promised(x, n),
         NEW y, y = CloseScope(x)
  PROVE  /\ Kept(y) /\ SamePromises(x, y, n - 1) /\ CountIn(y, n - 1) = CountIn(x, n - 1)
         /\ Len(y.stack) = n - 1
<1>1. /\ PromisesKept(y) /\ Len(y.stack) = n - 1
      /\ SamePromises(x, y, n - 1) /\ CountIn(y, n - 1) = CountIn(x, n - 1)
  BY CloseLengths
<1>2. n \in Nat /\ n - 1 \in Int /\ n - 1 <= Len(x.stack) - 1 /\ FALSE \in BOOLEAN
  BY SlotFacts DEF Kept
<1>3. ScopesIn(x, n - 1, << >>, FALSE)
  BY DEF Kept, ScopesIn
<1>4. ScopesIn(y, n - 1, << >>, FALSE)
  BY <1>2, <1>3, CloseScopeNests
<1>5. QED
  BY <1>1, <1>4 DEF Kept, ScopesIn

(* Where the promises are the same, so is what is going to be checked.     *)
LEMMA StaysChecked ==
  ASSUME NEW x, NEW y, NEW m \in Nat, SamePromises(x, y, m), NEW n \in Int, n <= m, NEW pend
  PROVE  AllChecked(y, n, pend) <=> AllChecked(x, n, pend)
<1>1. \A d \in 1..n : Promised(y, d) = Promised(x, d)
  BY DEF SamePromises
<1>2. QED
  BY <1>1 DEF AllChecked, Checked

(* One scope more that is going to be checked, or need not be.             *)
LEMMA OneMoreChecked ==
  ASSUME NEW x, NEW pend, NEW n \in Nat, n >= 1, AllChecked(x, n - 1, pend), Checked(x, n, pend)
  PROVE  AllChecked(x, n, pend)
<1>1. ASSUME NEW d \in 1..n
      PROVE  Checked(x, d, pend)
  <2>1. CASE d = n
    BY <2>1
  <2>2. CASE d # n
    <3>1. d \in 1..(n - 1)
      BY <2>2
    <3>2. QED
      BY <3>1 DEF AllChecked
  <2>3. QED
    BY <2>1, <2>2
<1>2. QED
  BY <1>1 DEF AllChecked

(* The scopes of an array that became pending.                             *)
LEMMA PendingChecks ==
  ASSUME NEW x, NEW pend \in PendingCounts, NEW n \in Nat, n >= 1,
         AllChecked(x, n - 1, pend), NEW c \in [depth : Nat \ {0}, n : Nat],
         c.depth = n, Promised(x, n) = c.n
  PROVE  AllChecked(x, n, Append(pend, c))
<1> DEFINE P == [depth : Nat \ {0}, n : Nat]
           more == Append(pend, c)
           l == Len(pend)
<1>1. /\ l \in Nat /\ Len(more) = l + 1 /\ more[l + 1] = c
      /\ \A k \in 1..l : more[k] = pend[k]
  <2>1. pend \in Seq(P) /\ c \in P
    BY DEF PendingCounts
  <2> HIDE DEF P
  <2>2. QED
    BY <2>1
<1> HIDE DEF more, l
<1>2. Checked(x, n, more)
  <2>1. l + 1 \in 1..Len(more)
    BY <1>1
  <2>2. QED
    BY <1>1, <2>1 DEF Checked
<1>3. ASSUME NEW d \in 1..(n - 1)
      PROVE  Checked(x, d, more)
  <2>1. Checked(x, d, pend)
    BY DEF AllChecked
  <2>2. \A k \in 1..l : k \in 1..Len(more)
    BY <1>1
  <2>3. QED
    BY <1>1, <2>1, <2>2 DEF Checked, l
<1>4. AllChecked(x, n - 1, more)
  BY <1>3 DEF AllChecked
<1>5. QED
  BY <1>2, <1>4, OneMoreChecked DEF more

-----------------------------------------------------------------------------
(* Every step keeps what is promised.                                      *)

LengthNext ==
  Strict =>
    \/ pc' \in {"Failed", "Panicked"}
    \/ pc' = "Success" /\ \A k \in 1..Len(b'.tape) : KeepsPromise(b'.tape[k])
    \/ pc' \notin Final \cup {"Start"} /\ Lengths(pc', hdr', left', cell', b', pending', i')

(* What is read off the tokens is the same in the next state.              *)
LEMMA LengthNextSuffices ==
  ASSUME toks' = toks, LengthNext
  PROVE  LengthInv'
<1>1. Level(hdr.lo, cell - 1)' = Level(hdr'.lo, cell' - 1) /\ N' = N
  BY SameTokens
<1>2. Base(pc, hdr, cell, b)' = Base(pc', hdr', cell', b')
  BY <1>1 DEF Base
<1>3. ASSUME NEW d
      PROVE  Due(pc, hdr, left, b, pending, d, i)' <=> Due(pc', hdr', left', b', pending', d, i')
  BY <1>1 DEF Due
<1>4. Lengths(pc, hdr, left, cell, b, pending, i)'
        <=> Lengths(pc', hdr', left', cell', b', pending', i')
  BY <1>2, <1>3 DEF Lengths
<1>5. LengthInv' <=> (Strict => /\ pc' = "Start" => b'.tape = << >>
                                /\ Running' => Lengths(pc, hdr, left, cell, b, pending, i)'
                                /\ pc' = "Success" => \A k \in 1..Len(b'.tape) :
                                                        KeepsPromise(b'.tape[k]))
  BY DEF LengthInv
<1>6. Running' <=> pc' \notin Final \cup {"Start"}
  BY DEF Running, Done, Final
<1>7. QED
  BY <1>4, <1>5, <1>6 DEF LengthNext, Final

(* What the invariant says of this state, *)
LEMMA LengthNow ==
  ASSUME IndInv, NestInv, LengthInv, Strict, pc \notin Final \cup {"Start"}
  PROVE  Kept(b) /\ Lengths(pc, hdr, left, cell, b, pending, i)
<1>1. ScopesOK(b) /\ Ordered(b)
  BY Now DEF ScopesIn
<1>2. Lengths(pc, hdr, left, cell, b, pending, i)
  BY DEF LengthInv, Running, Done, Final
<1>3. QED
  BY <1>1, <1>2 DEF Kept, Lengths

(* and outside of the rows.                                                *)
LEMMA LengthNowOutsideRows ==
  ASSUME IndInv, NestInv, LengthInv, Strict, pc \notin Final \cup {"Start", "Cell", "EndRow"}
  PROVE  /\ Kept(b) /\ ScopesOK(b) /\ b \in Builders
         /\ Len(b.stack) \in Nat /\ Len(b.stack) >= 1
         /\ AllChecked(b, Len(b.stack) - 1, pending)
         /\ Due(pc, hdr, left, b, pending, Len(b.stack), i)
<1>1. Kept(b) /\ Lengths(pc, hdr, left, cell, b, pending, i)
  BY LengthNow
<1>2. ScopesOK(b) /\ b \in Builders /\ Len(b.stack) \in Nat /\ Len(b.stack) >= 1
  BY NowOutsideRows
<1>3. Base(pc, hdr, cell, b) = Len(b.stack)
  BY <1>2, BaseOutsideRows
<1>4. QED
  BY <1>1, <1>2, <1>3 DEF Lengths

(* Steps to a state outside of the rows. *)
LEMMA ArrivesDue ==
  ASSUME pc' \notin Final \cup {"Start", "Cell", "EndRow"}, Kept(b'),
         NEW n, n = Len(b'.stack), AllChecked(b', n - 1, pending'),
         Due(pc', hdr', left', b', pending', n, i')
  PROVE  LengthNext
<1>1. Base(pc', hdr', cell', b') = n
  BY BaseOutsideRows DEF Kept
<1>2. \A d \in (n + 1)..Len(b'.stack) : Promised(b', d) = -1
  <2>1. n \in Nat
    BY SlotFacts DEF Kept
  <2>2. (n + 1)..Len(b'.stack) = {}
    BY <2>1
  <2>3. QED
    BY <2>2
<1>3. QED
  BY <1>1, <1>2 DEF LengthNext, Lengths, Kept

(* Steps to a State that ends in ScopeEnd, which looks at every promise.   *)
LEMMA ArrivesChecked ==
  ASSUME pc' \in {"ParseHeader", "ParseSimpleObjectValue", "ExpectBlockArrayItem", "ScopeEnd"},
         Kept(b'), AllChecked(b', Len(b'.stack), pending')
  PROVE  LengthNext
<1>1. Len(b'.stack) \in Nat /\ Len(b'.stack) >= 1
  BY SlotFacts DEF Kept
<1>2. /\ Len(b'.stack) \in 1..Len(b'.stack)
      /\ \A d \in 1..(Len(b'.stack) - 1) : d \in 1..Len(b'.stack)
  BY <1>1
<1>3. /\ Checked(b', Len(b'.stack), pending')
      /\ AllChecked(b', Len(b'.stack) - 1, pending')
  BY <1>2 DEF AllChecked
<1>4. Due(pc', hdr', left', b', pending', Len(b'.stack), i')
  BY <1>3 DEF Due, HeaderStates, TableStates
<1>5. pc' \notin Final \cup {"Start", "Cell", "EndRow"}
  BY DEF Final
<1>6. QED
  BY <1>3, <1>4, <1>5, ArrivesDue

(* Writing in the innermost scope leaves all promises as they are.         *)
LEMMA WritesChecked ==
  ASSUME NEW x, Kept(x), NEW y, ScopesOK(y), WritesUndeclared(x, y), NEW pend
  PROVE  /\ Kept(y) /\ y.stack = x.stack
         /\ AllChecked(x, Len(x.stack), pend) => AllChecked(y, Len(y.stack), pend)
         /\ AllChecked(x, Len(x.stack) - 1, pend) => AllChecked(y, Len(y.stack) - 1, pend)
         /\ Promised(y, Len(y.stack)) = Promised(x, Len(x.stack))
<1> DEFINE n == Len(x.stack)
<1>1. n = Len(x.stack) /\ n \in Nat /\ n >= 1
  BY SlotFacts DEF Kept
<1> HIDE DEF n
<1>2. Kept(y) /\ y.stack = x.stack /\ SamePromises(x, y, n)
  BY <1>1, WritesLengths
<1>3. /\ AllChecked(x, n, pend) => AllChecked(y, n, pend)
      /\ AllChecked(x, n - 1, pend) => AllChecked(y, n - 1, pend)
  <2>1. n \in Int /\ n - 1 \in Int /\ n <= n /\ n - 1 <= n
    BY <1>1
  <2>2. QED
    BY <1>1, <1>2, <2>1, StaysChecked
<1>4. Promised(y, n) = Promised(x, n)
  <2>1. n \in 1..n
    BY <1>1
  <2>2. QED
    BY <1>2, <2>1 DEF SamePromises
<1>5. QED
  BY <1>1, <1>2, <1>3, <1>4

(* The header of an empty array declares that it is.                       *)
LEMMA EmptyArrayHeader ==
  ASSUME NEW p, ReadHeader(p).type = "EmptyArray"
  PROVE  ReadHeader(p).n = 0
<1> DEFINE e == ValueEnd(p, {":", "["})
           key == IF HasText(p, e) THEN p ELSE 0
<1>1. ReadHeader(p) = BracketHeader(key, e)
  BY DEF ReadHeader, NoHeader, Header
<1>2. ASSUME NEW k, NEW q, BracketHeader(k, q).type = "EmptyArray"
      PROVE  BracketHeader(k, q).n = 0
  <2>1. \A n, keyed, delim, lo : FieldListHeader(k, n, keyed, delim, lo).type # "EmptyArray"
    BY DEF FieldListHeader, NoHeader, Header
  <2>2. QED
    BY <1>2, <2>1 DEF BracketHeader, NoHeader, Header
<1> HIDE DEF e, key
<1>3. QED
  BY <1>1, <1>2

(* Handing a header over to its State: what the root was promised is what  *)
(* its header says; the container of any other is going to be checked.     *)
LEMMA DispatchLengths ==
  ASSUME NEW h, HeaderOK(h), h.type = "EmptyArray" => h.n = 0, NEW x, Kept(x),
         NEW first \in BOOLEAN, Dispatch(h, x, first), UNCHANGED pending,
         AllChecked(x, Len(x.stack) - 1, pending),
         IF first /\ h.key = 0 THEN Promised(x, Len(x.stack)) = h.n /\ x.cnt = 0
                               ELSE Checked(x, Len(x.stack), pending)
  PROVE  LengthNext
<1>1. /\ h \in Headers /\ h.key \in Nat /\ x \in Builders
      /\ Len(x.stack) \in Nat /\ Len(x.stack) >= 1
  BY SlotFacts DEF HeaderOK, Headers, Kept
<1>2. /\ hdr'.root = (first /\ h.key = 0) /\ hdr'.key = h.key /\ hdr'.n = h.n
  BY <1>1 DEF Dispatch, Headers
<1>3. CASE pc' = "ParseSimpleObjectValue" /\ b' = PutKey(x, h.key) /\ h.type = "ObjectStart"
  <2>1. h.key # 0
    BY <1>3 DEF HeaderOK
  <2>2. AllChecked(x, Len(x.stack), pending)
    BY <1>1, <2>1, OneMoreChecked
  <2>3. ScopesOK(b') /\ WritesUndeclared(x, b')
    BY <1>1, <1>3, PutFacts, PutsUndeclared DEF Kept
  <2>4. Kept(b') /\ AllChecked(b', Len(b'.stack), pending')
    BY <2>2, <2>3, WritesChecked
  <2>5. QED
    BY <1>3, <2>4, ArrivesChecked
<1>4. CASE /\ b' = x /\ pc' \in HeaderStates
           /\ pc' = "ParseEmptyArray" => h.type = "EmptyArray"
           /\ pc' = "ParseTabularArrayLenient" => ~ Strict
  <2>1. pc' \notin Final \cup {"Start", "Cell", "EndRow"}
    BY <1>4 DEF HeaderStates, TableStates, Final
  <2>2. Due(pc', hdr', left', b', pending', Len(b'.stack), i')
    BY <1>2, <1>4, <2>1 DEF Due, HeaderStates, TableStates
  <2>3. QED
    BY <1>4, <2>1, <2>2, ArrivesDue
<1>5. CASE pc' = "Failed"
  BY <1>5 DEF LengthNext
<1>6. QED
  <2>1. CASE h.type = "ObjectStart"
    BY <1>3, <1>5, <2>1 DEF Dispatch, Goto, Fail
  <2>2. CASE h.type = "SimpleArray"
    BY <1>4, <1>5, <2>2 DEF Dispatch, Goto, Fail, HeaderStates
  <2>3. CASE h.type \in ContainerTypes \ {"SimpleArray"}
    <3>1. /\ Arm(h.type, first) \in HeaderStates
          /\ Arm(h.type, first) = "ParseEmptyArray" => h.type = "EmptyArray"
          /\ Arm(h.type, first) = "ParseTabularArrayLenient" => ~ Strict
      BY <2>3 DEF Arm, ContainerTypes, HeaderStates, TableStates
    <3>2. pc' = Arm(h.type, first) /\ b' = x
      BY <2>3 DEF Dispatch, Goto, ContainerTypes
    <3>3. QED
      BY <1>4, <3>1, <3>2
  <2>4. CASE h.type \notin ContainerTypes \cup {"ObjectStart"}
    BY <1>5, <2>4 DEF Dispatch, Fail, ContainerTypes
  <2>5. QED
    BY <2>1, <2>2, <2>3, <2>4

(* The prologue writes an empty root, or the value that is all there is.   *)
LEMMA StartLengths ==
  ASSUME IndInv, LengthInv, Start
  PROVE  LengthNext
<1> DEFINE first == IF Tok(1) = "#" THEN 2 ELSE 1
           lines == {j \in first..N : Tok(j) # "NL"}
           p == Min(lines)
           h == ReadHeader(p)
           array == h.key = 0 /\ h.type \in {"SimpleArray", "EmptyArray", "TabularArray",
                                             "NestedFieldGroupsArray"}
           kind == IF array THEN "Array" ELSE "Object"
           declared == IF h.key = 0 THEN h.n ELSE -1
           node == Node(kind, 0, declared)
           root == [stack   |-> <<[tag |-> "Start", start |-> 1, cnt |-> 0]>>,
                    indents |-> <<0>>, start |-> 1, cnt |-> 0,
                    tape    |-> <<node>>]
<1>1. toks \in Document /\ N \in Nat /\ b \in Builders
  BY Here
<1>2. lines # {} => HeaderOK(h)
  <2>1. lines # {} => p \in 1..N
    BY <1>1, MinOfNaturals
  <2>2. QED
    BY <1>1, <2>1, ReadHeaderFacts
<1>3. CASE lines # {} /\ Dispatch(h, root, TRUE)
  <2>1. HeaderOK(h) /\ h.key \in Nat /\ h.n \in Nat
    BY <1>2, <1>3 DEF HeaderOK, Headers
  <2>2. h.type = "EmptyArray" => h.n = 0
    BY EmptyArrayHeader
  <2>3. kind \in Containers /\ declared \in Nat \cup {-1}
    BY <2>1 DEF Containers
  <2>4. node \in Nodes /\ node.kind = kind /\ node.declared = declared
    <3> HIDE DEF kind, declared
    <3>1. node \in Nodes /\ node.kind = kind
      BY <2>3, NewNode
    <3>2. QED
      BY <3>1 DEF Node
  <2>5. declared = IF h.key = 0 THEN h.n ELSE -1
    OBVIOUS
  <2> HIDE DEF node, kind, declared
  <2>6. root \in Builders
    <3>1. [tag |-> "Start", start |-> 1, cnt |-> 0] \in Frames
      BY DEF Frames
    <3>2. QED
      BY <2>4, <3>1 DEF Builders
  <2>7. /\ ScopesOK(root) /\ Len(root.stack) = 1 /\ Len(root.indents) = 1
        /\ root.start = 1 /\ root.cnt = 0 /\ Len(root.tape) = 1 /\ root.tape[1] = node
    BY <2>3, <2>4, <2>6 DEF ScopesOK
  <2> HIDE DEF root, h
  <2>8. Ordered(root)
    BY <2>7 DEF Ordered
  <2>9. 1 \in Slots(root) /\ Promised(root, 1) = declared
    BY <2>4, <2>7 DEF Slots, Slot, Promised
  <2>10. Kept(root)
    <3>1. (1..Len(root.tape)) \ Slots(root) = {}
      BY <2>7, <2>9
    <3>2. QED
      BY <2>7, <2>8, <3>1 DEF Kept, PromisesKept
  <2>11. h.key # 0 => Checked(root, 1, pending)
    BY <2>5, <2>9 DEF Checked
  <2>12. AllChecked(root, Len(root.stack) - 1, pending)
    BY <2>7 DEF AllChecked
  <2>13. IF TRUE /\ h.key = 0 THEN Promised(root, Len(root.stack)) = h.n /\ root.cnt = 0
                              ELSE Checked(root, Len(root.stack), pending)
    BY <2>5, <2>7, <2>9, <2>11
  <2>14. UNCHANGED pending
    BY DEF Start
  <2>15. QED
    BY <1>3, <2>1, <2>2, <2>10, <2>12, <2>13, <2>14, DispatchLengths
<1>4. CASE lines # {} /\ Goto("Success", PutValue(b, h.key), N)
  <2> DEFINE value == Node("Value", h.key, -1)
  <2>1. h.key \in Nat
    BY <1>2, <1>4 DEF HeaderOK, Headers
  <2>2. value \in Nodes /\ value.declared = -1
    <3>1. value \in Nodes
      BY <2>1, NewNode
    <3>2. QED
      BY <3>1 DEF Node
  <2>3. pc' = "Success" /\ b' = Write(b, value) /\ pc = "Start"
    BY <1>4 DEF Goto, PutValue, Start
  <2> HIDE DEF value
  <2>4. CASE Strict
    <3>1. b.tape = << >>
      BY <2>3, <2>4 DEF LengthInv
    <3>2. b'.tape = <<value>>
      BY <1>1, <2>3, <3>1 DEF Write, Builders
    <3>3. \A k \in 1..Len(b'.tape) : KeepsPromise(b'.tape[k])
      BY <2>2, <3>2 DEF KeepsPromise
    <3>4. QED
      BY <2>3, <3>3 DEF LengthNext
  <2>5. QED
    BY <2>4 DEF LengthNext
<1>5. CASE pc' = "Failed"
  BY <1>5 DEF LengthNext
<1>6. QED
  BY <1>3, <1>4, <1>5 DEF Start, Fail

(* A field's key is written, its value is still to come.                   *)
LEMMA ParseHeaderLengths ==
  ASSUME IndInv, NestInv, LengthInv, ParseHeader
  PROVE  LengthNext
<1> DEFINE h == ReadHeader(i)
<1>1. pc = "ParseHeader" /\ Dispatch(h, b, FALSE) /\ UNCHANGED pending
  BY DEF ParseHeader
<1>2. HeaderOK(h) /\ (h.type = "EmptyArray" => h.n = 0)
  BY Here, ReadHeaderFacts, EmptyArrayHeader
<1> HIDE DEF h
<1>3. CASE Strict
  <2>1. /\ Kept(b) /\ AllChecked(b, Len(b.stack) - 1, pending)
        /\ Checked(b, Len(b.stack), pending)
    BY <1>1, <1>3, LengthNowOutsideRows DEF Final, Due
  <2>2. QED
    BY <1>1, <1>2, <2>1, DispatchLengths
<1>4. QED
  BY <1>3 DEF LengthNext

(* The value of a field has no length declared, or is an object opened for *)
(* the fields below it.                                                    *)
LEMMA ParseSimpleObjectValueLengths ==
  ASSUME IndInv, NestInv, LengthInv, ParseSimpleObjectValue
  PROVE  LengthNext
<1> DEFINE n == Len(b.stack)
           ws == Indent(b) + IndentSize
           open == OpenScope(b, "Object", "Object", ws, -1)
<1>1. pc = "ParseSimpleObjectValue" /\ UNCHANGED pending
  BY DEF ParseSimpleObjectValue
<1>2. SUFFICES ASSUME Strict
               PROVE  LengthNext
  BY DEF LengthNext
<1>3. /\ Kept(b) /\ ScopesOK(b) /\ b \in Builders /\ n = Len(b.stack) /\ n \in Nat /\ n >= 1
      /\ AllChecked(b, n - 1, pending) /\ Checked(b, n, pending)
  BY <1>1, <1>2, LengthNowOutsideRows DEF Final, Due
<1> HIDE DEF n
<1>4. AllChecked(b, n, pending)
  BY <1>3, OneMoreChecked
<1>5. i \in Nat
  BY CursorFacts
<1>6. CASE pc' = "Failed"
  BY <1>6 DEF LengthNext
<1>7. CASE /\ pc' \in {"ParseHeader", "ScopeEnd"}
           /\ b' \in {b, PutValue(b, i), PutEmpty(b, "Array"), PutEmpty(b, "Object")}
  <2>1. ScopesOK(b') /\ WritesUndeclared(b, b')
    BY <1>3, <1>5, <1>7, PutFacts, PutsUndeclared, UndeclaredItself DEF Containers
  <2>2. Kept(b') /\ AllChecked(b', Len(b'.stack), pending')
    BY <1>1, <1>3, <1>4, <2>1, WritesChecked
  <2>3. QED
    BY <1>7, <2>2, ArrivesChecked
<1>8. CASE pc' \in {"ParseHeader", "ScopeEnd"} /\ b' = open
  <2>1. ws \in Nat /\ ws >= Indent(b)
    BY <1>3, ScopesFacts, ConstantsAssumption
  <2> HIDE DEF ws
  <2>2. /\ Kept(open) /\ SamePromises(b, open, n)
        /\ Len(open.stack) = n + 1 /\ Promised(open, n + 1) = -1
    BY <1>3, <2>1, OpenKept DEF Containers
  <2> HIDE DEF open
  <2>3. AllChecked(open, n, pending)
    BY <1>3, <1>4, <2>2, StaysChecked
  <2>4. AllChecked(open, n + 1, pending)
    <3> DEFINE m == n + 1
    <3>1. Checked(open, m, pending) /\ m \in Nat /\ m >= 1 /\ m - 1 = n
      BY <1>3, <2>2 DEF Checked
    <3> HIDE DEF m
    <3>2. AllChecked(open, m, pending)
      BY <2>3, <3>1, OneMoreChecked
    <3>3. QED
      BY <3>2 DEF m
  <2>5. QED
    BY <1>1, <1>8, <2>2, <2>4, ArrivesChecked
<1>9. QED
  BY <1>6, <1>7, <1>8, ParseSimpleObjectValueWrites

(* The container a header declares is promised what it says, and is empty. *)
LEMMA EnterLengths ==
  ASSUME IndInv, NestInv, LengthInv, Strict, pc \in HeaderStates, NEW kind \in Containers,
         kind = TableKind(pc), NEW y, y = PutHeaderKey(b, hdr.key),
         NEW ws, ws \in {Indent(y), Indent(y) + IndentSize}, NEW x, x = Enter(y, kind, ws)
  PROVE  /\ Kept(x) /\ AllChecked(x, Len(x.stack) - 1, pending)
         /\ Promised(x, Len(x.stack)) = hdr.n /\ x.cnt = 0
         /\ Len(x.stack) \in Nat /\ Len(x.stack) >= 1
<1> DEFINE n == Len(b.stack)
<1>1. pc \notin Final \cup {"Start", "Cell", "EndRow"}
  BY DEF HeaderStates, TableStates, Final
<1>2. /\ Kept(b) /\ ScopesOK(b) /\ b \in Builders /\ n = Len(b.stack) /\ n \in Nat /\ n >= 1
      /\ AllChecked(b, n - 1, pending)
      /\ IF hdr.root THEN hdr.key = 0 /\ Promised(b, n) = hdr.n /\ b.cnt = 0
                     ELSE Checked(b, n, pending)
  BY <1>1, LengthNowOutsideRows DEF Due
<1>3. hdr.key \in Nat /\ hdr.n \in Nat /\ hdr.root \in BOOLEAN
  BY Here
<1>4. ScopesOK(x) /\ Ordered(x)
  BY EnterNests DEF ScopesIn
<1> HIDE DEF n
<1>5. CASE hdr.root
  <2> DEFINE indents == Append(b.indents, ws)
  <2>1. x = [b EXCEPT !.indents = indents]
    BY <1>2, <1>5 DEF Enter, PutHeaderKey
  <2> HIDE DEF indents
  <2>2. x.tape = b.tape /\ x.stack = b.stack /\ x.start = b.start /\ x.cnt = b.cnt
    BY <1>2, <2>1 DEF Builders
  <2>3. Slots(x) = Slots(b) /\ \A d : Slot(x, d) = Slot(b, d) /\ Promised(x, d) = Promised(b, d)
    BY <2>2 DEF Slots, Slot, Promised
  <2>4. Kept(x)
    BY <1>2, <1>4, <2>2, <2>3 DEF Kept, PromisesKept
  <2>5. AllChecked(x, n - 1, pending)
    BY <1>2, <2>3 DEF AllChecked, Checked
  <2>6. QED
    BY <1>2, <1>5, <2>2, <2>3, <2>4, <2>5
<1>6. CASE ~ hdr.root
  <2>1. AllChecked(b, n, pending)
    BY <1>2, <1>6, OneMoreChecked
  <2>2. ScopesOK(y) /\ WritesUndeclared(b, y)
    BY <1>2, <1>3, PutFacts, PutsUndeclared
  <2>3. Kept(y) /\ y.stack = b.stack /\ AllChecked(y, n, pending)
    BY <1>2, <2>1, <2>2, WritesChecked
  <2>4. x = OpenScope(y, kind, FrameTag(hdr.key), ws, hdr.n)
    BY <1>6 DEF Enter
  <2>5. /\ ws \in Nat /\ ws >= Indent(y) /\ FrameTag(hdr.key) \in {"Object", "Array"}
        /\ hdr.n \in Nat \cup {-1}
    BY <1>3, <2>2, ScopesFacts, ConstantsAssumption DEF FrameTag
  <2>6. n = Len(y.stack)
    BY <1>2, <2>3
  <2>7. /\ Kept(x) /\ SamePromises(y, x, n) /\ Len(x.stack) = n + 1
        /\ Promised(x, n + 1) = hdr.n /\ CountIn(x, n + 1) = 0
    <3> DEFINE tag == FrameTag(hdr.key)
               declared == hdr.n
    <3>1. /\ x = OpenScope(y, kind, tag, ws, declared) /\ tag \in {"Object", "Array"}
          /\ declared \in Nat \cup {-1}
      BY <2>4, <2>5
    <3>2. /\ Promised(x, n + 1) = declared
          /\ Kept(x) /\ SamePromises(y, x, n) /\ Len(x.stack) = n + 1 /\ CountIn(x, n + 1) = 0
      <4> HIDE DEF tag, declared
      <4>1. QED
        BY <2>3, <2>5, <2>6, <3>1, OpenKept
    <3>3. QED
      BY <3>2
  <2>8. AllChecked(x, n, pending)
    BY <1>2, <2>3, <2>7, StaysChecked
  <2>9. x.cnt = 0
    BY <2>7 DEF CountIn
  <2>10. Len(x.stack) - 1 = n /\ Len(x.stack) \in Nat /\ Len(x.stack) >= 1
    BY <1>2, <2>7
  <2>11. QED
    BY <2>7, <2>8, <2>9, <2>10
<1>7. QED
  BY <1>3, <1>5, <1>6

(* Counts of the innermost scope.                                          *)
LEMMA CountInside ==
  ASSUME NEW x
  PROVE  CountIn(x, Len(x.stack)) = x.cnt
BY DEF CountIn

(* An empty array is closed next.                                          *)
LEMMA ParseEmptyArrayLengths ==
  ASSUME IndInv, NestInv, LengthInv, ParseEmptyArray
  PROVE  LengthNext
<1> DEFINE y == PutHeaderKey(b, hdr.key)
           ws == Indent(y) + IndentSize
           x == Enter(y, "Array", ws)
           e == EolState(i + 1, x, pending, FALSE)
           arms == [Sibling |-> "ScopeEnd", CloseScope |-> "ScopeEnd"]
<1>1. /\ pc = "ParseEmptyArray" /\ UNCHANGED pending /\ pc \in HeaderStates
      /\ TableKind(pc) = "Array" /\ "Array" \in Containers
  BY DEF ParseEmptyArray, HeaderStates, TableKind, Containers
<1>2. SUFFICES ASSUME Strict
               PROVE  LengthNext
  BY DEF LengthNext
<1>3. /\ Kept(x) /\ AllChecked(x, Len(x.stack) - 1, pending)
      /\ Promised(x, Len(x.stack)) = hdr.n /\ x.cnt = 0
  BY <1>1, <1>2, EnterLengths
<1>4. hdr.n = 0
  BY <1>1, <1>2, LengthNowOutsideRows DEF Final, Due
<1>5. Follow(e, x, arms) \/ Fail
  BY DEF ParseEmptyArray
<1> HIDE DEF e, x
<1>6. pc' = "Failed" \/ (pc' = "ScopeEnd" /\ b' = x)
  BY <1>5, FollowsTwo DEF Fail
<1>7. CASE pc' = "ScopeEnd" /\ b' = x
  <2>1. Due(pc', hdr', left', b', pending', Len(b'.stack), i')
    BY <1>3, <1>4, <1>7, CountInside DEF Due, HeaderStates, TableStates
  <2>2. QED
    BY <1>1, <1>3, <1>7, <2>1, ArrivesDue DEF Final
<1>8. QED
  BY <1>6, <1>7 DEF LengthNext

(* All elements of an inline array are still to come.                      *)
LEMMA ParseInlineArrayLengths ==
  ASSUME IndInv, NestInv, LengthInv, ParseInlineArray
  PROVE  LengthNext
<1> DEFINE y == PutHeaderKey(b, hdr.key)
           ws == IF hdr.root THEN Indent(y) + IndentSize ELSE Indent(y)
           x == Enter(y, "Array", ws)
<1>1. /\ pc = "ParseInlineArray" /\ UNCHANGED pending /\ pc \in HeaderStates
      /\ TableKind(pc) = "Array" /\ "Array" \in Containers
      /\ ws \in {Indent(y), Indent(y) + IndentSize}
  BY DEF ParseInlineArray, HeaderStates, TableKind, Containers
<1>2. SUFFICES ASSUME Strict
               PROVE  LengthNext
  BY DEF LengthNext
<1>3. pc' = "Failed" \/ (pc' = "Element" /\ b' = x /\ left' = hdr.n)
  BY DEF ParseInlineArray, Goto, Fail
<1> HIDE DEF ws
<1>4. /\ Kept(x) /\ AllChecked(x, Len(x.stack) - 1, pending)
      /\ Promised(x, Len(x.stack)) = hdr.n /\ x.cnt = 0
  BY <1>1, <1>2, EnterLengths
<1>5. hdr.n \in Nat
  BY Here
<1> HIDE DEF x
<1>6. CASE pc' = "Element" /\ b' = x /\ left' = hdr.n
  <2>1. CountIn(b', Len(b'.stack)) + left' = Promised(b', Len(b'.stack))
    BY <1>4, <1>5, <1>6, CountInside
  <2>2. Due(pc', hdr', left', b', pending', Len(b'.stack), i')
    BY <1>6, <2>1 DEF Due, HeaderStates, TableStates
  <2>3. QED
    BY <1>1, <1>4, <1>6, <2>2, ArrivesDue DEF Final
<1>7. QED
  BY <1>3, <1>6 DEF LengthNext

(* An element is one less to come; behind the last one there is none.      *)
LEMMA ElementLengths ==
  ASSUME IndInv, NestInv, LengthInv, Element
  PROVE  LengthNext
<1> DEFINE y == Counted(b)
           x == PutValue(y, i)
           n == Len(b.stack)
           delims == IF left > 1 THEN {hdr.delim} ELSE {"NL"}
           end == ValueEnd(i, delims)
           e == EolState(end, x, pending, TRUE)
           arms == [Sibling |-> "ScopeEnd", CloseScope |-> "ScopeEnd"]
<1>1. pc = "Element" /\ UNCHANGED pending /\ left' = left - 1
  BY DEF Element, ElementEnds
<1>2. \/ left > 1 /\ Goto("Element", x, end + 1)
      \/ ~ (left > 1) /\ Follow(e, x, arms)
      \/ Fail
  BY DEF Element, ElementEnds
<1>3. SUFFICES ASSUME Strict
               PROVE  LengthNext
  BY DEF LengthNext
<1>4. /\ Kept(b) /\ ScopesOK(b) /\ b \in Builders /\ n = Len(b.stack) /\ n \in Nat
      /\ AllChecked(b, n - 1, pending) /\ CountIn(b, n) + left = Promised(b, n)
  BY <1>1, <1>3, LengthNowOutsideRows DEF Final, Due
<1>5. left \in Nat /\ left > 0 /\ i \in Nat
  BY <1>1, Here, CursorFacts DEF IndInv, Good
<1> HIDE DEF e, end, n
<1>6. WritesUndeclared(b, x) /\ x.cnt = b.cnt + 1 /\ ScopesOK(x) /\ b.cnt \in Nat
  <2>1. WritesUndeclared(b, y) /\ y.cnt = b.cnt + 1 /\ ScopesOK(y)
    BY <1>4, CountedUndeclared, CountedFacts
  <2>2. y \in Builders
    BY <2>1 DEF ScopesOK
  <2> HIDE DEF y
  <2>3. WritesUndeclared(y, x) /\ x.cnt = y.cnt /\ ScopesOK(x)
    BY <1>5, <2>1, <2>2, PutsUndeclared, PutFacts
  <2>4. b.cnt \in Nat
    BY <1>4, BuilderFields
  <2>5. QED
    BY <2>1, <2>3, <2>4, UndeclaredOn
<1> HIDE DEF x
<1>7. /\ Kept(x) /\ x.stack = b.stack /\ AllChecked(x, n - 1, pending)
      /\ Promised(x, n) = Promised(b, n)
  BY <1>4, <1>6, WritesChecked
<1>8. CountIn(x, n) + (left - 1) = Promised(x, n)
  <2>1. CountIn(b, n) = b.cnt /\ CountIn(x, n) = x.cnt
    BY <1>4, <1>7 DEF CountIn
  <2>2. QED
    BY <1>4, <1>5, <1>6, <1>7, <2>1
<1>9. CASE left > 1 /\ Goto("Element", x, end + 1)
  <2>1. pc' = "Element" /\ b' = x
    BY <1>9 DEF Goto
  <2>2. Due(pc', hdr', left', b', pending', n, i')
    BY <1>1, <1>8, <2>1 DEF Due, HeaderStates, TableStates
  <2>3. QED
    BY <1>1, <1>4, <1>7, <2>1, <2>2, ArrivesDue DEF Final
<1>10. CASE ~ (left > 1) /\ Follow(e, x, arms)
  <2>1. pc' = "Failed" \/ (pc' = "ScopeEnd" /\ b' = x)
    BY <1>10, FollowsTwo
  <2>2. CountIn(x, n) = Promised(x, n)
    <3>1. left - 1 = 0
      BY <1>5, <1>10
    <3>2. CountIn(x, n) \in Nat
      BY <1>4, <1>6, <1>7 DEF CountIn
    <3>3. QED
      BY <1>8, <3>1, <3>2
  <2>3. CASE pc' = "ScopeEnd" /\ b' = x
    <3>1. Due(pc', hdr', left', b', pending', n, i')
      BY <2>2, <2>3 DEF Due, HeaderStates, TableStates
    <3>2. QED
      BY <1>1, <1>4, <1>7, <2>3, <3>1, ArrivesDue DEF Final
  <2>4. QED
    BY <2>1, <2>3 DEF LengthNext
<1>11. QED
  BY <1>2, <1>9, <1>10 DEF LengthNext, Fail

(* The declared length of a block array is put where ScopeEnd looks for it.*)
LEMMA ParseBlockArrayLengths ==
  ASSUME IndInv, NestInv, LengthInv, ParseBlockArray
  PROVE  LengthNext
<1> DEFINE y == PutHeaderKey(b, hdr.key)
           ws == Indent(y) + IndentSize
           x == Enter(y, "Array", ws)
           n == Len(x.stack)
           c == PendingCount(x)
           more == Append(pending, c)
<1>1. /\ pc = "ParseBlockArray" /\ pc \in HeaderStates
      /\ TableKind(pc) = "Array" /\ "Array" \in Containers
  BY DEF ParseBlockArray, HeaderStates, TableKind, Containers
<1>2. SUFFICES ASSUME Strict
               PROVE  LengthNext
  BY DEF LengthNext
<1>3. pc' = "Failed" \/ (pc' = "ExpectBlockArrayItem" /\ b' = x /\ pending' = more)
  <2> DEFINE e == EolState(i, y, pending, FALSE)
             arms == [Nested |-> "ExpectBlockArrayItem"]
  <2>1. (Follow(e, x, arms) /\ pending' = more) \/ Fail
    BY DEF ParseBlockArray
  <2> HIDE DEF e, x, more
  <2>2. Follow(e, x, arms) => pc' = "Failed" \/ (pc' = "ExpectBlockArrayItem" /\ b' = x)
    BY FollowsOne
  <2>3. QED
    BY <2>1, <2>2 DEF Fail
<1>4. /\ Kept(x) /\ AllChecked(x, n - 1, pending) /\ Promised(x, n) = hdr.n
      /\ n \in Nat /\ n >= 1
  BY <1>1, <1>2, EnterLengths
<1> HIDE DEF x
<1>5. c \in [depth : Nat \ {0}, n : Nat] /\ c.depth = n /\ c.n = hdr.n
  <2>1. c = [depth |-> n, n |-> hdr.n]
    BY DEF PendingCount
  <2>2. hdr.n \in Nat
    BY Here
  <2>3. QED
    BY <1>4, <2>1, <2>2
<1>6. pending \in PendingCounts
  BY Here
<1>7. CASE pc' = "ExpectBlockArrayItem" /\ b' = x /\ pending' = more
  <2>1. AllChecked(x, n, more)
    <3> HIDE DEF n, c
    <3>1. QED
      BY <1>4, <1>5, <1>6, PendingChecks
  <2>2. QED
    BY <1>4, <1>7, <2>1, ArrivesChecked
<1>8. QED
  BY <1>3, <1>7 DEF LengthNext

(* An item is counted, and is a value or a container without a promise, or *)
(* one whose header says what it is promised.                              *)
LEMMA ExpectBlockArrayItemLengths ==
  ASSUME IndInv, NestInv, LengthInv, ExpectBlockArrayItem
  PROVE  LengthNext
<1> DEFINE h       == ReadHeader(i + 1)
           x       == Counted(b)
           n       == Len(b.stack)
           simple  == h.type \in {"PrimitiveValue", "EmptyObject"}
           y       == IF h.type = "EmptyObject" THEN PutEmpty(x, "Object")
                                                ELSE PutValue(x, h.key)
           ws      == Indent(x) + BehindHyphen(h)
           z       == IF h.key = 0 THEN x ELSE OpenScope(x, "Object", "Array", ws, -1)
           e       == EolState(h.end, y, pending, FALSE)
           arms    == [Sibling |-> "ExpectBlockArrayItem", CloseScope |-> "ScopeEnd"]
<1>1. pc = "ExpectBlockArrayItem" /\ UNCHANGED pending
  BY DEF ExpectBlockArrayItem
<1>2. \/ Fail \/ Underflow
      \/ Tok(i) = "-" /\ ~ simple /\ Dispatch(h, z, FALSE)
      \/ Tok(i) = "-" /\ simple /\ Follow(e, y, arms)
  BY DEF ExpectBlockArrayItem
<1>3. SUFFICES ASSUME Strict
               PROVE  LengthNext
  BY DEF LengthNext
<1>4. toks \in Document /\ N \in Nat /\ i \in 1..N
  BY Here
<1>5. /\ Kept(b) /\ ScopesOK(b) /\ b \in Builders /\ n = Len(b.stack) /\ n \in Nat /\ n >= 1
      /\ AllChecked(b, n - 1, pending) /\ Checked(b, n, pending)
  BY <1>1, <1>3, LengthNowOutsideRows DEF Final, Due
<1> HIDE DEF n
<1>6. AllChecked(b, n, pending)
  BY <1>5, OneMoreChecked
<1>7. ScopesOK(x) /\ x \in Builders /\ WritesUndeclared(b, x) /\ x.stack = b.stack
  BY <1>5, CountedFacts, CountedUndeclared DEF ScopesOK
<1> HIDE DEF x
<1>8. Kept(x) /\ n = Len(x.stack) /\ AllChecked(x, n, pending)
  BY <1>5, <1>6, <1>7, WritesChecked
<1>9. ASSUME Tok(i) = "-"
      PROVE  HeaderOK(h)
  <2>1. i < N
    BY <1>4, <1>9, DocumentFacts
  <2>2. i + 1 \in 1..N
    BY <1>4, <2>1, Behind, Zenon
  <2>3. QED
    BY <1>4, <2>2, ReadHeaderFacts DEF h
<1>10. CASE Tok(i) = "-" /\ ~ simple /\ Dispatch(h, z, FALSE)
  <2>1. HeaderOK(h) /\ (h.type = "EmptyArray" => h.n = 0)
    BY <1>9, <1>10, EmptyArrayHeader
  <2> HIDE DEF h
  <2>2. Kept(z) /\ AllChecked(z, Len(z.stack), pending)
    <3>1. CASE h.key = 0
      BY <1>8, <3>1
    <3>2. CASE h.key # 0
      <4>1. Indent(x) \in Nat /\ IndentSize \in Nat
        BY <1>7, ScopesFacts, ConstantsAssumption
      <4>2. ws \in Nat /\ ws >= Indent(x)
        BY <4>1 DEF BehindHyphen
      <4>3. z = OpenScope(x, "Object", "Array", ws, -1)
        BY <3>2
      <4> HIDE DEF ws, z
      <4>4. /\ Kept(z) /\ SamePromises(x, z, n)
            /\ Len(z.stack) = n + 1 /\ Promised(z, n + 1) = -1
        BY <1>8, <4>2, <4>3, OpenKept DEF Containers
      <4>5. AllChecked(z, n, pending)
        BY <1>5, <1>8, <4>4, StaysChecked
      <4> DEFINE m == n + 1
      <4>6. Checked(z, m, pending) /\ m \in Nat /\ m >= 1 /\ m - 1 = n /\ Len(z.stack) = m
        BY <1>5, <4>4 DEF Checked
      <4> HIDE DEF m
      <4>7. AllChecked(z, m, pending)
        BY <4>5, <4>6, OneMoreChecked
      <4>8. QED
        BY <4>4, <4>6, <4>7
    <3>3. QED
      BY <3>1, <3>2
  <2> HIDE DEF z
  <2>3. Len(z.stack) \in Nat /\ Len(z.stack) >= 1
    BY <2>2, SlotFacts DEF Kept
  <2>4. AllChecked(z, Len(z.stack) - 1, pending) /\ Checked(z, Len(z.stack), pending)
    <3>1. /\ Len(z.stack) \in 1..Len(z.stack)
          /\ \A d \in 1..(Len(z.stack) - 1) : d \in 1..Len(z.stack)
      BY <2>3
    <3>2. QED
      BY <2>2, <3>1 DEF AllChecked
  <2>5. QED
    BY <1>1, <1>10, <2>1, <2>2, <2>4, DispatchLengths
<1>11. CASE Tok(i) = "-" /\ simple /\ Follow(e, y, arms)
  <2>1. h.key \in Nat
    BY <1>9, <1>11 DEF HeaderOK, Headers
  <2> HIDE DEF h
  <2>2. ScopesOK(y) /\ WritesUndeclared(x, y)
    BY <1>7, <2>1, PutFacts, PutsUndeclared DEF Containers
  <2> HIDE DEF e, y
  <2>3. Kept(y) /\ AllChecked(y, Len(y.stack), pending)
    BY <1>8, <2>2, WritesChecked
  <2>4. pc' = "Failed" \/ (pc' \in {"ExpectBlockArrayItem", "ScopeEnd"} /\ b' = y)
    BY <1>11, FollowsTwo
  <2>5. QED
    BY <1>1, <2>3, <2>4, ArrivesChecked DEF LengthNext
<1>12. Fail \/ Underflow => LengthNext
  BY DEF Fail, Underflow, LengthNext
<1>13. QED
  BY <1>2, <1>10, <1>11, <1>12

(* The rows of a table are as many as its header says, or more than there  *)
(* are lines.                                                              *)
LEMMA TableLengths ==
  ASSUME IndInv, NestInv, LengthInv, Strict, pc \in TableStates,
         NEW next \in {"Row", "ScopeEnd", "Panicked"},
         OpenTable(TableKind(pc), next), hdr' = [hdr EXCEPT !.type = pc], UNCHANGED pending,
         next = "ScopeEnd" => hdr.n = 0,
         next = "Row" => left' \in Nat /\ left' >= 1 /\ (left' = hdr.n \/ left' >= N + 1)
  PROVE  LengthNext
<1> DEFINE kind == TableKind(pc)
           y == PutHeaderKey(b, hdr.key)
           e == EolState(i + 1, y, pending, FALSE)
           ws == Indent(y) + IndentSize
           x == Enter(y, kind, ws)
           n == Len(x.stack)
<1>1. kind \in Containers /\ pc \in HeaderStates /\ pc \notin Final \cup {"Start", "Cell", "EndRow"}
  BY DEF TableKind, Containers, HeaderStates, TableStates, Final
<1>2. Follow(e, x, [Nested |-> next]) \/ Fail
  BY DEF OpenTable
<1>3. pc # "ParseTabularArrayLenient"
  BY <1>1, LengthNowOutsideRows DEF Due
<1>4. /\ Kept(x) /\ AllChecked(x, n - 1, pending) /\ Promised(x, n) = hdr.n /\ x.cnt = 0
  BY <1>1, EnterLengths
<1> HIDE DEF e, kind, x
<1>5. pc' = "Failed" \/ (pc' = next /\ b' = x)
  BY <1>2, FollowsOne DEF Fail
<1>6. pc' = "Failed" \/ i' \in 1..N
  BY <1>1, OpenTableFacts DEF kind
<1>7. hdr.n \in Nat /\ N \in Nat /\ hdr'.type = pc
  BY Here DEF Headers
<1>8. CountIn(x, n) = 0
  BY <1>4, CountInside
<1> HIDE DEF n
<1>9. CASE pc' = "Row" /\ next = "Row" /\ b' = x /\ i' \in 1..N
  <2>1. left' >= 1 /\ (CountIn(x, n) + left' = Promised(x, n) \/ left' + i' >= N + 2)
    <3>1. CASE left' = hdr.n
      BY <1>4, <1>7, <1>8, <1>9, <3>1
    <3>2. CASE left' >= N + 1
      BY <1>7, <1>9, <3>2
    <3>3. QED
      BY <1>9, <3>1, <3>2
  <2>2. Due(pc', hdr', left', b', pending', n, i')
    <3>1. Promised(x, n) + 0 = Promised(x, n)
      BY <1>4, <1>7
    <3>2. QED
      BY <1>3, <1>7, <1>9, <2>1, <3>1 DEF Due, HeaderStates, TableStates
  <2>3. QED
    BY <1>4, <1>9, <2>2, ArrivesDue DEF Final, n
<1>10. CASE pc' = "ScopeEnd" /\ next = "ScopeEnd" /\ b' = x
  <2>1. CountIn(x, n) = Promised(x, n)
    BY <1>4, <1>8, <1>10
  <2>2. Due(pc', hdr', left', b', pending', n, i')
    BY <1>10, <2>1 DEF Due, HeaderStates, TableStates
  <2>3. QED
    BY <1>4, <1>10, <2>2, ArrivesDue DEF Final, n
<1>11. QED
  BY <1>5, <1>6, <1>9, <1>10 DEF LengthNext

(* All four kinds of table do; in strict mode there are three of them.     *)
LEMMA TablesLengths ==
  ASSUME IndInv, NestInv, LengthInv,
         \/ ParseTabularObjects \/ ParseTabularArrayStrict \/ ParseTabularArrayLenient
         \/ ParseNestedFieldGroupsArrayStrict
  PROVE  LengthNext
<1>1. SUFFICES ASSUME Strict
               PROVE  LengthNext
  BY DEF LengthNext
<1>2. hdr.n \in Nat /\ N \in Nat
  BY Here
<1>3. /\ RowsOrEnd \in {"Row", "ScopeEnd", "Panicked"}
      /\ RowsOrEnd = "ScopeEnd" => hdr.n = 0
      /\ RowsOrEnd = "Row" => hdr.n >= 1
  BY <1>2 DEF RowsOrEnd
<1>4. /\ TableKind("ParseTabularObjects") = "Object"
      /\ TableKind("ParseTabularArrayStrict") = "Array"
      /\ TableKind("ParseNestedFieldGroupsArrayStrict") = "Array"
  BY DEF TableKind
<1>5. CASE ParseTabularObjects
  BY <1>1, <1>2, <1>3, <1>4, <1>5, TableLengths DEF ParseTabularObjects, TableStates
<1>6. CASE ParseTabularArrayStrict
  BY <1>1, <1>2, <1>3, <1>4, <1>6, TableLengths DEF ParseTabularArrayStrict, TableStates
<1>7. CASE ParseTabularArrayLenient
  <2>1. pc = "ParseTabularArrayLenient"
    BY <1>7 DEF ParseTabularArrayLenient
  <2>2. QED
    BY <1>1, <2>1, LengthNowOutsideRows DEF Due, Final
<1>8. CASE ParseNestedFieldGroupsArrayStrict
  <2>1. /\ pc \in TableStates /\ TableKind(pc) = "Array"
        /\ OpenTable("Array", "Panicked") \/ OpenTable("Array", "Row")
        /\ left' = IF hdr.n = 0 THEN N + 1 ELSE hdr.n
        /\ hdr' = [hdr EXCEPT !.type = pc] /\ UNCHANGED pending
    BY <1>4, <1>8 DEF ParseNestedFieldGroupsArrayStrict, TableStates
  <2>2. left' \in Nat /\ left' >= 1 /\ (left' = hdr.n \/ left' >= N + 1)
    BY <1>2, <2>1
  <2>3. QED
    BY <1>1, <2>1, <2>2, TableLengths
<1>9. QED
  BY <1>5, <1>6, <1>7, <1>8

-----------------------------------------------------------------------------
(* The rows. *)

(* Promises and counts are numbers.                                        *)
LEMMA LengthNumbers ==
  ASSUME NEW x, Kept(x), NEW d \in 1..Len(x.stack)
  PROVE  Promised(x, d) \in Int /\ CountIn(x, d) \in Nat
<1>1. /\ x \in Builders /\ x.tape \in Seq(Nodes) /\ x.cnt \in Nat /\ Slot(x, d) \in 1..Len(x.tape)
      /\ Len(x.stack) \in Nat
  BY SlotFacts DEF Kept
<1>2. x.tape[Slot(x, d)] \in Nodes
  BY <1>1
<1>3. Promised(x, d) \in Int
  BY <1>2 DEF Promised, Nodes
<1>4. CASE d = Len(x.stack)
  BY <1>1, <1>3, <1>4 DEF CountIn
<1>5. CASE d # Len(x.stack)
  <2>1. d + 1 \in 1..Len(x.stack) /\ x.stack \in Seq(Frames)
    BY <1>1, <1>5, BuilderFields
  <2>2. x.stack[d + 1] \in Frames
    BY <2>1
  <2>3. QED
    BY <1>3, <1>5, <2>2 DEF CountIn, Frames
<1>6. QED
  BY <1>4, <1>5

(* y has the n scopes around the rows of a table in common with x, and     *)
(* whatever scopes are open inside of them are promised nothing.           *)
SameTable(x, y, n) ==
  /\ Kept(y)
  /\ \A d \in 1..n : Promised(y, d) = Promised(x, d) /\ CountIn(y, d) = CountIn(x, d)
  /\ \A d \in (n + 1)..Len(y.stack) : Promised(y, d) = -1

(* Steps from row to row that leave the table and what is to come the same.*)
LEMMA ArrivesInRow ==
  ASSUME pc' \in {"Cell", "EndRow"}, hdr'.type # "ParseTabularArrayLenient",
         NEW n, n = Base(pc', hdr', cell', b'), Kept(b'), AllChecked(b', n - 1, pending'),
         \A d \in (n + 1)..Len(b'.stack) : Promised(b', d) = -1, left' >= 1,
         CountIn(b', n) + left' = Promised(b', n) + 1 \/ left' + i' >= N + 2
  PROVE  LengthNext
<1>1. Due(pc', hdr', left', b', pending', n, i')
  BY DEF Due, HeaderStates, TableStates
<1>2. QED
  BY <1>1 DEF LengthNext, Lengths, Kept, Final

(* The cursor does not go back.                                            *)
LEMMA CursorAdvances ==
  ASSUME IndInv, NEW D
  PROVE  /\ ValueEnd(i, D) \in Int /\ ValueEnd(i, D) >= i
         /\ ValueEnd(i, D) + 1 >= i
<1>1. toks \in Document /\ i \in 1..N /\ N \in Nat
  BY Here
<1>2. ValueEnd(i, D) \in i..N
  BY <1>1, ValueEndFacts
<1>3. QED
  BY <1>1, <1>2

(* Rows that were too many stay too many when the cursor moves on.         *)
LEMMA StaysBeyond ==
  ASSUME NEW l \in Int, NEW p \in Int, NEW q \in Int, NEW m \in Int, q >= p, l + p >= m + 2
  PROVE  l + q >= m + 2
OBVIOUS

(* A row counts from its beginning on.                                     *)
LEMMA RowLengths ==
  ASSUME IndInv, NestInv, LengthInv, Row
  PROVE  LengthNext
<1> DEFINE keyed == hdr.type = "ParseTabularObjects"
           end   == ValueEnd(i, {":"})
           row(x, tag) == OpenScope(x, "Object", tag, Indent(x), -1)
           n == Len(b.stack)
<1>1. pc = "Row" /\ UNCHANGED <<hdr, left, pending>>
  BY DEF Row
<1>2. SUFFICES ASSUME Strict
               PROVE  LengthNext
  BY DEF LengthNext
<1>3. /\ Kept(b) /\ ScopesOK(b) /\ b \in Builders /\ n = Len(b.stack) /\ n \in Nat /\ n >= 1
      /\ AllChecked(b, n - 1, pending)
      /\ hdr.type # "ParseTabularArrayLenient" /\ left >= 1
      /\ CountIn(b, n) + left = Promised(b, n) + 0 \/ left + i >= N + 2
  BY <1>1, <1>2, LengthNowOutsideRows DEF Final, Due
<1>4. /\ i \in Nat /\ left \in Nat /\ end \in Int /\ end + 1 >= i /\ N \in Nat
  BY Here, CursorFacts, CursorAdvances
<1>5. Promised(b, n) \in Int /\ b.cnt \in Nat /\ CountIn(b, n) = b.cnt
  <2>1. n \in 1..Len(b.stack)
    BY <1>3
  <2>2. QED
    BY <1>3, <2>1, LengthNumbers, CountInside, BuilderFields
<1> HIDE DEF n, end
<1>6. ASSUME NEW x, ScopesOK(x), WritesUndeclared(b, x), x.cnt = b.cnt + 1,
             NEW tag \in {"Object", "Array"}, pc' = "Cell", b' = row(x, tag), i' \in Int, i' >= i
      PROVE  LengthNext
  <2> DEFINE y == row(x, tag)
             ws == Indent(x)
  <2>1. Kept(x) /\ x.stack = b.stack /\ AllChecked(x, n - 1, pending)
        /\ Promised(x, n) = Promised(b, n)
    BY <1>3, <1>6, WritesChecked
  <2>2. ws \in Nat /\ ws >= Indent(x)
    BY <1>6, ScopesFacts
  <2>3. y = OpenScope(x, "Object", tag, ws, -1) /\ b' = y /\ n = Len(x.stack)
    BY <1>3, <1>6, <2>1
  <2> HIDE DEF y, ws
  <2>4. /\ Kept(y) /\ SamePromises(x, y, n) /\ CountIn(y, n) = x.cnt
        /\ Len(y.stack) = n + 1 /\ Promised(y, n + 1) = -1
    BY <2>1, <2>2, <2>3, OpenKept DEF Containers
  <2>5. AllChecked(y, n - 1, pending) /\ Promised(y, n) = Promised(b, n)
    <3>1. n - 1 \in Int /\ n - 1 <= n /\ n \in 1..n
      BY <1>3
    <3>2. QED
      BY <1>3, <2>1, <2>4, <3>1, StaysChecked DEF SamePromises
  <2>6. \A d \in (n + 1)..Len(y.stack) : Promised(y, d) = -1
    <3>1. \A d \in (n + 1)..Len(y.stack) : d = n + 1
      BY <1>3, <2>4
    <3>2. QED
      BY <2>4, <3>1
  <2>7. CountIn(y, n) + left' = Promised(y, n) + 1 \/ left' + i' >= N + 2
    <3> DEFINE count == CountIn(y, n)
               promised == Promised(b, n)
    <3>1. count = b.cnt + 1 /\ Promised(y, n) = promised /\ promised \in Int
      BY <1>5, <1>6, <2>4, <2>5
    <3>2. CASE b.cnt + left = promised + 0
      <4> HIDE DEF count, promised
      <4>1. count + left = promised + 1
        BY <1>4, <1>5, <3>1, <3>2
      <4>2. QED
        BY <1>1, <3>1, <4>1 DEF count
    <3>3. CASE left + i >= N + 2
      <4>1. left + i' >= N + 2
        <5>1. i' \in Int /\ i' >= i
          BY <1>6
        <5>2. i \in Int /\ left \in Int /\ N \in Int
          BY <1>4
        <5>3. QED
          BY <3>3, <5>1, <5>2, StaysBeyond
      <4>2. QED
        BY <1>1, <4>1
    <3>4. QED
      BY <1>3, <1>5, <3>2, <3>3
  <2>8. Base(pc', hdr', cell', b') = n
    <3>1. pc' \notin Final
      BY <1>6 DEF Final
    <3>2. Base(pc', hdr, cell', b') = n
      BY <3>1, RowStep DEF n
    <3>3. QED
      BY <1>1, <3>2
  <2>9. QED
    BY <1>1, <1>3, <1>6, <2>3, <2>4, <2>5, <2>6, <2>7, <2>8, ArrivesInRow
<1>7. CASE ~ keyed /\ Goto("Cell", row(Counted(b), "Array"), i)
  <2>1. /\ ScopesOK(Counted(b)) /\ WritesUndeclared(b, Counted(b)) /\ Counted(b).cnt = b.cnt + 1
    BY <1>3, CountedFacts, CountedUndeclared
  <2>2. pc' = "Cell" /\ b' = row(Counted(b), "Array") /\ i' \in Int /\ i' >= i
    BY <1>4, <1>7 DEF Goto
  <2>3. QED
    BY <1>6, <2>1, <2>2
<1>8. CASE keyed /\ Goto("Cell", row(PutKey(b, i), "Object"), end + 1)
  <2>1. /\ ScopesOK(PutKey(b, i)) /\ WritesUndeclared(b, PutKey(b, i)) /\ PutKey(b, i).cnt = b.cnt + 1
    BY <1>3, <1>4, PutFacts, PutsUndeclared
  <2>2. pc' = "Cell" /\ b' = row(PutKey(b, i), "Object") /\ i' \in Int /\ i' >= i
    BY <1>4, <1>8 DEF Goto
  <2>3. QED
    BY <1>6, <2>1, <2>2
<1>9. QED
  <2>1. \/ ~ keyed /\ Goto("Cell", row(Counted(b), "Array"), i)
        \/ keyed /\ Goto("Cell", row(PutKey(b, i), "Object"), end + 1)
        \/ Underflow \/ Fail
    BY Zenon DEF Row, end
  <2>2. Underflow \/ Fail => LengthNext
    BY DEF Underflow, Fail, LengthNext
  <2>3. QED
    BY <1>7, <1>8, <2>1, <2>2

(* A field of a row leaves the table as it is.                             *)
LEMMA CellLengths ==
  ASSUME IndInv, NestInv, LengthInv, Cell
  PROVE  LengthNext
<1> DEFINE leaf   == IsLeaf(hdr, cell)
           last   == \A j \in Leaves(hdr) : j <= cell
           delims == CellEnds(last)
           end    == ValueEnd(i, delims)
           name   == NameStart(hdr, cell)
           key    == PutKey(b, name)
           before == IF leaf THEN PutValue(key, i)
                     ELSE IF IsGroup(hdr, cell)
                     THEN OpenScope(key, "Object", "Object", Indent(b), -1)
                     ELSE b
           after  == IF IsGroupEnd(hdr, cell) THEN CloseScope(before) ELSE before
           todo   == {j \in (cell + 1)..hdr.hi :
                        IsLeaf(hdr, j) \/ IsGroup(hdr, j) \/ IsGroupEnd(hdr, j)}
           next   == IF todo = {} THEN "EndRow" ELSE "Cell"
           n      == Base("Cell", hdr, cell, b)
           m      == Len(b.stack)
<1>1. pc = "Cell" /\ UNCHANGED <<hdr, left, pending>>
  BY DEF Cell
<1>2. SUFFICES ASSUME Strict
               PROVE  LengthNext
  BY DEF LengthNext
<1>3. /\ Kept(b) /\ AllChecked(b, n - 1, pending)
      /\ \A d \in (n + 1)..m : Promised(b, d) = -1
      /\ hdr.type # "ParseTabularArrayLenient" /\ left >= 1
      /\ CountIn(b, n) + left = Promised(b, n) + 1 \/ left + i >= N + 2
  BY <1>1, <1>2, LengthNow DEF Final, Lengths, Due
<1>4. /\ hdr.lo # 0 /\ cell \in (hdr.lo + 1)..hdr.hi
      /\ toks \in Document /\ FieldList(hdr.lo, hdr.hi) /\ hdr.delim \in Delims
      /\ hdr.lo \in Nat /\ hdr.hi \in Nat /\ i \in Nat /\ N \in Nat /\ left \in Nat
  BY <1>1, Here, CursorFacts DEF IndInv, Good
<1>5. ScopesOK(b) /\ b \in Builders /\ m \in Nat
  BY <1>3, SlotFacts DEF Kept
<1>6. n \in Int /\ n >= 1 /\ n < m
  <2>1. n >= 1 /\ n = m - Level(hdr.lo, cell - 1)
    BY <1>1, Here DEF Final, Base
  <2>2. Level(hdr.lo, cell - 1) \in Int /\ Level(hdr.lo, cell - 1) >= 1
    BY <1>4, LevelAt
  <2>3. QED
    BY <1>5, <2>1, <2>2
<1>7. name \in Nat
  <2>1. cell \in Nat /\ cell > hdr.lo
    BY <1>4
  <2>2. QED
    BY <1>4, <2>1, NameStartFacts
<1> HIDE DEF name, n
<1>8. ASSUME NEW x, ScopesOK(x), WritesUndeclared(b, x)
      PROVE  SameTable(b, x, n) /\ x.stack = b.stack
  <2>1. Kept(x) /\ x.stack = b.stack /\ SamePromises(b, x, m)
    BY <1>3, <1>8, WritesLengths
  <2> HIDE DEF m
  <2>2. \A d \in 1..n : d \in 1..m /\ d \in 1..(m - 1)
    BY <1>5, <1>6
  <2>3. \A d \in (n + 1)..m : d \in 1..m
    BY <1>5, <1>6
  <2>4. QED
    BY <1>3, <2>1, <2>2, <2>3 DEF SameTable, SamePromises, m
<1>9. ScopesOK(key) /\ WritesUndeclared(b, key) /\ key \in Builders
  BY <1>5, <1>7, PutFacts, PutsUndeclared DEF ScopesOK
<1> HIDE DEF key
<1>10. /\ SameTable(b, before, n)
       /\ IsGroupEnd(hdr, cell) => before.stack = b.stack
  <2>1. CASE leaf
    <3> DEFINE x == PutValue(key, i)
    <3>1. ScopesOK(x) /\ WritesUndeclared(key, x)
      BY <1>4, <1>9, PutFacts, PutsUndeclared
    <3> HIDE DEF x
    <3>2. WritesUndeclared(b, x)
      BY <1>9, <3>1, UndeclaredOn
    <3>3. before = x
      BY <2>1 DEF x
    <3>4. QED
      BY <1>8, <3>1, <3>2, <3>3
  <2>2. CASE ~ leaf /\ IsGroup(hdr, cell)
    <3> DEFINE ws == Indent(b)
    <3>1. before = OpenScope(key, "Object", "Object", ws, -1)
      BY <2>2
    <3>2. ~ IsGroupEnd(hdr, cell)
      BY <2>2 DEF IsGroup, IsGroupEnd, Opens
    <3> HIDE DEF before
    <3>3. SameTable(b, key, n) /\ Kept(key) /\ key.stack = b.stack
      BY <1>8, <1>9 DEF SameTable
    <3>4. ws \in Nat /\ ws >= Indent(key)
      <4>1. Indent(b) \in Nat /\ Indent(key) = Indent(b)
        BY <1>5, <1>9, ScopesFacts DEF WritesUndeclared, WritesIn, Indent
      <4>2. QED
        BY <4>1
    <3> HIDE DEF ws
    <3>5. /\ Kept(before) /\ SamePromises(key, before, m)
          /\ Len(before.stack) = m + 1 /\ Promised(before, m + 1) = -1
      <4>1. m = Len(key.stack)
        BY <3>3
      <4> HIDE DEF m
      <4>2. QED
        BY <3>1, <3>3, <3>4, <4>1, OpenKept DEF Containers
    <3> HIDE DEF m
    <3>6. \A d \in 1..n : d \in 1..m /\ d \in 1..(m - 1)
      BY <1>5, <1>6
    <3>7. \A d \in (n + 1)..(m + 1) : d = m + 1 \/ (d \in (n + 1)..m /\ d \in 1..m)
      BY <1>5, <1>6
    <3>8. \A d \in (n + 1)..m : Promised(key, d) = -1
      BY <3>3 DEF SameTable, m
    <3>9. QED
      BY <3>2, <3>3, <3>5, <3>6, <3>7, <3>8 DEF SameTable, SamePromises
  <2>3. CASE ~ leaf /\ ~ IsGroup(hdr, cell)
    <3>1. before = b
      BY <2>3
    <3>2. WritesUndeclared(b, b)
      BY <1>5, UndeclaredItself
    <3>3. QED
      BY <1>5, <1>8, <3>1, <3>2
  <2>4. QED
    BY <2>1, <2>2, <2>3
<1> HIDE DEF before, leaf
<1>11. SameTable(b, after, n)
  <2>1. CASE ~ IsGroupEnd(hdr, cell)
    BY <1>10, <2>1
  <2>2. CASE IsGroupEnd(hdr, cell)
    <3>1. after = CloseScope(before) /\ m = Len(before.stack) /\ Kept(before)
      BY <1>10, <2>2 DEF SameTable
    <3> HIDE DEF after
    <3>2. Promised(before, m) = -1 /\ m >= 2
      <4>1. m \in (n + 1)..m /\ m >= 2
        BY <1>5, <1>6
      <4>2. QED
        BY <1>10, <3>1, <4>1 DEF SameTable
    <3>3. /\ Kept(after) /\ SamePromises(before, after, m - 1)
          /\ CountIn(after, m - 1) = CountIn(before, m - 1) /\ Len(after.stack) = m - 1
      BY <3>1, <3>2, CloseKept
    <3> HIDE DEF m
    <3>4. \A d \in 1..n : d \in 1..(m - 1) /\ (d = m - 1 \/ d \in 1..(m - 1 - 1))
      BY <1>5, <1>6
    <3>5. \A d \in (n + 1)..(m - 1) : d \in (n + 1)..m /\ d \in 1..(m - 1)
      BY <1>5, <1>6
    <3>6. \A d \in (n + 1)..m : Promised(before, d) = -1
      BY <1>10, <3>1 DEF SameTable
    <3>7. \A d \in 1..n : Promised(after, d) = Promised(before, d)
                          /\ CountIn(after, d) = CountIn(before, d)
      BY <3>3, <3>4 DEF SamePromises
    <3>8. \A d \in (n + 1)..(m - 1) : Promised(after, d) = -1
      BY <3>3, <3>5, <3>6 DEF SamePromises
    <3>9. QED
      BY <1>10, <3>3, <3>7, <3>8 DEF SameTable
  <2>3. QED
    BY <2>1, <2>2
<1>12. \/ Fail \/ Goto(next, after, i)
       \/ Goto(next, after, IF Tok(end) = "NL" THEN end ELSE end + 1)
  BY Zenon DEF Cell, after, before, key, leaf, name
<1>13. end \in Int /\ end >= i /\ end + 1 >= i
  BY CursorAdvances
<1> HIDE DEF after, todo, end
<1>14. pc' = "Failed" \/ (pc' \in {"Cell", "EndRow"} /\ b' = after /\ i' \in Int /\ i' >= i)
  BY <1>4, <1>12, <1>13 DEF Goto, Fail
<1>15. CASE pc' \in {"Cell", "EndRow"} /\ b' = after /\ i' \in Int /\ i' >= i
  <2>1. Base(pc', hdr', cell', b') = n
    BY <1>1, <1>15, CellStep DEF n
  <2>2. n \in 1..n /\ n - 1 \in Int /\ n - 1 <= n /\ n \in Nat
    BY <1>6
  <2>3. AllChecked(after, n - 1, pending)
    <3>1. \A d \in 1..(n - 1) : d \in 1..n
      BY <2>2
    <3>2. QED
      BY <1>3, <1>11, <3>1 DEF SameTable, AllChecked, Checked
  <2>4. CountIn(after, n) = CountIn(b, n) /\ Promised(after, n) = Promised(b, n)
    BY <1>11, <2>2 DEF SameTable
  <2>5. left + i >= N + 2 => left + i' >= N + 2
    <3>1. left \in Int /\ i \in Int /\ N \in Int /\ i' \in Int /\ i' >= i
      BY <1>4, <1>15
    <3>2. QED
      BY <3>1, StaysBeyond
  <2>6. CountIn(b', n) + left' = Promised(b', n) + 1 \/ left' + i' >= N + 2
    BY <1>1, <1>3, <1>15, <2>4, <2>5
  <2>7. QED
    BY <1>1, <1>3, <1>11, <1>15, <2>1, <2>3, <2>6, ArrivesInRow DEF SameTable
<1>16. QED
  BY <1>14, <1>15 DEF LengthNext

(* A line that goes on in the same scope is behind the line end.           *)
LEMMA SiblingAdvances ==
  ASSUME toks \in Document, NEW p \in 1..N, NEW x, NEW pend, NEW blank,
         EolState(p, x, pend, blank).is = "Sibling"
  PROVE  /\ EolState(p, x, pend, blank).at \in Int
         /\ EolState(p, x, pend, blank).at >= p + 1
<1> DEFINE S == {j \in (p + 1)..N : Tok(j) # "NL" \/ j = N}
           q == Min(S)
           ws == toks[q].ws
           is == IF q > p + 1 /\ Strict /\ (blank \/ InsideArray(ws, x, pend))
                 THEN "Fail" ELSE IndentRelation(ws, x)
<1>1. N \in Nat
  BY DocumentFacts
<1>2. CASE p = N
  BY <1>2 DEF EolState
<1>3. CASE p # N
  <2>1. S \subseteq Nat /\ N \in S
    BY <1>1, <1>3
  <2>2. q \in S
    BY <2>1, MinOfNaturals
  <2>3. q \in Int /\ q >= p + 1
    BY <1>1, <2>2
  <2> HIDE DEF q
  <2>4. EolState(p, x, pend, blank) =
          IF Tok(p) # "NL" THEN [is |-> "Fail", at |-> p, ws |-> dedent]
          ELSE IF q = N THEN [is |-> "CloseScope", at |-> q, ws |-> dedent]
          ELSE [is |-> is, at |-> q, ws |-> ws]
    BY <1>3 DEF EolState, q
  <2> HIDE DEF is, ws
  <2>5. EolState(p, x, pend, blank).at = q
    BY <2>4
  <2>6. QED
    BY <2>3, <2>5
<1>4. QED
  BY <1>2, <1>3

(* With the row its table has one entry less to come; behind the last one  *)
(* there is none.                                                          *)
LEMMA EndRowLengths ==
  ASSUME IndInv, NestInv, LengthInv, EndRow
  PROVE  LengthNext
<1> DEFINE x == CloseScope(b)
           m == Len(b.stack)
           n == m - 1
           count == CountIn(b, n)
           promised == Promised(b, n)
           arms == [Sibling |-> "Row"]
           e == EolState(i, x, pending, TRUE)
<1>1. pc = "EndRow" /\ UNCHANGED <<hdr, pending>> /\ left' = IF left = 0 THEN 0 ELSE left - 1
  BY DEF EndRow
<1>2. SUFFICES ASSUME Strict
               PROVE  LengthNext
  BY DEF LengthNext
<1>3. Base(pc, hdr, cell, b) = n
  BY <1>1 DEF Base
<1>4. /\ Kept(b) /\ AllChecked(b, n - 1, pending)
      /\ \A d \in (n + 1)..m : Promised(b, d) = -1
      /\ hdr.type # "ParseTabularArrayLenient" /\ left >= 1
      /\ count + left = promised + 1 \/ left + i >= N + 2
  BY <1>1, <1>2, <1>3, LengthNow DEF Final, Lengths, Due
<1>5. toks \in Document /\ i \in 1..N /\ i \in Int /\ i <= N /\ N \in Int /\ left \in Int
  <2>1. toks \in Document /\ i \in 1..N /\ left \in Nat
    BY Here
  <2>2. i \in Nat /\ N \in Nat /\ i <= N
    BY CursorFacts
  <2>3. QED
    BY <2>1, <2>2
<1>6. n >= 1 /\ n \in Int /\ m \in Nat /\ m >= 2
  <2>1. n >= 1
    BY <1>1, <1>3, Here DEF Final
  <2>2. m \in Nat
    BY <1>4, SlotFacts DEF Kept
  <2>3. QED
    BY <2>1, <2>2
<1>7. Promised(b, m) = -1
  <2>1. m \in (n + 1)..m
    BY <1>6
  <2>2. QED
    BY <1>4, <2>1
<1>8. /\ Kept(x) /\ SamePromises(b, x, n) /\ CountIn(x, n) = count /\ Len(x.stack) = n
  <2>1. m = Len(b.stack) /\ x = CloseScope(b)
    OBVIOUS
  <2> HIDE DEF m, x
  <2>2. QED
    BY <1>4, <1>6, <1>7, <2>1, CloseKept
<1>9. count \in Int /\ promised \in Int
  <2>1. n \in 1..m
    BY <1>6
  <2>2. QED
    BY <1>4, <2>1, LengthNumbers
<1> HIDE DEF x, n
<1>10. Promised(x, n) = promised /\ AllChecked(x, n - 1, pending)
  <2>1. n \in 1..n /\ n - 1 \in Int /\ n - 1 <= n /\ n \in Nat
    BY <1>6
  <2>2. QED
    BY <1>4, <1>8, <2>1, StaysChecked DEF SamePromises
<1> HIDE DEF count, promised
<1>11. CASE left = 1 /\ Goto("ScopeEnd", x, i)
  <2>1. count = promised
    BY <1>4, <1>5, <1>9, <1>11
  <2>2. pc' = "ScopeEnd" /\ b' = x
    BY <1>11 DEF Goto
  <2>3. Due(pc', hdr', left', b', pending', n, i')
    BY <1>8, <1>10, <2>1, <2>2 DEF Due, HeaderStates, TableStates
  <2>4. QED
    BY <1>1, <1>8, <1>10, <2>2, <2>3, ArrivesDue DEF Final
<1>12. CASE left # 1 /\ Follow(e, x, arms)
  <2>1. e.is = "Sibling" => e.at \in Int /\ e.at >= i + 1
    BY <1>5, SiblingAdvances
  <2>2. DOMAIN arms = {"Sibling"} /\ arms["Sibling"] = "Row"
    OBVIOUS
  <2> HIDE DEF e, arms
  <2>3. pc' = "Failed" \/ (pc' = "Row" /\ b' = x /\ i' \in Int /\ i' >= i + 1)
    BY <1>12, <2>1, <2>2 DEF Follow, Goto, Fail
  <2>4. left' = left - 1 /\ left' >= 1 /\ left' \in Int
    BY <1>1, <1>4, <1>5, <1>12
  <2>5. CASE pc' = "Row" /\ b' = x /\ i' \in Int /\ i' >= i + 1
    <3>1. count + left' = promised + 0 \/ left' + i' >= N + 2
      <4> DEFINE l == left'
                 p == i'
      <4>1. /\ l = left - 1 /\ p \in Int /\ p >= i + 1 /\ left \in Int /\ i \in Int /\ N \in Int
            /\ count \in Int /\ promised \in Int
            /\ count + left = promised + 1 \/ left + i >= N + 2
        BY <1>4, <1>5, <1>9, <2>4, <2>5
      <4> HIDE DEF l, p
      <4>2. count + l = promised + 0 \/ l + p >= N + 2
        BY ONLY <4>1
      <4>3. QED
        BY <4>2 DEF l, p
    <3>2. Due(pc', hdr', left', b', pending', n, i')
      BY <1>1, <1>4, <1>8, <1>10, <2>4, <2>5, <3>1 DEF Due, HeaderStates, TableStates
    <3>3. QED
      BY <1>1, <1>8, <1>10, <2>5, <3>2, ArrivesDue DEF Final
  <2>6. QED
    BY <2>3, <2>5 DEF LengthNext
<1>13. QED
  <2>1. \/ left = 1 /\ Goto("ScopeEnd", x, i)
        \/ left # 1 /\ Follow(e, x, arms)
    BY <1>4 DEF EndRow, x
  <2>2. QED
    BY <1>11, <1>12, <2>1

-----------------------------------------------------------------------------
(* The end of a scope. *)

(* The entry that belongs to the innermost scope is the last one, and with *)
(* it gone the other scopes are still going to be checked.                 *)
LEMMA PendingEnds ==
  ASSUME NEW pend \in PendingCounts, NEW n \in Nat, n >= 1, PendingOK(pend, n), NEW x
  PROVE  /\ Checked(x, n, pend) /\ Promised(x, n) # -1 =>
              pend # << >> /\ Last(pend).depth = n /\ Last(pend).n = Promised(x, n)
         /\ AllChecked(x, n - 1, pend) /\ pend # << >> /\ Last(pend).depth = n =>
              AllChecked(x, n - 1, Front(pend))
<1> DEFINE P == [depth : Nat \ {0}, n : Nat]
           l == Len(pend)
<1>1. pend \in Seq(P) /\ l \in Nat
  BY DEF PendingCounts
<1> HIDE DEF P
<1>2. ASSUME NEW k \in 1..l
      PROVE  /\ l >= 1 /\ l \in 1..l /\ pend # << >> /\ Last(pend) = pend[l]
             /\ k # l => pend[k].depth < pend[l].depth
             /\ pend[k].depth \in Int /\ pend[l].depth \in Int /\ pend[l].depth <= n
             /\ k # l => k \in 1..(l - 1)
  <2>1. l >= 1 /\ l \in 1..l /\ pend # << >> /\ (k # l => k < l /\ k \in 1..(l - 1))
    BY <1>1
  <2>2. Last(pend) = pend[l]
    BY DEF Last
  <2>3. pend[k].depth \in 1..n /\ pend[l].depth \in 1..n
    BY <2>1 DEF PendingOK
  <2>4. k # l => pend[k].depth < pend[l].depth
    BY <2>1 DEF PendingOK
  <2>5. QED
    BY <2>1, <2>2, <2>3, <2>4
<1>3. ASSUME Checked(x, n, pend), Promised(x, n) # -1
      PROVE  pend # << >> /\ Last(pend).depth = n /\ Last(pend).n = Promised(x, n)
  <2>1. PICK k \in 1..l : pend[k].depth = n /\ pend[k].n = Promised(x, n)
    BY <1>3 DEF Checked
  <2>2. k = l
    <3> DEFINE inner == pend[k].depth
               last == pend[l].depth
    <3>1. inner = n /\ last \in Int /\ last <= n /\ (k # l => inner < last)
      BY <1>2, <2>1
    <3> HIDE DEF inner, last
    <3>2. ~ (k # l)
      BY <3>1
    <3>3. QED
      BY <3>2
  <2>3. QED
    BY <1>2, <2>1, <2>2
<1>4. ASSUME AllChecked(x, n - 1, pend), pend # << >>, Last(pend).depth = n,
             NEW d \in 1..(n - 1)
      PROVE  Checked(x, d, Front(pend))
  <2>1. CASE Promised(x, d) = -1
    BY <2>1 DEF Checked
  <2>2. CASE Promised(x, d) # -1
    <3>1. PICK k \in 1..l : pend[k].depth = d /\ pend[k].n = Promised(x, d)
      BY <1>4, <2>2 DEF AllChecked, Checked
    <3>2. d # n
      OBVIOUS
    <3>3. k \in 1..(l - 1) /\ l >= 1
      BY <1>2, <1>4, <3>1, <3>2
    <3>4. Len(Front(pend)) = l - 1 /\ Front(pend)[k] = pend[k]
      BY <1>1, <3>3, FrontFacts
    <3>5. QED
      BY <3>1, <3>3, <3>4 DEF Checked
  <2>3. QED
    BY <2>1, <2>2
<1>5. QED
  BY <1>3, <1>4 DEF AllChecked

(* A scope that ends keeps its promise: its entries were counted against   *)
(* the header, by their loop or now by ScopeEnd.                           *)
LEMMA ScopeEndLengths ==
  ASSUME IndInv, NestInv, LengthInv, ScopeEnd
  PROVE  LengthNext
<1> DEFINE n     == Len(b.stack)
           own   == pending # << >> /\ Last(pending).depth = n
           pend  == IF own THEN Front(pending) ELSE pending
           outer == CloseScope(b)
           tag   == Last(b.stack).tag
           e     == IF Tok(i) = "NL" THEN EolState(i, outer, pend, FALSE) ELSE Cascade(outer, pend)
           back  == IF tag = "Object" THEN "ParseHeader" ELSE "ExpectBlockArrayItem"
           arms  == [Sibling |-> back, CloseScope |-> "ScopeEnd"]
<1>1. pc = "ScopeEnd" /\ pending' = pend
  BY DEF ScopeEnd
<1>2. SUFFICES ASSUME Strict
               PROVE  LengthNext
  BY DEF LengthNext
<1>3. /\ Kept(b) /\ ScopesOK(b) /\ b \in Builders /\ n = Len(b.stack) /\ n \in Nat /\ n >= 1
      /\ AllChecked(b, n - 1, pending)
      /\ Checked(b, n, pending) \/ CountIn(b, n) = Promised(b, n)
  BY <1>1, <1>2, LengthNowOutsideRows DEF Final, Due
<1>4. pending \in PendingCounts /\ PendingOK(pending, n)
  BY <1>1, Here, HereOutsideRows DEF Final
<1>5. tag = b.stack[n].tag /\ (tag = "Start" <=> n = 1)
  <2>1. tag = b.stack[n].tag
    BY DEF Last
  <2> HIDE DEF n, tag
  <2>2. n \in 1..n
    BY <1>3
  <2>3. QED
    BY <1>3, <2>1, <2>2 DEF ScopesOK
<1>6. CountIn(b, n) = b.cnt
  BY CountInside
<1> HIDE DEF n, tag
<1>7. AllChecked(b, n - 1, pend)
  BY <1>3, <1>4, PendingEnds
<1>8. ~ (own /\ WrongCount(Last(pending).n)) => Promised(b, n) = -1 \/ b.cnt = Promised(b, n)
  <2>1. CASE CountIn(b, n) = Promised(b, n)
    BY <1>6, <2>1
  <2>2. CASE Checked(b, n, pending)
    BY <1>3, <1>4, <2>2, PendingEnds DEF WrongCount
  <2>3. QED
    BY <1>3, <2>1, <2>2
<1>9. \/ Fail
      \/ /\ ~ (own /\ WrongCount(Last(pending).n))
         /\ \/ tag = "Start" /\ Goto("Success", outer, N)
            \/ tag = "Array" /\ Goto("ScopeEnd", outer, i)
            \/ tag \in {"Object", "Array"} /\ Follow(e, outer, arms)
  BY <1>2 DEF ScopeEnd, tag, n
<1> HIDE DEF own, pend, e, back
<1>10. CASE Promised(b, n) = -1 \/ b.cnt = Promised(b, n)
  <2>1. CASE tag = "Start" /\ Goto("Success", outer, N)
    <3>1. \A k \in 1..Len(outer.tape) : KeepsPromise(outer.tape[k])
      BY <1>3, <1>5, <1>10, <2>1, CloseLengths
    <3> HIDE DEF outer
    <3>2. pc' = "Success" /\ b' = outer
      BY <2>1 DEF Goto
    <3>3. QED
      BY <3>1, <3>2 DEF LengthNext
  <2>2. CASE /\ tag # "Start" /\ b' = outer
             /\ pc' \in {"ParseHeader", "ExpectBlockArrayItem", "ScopeEnd"}
    <3>1. n >= 2
      <4>1. n # 1
        BY <1>5, <2>2
      <4>2. n \in Nat /\ n >= 1
        BY <1>3
      <4>3. QED
        BY ONLY <4>1, <4>2
    <3>2. Kept(outer) /\ SamePromises(b, outer, n - 1) /\ Len(outer.stack) = n - 1
      BY <1>3, <1>10, <3>1, CloseKept
    <3> HIDE DEF outer
    <3>3. AllChecked(outer, n - 1, pend)
      <4>1. n - 1 \in Nat /\ n - 1 \in Int /\ n - 1 <= n - 1
        BY <1>3
      <4>2. QED
        BY <1>7, <3>2, <4>1, StaysChecked
    <3>4. QED
      BY <1>1, <2>2, <3>2, <3>3, ArrivesChecked
  <2>3. pc' = "Failed" => LengthNext
    BY DEF LengthNext
  <2> HIDE DEF outer, arms
  <2>4. Follow(e, outer, arms) => pc' = "Failed" \/ (pc' \in {back, "ScopeEnd"} /\ b' = outer)
    BY FollowsTwo DEF arms
  <2>5. back \in {"ParseHeader", "ExpectBlockArrayItem"}
    BY DEF back
  <2>6. QED
    BY <1>9, <2>1, <2>2, <2>3, <2>4, <2>5 DEF Goto, Fail
<1>11. QED
  BY <1>8, <1>9, <1>10 DEF LengthNext, Fail

-----------------------------------------------------------------------------
(* The theorems. *)

(* Every step keeps what is promised.                                      *)
LEMMA NextLengths ==
  ASSUME IndInv, NestInv, LengthInv, [Next]_vars
  PROVE  LengthInv'
<1>1. CASE UNCHANGED vars
  <2>1. /\ toks' = toks /\ pc' = pc /\ hdr' = hdr /\ left' = left /\ cell' = cell /\ b' = b
        /\ pending' = pending /\ i' = i
    BY <1>1 DEF vars
  <2>2. CASE pc \in Final \cup {"Start"}
    BY <2>1, <2>2 DEF LengthInv, Running, Done, Final
  <2>3. CASE pc \notin Final \cup {"Start"}
    <3>1. Strict => Lengths(pc, hdr, left, cell, b, pending, i)
      BY <2>3, LengthNow
    <3>2. LengthNext
      BY <2>1, <2>3, <3>1 DEF LengthNext
    <3>3. QED
      BY <2>1, <3>2, LengthNextSuffices
  <2>4. QED
    BY <2>2, <2>3
<1>2. CASE Return
  BY <1>1, <1>2 DEF Return
<1>3. CASE Next /\ ~ Return
  <2>1. toks' = toks
    BY <1>3 DEF Next, Start, ParseHeader, ParseSimpleObjectValue, ParseEmptyArray,
       ParseInlineArray, Element, ParseBlockArray, ExpectBlockArrayItem, ParseTabularObjects,
       ParseTabularArrayStrict, ParseTabularArrayLenient, ParseNestedFieldGroupsArrayStrict,
       Row, Cell, EndRow, ScopeEnd
  <2>2. LengthNext
    BY <1>3, StartLengths, ParseHeaderLengths, ParseSimpleObjectValueLengths,
       ParseEmptyArrayLengths, ParseInlineArrayLengths, ElementLengths, ParseBlockArrayLengths,
       ExpectBlockArrayItemLengths, TablesLengths, RowLengths, CellLengths, EndRowLengths,
       ScopeEndLengths DEF Next
  <2>3. QED
    BY <2>1, <2>2, LengthNextSuffices
<1>4. QED
  BY <1>1, <1>2, <1>3

(* While a document is read in strict mode, every container is either      *)
(* closed with the length its header declares or still going to be checked.*)
THEOREM LengthInductive == Spec => []LengthInv
<1>1. Init => LengthInv
  BY DEF Init, LengthInv, Running, NoTape
<1>2. IndInv /\ NestInv /\ LengthInv /\ [Next]_vars => LengthInv'
  BY NextLengths
<1>3. QED
  BY <1>1, <1>2, Inductive, NestsInductive, PTL DEF Spec

(* Strict mode accepts a document only if every array and table has as many*)
(* entries as its header declares, whatever was let pass in it.            *)
THEOREM DeclaredLengths == Spec => []TapeAsDeclared
<1>1. LengthInv => TapeAsDeclared
  BY DEF LengthInv, TapeAsDeclared, KeepsPromise, Tape
<1>2. QED
  BY <1>1, LengthInductive, PTL
=============================================================================
