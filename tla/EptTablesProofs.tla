-------------------------- MODULE EptTablesProofs --------------------------
(***************************************************************************)
(* The pool of EptTables for any number of entries, runs of RAM and        *)
(* pre-allocated tables: every block is accounted for exactly once.        *)
(***************************************************************************)
EXTENDS EptTables, CommonLemmas, FiniteSetTheorems, SequenceTheorems, TLAPS

\* What the tables of S lead to when m is what the tables contain.
Nodes(m, S) == (UNION {{m[t][i] : i \in Index} : t \in S}) \ {Empty}

\* Nodes is Below for tables whose contents are named.
LEMMA BelowIsNodes == \A S : Below(S) = Nodes(mem, S)
BY DEF Below, Nodes

\* A node is an entry of one of the tables that is not Empty.
LEMMA NodesOf ==
  ASSUME NEW m, NEW S, NEW c
  PROVE  c \in Nodes(m, S) <=> c # Empty /\ \E u \in S, i \in Index : c = m[u][i]
<1> DEFINE X == {{m[t][i] : i \in Index} : t \in S}
<1>0. c \in Nodes(m, S) <=> c # Empty /\ \E y \in X : c \in y
  <2>1. Nodes(m, S) = (UNION X) \ {Empty}
    BY DEF Nodes
  <2> HIDE DEF X
  <2>2. QED
    BY <2>1
<1>1. ASSUME c \in Nodes(m, S) PROVE c # Empty /\ \E u \in S, i \in Index : c = m[u][i]
  <2>1. c # Empty /\ \E y \in X : c \in y
    BY <1>0, <1>1
  <2>2. PICK u \in S : c \in {m[u][i] : i \in Index}
    BY <2>1
  <2>3. QED
    BY <2>1, <2>2
<1>2. ASSUME c # Empty, NEW u \in S, NEW i \in Index, c = m[u][i] PROVE c \in Nodes(m, S)
  <2>1. c \in {m[u][j] : j \in Index}
    BY <1>2
  <2>2. {m[u][j] : j \in Index} \in X
    OBVIOUS
  <2> HIDE DEF X
  <2>3. QED
    BY <1>0, <1>2, <2>1, <2>2
<1>3. QED
  BY <1>1, <1>2

\* n is m with block b, a table without entries, at entry x of table t.
Linked(m, n, t, x, b) ==
  /\ t # b
  /\ n[t][x] = b /\ m[t][x] = Empty
  /\ \A i \in Index \ {x} : n[t][i] = m[t][i]
  /\ \A i \in Index : n[b][i] = Empty
  /\ \A u \in Blocks \ {t, b} : n[u] = m[u]

\* The table gains the block, others gain nothing.
LEMMA NodesLinked ==
  ASSUME NEW m, NEW n, NEW t \in Blocks, NEW x \in Index, NEW b \in Blocks, Linked(m, n, t, x, b),
         NEW S \in SUBSET Blocks, b \notin S
  PROVE  /\ t \in S => Nodes(n, S) = Nodes(m, S) \union {b}
         /\ t \notin S => Nodes(n, S) = Nodes(m, S)
         /\ Nodes(n, S \union {b}) = Nodes(n, S)
<1>a. b # Empty
  BY DEF Blocks, Empty, SizesAssumption, SizesAssumption
<1>1. \A u \in S, i \in Index : n[u][i] = IF u = t /\ i = x THEN b ELSE m[u][i]
  BY DEF Linked
<1>2. t \notin S => Nodes(n, S) = Nodes(m, S)
  BY <1>1 DEF Nodes
<1>3. ASSUME t \in S PROVE Nodes(n, S) = Nodes(m, S) \union {b}
  <2>1. ASSUME NEW c \in Nodes(n, S) PROVE c \in Nodes(m, S) \union {b}
    <3>1. PICK u \in S, i \in Index : c = n[u][i] /\ c # Empty
      BY <2>1, NodesOf
    <3>2. QED
      BY <1>1, <3>1, NodesOf
  <2>2. ASSUME NEW c \in Nodes(m, S) PROVE c \in Nodes(n, S)
    <3>1. PICK u \in S, i \in Index : c = m[u][i] /\ c # Empty
      BY <2>2, NodesOf
    <3>2. ~(u = t /\ i = x)
      BY <3>1 DEF Linked
    <3>3. c = n[u][i]
      BY <1>1, <3>1, <3>2
    <3>4. QED
      BY <3>1, <3>3, NodesOf
  <2>3. b \in Nodes(n, S)
    <3>1. n[t][x] = b
      BY DEF Linked
    <3>2. QED
      BY <3>1, <1>3, <1>a, NodesOf
  <2>4. QED
    BY <2>1, <2>2, <2>3
<1>4. Nodes(n, S \union {b}) = Nodes(n, S)
  <2>1. \A c : c \in Nodes(n, S \union {b}) => c \in Nodes(n, S)
    BY NodesOf DEF Linked
  <2>2. \A c : c \in Nodes(n, S) => c \in Nodes(n, S \union {b})
    BY NodesOf
  <2>3. QED
    BY <2>1, <2>2
<1>5. QED
  BY <1>2, <1>3, <1>4

-----------------------------------------------------------------------------
(* The tree of tables                                                      *)

\* The levels under table r when m is what the tables contain.
L3(m, r) == Nodes(m, {r})
L2(m, r) == Nodes(m, L3(m, r))
L1(m, r) == Nodes(m, L2(m, r))
Inner(m, r)  == {r} \union L3(m, r) \union L2(m, r)
Tables(m, r) == Inner(m, r) \union L1(m, r)

AtLevel(m, r, l) ==
  CASE l = 4 -> {r} [] l = 3 -> L3(m, r) [] l = 2 -> L2(m, r) [] l = 1 -> L1(m, r)

\* No table is in two places.
Tree(m, r) ==
  /\ r \in Blocks /\ Tables(m, r) \subseteq Blocks
  /\ r \notin L3(m, r) \union L2(m, r) \union L1(m, r)
  /\ L3(m, r) \intersect L2(m, r) = {}
  /\ L3(m, r) \intersect L1(m, r) = {}
  /\ L2(m, r) \intersect L1(m, r) = {}
  /\ \A t, u \in Inner(m, r), i, j \in Index :
       m[t][i] = m[u][j] /\ m[t][i] # Empty => t = u /\ i = j

\* The levels EptDestructTables walks are those of the tree under root.
LEMMA LevelNames ==
  /\ Level3 = L3(mem, root) /\ Level2 = L2(mem, root) /\ Level1 = L1(mem, root)
  /\ Upper = Inner(mem, root)
  /\ DestructedTables = IF root = Null THEN {} ELSE Tables(mem, root)
BY BelowIsNodes DEF Level3, Level2, Level1, L3, L2, L1, Upper, Inner, Tables, DestructedTables

\* What is written outside the upper levels changes no level.
LEMMA SameLevels ==
  ASSUME NEW m, NEW n, NEW r, \A u \in Inner(m, r) : n[u] = m[u]
  PROVE  /\ L3(n, r) = L3(m, r) /\ L2(n, r) = L2(m, r) /\ L1(n, r) = L1(m, r)
         /\ Inner(n, r) = Inner(m, r) /\ Tables(n, r) = Tables(m, r)
         /\ Tree(m, r) => Tree(n, r)
<1>1. \A S : S \subseteq Inner(m, r) => Nodes(n, S) = Nodes(m, S)
  <2> SUFFICES ASSUME NEW S, S \subseteq Inner(m, r) PROVE Nodes(n, S) = Nodes(m, S)
    OBVIOUS
  <2>1. \A c : c \in Nodes(n, S) <=> c \in Nodes(m, S)
    BY NodesOf
  <2>2. QED
    BY <2>1
<1>2. {r} \subseteq Inner(m, r) /\ L3(m, r) \subseteq Inner(m, r) /\ L2(m, r) \subseteq Inner(m, r)
  BY DEF Inner
<1>3. L3(n, r) = L3(m, r)
  BY <1>1, <1>2 DEF L3
<1>4. L2(n, r) = L2(m, r)
  BY <1>1, <1>2, <1>3 DEF L2
<1>5. L1(n, r) = L1(m, r)
  BY <1>1, <1>2, <1>4 DEF L1
<1>6. Inner(n, r) = Inner(m, r) /\ Tables(n, r) = Tables(m, r)
  BY <1>3, <1>4, <1>5 DEF Inner, Tables
<1>7. QED
  BY <1>3, <1>4, <1>5, <1>6 DEF Tree

\* A table that is hung into the tree is at the level below.
LEMMA TableLinked ==
  ASSUME NEW m, NEW n, NEW r \in Blocks, Tree(m, r), NEW t \in Inner(m, r), NEW x \in Index,
         NEW b \in Blocks, b \notin Tables(m, r), Linked(m, n, t, x, b)
  PROVE  /\ Tree(n, r) /\ Tables(n, r) = Tables(m, r) \union {b}
         /\ t = r => b \in L3(n, r)
         /\ t \in L3(m, r) => b \in L2(n, r)
         /\ t \in L2(m, r) => b \in L1(n, r)
<1>a. /\ t \in Blocks /\ {r} \in SUBSET Blocks /\ L3(m, r) \in SUBSET Blocks /\ L2(m, r) \in SUBSET Blocks
      /\ b \notin {r} /\ b \notin L3(m, r) /\ b \notin L2(m, r) /\ b \notin L1(m, r)
  BY DEF Tree, Inner, Tables
<1>b. \A S \in SUBSET Blocks : b \notin S =>
        /\ t \in S => Nodes(n, S) = Nodes(m, S) \union {b}
        /\ t \notin S => Nodes(n, S) = Nodes(m, S)
        /\ Nodes(n, S \union {b}) = Nodes(n, S)
  <2> SUFFICES ASSUME NEW S \in SUBSET Blocks, b \notin S
               PROVE  /\ t \in S => Nodes(n, S) = Nodes(m, S) \union {b}
                      /\ t \notin S => Nodes(n, S) = Nodes(m, S)
                      /\ Nodes(n, S \union {b}) = Nodes(n, S)
    OBVIOUS
  <2>1. t \in Blocks
    BY <1>a
  <2>2. QED
    BY <2>1, NodesLinked
<1>1. L3(n, r) = L3(m, r) \union (IF t = r THEN {b} ELSE {})
  BY <1>a, <1>b DEF L3
<1>2. L2(n, r) = L2(m, r) \union (IF t \in L3(m, r) THEN {b} ELSE {})
  <2>1. Nodes(n, L3(n, r)) = Nodes(n, L3(m, r))
    BY <1>a, <1>b, <1>1
  <2>2. QED
    BY <1>a, <1>b, <2>1 DEF L2
<1>3. L1(n, r) = L1(m, r) \union (IF t \in L2(m, r) THEN {b} ELSE {})
  <2>1. Nodes(n, L2(n, r)) = Nodes(n, L2(m, r))
    BY <1>a, <1>b, <1>2
  <2>2. QED
    BY <1>a, <1>b, <2>1 DEF L1
<1>4. Tables(n, r) = Tables(m, r) \union {b}
  BY <1>1, <1>2, <1>3 DEF Tables, Inner
<1>5. Tree(n, r)
  <2>1. /\ Tables(n, r) \subseteq Blocks
        /\ r \notin L3(n, r) \union L2(n, r) \union L1(n, r)
        /\ L3(n, r) \intersect L2(n, r) = {}
        /\ L3(n, r) \intersect L1(n, r) = {}
        /\ L2(n, r) \intersect L1(n, r) = {}
    BY <1>a, <1>1, <1>2, <1>3, <1>4 DEF Tree, Inner
  <2>2. Inner(n, r) \subseteq Inner(m, r) \union {b}
    BY <1>1, <1>2 DEF Inner
  <2>3. \A u \in Inner(m, r), i \in Index : n[u][i] = IF u = t /\ i = x THEN b ELSE m[u][i]
    BY <1>a DEF Linked, Tree, Tables, Inner
  <2>4. \A u \in Inner(m, r), i \in Index : m[u][i] # b
    <3> SUFFICES ASSUME NEW u \in Inner(m, r), NEW i \in Index, m[u][i] = b PROVE FALSE
      OBVIOUS
    <3>1. b # Empty
      BY DEF Blocks, Empty
    <3>2. b \in L3(m, r) \union L2(m, r) \union L1(m, r)
      BY <3>1, NodesOf DEF Inner, L3, L2, L1
    <3>3. QED
      BY <3>2, <1>a
  <2>5. \A i \in Index : n[b][i] = Empty
    BY DEF Linked
  <2>6. \A u, v \in Inner(n, r), i, j \in Index :
           n[u][i] = n[v][j] /\ n[u][i] # Empty => u = v /\ i = j
    <3> SUFFICES ASSUME NEW u \in Inner(n, r), NEW v \in Inner(n, r), NEW i \in Index, NEW j \in Index,
                        n[u][i] = n[v][j], n[u][i] # Empty
                 PROVE  u = v /\ i = j
      OBVIOUS
    <3>1. u \in Inner(m, r) /\ v \in Inner(m, r)
      BY <2>2, <2>5
    <3>2. QED
      BY <3>1, <2>3, <2>4 DEF Tree
  <2>7. QED
    BY <2>1, <2>6 DEF Tree
<1>6. QED
  BY <1>1, <1>2, <1>3, <1>4, <1>5

-----------------------------------------------------------------------------
(* The inductive invariant                                                 *)

\* What exists at each point of EptInitialization and after.
Headed ==
  /\ data    \in IF pc = "none" THEN {Null} ELSE Blocks
  /\ pointer \in IF pc \in {"none", "pointer"} THEN {Null} ELSE Blocks
  /\ root    \in IF pc \in {"none", "pointer", "pml4"} THEN {Null} ELSE Blocks
  /\ array   \in IF pc \in {"fill", "ready", "fault", "halted"} THEN Blocks ELSE {Null}
  /\ pc \in {"none", "pointer", "pml4", "build", "array", "fill", "ready", "fault", "halted"}

\* The pre-allocated entries: those handed out are tables of the tree, the others are cleared.
Reserve ==
  /\ pre \in [1 .. Preallocated -> Blocks \union {Null, Garbage}]
  /\ filled \in 0 .. Preallocated
  /\ used \in 0 .. Preallocated + 1
  /\ pc \notin {"fill", "ready", "fault", "halted"} => filled = 0
  /\ pc = "fill" => filled < Preallocated
  /\ pc \in {"ready", "fault", "halted"} => filled = Preallocated
  /\ pc \notin {"ready", "fault", "halted"} => used = 0
  /\ pc # "halted" => used <= Preallocated
  /\ pc = "halted" => used > Preallocated
  /\ \A i \in 1 .. filled : pre[i] \in Blocks
  /\ \A i, j \in 1 .. filled : pre[i] = pre[j] => i = j
  /\ \A i \in 1 .. filled : i <= used => pre[i] \in DestructedTables
  /\ \A i \in 1 .. filled : i > used => mem[pre[i]] = ZeroedTable

\* Where EptConstructTables is.
Walk ==
  /\ pc \in {"build", "fault"} => level \in 1 .. 4 /\ table \in AtLevel(mem, root, level)
  /\ pc = "halted" => level \in 1 .. 4 /\ table \in Blocks
  /\ pc \notin {"build", "fault", "halted"} => level = 0 /\ table = Null
  /\ page \in Pages
  /\ pc = "build" => run \in 1 .. Len(Runs) + 1
  /\ pc = "build" /\ run <= Len(Runs) => page \in Runs[run].base .. Runs[run].base + Runs[run].count - 1
  /\ pc # "build" => run = 0

\* Every block has one owner.
Owned ==
  /\ live = Headers \union Spare \union DestructedTables
  /\ Headers \intersect (Spare \union DestructedTables) = {}
  /\ Spare \intersect DestructedTables = {}
  /\ data # Null => data # pointer /\ data # array
  /\ pointer # Null => pointer # array

Contents == mem \in [Blocks -> [Index -> Pages \union Blocks \union {Empty}]]

Grown == root # Null => Tree(mem, root)

IInv == Headed /\ Reserve /\ Walk /\ Owned /\ Contents /\ Grown /\ corrupt \in BOOLEAN

-----------------------------------------------------------------------------
\* The four index functions yield indices of a table; null pointers, unwritten
\* ones and empty entries are no blocks.
LEMMA Indices ==
  /\ Fanout \in Nat /\ Fanout > 0 /\ Preallocated \in Nat /\ Preallocated > 0 /\ MaxBlocks \in Nat
  /\ \A l \in 1 .. 4, p \in Pages : EptAddressToIndex(l, p) \in Index
  /\ Null \notin Blocks /\ Empty \notin Blocks /\ Garbage \notin Blocks /\ Blocks \subseteq Int
  /\ 0 \in Pages
<1>1. Fanout \in Nat /\ Fanout > 0 /\ Preallocated \in Nat /\ Preallocated > 0 /\ MaxBlocks \in Nat
  BY SizesAssumption
<1>2. \A x \in Int : x % Fanout \in Index
  BY <1>1 DEF Index
<1>3. Fanout * Fanout \in Nat /\ Fanout * Fanout > 0
  BY <1>1
<1>4. Fanout * Fanout * Fanout \in Nat /\ Fanout * Fanout * Fanout > 0
  <2> DEFINE S == Fanout * Fanout
  <2>1. S \in Nat /\ S > 0
    BY <1>3
  <2> HIDE DEF S
  <2>2. S * Fanout \in Nat /\ S * Fanout > 0
    BY <1>1, <2>1
  <2>3. QED
    BY <2>2 DEF S
<1>5. \A p \in Pages, d \in Nat : d > 0 => p \div d \in Int
  BY DEF Pages
<1>6. \A l \in 1 .. 4, p \in Pages : EptAddressToIndex(l, p) \in Index
  <2> SUFFICES ASSUME NEW l \in 1 .. 4, NEW p \in Pages PROVE EptAddressToIndex(l, p) \in Index
    OBVIOUS
  <2>1. PxeIndex(p) \in Index
    BY <1>2, <1>4, <1>5 DEF PxeIndex
  <2>2. PpeIndex(p) \in Index
    BY <1>2, <1>3, <1>5 DEF PpeIndex
  <2>3. PdeIndex(p) \in Index
    BY <1>1, <1>2, <1>5 DEF PdeIndex
  <2>4. PteIndex(p) \in Index
    BY <1>2 DEF PteIndex, Pages
  <2>5. QED
    BY <2>1, <2>2, <2>3, <2>4 DEF EptAddressToIndex
<1>7. 0 \in Pages
  <2> DEFINE S == Fanout * Fanout * Fanout
  <2>1. S \in Nat /\ S > 0
    BY <1>4
  <2> HIDE DEF S
  <2>2. S * Fanout \in Nat /\ S * Fanout > 0
    BY <1>1, <2>1
  <2>3. QED
    BY <2>2 DEF S, Pages
<1>8. QED
  BY <1>1, <1>6, <1>7 DEF Null, Empty, Garbage, Blocks

\* What the assumption says of each run of RAM.
LEMMA RunsTyped ==
  /\ Len(Runs) \in Nat /\ Len(Runs) > 0
  /\ ApicPage \in Pages
  /\ \A r \in 1 .. Len(Runs) :
       /\ Runs[r].base \in Pages /\ Runs[r].count \in Nat \ {0}
       /\ Runs[r].base .. Runs[r].base + Runs[r].count - 1 \subseteq RamPages(Runs)
  /\ RamPages(Runs) \subseteq Pages
<1> DEFINE S == [base : Pages, count : Nat \ {0}]
<1>1. Runs \in Seq(S) /\ Len(Runs) > 0
  BY RunsAssumption
<1> HIDE DEF S
<1>2. Len(Runs) \in Nat /\ DOMAIN Runs = 1 .. Len(Runs)
  BY <1>1, LenProperties
<1>3. \A r \in 1 .. Len(Runs) : Runs[r] \in S
  BY <1>1, ElementOfSeq
<1>4. \A r \in 1 .. Len(Runs) : Runs[r].base .. Runs[r].base + Runs[r].count - 1 \subseteq RamPages(Runs)
  BY <1>2 DEF RamPages
<1>5. QED
  BY <1>1, <1>2, <1>3, <1>4, RunsAssumption DEF S

\* Before EptInitialization nothing is allocated.
LEMMA IInvInit == Init => IInv
<1> SUFFICES ASSUME Init PROVE IInv
  OBVIOUS
<1>1. Headed
  BY DEF Init, Headed
<1>2. Reserve
  BY Indices DEF Init, Reserve, NullSlots
<1>3. Walk
  BY Indices DEF Init, Walk
<1>4. Owned
  BY Indices DEF Init, Owned, Headers, Spare, DestructedTables
<1>5. Contents
  BY DEF Init, Contents, ZeroedTable
<1>6. QED
  BY <1>1, <1>2, <1>3, <1>4, <1>5 DEF IInv, Grown, Init

\* EPT_DATA is gone, with all it owned.
LEMMA GoneKeeps ==
  ASSUME IInv, EptGone, live' = {}, corrupt' \in BOOLEAN
  PROVE  IInv'
<1>1. Headed'
  BY DEF EptGone, Headed
<1>2. Reserve'
  BY Indices DEF EptGone, Reserve, NullSlots
<1>3. Walk'
  BY Indices DEF EptGone, Walk, WalkEnds
<1>4. Owned'
  BY Indices DEF EptGone, Owned, Headers, Spare, DestructedTables
<1>5. Contents'
  BY DEF EptGone, Contents, ZeroedTable
<1>6. QED
  BY <1>1, <1>2, <1>3, <1>4, <1>5 DEF IInv, Grown, EptGone

\* The names of the levels after a step.
LEMMA LevelNamesNext ==
  /\ DestructedTables' = IF root' = Null THEN {} ELSE Tables(mem', root')
  /\ Upper' = Inner(mem', root')
<1>1. (/\ Level3 = L3(mem, root) /\ Level2 = L2(mem, root) /\ Level1 = L1(mem, root)
       /\ Upper = Inner(mem, root)
       /\ DestructedTables = IF root = Null THEN {} ELSE Tables(mem, root))'
  BY LevelNames, PTL
<1>2. QED
  BY <1>1

\* A cleared table is a tree of its own.
LEMMA EmptyTree ==
  ASSUME NEW m, NEW r \in Blocks, \A i \in Index : m[r][i] = Empty
  PROVE  Tree(m, r) /\ Tables(m, r) = {r}
<1>1. Nodes(m, {r}) = {}
  <2>1. \A c : c \notin Nodes(m, {r})
    BY NodesOf
  <2>2. QED
    BY <2>1
<1>2. Nodes(m, {}) = {}
  <2>1. \A c : c \notin Nodes(m, {})
    BY NodesOf
  <2>2. QED
    BY <2>1
<1>3. L3(m, r) = {} /\ L2(m, r) = {} /\ L1(m, r) = {}
  BY <1>1, <1>2 DEF L3, L2, L1
<1>4. QED
  BY <1>3 DEF Tree, Tables, Inner

\* EPT_DATA and EPT_POINTER are new header blocks.
LEMMA AllocateHeadersKeep ==
  ASSUME IInv, AllocateEptData \/ AllocateEptPointer
  PROVE  IInv'
<1> USE Indices
<1>a. /\ pc \in {"none", "pointer"} /\ pc' \in {"pointer", "pml4"} /\ root = Null /\ array = Null
      /\ UNCHANGED <<mem, root, array, pre, filled, used, walk, corrupt>> /\ DestructedTables = {}
      /\ filled = 0
  BY DEF AllocateEptData, AllocateEptPointer, IInv, Headed, Reserve, DestructedTables
<1>b. DestructedTables' = {} /\ Spare = {} /\ Spare' = {}
  BY <1>a DEF DestructedTables, Spare, IInv, Reserve
<1>1. Headed'
  BY <1>a DEF AllocateEptData, AllocateEptPointer, ExAllocatePool, IInv, Headed
<1>2. Reserve'
  BY <1>a DEF IInv, Reserve
<1>3. Walk'
  BY <1>a DEF IInv, Walk, walk
<1>4. Owned'
  BY <1>a, <1>b DEF AllocateEptData, AllocateEptPointer, ExAllocatePool, IInv, Owned, Headers, Headed
<1>5. QED
  BY <1>a, <1>1, <1>2, <1>3, <1>4 DEF IInv, Contents, Grown

\* The PML4 table is a tree of one table, and RAM has a first page.
LEMMA AllocatePm14Keeps ==
  ASSUME IInv, AllocateEptPm14
  PROVE  IInv'
<1> USE Indices
<1>1. PICK b \in Blocks :
        ExAllocatePool(b) /\ root' = b /\ mem' = [mem EXCEPT ![b] = ZeroedTable] /\ Construct(b, Runs[1].base, 1)
  BY DEF AllocateEptPm14
<1>a. /\ pc = "pml4" /\ pc' = "build" /\ root = Null /\ array = Null /\ filled = 0 /\ DestructedTables = {}
      /\ UNCHANGED <<data, pointer, array, pre, filled, used, corrupt>> /\ b \notin live /\ live' = live \union {b}
  BY <1>1 DEF AllocateEptPm14, IInv, Headed, Reserve, DestructedTables, ExAllocatePool
<1>b. mem' \in [Blocks -> [Index -> Pages \union Blocks \union {Empty}]] /\ \A i \in Index : mem'[b][i] = Empty
  BY <1>1 DEF IInv, Contents, ZeroedTable
<1>2. Tree(mem', root') /\ Tables(mem', root') = {b}
  BY <1>1, <1>b, EmptyTree
<1>c. DestructedTables' = {b} /\ Spare = {} /\ Spare' = {}
  <2>1. b # Null
    OBVIOUS
  <2>2. DestructedTables' = {b}
    BY <1>1, <1>2, <2>1, LevelNamesNext
  <2>3. QED
    BY <2>2, <1>a DEF Spare, IInv, Reserve
<1>3. Headed'
  BY <1>1, <1>a DEF IInv, Headed
<1>4. Reserve'
  BY <1>a DEF IInv, Reserve
<1>5. Walk'
  <2>1. Len(Runs) \in Nat /\ 1 \in 1 .. Len(Runs) /\ Runs[1].base \in Pages /\ Runs[1].count \in Nat \ {0}
    BY RunsTyped
  <2>2. Runs[1].base \in Runs[1].base .. Runs[1].base + Runs[1].count - 1
    BY <2>1 DEF Pages
  <2>3. QED
    BY <1>1, <1>a, <2>1, <2>2 DEF Walk, Construct, AtLevel
<1>6. Owned'
  BY <1>a, <1>c DEF IInv, Owned, Headers, Headed
<1>7. QED
  BY <1>a, <1>b, <1>2, <1>3, <1>4, <1>5, <1>6 DEF IInv, Contents, Grown

\* The array of pre-allocated entries is a header block; none of its slots is filled.
LEMMA AllocateArrayKeeps ==
  ASSUME IInv, AllocatePreallocatedEntries
  PROVE  IInv'
<1> USE Indices
<1>a. /\ pc = "array" /\ pc' = "fill" /\ array = Null /\ array' \in Blocks \ live /\ live' = live \union {array'}
      /\ filled = 0 /\ used = 0 /\ DestructedTables' = DestructedTables
      /\ pre' \in [1 .. Preallocated -> {Null, Garbage}]
      /\ UNCHANGED <<mem, data, pointer, root, filled, used, walk, corrupt>>
  BY DEF AllocatePreallocatedEntries, ExAllocatePool, IInv, Headed, Reserve,
     DestructedTables, Upper, Level1, Level2, Level3, Below
<1>b. Spare = {} /\ Spare' = {}
  BY <1>a DEF Spare
<1>1. Headed'
  BY <1>a DEF IInv, Headed
<1>2. Reserve'
  BY <1>a DEF IInv, Reserve
<1>3. Walk'
  BY <1>a DEF IInv, Walk, walk
<1>4. Owned'
  BY <1>a, <1>b DEF IInv, Owned, Headers, Headed
<1>5. QED
  BY <1>a, <1>1, <1>2, <1>3, <1>4 DEF IInv, Contents, Grown

\* Where there is a root, what EptDestructTables reaches is the tree.
LEMMA Rooted ==
  ASSUME IInv, pc \notin {"none", "pointer", "pml4"}
  PROVE  /\ root \in Blocks /\ root # Null /\ Tree(mem, root)
         /\ DestructedTables = Tables(mem, root) /\ Upper = Inner(mem, root)
         /\ DestructedTables \subseteq Blocks /\ DestructedTables \subseteq live
BY Indices, LevelNames DEF IInv, Headed, Grown, Tree, Owned

\* A pre-allocated entry is a cleared block outside the tree.
LEMMA FillKeeps ==
  ASSUME IInv, FillPreallocatedEntries
  PROVE  IInv'
<1> USE Indices
<1>1. PICK b \in Blocks :
        ExAllocatePool(b) /\ pre' = [pre EXCEPT ![filled + 1] = b] /\ mem' = [mem EXCEPT ![b] = ZeroedTable]
  BY DEF FillPreallocatedEntries
<1>a. /\ pc = "fill" /\ pc' = IF filled + 1 = Preallocated THEN "ready" ELSE "fill"
      /\ filled \in 0 .. Preallocated - 1 /\ filled' = filled + 1 /\ used = 0
      /\ b \notin live /\ live' = live \union {b}
      /\ UNCHANGED <<data, pointer, root, array, used, walk, corrupt>>
  BY <1>1 DEF FillPreallocatedEntries, IInv, Reserve, ExAllocatePool
<1>b. /\ root \in Blocks /\ root # Null /\ Tree(mem, root) /\ DestructedTables = Tables(mem, root)
      /\ DestructedTables \subseteq live
  BY <1>a, Rooted
<1>c. mem' \in [Blocks -> [Index -> Pages \union Blocks \union {Empty}]] /\ mem'[b] = ZeroedTable
      /\ \A u \in Blocks \ {b} : mem'[u] = mem[u]
  BY <1>1 DEF IInv, Contents, ZeroedTable
<1>2. \A u \in Inner(mem, root) : mem'[u] = mem[u]
  BY <1>a, <1>b, <1>c DEF Tables, Tree
<1>3. Tree(mem', root) /\ Tables(mem', root) = Tables(mem, root)
  <2> HIDE DEF Tree, Tables, Inner
  <2>1. QED
    BY <1>b, <1>2, SameLevels
<1>4. DestructedTables' = DestructedTables
  BY <1>a, <1>b, <1>3, LevelNamesNext
<1>5. \A i \in 1 .. filled : pre[i] \in Spare /\ pre[i] # b /\ pre'[i] = pre[i]
  BY <1>a, <1>1 DEF Spare, IInv, Reserve, Owned
<1>6. pre'[filled + 1] = b /\ pre' \in [1 .. Preallocated -> Blocks \union {Null, Garbage}]
  BY <1>1, <1>a DEF IInv, Reserve
<1>7. Spare' = Spare \union {b}
  <2>1. \A c : c \in Spare' <=> \E i \in 1 .. filled + 1 : c = pre'[i]
    BY <1>a DEF Spare
  <2>2. \A c : c \in Spare <=> \E i \in 1 .. filled : c = pre[i]
    BY <1>a DEF Spare
  <2>3. 1 .. filled + 1 = (1 .. filled) \union {filled + 1}
    BY <1>a
  <2>4. QED
    BY <2>1, <2>2, <2>3, <1>5, <1>6
<1>8. Headed'
  BY <1>a DEF IInv, Headed
<1>9. Reserve'
  <2>1. \A i \in 1 .. filled' : i \in 1 .. filled \/ i = filled + 1
    BY <1>a
  <2>2. \A i \in 1 .. filled' : pre'[i] \in Blocks
    BY <2>1, <1>5, <1>6 DEF IInv, Reserve
  <2>3. \A i, j \in 1 .. filled' : pre'[i] = pre'[j] => i = j
    BY <2>1, <1>5, <1>6 DEF IInv, Reserve
  <2>4. \A i \in 1 .. filled' : mem'[pre'[i]] = ZeroedTable
    <3>1. ASSUME NEW i \in 1 .. filled PROVE mem'[pre'[i]] = ZeroedTable
      <4>1. i > used /\ pre[i] \in Blocks \ {b} /\ mem[pre[i]] = ZeroedTable
        BY <1>5, <1>a DEF IInv, Reserve
      <4>2. QED
        BY <4>1, <1>5, <1>c
    <3>2. mem'[pre'[filled + 1]] = ZeroedTable
      BY <1>6, <1>c
    <3>3. QED
      BY <2>1, <3>1, <3>2
  <2>5. QED
    BY <1>a, <1>6, <2>2, <2>3, <2>4 DEF Reserve
<1>10. Walk'
  BY <1>a DEF IInv, Walk, walk
<1>11. Owned'
  BY <1>a, <1>b, <1>4, <1>7 DEF IInv, Owned, Headers, Headed
<1>12. QED
  BY <1>a, <1>b, <1>c, <1>3, <1>8, <1>9, <1>10, <1>11 DEF IInv, Contents, Grown

\* What was not handed out is the reserve, whatever is left in the slots behind
\* it: a slot that is filled never holds a null pointer.
LEMMA UnusedCoversSpare ==
  ASSUME IInv
  PROVE  Spare \subseteq UnusedEntries(used) /\ (filled = Preallocated => Spare = UnusedEntries(used))
<1> USE Indices
<1>1. \A i \in used + 1 .. filled : pre[i] # Null
  BY DEF IInv, Reserve
<1>2. used \in Nat /\ filled \in 0 .. Preallocated
  BY DEF IInv, Reserve
<1>3. ASSUME NEW i \in used + 1 .. filled
      PROVE  i \in used + 1 .. Preallocated /\ \A k \in used + 1 .. i : pre[k] # Null
  BY <1>1, <1>2
<1>4. QED
  BY <1>2, <1>3 DEF Spare, UnusedEntries

\* Freeing all that is owned leaves nothing.
LEMMA FreeEptEmpties ==
  ASSUME IInv, FreeEpt(used), array = Null => filled = 0
  PROVE  live' = {}
<1>1. live = Headers \union Spare \union DestructedTables
  BY DEF IInv, Owned
<1>2. Spare \subseteq UnusedEntries(used)
  BY UnusedCoversSpare
<1>3. array = Null => Spare = {}
  BY Indices DEF IInv, Reserve, Spare
<1>4. QED
  BY <1>1, <1>2, <1>3 DEF FreeEpt, Headers

\* EptInitialization frees everything when an allocation fails.
LEMMA FailsKeeps ==
  ASSUME IInv, EptInitializationFails
  PROVE  IInv'
<1>1. used = 0 /\ EptGone /\ FreeEpt(0) /\ (array = Null => filled = 0)
  BY Indices DEF EptInitializationFails, IInv, Reserve, Headed
<1>2. corrupt' \in BOOLEAN
  BY <1>1 DEF IInv, FreeEpt
<1>3. live' = {}
  BY <1>1, FreeEptEmpties
<1>4. QED
  BY <1>1, <1>2, <1>3, GoneKeeps

\* EptTermination frees exactly what is allocated, and each block once.
LEMMA TerminationKeeps ==
  ASSUME IInv, EptTermination
  PROVE  IInv' /\ corrupt' = corrupt
<1>1. pc = "ready" /\ EptGone /\ FreeEpt(used) /\ array \in Blocks /\ array # Null /\ filled = Preallocated
  BY Indices DEF EptTermination, IInv, Reserve, Headed
<1>2. live' = {}
  BY <1>1, FreeEptEmpties
<1>3. UnusedEntries(used) = Spare
  BY <1>1, UnusedCoversSpare
<1>4. corrupt' = corrupt
  <2>1. UnusedEntries(used) \union {array} \subseteq live
    BY <1>1, <1>3 DEF IInv, Owned, Headers
  <2>2. DestructedTables \union ({data, pointer} \ {Null}) \subseteq live \ (UnusedEntries(used) \union {array})
    BY <1>1, <1>3 DEF IInv, Owned, Headers, Headed
  <2>3. QED
    BY <1>1, <2>1, <2>2 DEF FreeEpt, IInv
<1>5. QED
  BY <1>1, <1>2, <1>4, GoneKeeps DEF IInv

-----------------------------------------------------------------------------
(* EptConstructTables                                                      *)

\* The construction is at a table of the tree, and only in the last level at
\* one of the lowest.
LEMMA WalkInTree ==
  ASSUME IInv, pc \in {"build", "fault"}
  PROVE  /\ level \in 1 .. 4 /\ table \in AtLevel(mem, root, level) /\ page \in Pages
         /\ table \in Blocks /\ table \in Tables(mem, root)
         /\ level > 1 => table \in Inner(mem, root)
         /\ level = 1 => table \notin Inner(mem, root)
         /\ EptAddressToIndex(level, page) \in Index
<1>1. level \in 1 .. 4 /\ table \in AtLevel(mem, root, level) /\ page \in Pages
  BY DEF IInv, Walk
<1>2. Tree(mem, root) /\ root \in Blocks
  BY Rooted
<1>3. EptAddressToIndex(level, page) \in Index
  BY <1>1, Indices
<1>4. level > 1 => table \in Inner(mem, root)
  BY <1>1 DEF AtLevel, Inner
<1>5. level = 1 => table \in L1(mem, root)
  BY <1>1 DEF AtLevel
<1>6. level = 1 => table \notin Inner(mem, root)
  BY <1>2, <1>5 DEF Tree, Inner
<1>7. table \in Tables(mem, root)
  BY <1>1, <1>4, <1>5 DEF Tables
<1>8. QED
  BY <1>1, <1>2, <1>3, <1>4, <1>6, <1>7 DEF Tree

\* A step that writes no table and no pointer to one leaves the tree.
LEMMA SameTree ==
  ASSUME mem' = mem, root' = root
  PROVE  DestructedTables' = DestructedTables
BY LevelNames, LevelNamesNext

\* The next table is a table of the level below.
LEMMA DescendsKeeps ==
  ASSUME IInv, ConstructDescends
  PROVE  IInv'
<1> DEFINE x == EptAddressToIndex(level, page)
<1>a. /\ pc \in {"build", "fault"} /\ level > 1 /\ mem[table][x] # Empty
      /\ table' = mem[table][x] /\ level' = level - 1
      /\ UNCHANGED <<live, mem, ept, pc, run, page, corrupt>>
  BY DEF ConstructDescends, NeedsTable
<1>b. /\ level \in 1 .. 4 /\ table \in AtLevel(mem, root, level) /\ x \in Index
  BY <1>a, WalkInTree
<1> HIDE DEF x
<1>1. \A S : table \in S => mem[table][x] \in Nodes(mem, S)
  BY <1>a, <1>b, NodesOf
<1>2. table' \in AtLevel(mem, root, level - 1)
  <2>1. CASE level = 4
    BY <2>1, <1>a, <1>b, <1>1 DEF AtLevel, L3
  <2>2. CASE level = 3
    BY <2>2, <1>a, <1>b, <1>1 DEF AtLevel, L2
  <2>3. CASE level = 2
    BY <2>3, <1>a, <1>b, <1>1 DEF AtLevel, L1
  <2>4. QED
    BY <1>a, <1>b, <2>1, <2>2, <2>3
<1>3. DestructedTables' = DestructedTables
  BY <1>a, SameTree DEF ept
<1>4. Walk'
  BY <1>a, <1>b, <1>2 DEF IInv, Walk, ept
<1>5. Reserve' /\ Headed'
  BY <1>a, <1>3 DEF IInv, Reserve, Headed, ept
<1>6. Owned'
  BY <1>a, <1>3 DEF IInv, Owned, Headers, Spare, ept
<1>7. QED
  BY <1>a, <1>4, <1>5, <1>6 DEF IInv, Contents, Grown, ept

\* A new table at the entry the construction looks at: the tree grows by it,
\* and the construction goes on there.
LEMMA TableGrows ==
  ASSUME IInv, pc \in {"build", "fault"}, level > 1, NEW b \in Blocks, b \notin DestructedTables,
         root' = root, table' = b, level' = level - 1,
         Linked(mem, mem', table, EptAddressToIndex(level, page), b)
  PROVE  /\ Tree(mem', root') /\ DestructedTables' = DestructedTables \union {b}
         /\ table' \in AtLevel(mem', root', level')
<1> DEFINE x == EptAddressToIndex(level, page)
<1>1. /\ level \in 1 .. 4 /\ table \in AtLevel(mem, root, level) /\ table \in Inner(mem, root) /\ x \in Index
  BY WalkInTree
<1>2. /\ root \in Blocks /\ root # Null /\ Tree(mem, root) /\ DestructedTables = Tables(mem, root)
  BY Rooted
<1>3. Linked(mem, mem', table, x, b)
  OBVIOUS
<1> HIDE DEF x, Linked, Tree, Tables, Inner, L3, L2, L1
<1>4. /\ Tree(mem', root) /\ Tables(mem', root) = Tables(mem, root) \union {b}
      /\ table = root => b \in L3(mem', root)
      /\ table \in L3(mem, root) => b \in L2(mem', root)
      /\ table \in L2(mem, root) => b \in L1(mem', root)
  <2>1. b \notin Tables(mem, root)
    BY <1>2
  <2>2. QED
    BY <1>1, <1>2, <1>3, <2>1, TableLinked
<1>5. DestructedTables' = DestructedTables \union {b}
  BY <1>2, <1>4, LevelNamesNext
<1>6. b \in AtLevel(mem', root, level - 1)
  <2>1. CASE level = 4
    BY <2>1, <1>1, <1>4 DEF AtLevel
  <2>2. CASE level = 3
    BY <2>2, <1>1, <1>4 DEF AtLevel
  <2>3. CASE level = 2
    BY <2>3, <1>1, <1>4 DEF AtLevel
  <2>4. QED
    BY <1>1, <2>1, <2>2, <2>3
<1>7. QED
  BY <1>4, <1>5, <1>6

\* The block that EptAllocateEptEntryFromPool hands out is hung into the tree.
LEMMA FromPoolLinks ==
  ASSUME IInv, ConstructFromPool
  PROVE  \E b \in Blocks \ DestructedTables :
           table' = b /\ Linked(mem, mem', table, EptAddressToIndex(level, page), b)
<1> DEFINE x == EptAddressToIndex(level, page)
<1>1. PICK b \in Blocks :
        /\ b \notin live /\ table' = b
        /\ mem' = [mem EXCEPT ![b] = ZeroedTable, ![table][x] = b]
  BY DEF ConstructFromPool, ExAllocatePool
<1>2. /\ pc = "build" /\ level > 1 /\ mem[table][x] = Empty
  BY DEF ConstructFromPool, NeedsTable
<1>3. /\ table \in Tables(mem, root) /\ table \in Blocks /\ x \in Index
      /\ DestructedTables = Tables(mem, root) /\ DestructedTables \subseteq live
  BY <1>2, WalkInTree, Rooted
<1>4. table # b /\ b \notin DestructedTables
  BY <1>1, <1>3
<1>5. Linked(mem, mem', table, x, b)
  <2> HIDE DEF x
  <2>1. mem \in [Blocks -> [Index -> Pages \union Blocks \union {Empty}]]
    BY DEF IInv, Contents
  <2>2. mem'[b] = ZeroedTable
    BY <1>1, <1>3, <1>4, <2>1
  <2>3. mem'[table] = [mem[table] EXCEPT ![x] = b]
    BY <1>1, <1>3, <1>4, <2>1
  <2>4. \A u \in Blocks \ {table, b} : mem'[u] = mem[u]
    BY <1>1, <1>3, <1>4, <2>1
  <2>5. QED
    BY <1>2, <1>3, <1>4, <2>1, <2>2, <2>3, <2>4 DEF Linked, ZeroedTable
<1> HIDE DEF Linked
<1>6. QED
  BY <1>1, <1>4, <1>5

\* A block from the pool is in no other place yet.
LEMMA FromPoolKeeps ==
  ASSUME IInv, ConstructFromPool
  PROVE  IInv'
<1> USE Indices
<1> DEFINE x == EptAddressToIndex(level, page)
<1>1. PICK b \in Blocks \ DestructedTables : table' = b /\ Linked(mem, mem', table, x, b)
  BY FromPoolLinks
<1>a. /\ pc = "build" /\ pc' = "build" /\ level \in 2 .. 4 /\ page \in Pages /\ level' = level - 1
      /\ b \notin live /\ live' = live \union {b} /\ filled = 0 /\ used = 0
      /\ UNCHANGED <<ept, run, page, corrupt>>
  BY <1>1, WalkInTree DEF ConstructFromPool, NeedsTable, ExAllocatePool, IInv, Reserve
<1>2. mem' \in [Blocks -> [Index -> Pages \union Blocks \union {Empty}]]
  <2>1. \E c \in Blocks : mem' = [mem EXCEPT ![c] = ZeroedTable, ![table][x] = c]
    BY DEF ConstructFromPool
  <2>2. x \in Index /\ table \in Blocks
    BY <1>a, WalkInTree
  <2> HIDE DEF x
  <2>3. QED
    BY <2>1, <2>2 DEF IInv, Contents, ZeroedTable
<1>3. /\ Tree(mem', root') /\ DestructedTables' = DestructedTables \union {b}
      /\ table' \in AtLevel(mem', root', level')
  <2> HIDE DEF Linked, Tree
  <2>1. root' = root
    BY <1>a DEF ept
  <2>2. QED
    BY <1>1, <1>a, <2>1, TableGrows
<1>4. Headed' /\ Reserve'
  BY <1>a DEF IInv, Headed, Reserve, ept
<1>5. Walk'
  BY <1>a, <1>3 DEF IInv, Walk, ept
<1>6. Owned'
  <2>1. Spare = {} /\ Spare' = {} /\ Headers' = Headers
    BY <1>a DEF Spare, Headers, ept
  <2>2. QED
    BY <1>a, <1>3, <2>1 DEF IInv, Owned, Headers, ept
<1>7. QED
  BY <1>a, <1>2, <1>3, <1>4, <1>5, <1>6 DEF IInv, Contents, Grown, ept

\* So is the next of the pre-allocated ones.
LEMMA FromPreallocatedLinks ==
  ASSUME IInv, ConstructFromPreallocated, used < Preallocated
  PROVE  /\ pc = "fault" /\ level > 1 /\ root' = root /\ level' = level - 1 /\ UNCHANGED <<pc, run, page>>
         /\ pre[used + 1] \in Blocks \ DestructedTables /\ table' = pre[used + 1]
         /\ Linked(mem, mem', table, EptAddressToIndex(level, page), pre[used + 1])
<1> DEFINE x == EptAddressToIndex(level, page)
           b == pre[used + 1]
<1>1. /\ pc = "fault" /\ level > 1 /\ mem[table][x] = Empty /\ filled = Preallocated /\ used \in 0 .. Preallocated
      /\ UNCHANGED <<root, pre, run, page>>
  BY DEF ConstructFromPreallocated, NeedsTable, IInv, Reserve
<1>2. /\ pc' = "fault" /\ table' = b /\ level' = level - 1 /\ mem' = [mem EXCEPT ![table][x] = b]
  BY <1>1, Indices DEF ConstructFromPreallocated, EptInitTableEntry
<1>3. /\ table \in Tables(mem, root) /\ table \in Blocks /\ x \in Index /\ DestructedTables = Tables(mem, root)
  BY <1>1, WalkInTree, Rooted
<1>4. used + 1 \in used + 1 .. filled /\ used + 1 \in 1 .. filled
  BY <1>1, Indices
<1>5. /\ b \in Blocks /\ b \notin DestructedTables /\ mem[b] = ZeroedTable
  BY <1>1, <1>4 DEF IInv, Reserve, Owned, Spare
<1>6. b # table
  BY <1>3, <1>5
<1>7. Linked(mem, mem', table, x, b)
  <2> HIDE DEF x, b
  <2>1. mem \in [Blocks -> [Index -> Pages \union Blocks \union {Empty}]]
    BY DEF IInv, Contents
  <2>2. mem'[table] = [mem[table] EXCEPT ![x] = b]
    BY <1>2, <1>3, <2>1
  <2>3. \A u \in Blocks \ {table} : mem'[u] = mem[u]
    BY <1>2, <2>1
  <2>4. mem'[b] = ZeroedTable
    BY <1>5, <1>6, <2>3
  <2>5. QED
    BY <1>1, <1>3, <1>6, <2>1, <2>2, <2>3, <2>4 DEF Linked, ZeroedTable
<1> HIDE DEF Linked
<1>8. QED
  BY <1>1, <1>2, <1>5, <1>7

\* The spare entries are cleared tables, none of them is in the tree yet.
LEMMA FromPreallocatedKeeps ==
  ASSUME IInv, ConstructFromPreallocated
  PROVE  IInv'
<1> USE Indices
<1> DEFINE x == EptAddressToIndex(level, page)
           b == pre[used + 1]
<1>a. /\ pc = "fault" /\ level > 1 /\ mem[table][x] = Empty
      /\ used' = used + 1 /\ filled = Preallocated /\ used \in 0 .. Preallocated
      /\ UNCHANGED <<live, data, pointer, root, array, pre, filled, run, page, corrupt>>
  BY DEF ConstructFromPreallocated, NeedsTable, IInv, Reserve
<1>b. /\ level \in 1 .. 4 /\ table \in Tables(mem, root) /\ table \in Blocks /\ x \in Index /\ page \in Pages
  BY <1>a, WalkInTree
<1>c. /\ DestructedTables = Tables(mem, root)
  BY <1>a, Rooted
<1>d. \A i \in 1 .. filled : i > used => pre[i] \in Spare /\ pre[i] \notin DestructedTables /\ pre[i] # table
  <2>1. \A i \in 1 .. filled : i > used => pre[i] \in Spare
    BY <1>a DEF Spare
  <2>2. QED
    BY <2>1, <1>b, <1>c DEF IInv, Owned
<1> HIDE DEF x
<1>1. CASE used = Preallocated
  <2>1. pc' = "halted" /\ UNCHANGED <<mem, table, level>>
    BY <1>1, <1>a DEF ConstructFromPreallocated
  <2>2. DestructedTables' = DestructedTables
    BY <2>1, <1>a, SameTree
  <2>3. Spare = {} /\ Spare' = {}
    BY <1>1, <1>a DEF Spare
  <2>4. Headed'
    BY <2>1, <1>a DEF IInv, Headed
  <2>5. Reserve'
    BY <2>1, <2>2, <1>1, <1>a DEF IInv, Reserve
  <2>6. Walk'
    BY <2>1, <1>a, <1>b DEF IInv, Walk
  <2>7. Owned'
    BY <2>2, <2>3, <1>a DEF IInv, Owned, Headers
  <2>8. QED
    BY <2>1, <2>4, <2>5, <2>6, <2>7, <1>a DEF IInv, Contents, Grown
<1>2. CASE used < Preallocated
  <2>1. /\ pc' = "fault" /\ root' = root /\ table' = b /\ level' = level - 1 /\ b \in Blocks \ DestructedTables
        /\ mem' = [mem EXCEPT ![table][x] = b] /\ Linked(mem, mem', table, EptAddressToIndex(level, page), b)
    BY <1>2, <1>a, FromPreallocatedLinks DEF ConstructFromPreallocated, EptInitTableEntry, x
  <2>2. used + 1 \in 1 .. filled /\ used + 1 > used
    BY <1>2, <1>a
  <2>3. b \in Spare
    BY <2>2, <1>d
  <2>4. mem' \in [Blocks -> [Index -> Pages \union Blocks \union {Empty}]]
    BY <2>1, <1>b DEF IInv, Contents
  <2>5. \A u \in Blocks \ {table} : mem'[u] = mem[u]
    BY <2>1 DEF IInv, Contents
  <2>6. /\ Tree(mem', root') /\ DestructedTables' = DestructedTables \union {b}
        /\ table' \in AtLevel(mem', root', level')
    <3> HIDE DEF Linked, Tree, b
    <3>1. QED
      BY <1>a, <2>1, TableGrows
  <2>7. Headed'
    BY <2>1, <1>a DEF IInv, Headed
  <2>8. Reserve'
    <3>1. \A i \in 1 .. filled : i <= used' => pre[i] \in DestructedTables'
      <4>1. \A i \in 1 .. filled : i <= used' => i <= used \/ i = used + 1
        BY <1>a
      <4>2. QED
        BY <4>1, <2>6 DEF IInv, Reserve
    <3>2. \A i \in 1 .. filled : i > used' => mem'[pre[i]] = ZeroedTable
      <4> SUFFICES ASSUME NEW i \in 1 .. filled, i > used' PROVE mem'[pre[i]] = ZeroedTable
        OBVIOUS
      <4>1. i > used
        BY <1>a
      <4>2. pre[i] \in Blocks \ {table} /\ mem[pre[i]] = ZeroedTable
        BY <4>1, <1>d DEF IInv, Reserve
      <4>3. QED
        BY <4>2, <2>5
    <3>3. QED
      BY <3>1, <3>2, <1>2, <1>a, <2>1 DEF IInv, Reserve
  <2>9. Walk'
    BY <2>1, <2>6, <1>a, <1>b DEF IInv, Walk
  <2>10. Owned'
    <3>1. Spare = Spare' \union {b} /\ b \notin Spare'
      <4>1. \A c : c \in Spare' <=> \E i \in used + 2 .. filled : c = pre[i]
        BY <1>a DEF Spare
      <4>2. \A c : c \in Spare <=> \E i \in used + 1 .. filled : c = pre[i]
        BY DEF Spare
      <4>3. used + 1 .. filled = {used + 1} \union (used + 2 .. filled)
        BY <2>2, <1>a
      <4>4. \A i \in used + 2 .. filled : pre[i] # b
        BY <1>a, <2>2 DEF IInv, Reserve
      <4>5. QED
        BY <4>1, <4>2, <4>3, <4>4
    <3>2. Headers' = Headers /\ data' = data /\ pointer' = pointer /\ array' = array
      BY <1>a DEF Headers
    <3> HIDE DEF b
    <3>3. QED
      BY <3>1, <3>2, <2>6, <1>a DEF IInv, Owned
  <2>11. QED
    BY <2>1, <2>4, <2>6, <2>7, <2>8, <2>9, <2>10, <1>a DEF IInv, Contents, Grown
<1>3. QED
  BY <1>1, <1>2, <1>a

\* The next page is one of RAM or the page of the APIC.
LEMMA NextPageIsPage ==
  ASSUME IInv, pc = "build", NextPage
  PROVE  \/ pc' = "array" /\ WalkEnds
         \/ /\ pc' = "build" /\ level' = 4 /\ table' = root /\ page' \in Pages
            /\ run' \in 1 .. Len(Runs) + 1
            /\ run' <= Len(Runs) => page' \in Runs[run'].base .. Runs[run'].base + Runs[run'].count - 1
<1> USE RunsTyped
<1>1. run \in 1 .. Len(Runs) + 1 /\ page \in Pages
      /\ (run <= Len(Runs) => page \in Runs[run].base .. Runs[run].base + Runs[run].count - 1)
  BY DEF IInv, Walk
<1>2. CASE run > Len(Runs)
  BY <1>2 DEF NextPage
<1>3. CASE run \in 1 .. Len(Runs) /\ page + 1 < Runs[run].base + Runs[run].count /\ Construct(root, page + 1, run)
  <2>1. Runs[run].base \in Int /\ Runs[run].count \in Nat /\ page \in Int
    BY <1>1, <1>3 DEF Pages
  <2>2. page + 1 \in Runs[run].base .. Runs[run].base + Runs[run].count - 1
    BY <2>1, <1>1, <1>3, SMTT(20)
  <2>3. page + 1 \in Pages
    BY <2>2, <1>3
  <2>4. QED
    BY <2>2, <2>3, <1>2, <1>3 DEF NextPage, Construct
<1>4. CASE run = Len(Runs) /\ Construct(root, ApicPage, run + 1)
  BY <1>4 DEF NextPage, Construct
<1>5. CASE run \in 1 .. Len(Runs) - 1 /\ Construct(root, Runs[run + 1].base, run + 1)
  <2>1. run + 1 \in 1 .. Len(Runs) /\ Runs[run + 1].base \in Pages /\ Runs[run + 1].count \in Nat \ {0}
    BY <1>5
  <2>2. Runs[run + 1].base \in Runs[run + 1].base .. Runs[run + 1].base + Runs[run + 1].count - 1
    BY <2>1 DEF Pages
  <2>3. QED
    BY <2>1, <2>2, <1>5 DEF NextPage, Construct
<1>6. QED
  BY <1>1, <1>2, <1>3, <1>4, <1>5 DEF NextPage

\* A mapping is written to a table that leads to no other table.
LEMMA LeafKeeps ==
  ASSUME IInv, ConstructLeaf
  PROVE  IInv'
<1> USE Indices
<1> DEFINE x == EptAddressToIndex(level, page)
<1>a. /\ pc \in {"build", "fault"} /\ level = 1 /\ mem' = [mem EXCEPT ![table][x] = page]
      /\ UNCHANGED <<live, ept, corrupt>>
  BY DEF ConstructLeaf, EptInitTableEntry
<1>b. /\ table \in Blocks /\ table \in Tables(mem, root) /\ table \notin Inner(mem, root)
      /\ x \in Index /\ page \in Pages
  BY <1>a, WalkInTree
<1>c. /\ root \in Blocks /\ root # Null /\ Tree(mem, root) /\ DestructedTables = Tables(mem, root)
  BY <1>a, Rooted
<1> HIDE DEF x
<1>1. mem' \in [Blocks -> [Index -> Pages \union Blocks \union {Empty}]] /\ \A u \in Blocks \ {table} : mem'[u] = mem[u]
  BY <1>a, <1>b DEF IInv, Contents
<1>2. Tree(mem', root) /\ Tables(mem', root) = Tables(mem, root)
  <2>1. \A u \in Inner(mem, root) : mem'[u] = mem[u]
    BY <1>b, <1>c, <1>1 DEF Tree, Tables
  <2> HIDE DEF Tree, Tables, Inner
  <2>2. QED
    BY <2>1, <1>c, SameLevels
<1>3. DestructedTables' = DestructedTables
  BY <1>2, <1>a, <1>c, LevelNamesNext DEF ept
<1>4. \/ pc = "build" /\ pc' = "array" /\ WalkEnds
      \/ pc = "fault" /\ pc' = "ready" /\ WalkEnds
      \/ /\ pc = "build" /\ pc' = "build" /\ level' = 4 /\ table' = root /\ page' \in Pages
         /\ run' \in 1 .. Len(Runs) + 1
         /\ run' <= Len(Runs) => page' \in Runs[run'].base .. Runs[run'].base + Runs[run'].count - 1
  BY NextPageIsPage DEF ConstructLeaf
<1>5. Headed'
  BY <1>a, <1>4 DEF IInv, Headed, ept
<1>6. Reserve'
  <2>1. \A i \in 1 .. filled : i > used => mem'[pre[i]] = ZeroedTable
    <3> SUFFICES ASSUME NEW i \in 1 .. filled, i > used PROVE mem'[pre[i]] = ZeroedTable
      OBVIOUS
    <3>1. pre[i] \in Spare /\ pre[i] \in Blocks /\ mem[pre[i]] = ZeroedTable
      BY DEF IInv, Reserve, Spare
    <3>2. pre[i] # table
      BY <3>1, <1>b, <1>c DEF IInv, Owned
    <3>3. QED
      BY <3>1, <3>2, <1>1
  <2>2. QED
    BY <2>1, <1>a, <1>3, <1>4 DEF IInv, Reserve, ept
<1>7. Walk'
  BY <1>a, <1>4 DEF Walk, WalkEnds, AtLevel, ept
<1>8. Owned'
  BY <1>a, <1>3 DEF IInv, Owned, Headers, Spare, ept
<1>9. QED
  BY <1>a, <1>1, <1>2, <1>5, <1>6, <1>7, <1>8 DEF IInv, Contents, Grown, ept

\* A violation starts a construction at the root.
LEMMA ViolationKeeps ==
  ASSUME IInv, NEW p \in Pages, EptHandleEptViolation(p)
  PROVE  IInv'
<1>a. /\ pc = "ready" /\ pc' = "fault" /\ page' = p /\ run' = 0 /\ table' = root /\ level' = 4
      /\ UNCHANGED <<live, mem, ept, corrupt>>
  BY DEF EptHandleEptViolation, Construct
<1>1. DestructedTables' = DestructedTables
  BY <1>a, SameTree DEF ept
<1>2. Headed' /\ Reserve'
  BY <1>a, <1>1 DEF IInv, Headed, Reserve, ept
<1>3. Walk'
  BY <1>a DEF IInv, Walk, AtLevel, ept
<1>4. Owned'
  BY <1>a, <1>1 DEF IInv, Owned, Headers, Spare, ept
<1>5. QED
  BY <1>a, <1>2, <1>3, <1>4 DEF IInv, Contents, Grown, ept

\* A step that changes nothing keeps the invariant.
LEMMA StutterKeeps ==
  ASSUME IInv, UNCHANGED vars
  PROVE  IInv'
<1>a. UNCHANGED <<live, mem, data, pointer, root, array, pre, filled, used, pc, run, page, table, level, corrupt>>
  BY DEF vars, ept, walk
<1>1. DestructedTables' = DestructedTables
  BY <1>a, SameTree
<1>2. Headed' /\ Reserve' /\ Contents'
  BY <1>a, <1>1 DEF IInv, Headed, Reserve, Contents
<1>3. Walk'
  BY <1>a DEF IInv, Walk
<1>4. Owned'
  BY <1>a, <1>1 DEF IInv, Owned, Headers, Spare
<1>5. Grown'
  BY <1>a DEF IInv, Grown
<1>6. QED
  BY <1>a, <1>2, <1>3, <1>4, <1>5 DEF IInv

\* The inductive invariant holds in every behaviour.
THEOREM IInvIsInvariant == Spec => []IInv
<1>1. IInv /\ [Next]_vars => IInv'
  <2> SUFFICES ASSUME IInv, [Next]_vars PROVE IInv'
    OBVIOUS
  <2> HIDE DEF IInv
  <2>1. CASE EptInitialization
    BY <2>1, AllocateHeadersKeep, AllocatePm14Keeps, AllocateArrayKeeps, FillKeeps, FailsKeeps DEF EptInitialization
  <2>2. CASE EptConstructTables
    BY <2>2, DescendsKeeps, FromPoolKeeps, FromPreallocatedKeeps, LeafKeeps DEF EptConstructTables
  <2>3. CASE \E p \in Pages : EptHandleEptViolation(p)
    BY <2>3, ViolationKeeps
  <2>4. CASE EptTermination
    BY <2>4, TerminationKeeps
  <2>5. CASE UNCHANGED vars
    BY <2>5, StutterKeeps
  <2>6. QED
    BY <2>1, <2>2, <2>3, <2>4, <2>5 DEF Next
<1>2. QED
  BY IInvInit, <1>1, PTL DEF Spec

-----------------------------------------------------------------------------
(* What follows                                                            *)

\* A table other than the root is reached from exactly one entry.
LEMMA OneParent ==
  ASSUME IInv, root # Null, NEW b \in DestructedTables \ {root}
  PROVE  Cardinality({e \in Upper \X Index : mem[e[1]][e[2]] = b}) = 1
<1>1. Tree(mem, root) /\ DestructedTables = Tables(mem, root) /\ Upper = Inner(mem, root)
  BY LevelNames DEF IInv, Grown
<1>2. b \in L3(mem, root) \union L2(mem, root) \union L1(mem, root)
  BY <1>1 DEF Tables, Inner
<1>3. PICK t \in Upper, i \in Index : mem[t][i] = b /\ b # Empty
  BY <1>1, <1>2, NodesOf DEF L3, L2, L1, Inner
<1>4. ASSUME NEW e \in Upper \X Index, mem[e[1]][e[2]] = b PROVE e = <<t, i>>
  <2>1. e[1] = t /\ e[2] = i
    BY <1>1, <1>3, <1>4 DEF Tree
  <2>2. QED
    BY <2>1
<1>5. {e \in Upper \X Index : mem[e[1]][e[2]] = b} = {<<t, i>>}
  BY <1>3, <1>4
<1>6. QED
  BY <1>5, FS_Singleton

\* Every block that is allocated is owned exactly once: whatever the sizes are, a
\* failing EptInitialization and EptTermination lose nothing and meet every
\* table once.
THEOREM AlwaysOwnedOnce == Spec => []OwnedOnce
<1>1. IInv => OwnedOnce
  BY OneParent DEF IInv, Owned, OwnedOnce
<1>2. QED
  BY <1>1, IInvIsInvariant, PTL

\* Every variable has its type.
THEOREM TypesAlwaysCorrect == Spec => []TypeOK
<1>1. IInv => TypeOK
  <2> SUFFICES ASSUME IInv PROVE TypeOK
    OBVIOUS
  <2>1. live \subseteq Blocks
    <3>1. root # Null => DestructedTables \subseteq Blocks
      BY LevelNames DEF IInv, Grown, Tree
    <3>2. root = Null => DestructedTables = {}
      BY DEF DestructedTables
    <3>3. QED
      BY <3>1, <3>2 DEF IInv, Owned, Headers, Headed, Spare, Reserve
  <2>2. table \in Blocks \union {Null} /\ level \in 0 .. 4
    <3>1. CASE pc \in {"build", "fault"}
      BY <3>1, WalkInTree
    <3>2. CASE pc \notin {"build", "fault"}
      BY <3>2 DEF IInv, Walk
    <3>3. QED
      BY <3>1, <3>2
  <2>3. run \in 0 .. Len(Runs) + 1 /\ page \in Pages
    BY RunsTyped DEF IInv, Walk
  <2>4. QED
    BY <2>1, <2>2, <2>3 DEF TypeOK, IInv, Headed, Reserve, Contents
<1>2. QED
  BY <1>1, IInvIsInvariant, PTL

\* The machine stops for want of pre-allocated entries only when all of them
\* are tables.
THEOREM ExhaustedAlwaysAllUsed == Spec => []ExhaustedWhenAllUsed
<1>1. IInv => ExhaustedWhenAllUsed
  <2> SUFFICES ASSUME IInv, pc = "halted", NEW i \in 1 .. Preallocated PROVE pre[i] \in DestructedTables
    BY DEF ExhaustedWhenAllUsed
  <2>1. filled = Preallocated /\ i <= used
    BY Indices DEF IInv, Reserve
  <2>2. QED
    BY <2>1 DEF IInv, Reserve
<1>2. QED
  BY <1>1, IInvIsInvariant, PTL

\* EptTermination frees nothing twice and nothing that was not allocated.
THEOREM TerminationAlwaysFreesOnce == Spec => TerminationFreesOnce
<1>1. IInv /\ [Next]_vars => [pc = "ready" => corrupt' = corrupt]_vars
  <2> SUFFICES ASSUME IInv, Next, pc = "ready" PROVE corrupt' = corrupt
    BY DEF vars
  <2>1. CASE EptInitialization
    BY <2>1 DEF EptInitialization, AllocateEptData, AllocateEptPointer, AllocateEptPm14,
       AllocatePreallocatedEntries, FillPreallocatedEntries, EptInitializationFails
  <2>2. CASE EptConstructTables
    BY <2>2 DEF EptConstructTables, ConstructDescends, ConstructFromPool, ConstructFromPreallocated, ConstructLeaf
  <2>3. CASE \E p \in Pages : EptHandleEptViolation(p)
    BY <2>3 DEF EptHandleEptViolation
  <2>4. CASE EptTermination
    BY <2>4, TerminationKeeps
  <2>5. QED
    BY <2>1, <2>2, <2>3, <2>4 DEF Next
<1>2. QED
  BY <1>1, IInvIsInvariant, PTL DEF Spec, TerminationFreesOnce

-----------------------------------------------------------------------------
(* The four indices of a page                                              *)

\* A number below the divisor.
LEMMA DivSmall ==
  ASSUME NEW a \in Nat, NEW e \in Nat \ {0}, a < e
  PROVE  a \div e = 0
<1>1. PICK z \in Nat, y \in 0 .. e - 1 : z = a \div e /\ a = e * z + y
  BY DivMod
<1>2. e * 0 + a = e * z + y /\ a \in 0 .. e - 1
  BY <1>1
<1>3. 0 = z
  BY <1>1, <1>2, DivUnique
<1>4. QED
  BY <1>1, <1>3

\* Dividing twice is dividing by the product.
LEMMA DivTwice ==
  ASSUME NEW a \in Nat, NEW d \in Nat \ {0}, NEW f \in Nat \ {0}
  PROVE  a \div (d * f) = (a \div d) \div f
<1>1. PICK q \in Nat, r \in 0 .. d - 1 : q = a \div d /\ a = d * q + r
  BY DivMod
<1>2. PICK u \in Nat, v \in 0 .. f - 1 : u = q \div f /\ q = f * u + v
  BY DivMod
<1> DEFINE e == d * f
           w == d * v + r
<1>3. e \in Nat \ {0}
  OBVIOUS
<1>4. w \in 0 .. e - 1
  <2>1. PICK j \in Nat : f = v + 1 + j
    <3>1. f - v - 1 \in Nat /\ f = v + 1 + (f - v - 1)
      BY <1>2
    <3>2. QED
      BY <3>1
  <2>2. d * f = d * v + d + d * j
    BY <2>1, <1>2
  <2>3. d * v \in Nat /\ d * j \in Nat /\ d * f \in Nat
    BY <2>1, <1>2
  <2>4. QED
    BY <2>2, <2>3, <1>1
<1>5. a = e * u + w
  <2>1. d * (f * u + v) = (d * f) * u + d * v
    BY <1>1, <1>2
  <2>2. d * (f * u + v) \in Int /\ (d * f) * u \in Int /\ d * v \in Int
    BY <1>1, <1>2
  <2>3. a = d * (f * u + v) + r
    BY <1>1, <1>2
  <2>4. a = (d * f) * u + (d * v + r)
    BY <2>1, <2>2, <2>3, <1>1
  <2>5. QED
    BY <2>4
<1> HIDE DEF e, w
<1>6. PICK z \in Nat, y \in 0 .. e - 1 : z = a \div e /\ a = e * z + y
  BY <1>3, DivMod
<1>7. u = z
  BY <1>3, <1>4, <1>5, <1>6, DivUnique
<1>8. QED
  BY <1>1, <1>2, <1>6, <1>7 DEF e

\* Numbers whose quotients are the same and whose last digits are the same.
LEMMA SameNumber ==
  ASSUME NEW a \in Nat, NEW b \in Nat, NEW f \in Nat \ {0}, a \div f = b \div f, a % f = b % f
  PROVE  a = b
<1>1. PICK q \in Nat, r \in 0 .. f - 1 : q = a \div f /\ r = a % f /\ a = f * q + r
  BY DivMod
<1>2. PICK u \in Nat, v \in 0 .. f - 1 : u = b \div f /\ v = b % f /\ b = f * u + v
  BY DivMod
<1>3. QED
  BY <1>1, <1>2

\* The four indices of a page are its digits.
LEMMA PageOfIndices ==
  ASSUME NEW f \in Nat \ {0}, NEW p \in 0 .. f * f * f * f - 1, NEW q \in 0 .. f * f * f * f - 1,
         (p \div (f * f * f)) % f = (q \div (f * f * f)) % f,
         (p \div (f * f)) % f = (q \div (f * f)) % f,
         (p \div f) % f = (q \div f) % f,
         p % f = q % f
  PROVE  p = q
<1> DEFINE S2 == f * f
           S3 == S2 * f
           S4 == S3 * f
<1>1. S2 \in Nat \ {0}
  OBVIOUS
<1> HIDE DEF S2
<1>2. S3 \in Nat \ {0}
  BY <1>1
<1> HIDE DEF S3
<1>3. S4 \in Nat \ {0}
  BY <1>2
<1>4. p \in 0 .. S4 - 1 /\ q \in 0 .. S4 - 1
  BY DEF S4, S3, S2
<1> HIDE DEF S4
<1>5. \A a \in 0 .. S4 - 1 : a \div S4 = 0
  <2>1. \A a \in 0 .. S4 - 1 : a \in Nat /\ a < S4
    BY <1>3
  <2>2. QED
    BY <1>3, <2>1, DivSmall
<1>6. \A a, d \in Nat : d # 0 => a \div d \in Nat
  <2> SUFFICES ASSUME NEW a \in Nat, NEW d \in Nat \ {0} PROVE a \div d \in Nat
    OBVIOUS
  <2>1. QED
    BY DivMod
<1>7. p \in Nat /\ q \in Nat
  BY <1>3, <1>4
<1>8. p \div S3 = q \div S3
  <2>1. (p \div S3) \div f = 0 /\ (q \div S3) \div f = 0
    BY <1>2, <1>4, <1>5, <1>7, DivTwice, ZenonT(40) DEF S4
  <2>2. (p \div S3) % f = (q \div S3) % f
    BY DEF S3, S2
  <2>3. QED
    BY <2>1, <2>2, <1>2, <1>6, <1>7, SameNumber
<1>9. p \div S2 = q \div S2
  <2>1. p \div S3 = (p \div S2) \div f /\ q \div S3 = (q \div S2) \div f
    BY <1>1, <1>7, DivTwice DEF S3
  <2>2. (p \div S2) % f = (q \div S2) % f
    BY DEF S2
  <2>3. (p \div S2) \div f = (q \div S2) \div f
    BY <2>1, <1>8
  <2>4. p \div S2 \in Nat /\ q \div S2 \in Nat
    BY <1>1, <1>6, <1>7
  <2>5. QED
    BY <2>2, <2>3, <2>4, SameNumber
<1>10. p \div f = q \div f
  <2>1. p \div S2 = (p \div f) \div f /\ q \div S2 = (q \div f) \div f
    BY <1>7, DivTwice DEF S2
  <2>2. (p \div f) \div f = (q \div f) \div f
    BY <2>1, <1>9
  <2>3. p \div f \in Nat /\ q \div f \in Nat
    BY <1>6, <1>7
  <2>4. QED
    BY <2>2, <2>3, SameNumber
<1>11. QED
  BY <1>7, <1>10, SameNumber

-----------------------------------------------------------------------------
(* The path to a page                                                      *)

At(m, t, l, p) == IF t = Empty THEN Empty ELSE m[t][EptAddressToIndex(l, p)]

\* The tables of page p under root r, and the mapping itself.
T3(m, r, p)   == At(m, r, 4, p)
T2(m, r, p)   == At(m, T3(m, r, p), 3, p)
T1(m, r, p)   == At(m, T2(m, r, p), 2, p)
Leaf(m, r, p) == At(m, T1(m, r, p), 1, p)

OnPath(m, r, p, l) ==
  CASE l = 4 -> r [] l = 3 -> T3(m, r, p) [] l = 2 -> T2(m, r, p) [] l = 1 -> T1(m, r, p)

\* What EptGetEptPtEntry finds, before and after a step.
LEMMA LeafNames ==
  /\ \A p \in Pages : EptGetEptPtEntry(p) = Leaf(mem, root, p)
  /\ (\A p \in Pages : EptGetEptPtEntry(p) = Leaf(mem, root, p))'
<1>1. \A p \in Pages : EptGetEptPtEntry(p) = Leaf(mem, root, p)
  BY DEF EptGetEptPtEntry, EntryAt, Leaf, T1, T2, T3, At
<1>2. QED
  BY <1>1, PTL

\* Each table on the path is of its level or missing.
LEMMA PathTyped ==
  ASSUME NEW m, NEW r \in Blocks, NEW p \in Pages
  PROVE  /\ T3(m, r, p) \in L3(m, r) \union {Empty}
         /\ T2(m, r, p) \in L2(m, r) \union {Empty}
         /\ T1(m, r, p) \in L1(m, r) \union {Empty}
<1>1. \A l \in 1 .. 4 : EptAddressToIndex(l, p) \in Index
  BY Indices
<1>2. ASSUME NEW S, NEW t \in S \union {Empty}, NEW l \in 1 .. 4 PROVE At(m, t, l, p) \in Nodes(m, S) \union {Empty}
  BY <1>1, <1>2, NodesOf DEF At
<1>3. T3(m, r, p) \in L3(m, r) \union {Empty}
  BY <1>2 DEF T3, L3
<1>4. T2(m, r, p) \in L2(m, r) \union {Empty}
  BY <1>2, <1>3 DEF T2, L2
<1>5. T1(m, r, p) \in L1(m, r) \union {Empty}
  BY <1>2, <1>4 DEF T1, L1
<1>6. QED
  BY <1>3, <1>4, <1>5

\* Pages that share an entry of a lowest table are the same page.
LEMMA EntryOfOnePage ==
  ASSUME NEW m, NEW r \in Blocks, Tree(m, r), NEW p \in Pages, NEW q \in Pages,
         T1(m, r, p) = T1(m, r, q), T1(m, r, p) # Empty, PteIndex(p) = PteIndex(q)
  PROVE  p = q
<1>1. /\ T3(m, r, p) \in L3(m, r) \union {Empty} /\ T3(m, r, q) \in L3(m, r) \union {Empty}
      /\ T2(m, r, p) \in L2(m, r) \union {Empty} /\ T2(m, r, q) \in L2(m, r) \union {Empty}
  BY PathTyped
<1>2. \A l \in 1 .. 4 : EptAddressToIndex(l, p) \in Index /\ EptAddressToIndex(l, q) \in Index
  BY Indices
<1>3. \A t, u \in Inner(m, r), i, j \in Index : m[t][i] = m[u][j] /\ m[t][i] # Empty => t = u /\ i = j
  BY DEF Tree
<1>4. \A t, u \in Inner(m, r) \union {Empty}, l \in 1 .. 4 :
        At(m, t, l, p) = At(m, u, l, q) /\ At(m, t, l, p) # Empty
          => t = u /\ t # Empty /\ EptAddressToIndex(l, p) = EptAddressToIndex(l, q)
  BY <1>2, <1>3 DEF At
<1>5. /\ {r} \subseteq Inner(m, r) /\ L3(m, r) \subseteq Inner(m, r) /\ L2(m, r) \subseteq Inner(m, r)
  BY DEF Inner
<1>6. T2(m, r, p) = T2(m, r, q) /\ T2(m, r, p) # Empty /\ EptAddressToIndex(2, p) = EptAddressToIndex(2, q)
  BY <1>1, <1>4, <1>5 DEF T1
<1>7. T3(m, r, p) = T3(m, r, q) /\ T3(m, r, p) # Empty /\ EptAddressToIndex(3, p) = EptAddressToIndex(3, q)
  BY <1>1, <1>4, <1>5, <1>6 DEF T2
<1>8. EptAddressToIndex(4, p) = EptAddressToIndex(4, q)
  BY <1>4, <1>5, <1>7 DEF T3
<1>9. PxeIndex(p) = PxeIndex(q) /\ PpeIndex(p) = PpeIndex(q) /\ PdeIndex(p) = PdeIndex(q)
  BY <1>6, <1>7, <1>8 DEF EptAddressToIndex
<1>10. QED
  BY <1>9, SizesAssumption, PageOfIndices DEF PxeIndex, PpeIndex, PdeIndex, PteIndex, Pages

\* A new table on the path to one page: no page is mapped by it yet.
LEMMA PathLinked ==
  ASSUME NEW m, NEW n, NEW r \in Blocks, Tree(m, r), NEW pg \in Pages, NEW l \in 2 .. 4,
         NEW t \in Inner(m, r), t = OnPath(m, r, pg, l), NEW b \in Blocks, b \notin Tables(m, r),
         Linked(m, n, t, EptAddressToIndex(l, pg), b)
  PROVE  /\ \A p \in Pages : Leaf(n, r, p) = Leaf(m, r, p)
         /\ OnPath(n, r, pg, l - 1) = b
<1> DEFINE x == EptAddressToIndex(l, pg)
           Sim(u, v) == (u = v /\ u \in Tables(m, r) \union {Empty}) \/ (u = b /\ v = Empty)
<1>1. x \in Index /\ \A k \in 1 .. 4, p \in Pages : EptAddressToIndex(k, p) \in Index
  BY Indices
<1>2. Tables(m, r) \subseteq Blocks /\ Empty \notin Blocks /\ Inner(m, r) \subseteq Tables(m, r)
  BY Indices DEF Tree, Tables
<1>3. /\ \A u \in Inner(m, r), i \in Index : n[u][i] = IF u = t /\ i = x THEN b ELSE m[u][i]
      /\ m[t][x] = Empty /\ n[t][x] = b
      /\ \A i \in Index : n[b][i] = Empty
      /\ \A u \in L1(m, r) : n[u] = m[u]
  <2>1. \A u \in L1(m, r) : u \in Blocks /\ u # t /\ u # b
    BY <1>2 DEF Tree, Tables, Inner
  <2>2. QED
    BY <1>2, <2>1 DEF Linked
<1>4. \A u \in Inner(m, r), i \in Index : m[u][i] \in Tables(m, r) \union {Empty}
  <2> SUFFICES ASSUME NEW u \in Inner(m, r), NEW i \in Index, m[u][i] # Empty PROVE m[u][i] \in Tables(m, r)
    OBVIOUS
  <2>1. \A S : u \in S => m[u][i] \in Nodes(m, S)
    BY NodesOf
  <2>2. m[u][i] \in L3(m, r) \union L2(m, r) \union L1(m, r)
    BY <2>1 DEF Inner, L3, L2, L1
  <2>3. QED
    BY <2>2 DEF Tables, Inner
<1>5. ASSUME NEW u, NEW v, NEW k \in 1 .. 4, NEW p \in Pages, Sim(u, v), v \in Inner(m, r) \union {Empty}
      PROVE  Sim(At(n, u, k, p), At(m, v, k, p))
  <2>1. CASE u = b /\ v = Empty
    BY <2>1, <1>1, <1>2, <1>3 DEF At
  <2>2. CASE u = Empty /\ v = Empty
    BY <2>2 DEF At
  <2>3. CASE u = v /\ u \in Inner(m, r)
    <3>1. At(n, u, k, p) = n[u][EptAddressToIndex(k, p)] /\ At(m, v, k, p) = m[u][EptAddressToIndex(k, p)]
      BY <2>3, <1>2 DEF At
    <3>2. QED
      BY <3>1, <2>3, <1>1, <1>3, <1>4
  <2>4. QED
    BY <2>1, <2>2, <2>3, <1>5
<1>6. ASSUME NEW p \in Pages
      PROVE  Sim(T3(n, r, p), T3(m, r, p)) /\ Sim(T2(n, r, p), T2(m, r, p)) /\ Sim(T1(n, r, p), T1(m, r, p))
  <2>1. /\ T3(m, r, p) \in L3(m, r) \union {Empty} /\ T2(m, r, p) \in L2(m, r) \union {Empty}
        /\ r \in Inner(m, r) /\ L3(m, r) \subseteq Inner(m, r) /\ L2(m, r) \subseteq Inner(m, r)
    BY PathTyped DEF Inner
  <2>2. Sim(r, r)
    BY <2>1, <1>2
  <2> HIDE DEF Sim
  <2>3. Sim(T3(n, r, p), T3(m, r, p))
    BY <1>5, <2>1, <2>2 DEF T3
  <2>4. Sim(T2(n, r, p), T2(m, r, p))
    BY <1>5, <2>1, <2>3 DEF T2
  <2>5. Sim(T1(n, r, p), T1(m, r, p))
    BY <1>5, <2>1, <2>4 DEF T1
  <2>6. QED
    BY <2>3, <2>4, <2>5
<1>7. ASSUME NEW p \in Pages PROVE Leaf(n, r, p) = Leaf(m, r, p)
  <2>1. Sim(T1(n, r, p), T1(m, r, p)) /\ T1(m, r, p) \in L1(m, r) \union {Empty}
    BY <1>6, PathTyped
  <2>2. CASE T1(n, r, p) = b /\ T1(m, r, p) = Empty
    BY <2>2, <1>1, <1>2, <1>3 DEF Leaf, At
  <2>3. CASE T1(n, r, p) = T1(m, r, p)
    BY <2>1, <2>3, <1>1, <1>3 DEF Leaf, At
  <2>4. QED
    BY <2>1, <2>2, <2>3
<1>8. OnPath(n, r, pg, l - 1) = b
  <2>1. t # Empty
    BY <1>2
  <2>2. At(n, t, l, pg) = b
    BY <2>1, <1>3 DEF At
  <2>3. CASE l = 4
    BY <2>2, <2>3 DEF OnPath, T3
  <2>4. CASE l = 3
    <3>1. T3(n, r, pg) = t
      BY <2>1, <2>4, <1>6 DEF OnPath
    <3>2. QED
      BY <3>1, <2>2, <2>4 DEF OnPath, T2
  <2>5. CASE l = 2
    <3>1. T2(n, r, pg) = t
      BY <2>1, <2>5, <1>6 DEF OnPath
    <3>2. QED
      BY <3>1, <2>2, <2>5 DEF OnPath, T1
  <2>6. QED
    BY <2>3, <2>4, <2>5
<1>9. QED
  BY <1>7, <1>8

\* Writing the mapping of one page changes that of no other.
LEMMA LeafWritten ==
  ASSUME NEW m, NEW n, NEW r \in Blocks, Tree(m, r), NEW pg \in Pages, T1(m, r, pg) # Empty,
         \A u \in Blocks \ {T1(m, r, pg)} : n[u] = m[u],
         \A i \in Index : n[T1(m, r, pg)][i] = IF i = PteIndex(pg) THEN pg ELSE m[T1(m, r, pg)][i]
  PROVE  \A p \in Pages : Leaf(n, r, p) = IF p = pg THEN pg ELSE Leaf(m, r, p)
<1> DEFINE t == T1(m, r, pg)
<1>1. t \in L1(m, r)
  BY PathTyped
<1>2. \A u \in Inner(m, r) : u \in Blocks /\ u # t
  BY <1>1 DEF Tree, Tables, Inner
<1>3. \A u \in Inner(m, r) : n[u] = m[u]
  BY <1>2
<1>4. Empty \notin Blocks /\ \A k \in 1 .. 4, p \in Pages : EptAddressToIndex(k, p) \in Index
  BY Indices
<1> SUFFICES ASSUME NEW p \in Pages PROVE Leaf(n, r, p) = IF p = pg THEN pg ELSE Leaf(m, r, p)
  OBVIOUS
<1>5. /\ T3(m, r, p) \in L3(m, r) \union {Empty} /\ T2(m, r, p) \in L2(m, r) \union {Empty}
      /\ T1(m, r, p) \in L1(m, r) \union {Empty}
  BY PathTyped
<1>6. T3(n, r, p) = T3(m, r, p)
  BY <1>3 DEF T3, At, Inner
<1>7. T2(n, r, p) = T2(m, r, p)
  BY <1>3, <1>5, <1>6 DEF T2, At, Inner
<1>8. T1(n, r, p) = T1(m, r, p)
  BY <1>3, <1>5, <1>7 DEF T1, At, Inner
<1>9. L1(m, r) \subseteq Blocks
  BY DEF Tree, Tables
<1>10. EptAddressToIndex(1, p) = PteIndex(p) /\ EptAddressToIndex(1, pg) = PteIndex(pg)
  BY DEF EptAddressToIndex
<1>11. CASE T1(m, r, p) # t
  <2>1. p # pg
    BY <1>11
  <2>2. QED
    BY <2>1, <1>5, <1>8, <1>9, <1>11 DEF Leaf, At
<1>12. CASE T1(m, r, p) = t
  <2>1. PteIndex(p) = PteIndex(pg) => p = pg
    BY <1>12, EntryOfOnePage
  <2>2. QED
    BY <2>1, <1>4, <1>8, <1>10, <1>12 DEF Leaf, At
<1>13. QED
  BY <1>11, <1>12

-----------------------------------------------------------------------------
(* Which pages are mapped                                                  *)

BootPages == RamPages(Runs) \union {ApicPage}

\* What EptInitialization has mapped when EptConstructTables is called for page.
Done ==
  IF pc # "build" THEN BootPages
  ELSE IF run > Len(Runs) THEN RamPages(Runs)
  ELSE {q \in RamPages(Runs) : q < page}

Mapping(p) == Leaf(mem, root, p)

Mapped ==
  /\ pc \in {"build", "fault"} => table = OnPath(mem, root, page, level)
  /\ pc = "build" /\ run > Len(Runs) => page = ApicPage
  /\ pc \in {"build", "array", "fill"} => \A p \in Pages : Mapping(p) = IF p \in Done THEN p ELSE Empty
  /\ pc \in {"ready", "fault", "halted"} =>
       \A p \in Pages : Mapping(p) \in {Empty, p} /\ (p \in BootPages => Mapping(p) = p)
  /\ pc \in {"fault", "halted"} => Mapping(page) = Empty

\* A page of RAM is in a run, and the runs are sorted.
LEMMA RunsSorted ==
  /\ \A q : q \in RamPages(Runs) <=> \E r \in 1 .. Len(Runs) : q \in Runs[r].base .. Runs[r].base + Runs[r].count - 1
  /\ \A r, s \in 1 .. Len(Runs) : r < s => Runs[r].base + Runs[r].count <= Runs[s].base
  /\ \A r \in 1 .. Len(Runs) : Runs[r].base \in Int /\ Runs[r].count \in Nat \ {0}
  /\ ApicPage \in Pages /\ ApicPage \notin RamPages(Runs) /\ BootPages \subseteq Pages
  /\ Len(Runs) \in Nat /\ Len(Runs) > 0
<1> DEFINE S == [base : Pages, count : Nat \ {0}]
           R(r) == Runs[r].base .. Runs[r].base + Runs[r].count - 1
<1>1. Len(Runs) \in Nat /\ Len(Runs) > 0 /\ DOMAIN Runs = 1 .. Len(Runs)
  <2>1. Runs \in Seq(S)
    BY RunsAssumption
  <2> HIDE DEF S
  <2>2. QED
    BY <2>1, RunsTyped, LenProperties
<1>2. RamPages(Runs) = UNION {R(r) : r \in 1 .. Len(Runs)}
  BY <1>1 DEF RamPages
<1> HIDE DEF R
<1>3. \A q : q \in RamPages(Runs) <=> \E r \in 1 .. Len(Runs) : q \in R(r)
  BY <1>2
<1>4. \A r, s \in 1 .. Len(Runs) : r < s => Runs[r].base + Runs[r].count <= Runs[s].base
  BY <1>1, RunsAssumption
<1>5. \A r \in 1 .. Len(Runs) : Runs[r].base \in Int /\ Runs[r].count \in Nat \ {0}
  BY RunsTyped DEF Pages
<1>6. ApicPage \in Pages /\ ApicPage \notin RamPages(Runs) /\ BootPages \subseteq Pages
  BY RunsAssumption DEF BootPages
<1>7. QED
  BY <1>1, <1>3, <1>4, <1>5, <1>6 DEF R

\* No page comes before the first run.
LEMMA NothingDone ==
  \A q \in RamPages(Runs) : q >= Runs[1].base
<1> SUFFICES ASSUME NEW q \in RamPages(Runs) PROVE q >= Runs[1].base
  OBVIOUS
<1>1. PICK r \in 1 .. Len(Runs) : q \in Runs[r].base .. Runs[r].base + Runs[r].count - 1
  BY RunsSorted
<1>2. r = 1 \/ Runs[1].base + Runs[1].count <= Runs[r].base
  BY RunsSorted
<1>3. 1 \in 1 .. Len(Runs) /\ Runs[1].base \in Int /\ Runs[1].count \in Nat /\ Runs[r].base \in Int /\ Runs[r].count \in Nat
  BY RunsSorted
<1>4. QED
  BY <1>1, <1>2, <1>3

\* The page at hand is not mapped yet.
LEMMA PageNotDone ==
  ASSUME IInv, Mapped, pc = "build"
  PROVE  page \in Pages /\ page \notin Done
<1>1. page \in Pages
  BY DEF IInv, Walk
<1>2. ~(page < page)
  BY <1>1 DEF Pages
<1>3. QED
  BY <1>1, <1>2, RunsSorted DEF Mapped, Done

\* Pages of this run or an earlier one come before its end, those of later runs behind it.
LEMMA BeforeAndBehind ==
  ASSUME NEW q, NEW p \in Int, NEW a \in Int, NEW c \in Int, NEW b \in Int, NEW d \in Int, d > 0,
         q \in a .. a + c - 1, p + 1 = b + d
  PROVE  /\ a + c <= b + d => q < p \/ q = p
         /\ b + d <= a => p < q
<1>1. q \in Int /\ a <= q /\ q <= a + c - 1
  OBVIOUS
<1>2. QED
  BY <1>1

\* The next page: all pages of RAM before it and no others are then mapped.
LEMMA DoneGrows ==
  ASSUME IInv, Mapped, pc = "build", NextPage
  PROVE  Done' = Done \union {page} /\ (pc' = "build" /\ run' > Len(Runs) => page' = ApicPage)
<1>0. /\ Len(Runs) \in Nat /\ Len(Runs) > 0
      /\ \A r \in 1 .. Len(Runs) : Runs[r].base \in Int /\ Runs[r].count \in Int /\ Runs[r].count > 0
  BY RunsSorted
<1>1. run \in 1 .. Len(Runs) + 1 /\ page \in Int
      /\ (run <= Len(Runs) => page \in Runs[run].base .. Runs[run].base + Runs[run].count - 1)
  BY <1>0 DEF IInv, Walk, Pages
<1>2. CASE run > Len(Runs)
  BY <1>0, <1>2 DEF NextPage, Done, Mapped, BootPages
<1>3. CASE run \in 1 .. Len(Runs)
  <2>1. page \in RamPages(Runs) /\ Done = {q \in RamPages(Runs) : q < page}
    BY <1>0, <1>1, <1>3, RunsSorted DEF Done
  <2>2. RamPages(Runs) \subseteq Int
    BY RunsTyped DEF Pages
  <2>3. CASE page + 1 < Runs[run].base + Runs[run].count /\ Construct(root, page + 1, run) /\ pc' = pc
    <3>1. page' = page + 1 /\ run' = run /\ pc' = "build"
      BY <2>3 DEF Construct
    <3>2. Done' = {q \in RamPages(Runs) : q < page + 1}
      BY <3>1, <1>3 DEF Done
    <3>3. \A q \in RamPages(Runs) : q < page + 1 <=> q < page \/ q = page
      BY <2>2, <1>1
    <3>4. QED
      BY <3>1, <3>2, <3>3, <2>1, <1>3
  <2>4. CASE page + 1 = Runs[run].base + Runs[run].count /\ run = Len(Runs) /\ Construct(root, ApicPage, run + 1) /\ pc' = pc
    <3>1. page' = ApicPage /\ run' = Len(Runs) + 1 /\ pc' = "build"
      BY <2>4 DEF Construct
    <3>2. Done' = RamPages(Runs)
      BY <1>0, <3>1 DEF Done
    <3>3. ASSUME NEW q \in RamPages(Runs) PROVE q < page \/ q = page
      <4>1. PICK r \in 1 .. Len(Runs) : q \in Runs[r].base .. Runs[r].base + Runs[r].count - 1
        BY RunsSorted
      <4>2. r = run \/ Runs[r].base + Runs[r].count <= Runs[run].base
        BY <2>4, <1>0, <1>3, RunsSorted
      <4>3. /\ Runs[r].base \in Int /\ Runs[r].count \in Int /\ Runs[run].base \in Int /\ Runs[run].count \in Int
            /\ Runs[run].count > 0
        BY <1>0, <1>3
      <4>4. Runs[r].base + Runs[r].count <= Runs[run].base + Runs[run].count
        BY <4>2, <4>3
      <4>5. QED
        BY <4>1, <4>3, <4>4, <2>4, <1>1, BeforeAndBehind, SMTT(20)
    <3>4. QED
      BY <3>1, <3>2, <3>3, <2>1
  <2>5. CASE page + 1 = Runs[run].base + Runs[run].count /\ run < Len(Runs) /\ Construct(root, Runs[run + 1].base, run + 1) /\ pc' = pc
    <3>1. page' = Runs[run + 1].base /\ run' = run + 1 /\ pc' = "build" /\ run + 1 \in 1 .. Len(Runs)
      BY <2>5, <1>0, <1>3 DEF Construct
    <3>2. Done' = {q \in RamPages(Runs) : q < Runs[run + 1].base}
      BY <3>1 DEF Done
    <3>3. ASSUME NEW q \in RamPages(Runs) PROVE q < Runs[run + 1].base <=> q < page \/ q = page
      <4>1. PICK r \in 1 .. Len(Runs) : q \in Runs[r].base .. Runs[r].base + Runs[r].count - 1
        BY RunsSorted
      <4>2. /\ Runs[r].base \in Int /\ Runs[r].count \in Int /\ Runs[run].base \in Int /\ Runs[run].count \in Int
            /\ Runs[run].count > 0 /\ Runs[run + 1].base \in Int /\ Runs[run + 1].count \in Int /\ Runs[run + 1].count > 0
        BY <1>0, <1>3, <3>1
      <4>3. Runs[run].base + Runs[run].count <= Runs[run + 1].base
        <5>1. run < run + 1
          BY <1>3
        <5>2. QED
          BY <5>1, <1>3, <3>1, RunsSorted
      <4>4. CASE r <= run
        <5>1. r = run \/ Runs[r].base + Runs[r].count <= Runs[run].base
          BY <1>0, <4>4, <1>3, RunsSorted
        <5>2. Runs[r].base + Runs[r].count <= Runs[run].base + Runs[run].count
          BY <4>2, <5>1
        <5>3. q < page \/ q = page
          <6>1. page + 1 = Runs[run].base + Runs[run].count /\ page \in Int
            BY <2>5, <1>1
          <6>2. QED
            BY <4>1, <4>2, <5>2, <6>1, BeforeAndBehind, SMTT(20)
        <5>4. q \in Int /\ q < Runs[run + 1].base
          BY <4>2, <4>3, <5>3, <2>2, <2>5, <1>1
        <5>5. QED
          BY <5>3, <5>4
      <4>5. CASE r > run
        <5>1. r = run + 1 \/ Runs[run + 1].base + Runs[run + 1].count <= Runs[r].base
          BY <1>0, <4>5, <1>3, <3>1, RunsSorted
        <5>2. Runs[run + 1].base <= Runs[r].base /\ Runs[run].base + Runs[run].count <= Runs[r].base
          <6>1. CASE r = run + 1
            BY <4>2, <4>3, <6>1
          <6>2. CASE Runs[run + 1].base + Runs[run + 1].count <= Runs[r].base
            <7>1. \A x, a, c, d \in Int : c > 0 /\ x <= a /\ a + c <= d => a <= d /\ x <= d
              OBVIOUS
            <7>2. Runs[run].base + Runs[run].count \in Int
              BY <4>2
            <7>3. QED
              BY <1>3, <4>2, <4>3, <6>2, <7>1, <7>2, SMTT(20)
          <6>3. QED
            BY <5>1, <6>1, <6>2
        <5>3. page < q
          BY <4>1, <4>2, <5>2, <2>5, <1>1, BeforeAndBehind, SMTT(20)
        <5>4. q \in Int /\ Runs[r].base <= q
          BY <4>1, <4>2
        <5>5. ~(q < Runs[run + 1].base) /\ ~(q < page) /\ q # page
          BY <4>2, <5>2, <5>3, <5>4, <1>1, SMTT(20)
        <5>6. QED
          BY <5>5
      <4>6. QED
        BY <4>4, <4>5, <1>3
    <3>4. QED
      BY <3>1, <3>2, <3>3, <2>1
  <2>6. QED
    BY <1>0, <1>3, <2>3, <2>4, <2>5 DEF NextPage
<1>4. QED
  BY <1>0, <1>1, <1>2, <1>3

\* A step that writes no table and keeps the root changes no mapping.
LEMMA SameMapping ==
  ASSUME mem' = mem, root' = root
  PROVE  \A p \in Pages : Mapping(p)' = Mapping(p)
BY DEF Mapping

\* What is written outside the tree changes no mapping.
LEMMA OutsideMapping ==
  ASSUME NEW m, NEW n, NEW r \in Blocks, Tree(m, r), \A u \in Tables(m, r) : n[u] = m[u]
  PROVE  \A p \in Pages : Leaf(n, r, p) = Leaf(m, r, p)
<1> SUFFICES ASSUME NEW p \in Pages PROVE Leaf(n, r, p) = Leaf(m, r, p)
  OBVIOUS
<1>1. /\ T3(m, r, p) \in Tables(m, r) \union {Empty} /\ T2(m, r, p) \in Tables(m, r) \union {Empty}
      /\ T1(m, r, p) \in Tables(m, r) \union {Empty} /\ r \in Tables(m, r)
  BY PathTyped DEF Tables, Inner
<1>2. T3(n, r, p) = T3(m, r, p)
  BY <1>1 DEF T3, At
<1>3. T2(n, r, p) = T2(m, r, p)
  BY <1>1, <1>2 DEF T2, At
<1>4. T1(n, r, p) = T1(m, r, p)
  BY <1>1, <1>3 DEF T1, At
<1>5. QED
  BY <1>1, <1>4 DEF Leaf, At

\* EptInitialization up to the PML4 table.
LEMMA BeginsMapped ==
  ASSUME IInv, AllocateEptData \/ AllocateEptPointer \/ AllocateEptPm14
  PROVE  Mapped'
<1>1. CASE AllocateEptData \/ AllocateEptPointer
  BY <1>1 DEF AllocateEptData, AllocateEptPointer, Mapped
<1>2. CASE AllocateEptPm14
  <2>1. PICK b \in Blocks : root' = b /\ mem' = [mem EXCEPT ![b] = ZeroedTable] /\ Construct(b, Runs[1].base, 1)
    BY <1>2 DEF AllocateEptPm14
  <2>2. pc' = "build" /\ page' = Runs[1].base /\ run' = 1 /\ table' = root' /\ level' = 4 /\ ~(run' > Len(Runs))
    BY <1>2, <2>1, RunsSorted DEF AllocateEptPm14, Construct
  <2>3. b # Empty /\ \A i \in Index : mem'[b][i] = Empty
    BY <2>1, Indices DEF IInv, Contents, ZeroedTable
  <2>4. \A p \in Pages : Mapping(p)' = Empty
    <3>1. ASSUME NEW p \in Pages PROVE Mapping(p)' = Empty
      <4>1. EptAddressToIndex(4, p) \in Index /\ root' # Empty
        BY <2>1, <2>3, Indices
      <4>2. T3(mem', root', p) = Empty
        BY <2>1, <2>3, <4>1 DEF T3, At
      <4>3. Leaf(mem', root', p) = Empty
        BY <4>2, Zenon DEF Leaf, T1, T2, At
      <4>4. QED
        BY <4>3 DEF Mapping
    <3>2. QED
      BY <3>1
  <2>5. \A p \in Pages : p \notin Done'
    <3>1. Done' = {q \in RamPages(Runs) : q < Runs[1].base}
      BY <2>2 DEF Done
    <3>2. \A q \in RamPages(Runs) : q \in Int /\ Runs[1].base \in Int
      BY RunsSorted, RunsTyped DEF Pages
    <3>3. QED
      BY <3>1, <3>2, NothingDone
  <2>6. QED
    BY <2>2, <2>4, <2>5 DEF Mapped, OnPath
<1>3. QED
  BY <1>1, <1>2

\* The array and its entries are no part of the mapping.
LEMMA ReserveMapped ==
  ASSUME IInv, Mapped, AllocatePreallocatedEntries \/ FillPreallocatedEntries
  PROVE  Mapped' /\ (\A p \in Pages : Mapping(p)' = Mapping(p))
         /\ \A p \in Pages : Mapping(p) = IF p \in BootPages THEN p ELSE Empty
<1>1. /\ pc \in {"array", "fill"} /\ pc' \in {"fill", "ready"} /\ root' = root /\ Done = BootPages /\ Done' = BootPages
  BY DEF AllocatePreallocatedEntries, FillPreallocatedEntries, Done
<1>2. \A p \in Pages : Mapping(p)' = Mapping(p)
  <2>1. CASE AllocatePreallocatedEntries
    BY <2>1, SameMapping DEF AllocatePreallocatedEntries
  <2>2. CASE FillPreallocatedEntries
    <3>1. PICK b \in Blocks : b \notin live /\ mem' = [mem EXCEPT ![b] = ZeroedTable]
      BY <2>2 DEF FillPreallocatedEntries, ExAllocatePool
    <3>2. root \in Blocks /\ Tree(mem, root) /\ DestructedTables = Tables(mem, root) /\ DestructedTables \subseteq live
      BY <1>1, Rooted
    <3>3. \A u \in Tables(mem, root) : mem'[u] = mem[u]
      BY <3>1, <3>2 DEF IInv, Contents, Tree
    <3> HIDE DEF Tree, Tables
    <3>4. QED
      BY <3>2, <3>3, <1>1, OutsideMapping DEF Mapping
  <2>3. QED
    BY <2>1, <2>2
<1>3. QED
  BY <1>1, <1>2 DEF Mapped, Pages

\* The construction goes one level down.
LEMMA DescendMapped ==
  ASSUME IInv, Mapped, ConstructDescends
  PROVE  Mapped' /\ \A p \in Pages : Mapping(p)' = Mapping(p)
<1>1. /\ pc \in {"build", "fault"} /\ level > 1 /\ table' = mem[table][EptAddressToIndex(level, page)] /\ level' = level - 1
      /\ UNCHANGED <<mem, root, pc, run, page>>
  BY DEF ConstructDescends, NeedsTable, ept
<1>2. level \in 1 .. 4 /\ table # Empty /\ table = OnPath(mem, root, page, level)
  BY <1>1, WalkInTree, Indices DEF Mapped
<1>3. \A p \in Pages : Mapping(p)' = Mapping(p)
  BY <1>1, SameMapping
<1>4. table' = OnPath(mem', root', page', level')
  <2>1. table' = At(mem, table, level, page)
    BY <1>1, <1>2 DEF At
  <2>2. CASE level = 4
    BY <2>1, <2>2, <1>1, <1>2 DEF OnPath, T3
  <2>3. CASE level = 3
    BY <2>1, <2>3, <1>1, <1>2 DEF OnPath, T2
  <2>4. CASE level = 2
    BY <2>1, <2>4, <1>1, <1>2 DEF OnPath, T1
  <2>5. QED
    BY <2>2, <2>3, <2>4, <1>1, <1>2
<1>5. Done' = Done /\ Mapping(page)' = Mapping(page)
  BY <1>1 DEF Done, Mapping
<1>6. QED
  BY <1>1, <1>3, <1>4, <1>5 DEF Mapped

\* A new table maps nothing yet, and the construction goes on there.
LEMMA TableMapped ==
  ASSUME IInv, Mapped, pc \in {"build", "fault"}, level > 1, NEW b \in Blocks, b \notin DestructedTables,
         root' = root, table' = b, level' = level - 1, UNCHANGED <<pc, run, page>>,
         Linked(mem, mem', table, EptAddressToIndex(level, page), b)
  PROVE  Mapped' /\ \A p \in Pages : Mapping(p)' = Mapping(p)
<1>1. level \in 2 .. 4 /\ table \in Inner(mem, root) /\ page \in Pages /\ table = OnPath(mem, root, page, level)
  BY WalkInTree DEF Mapped
<1>2. root \in Blocks /\ Tree(mem, root) /\ b \notin Tables(mem, root)
  BY Rooted
<1>3. /\ \A p \in Pages : Leaf(mem', root, p) = Leaf(mem, root, p)
      /\ OnPath(mem', root, page, level - 1) = b
  <2> HIDE DEF Linked, Tree, Tables, Inner, OnPath
  <2>1. QED
    BY <1>1, <1>2, PathLinked
<1>4. \A p \in Pages : Mapping(p)' = Mapping(p)
  BY <1>3 DEF Mapping
<1>5. Done' = Done /\ Mapping(page)' = Mapping(page)
  BY <1>1, <1>3 DEF Done, Mapping
<1>6. QED
  BY <1>3, <1>4, <1>5 DEF Mapped

\* A page is mapped to itself, the others stay as they are.
LEMMA LeafMapped ==
  ASSUME IInv, Mapped, ConstructLeaf
  PROVE  /\ Mapped' /\ page \in Pages /\ Mapping(page) = Empty
         /\ \A p \in Pages : Mapping(p)' = IF p = page THEN p ELSE Mapping(p)
<1>1. /\ pc \in {"build", "fault"} /\ level = 1 /\ mem' = [mem EXCEPT ![table][PteIndex(page)] = page] /\ root' = root
      /\ (pc = "build" /\ NextPage) \/ (pc = "fault" /\ pc' = "ready" /\ WalkEnds)
  <2>1. EptAddressToIndex(1, page) = PteIndex(page)
    BY DEF EptAddressToIndex
  <2>2. level = 1 /\ mem' = [mem EXCEPT ![table][EptAddressToIndex(level, page)] = page]
    BY DEF ConstructLeaf, EptInitTableEntry
  <2>3. mem' = [mem EXCEPT ![table][PteIndex(page)] = page]
    BY <2>1, <2>2
  <2>4. pc \in {"build", "fault"} /\ root' = root
    BY DEF ConstructLeaf, ept
  <2>5. (pc = "build" /\ NextPage) \/ (pc = "fault" /\ pc' = "ready" /\ WalkEnds)
    BY DEF ConstructLeaf
  <2>6. QED
    BY <2>2, <2>3, <2>4, <2>5
<1>2. /\ page \in Pages /\ table \in Blocks /\ PteIndex(page) \in Index /\ table = T1(mem, root, page)
  BY <1>1, WalkInTree DEF Mapped, OnPath, EptAddressToIndex
<1>3. root \in Blocks /\ Tree(mem, root)
  BY <1>1, Rooted
<1>4. Mapping(page) = Empty
  BY <1>1, <1>2, PageNotDone DEF Mapped
<1>5. \A p \in Pages : Mapping(p)' = IF p = page THEN p ELSE Mapping(p)
  <2>1. table # Empty
    BY <1>2, Indices
  <2>2. /\ \A u \in Blocks \ {table} : mem'[u] = mem[u]
        /\ \A i \in Index : mem'[table][i] = IF i = PteIndex(page) THEN page ELSE mem[table][i]
    BY <1>1, <1>2 DEF IInv, Contents
  <2> HIDE DEF Tree
  <2>3. \A p \in Pages : Leaf(mem', root, p) = IF p = page THEN page ELSE Leaf(mem, root, p)
    BY <1>2, <1>3, <2>1, <2>2, LeafWritten
  <2>4. QED
    BY <2>3, <1>1 DEF Mapping
<1>6. CASE pc = "fault"
  BY <1>1, <1>2, <1>5, <1>6 DEF Mapped
<1>7. CASE pc = "build" /\ NextPage
  <2>1. Done' = Done \union {page} /\ (pc' = "build" /\ run' > Len(Runs) => page' = ApicPage)
    BY <1>7, DoneGrows
  <2>2. pc' \in {"build", "array"} /\ (pc' = "build" => table' = root' /\ level' = 4)
    BY <1>1, <1>7, NextPageIsPage
  <2>3. \A p \in Pages : Mapping(p)' = IF p \in Done' THEN p ELSE Empty
    BY <2>1, <1>5, <1>7 DEF Mapped
  <2>4. OnPath(mem', root', page', 4) = root'
    BY DEF OnPath
  <2>5. QED
    BY <1>2, <1>4, <1>5, <2>1, <2>2, <2>3, <2>4 DEF Mapped
<1>8. QED
  BY <1>1, <1>2, <1>4, <1>5, <1>6, <1>7

MInv == IInv /\ Mapped

\* No EPT_DATA, no mapping.
LEMMA GoneMapped ==
  ASSUME EptGone
  PROVE  Mapped'
BY DEF EptGone, Mapped

\* Of the steps that construct, those that hang in a table, and the end of the reserve.
LEMMA ConstructMapped ==
  ASSUME IInv, Mapped, ConstructFromPool \/ ConstructFromPreallocated
  PROVE  /\ Mapped' /\ \A p \in Pages : Mapping(p)' = Mapping(p)
         /\ UNCHANGED page /\ (pc' = pc \/ (pc = "fault" /\ pc' = "halted"))
<1>1. CASE ConstructFromPool
  <2>1. PICK b \in Blocks \ DestructedTables :
          table' = b /\ Linked(mem, mem', table, EptAddressToIndex(level, page), b)
    BY <1>1, FromPoolLinks
  <2>2. /\ pc = "build" /\ level > 1 /\ root' = root /\ level' = level - 1 /\ UNCHANGED <<pc, run, page>>
    BY <1>1 DEF ConstructFromPool, NeedsTable, ept
  <2> HIDE DEF Linked
  <2>3. QED
    BY <2>1, <2>2, TableMapped
<1>2. CASE ConstructFromPreallocated /\ used < Preallocated
  <2>1. /\ pc = "fault" /\ level > 1 /\ root' = root /\ level' = level - 1 /\ UNCHANGED <<pc, run, page>>
        /\ pre[used + 1] \in Blocks \ DestructedTables /\ table' = pre[used + 1]
        /\ Linked(mem, mem', table, EptAddressToIndex(level, page), pre[used + 1])
    BY <1>2, FromPreallocatedLinks
  <2> HIDE DEF Linked
  <2>2. QED
    BY <2>1, TableMapped
<1>3. CASE ConstructFromPreallocated /\ ~(used < Preallocated)
  <2>1. used' > Preallocated
    BY <1>3, Indices DEF ConstructFromPreallocated, IInv, Reserve
  <2>2. pc = "fault" /\ pc' = "halted" /\ UNCHANGED <<mem, root, run, page, level, table>> /\ level > 1
    BY <1>3, <2>1 DEF ConstructFromPreallocated, NeedsTable
  <2>3. (\A p \in Pages : Mapping(p)' = Mapping(p)) /\ Mapping(page)' = Mapping(page)
    BY <2>2, SameMapping DEF Mapping
  <2>4. \A p \in Pages : Mapping(p) \in {Empty, p} /\ (p \in BootPages => Mapping(p) = p)
    BY <2>2 DEF Mapped
  <2>5. Mapping(page) = Empty
    BY <2>2 DEF Mapped
  <2>6. Mapped'
    BY <2>2, <2>3, <2>4, <2>5 DEF Mapped
  <2>7. QED
    BY <2>2, <2>3, <2>6
<1>4. QED
  BY <1>1, <1>2, <1>3

\* A page that is not mapped is touched.
LEMMA ViolationMapped ==
  ASSUME IInv, Mapped, NEW q \in Pages, EptHandleEptViolation(q)
  PROVE  /\ Mapped' /\ Mapping(q) = Empty /\ \A p \in Pages : Mapping(p)' = Mapping(p)
<1>1. /\ pc = "ready" /\ pc' = "fault" /\ page' = q /\ table' = root /\ level' = 4 /\ UNCHANGED <<mem, root>>
      /\ Mapping(q) = Empty
  BY LeafNames DEF EptHandleEptViolation, Construct, ept, Mapping
<1>2. \A p \in Pages : Mapping(p)' = Mapping(p)
  BY <1>1, SameMapping
<1>3. Mapping(page)' = Mapping(q)
  BY <1>1 DEF Mapping
<1>4. OnPath(mem', root', page', 4) = root'
  BY DEF OnPath
<1>5. QED
  BY <1>1, <1>2, <1>3, <1>4 DEF Mapped

\* The tables map what the invariant says in every behaviour.
THEOREM MInvIsInvariant == Spec => []MInv
<1>1. Init => Mapped
  BY DEF Init, Mapped
<1>2. IInv /\ Mapped /\ [Next]_vars => Mapped'
  <2> SUFFICES ASSUME IInv, Mapped, [Next]_vars PROVE Mapped'
    OBVIOUS
  <2>1. CASE EptInitialization
    <3>1. CASE EptInitializationFails
      BY <3>1, GoneMapped DEF EptInitializationFails
    <3>2. QED
      BY <2>1, <3>1, BeginsMapped, ReserveMapped DEF EptInitialization
  <2>2. CASE EptConstructTables
    BY <2>2, DescendMapped, ConstructMapped, LeafMapped DEF EptConstructTables
  <2>3. CASE \E p \in Pages : EptHandleEptViolation(p)
    BY <2>3, ViolationMapped
  <2>4. CASE EptTermination
    BY <2>4, GoneMapped DEF EptTermination
  <2>5. CASE UNCHANGED vars
    <3>1. UNCHANGED <<mem, root, pc, run, page, table, level>>
      BY <2>5 DEF vars, ept, walk
    <3>2. (\A p \in Pages : Mapping(p)' = Mapping(p)) /\ Mapping(page)' = Mapping(page) /\ Done' = Done
      BY <3>1 DEF Mapping, Done
    <3>3. QED
      BY <3>1, <3>2 DEF Mapped
  <2>6. QED
    BY <2>1, <2>2, <2>3, <2>4, <2>5 DEF Next
<1>3. QED
  BY IInvIsInvariant, <1>1, <1>2, PTL DEF Spec, MInv

\* No page is constructed twice.
THEOREM LeafAlwaysWrittenOnce == Spec => []LeafWrittenOnce
<1>1. MInv => LeafWrittenOnce
  <2> SUFFICES ASSUME IInv, Mapped, pc \in {"build", "fault"}, level = 1 PROVE mem[table][PteIndex(page)] = Empty
    BY DEF LeafWrittenOnce, MInv
  <2>1. /\ page \in Pages /\ table \in Blocks /\ table = T1(mem, root, page)
    BY WalkInTree DEF Mapped, OnPath
  <2>2. Mapping(page) = Empty
    BY <2>1, PageNotDone DEF Mapped
  <2>3. QED
    BY <2>1, <2>2, Indices DEF Mapping, Leaf, At, EptAddressToIndex
<1>2. QED
  BY <1>1, MInvIsInvariant, PTL

-----------------------------------------------------------------------------
(* The tables implement IdentityMap                                        *)

Present == {p \in Pages : Mapping(p) # Empty}

\* What is mapped is mapped to itself, before and after a step.
LEMMA MapIsIdentity ==
  /\ Mapped => TheMap = IF pc \in {"ready", "fault", "halted"} THEN Promise!Identity(Present) ELSE {}
  /\ (Mapped => TheMap = IF pc \in {"ready", "fault", "halted"} THEN Promise!Identity(Present) ELSE {})'
<1>1. Mapped => TheMap = IF pc \in {"ready", "fault", "halted"} THEN Promise!Identity(Present) ELSE {}
  <2> SUFFICES ASSUME Mapped, pc \in {"ready", "fault", "halted"}
               PROVE  {<<p, EptGetEptPtEntry(p)>> : p \in {q \in Pages : EptGetEptPtEntry(q) # Empty}}
                        = {<<p, p>> : p \in Present}
    BY DEF TheMap, Promise!Identity
  <2>1. \A p \in Pages : EptGetEptPtEntry(p) = Mapping(p)
    BY LeafNames DEF Mapping
  <2>2. {q \in Pages : EptGetEptPtEntry(q) # Empty} = Present
    BY <2>1 DEF Present
  <2>3. \A p \in Present : p \in Pages /\ EptGetEptPtEntry(p) = p
    BY <2>1 DEF Present, Mapped
  <2>4. QED
    BY <2>2, <2>3
<1>2. QED
  BY <1>1, PTL

\* A step that changes neither the mapping nor what is going on is none of the map.
LEMMA MapStutters ==
  ASSUME Mapped, Mapped', MapState' = MapState, Touched' = Touched,
         pc \in {"ready", "fault", "halted"} <=> pc' \in {"ready", "fault", "halted"},
         pc \in {"ready", "fault", "halted"} => \A p \in Pages : Mapping(p)' = Mapping(p)
  PROVE  UNCHANGED <<MapState, TheMap, Touched>>
<1>1. pc \in {"ready", "fault", "halted"} => Present' = Present
  BY DEF Present
<1>2. TheMap' = TheMap
  BY <1>1, MapIsIdentity DEF Promise!Identity
<1>3. QED
  BY <1>2

\* As long as EptInitialization is at work, and when it fails, there is no map.
LEMMA NothingYet ==
  ASSUME Mapped, Mapped', pc \notin {"ready", "fault", "halted"}, pc' \notin {"ready", "fault", "halted"}
  PROVE  UNCHANGED <<MapState, TheMap, Touched>>
BY MapStutters DEF MapState, Touched

\* The last entry of the reserve is there: the map of RAM and the APIC page begins.
LEMMA FillBuilds ==
  ASSUME IInv, Mapped, Mapped', FillPreallocatedEntries, pc' = "ready"
  PROVE  Promise!Build
<1>1. pc = "fill" /\ \A p \in Pages : Mapping(p)' = IF p \in BootPages THEN p ELSE Empty
  BY ReserveMapped DEF FillPreallocatedEntries
<1>2. \A p \in Pages : p # Empty
  BY DEF Pages, Empty
<1>3. BootPages \subseteq Pages
  BY RunsSorted
<1>4. Present' = BootPages
  BY <1>1, <1>2, <1>3 DEF Present
<1>5. TheMap' = Promise!Identity(RamPages(Runs) \union {ApicPage})
  BY <1>4, MapIsIdentity DEF Promise!Identity, BootPages
<1>6. QED
  BY <1>1, <1>5 DEF Promise!Build, MapState, Touched

\* A violation is a page touched that is not in the map.
LEMMA ViolationTouches ==
  ASSUME IInv, Mapped, Mapped', NEW q \in Pages, EptHandleEptViolation(q)
  PROVE  Promise!Touch(q)
<1>1. pc = "ready" /\ pc' = "fault" /\ page' = q
  BY DEF EptHandleEptViolation, Construct
<1>2. Mapping(q) = Empty /\ \A p \in Pages : Mapping(p)' = Mapping(p)
  BY ViolationMapped
<1>3. Present' = Present /\ q \notin Present
  BY <1>2 DEF Present
<1>4. TheMap = {<<p, p>> : p \in Present} /\ TheMap' = TheMap
  BY <1>1, <1>3, MapIsIdentity DEF Promise!Identity
<1>5. <<q, q>> \notin TheMap
  BY <1>3, <1>4
<1>6. QED
  BY <1>1, <1>4, <1>5 DEF Promise!Touch, MapState, Touched

\* The mapping that ends the violation is that of the page.
LEMMA LeafExtends ==
  ASSUME IInv, Mapped, Mapped', ConstructLeaf, pc = "fault"
  PROVE  Promise!Extend
<1>1. pc' = "ready"
  BY DEF ConstructLeaf
<1>2. page \in Pages /\ \A p \in Pages : Mapping(p)' = IF p = page THEN p ELSE Mapping(p)
  BY LeafMapped
<1>3. \A p \in Pages : p # Empty
  BY DEF Pages, Empty
<1>4. Present' = Present \union {page}
  BY <1>2, <1>3 DEF Present
<1>5. TheMap' = TheMap \union Promise!Identity({page})
  BY <1>1, <1>4, MapIsIdentity DEF Promise!Identity
<1>6. QED
  BY <1>1, <1>5 DEF Promise!Extend, MapState, Touched

\* The reserve is exhausted: the machine stops, as the map allows.
LEMMA ExhaustedStops ==
  ASSUME IInv, Mapped, Mapped', ConstructFromPreallocated, pc' = "halted"
  PROVE  Promise!Stop
<1>1. pc = "fault" /\ page' = page
  BY DEF ConstructFromPreallocated
<1>2. \A p \in Pages : Mapping(p)' = Mapping(p)
  BY ConstructMapped
<1>3. Present' = Present
  BY <1>2 DEF Present
<1>4. TheMap' = TheMap
  BY <1>1, <1>3, MapIsIdentity DEF Promise!Identity
<1>5. QED
  BY <1>1, <1>4 DEF Promise!Stop, MapState, Touched

\* For every number of entries, runs of RAM and pre-allocated tables: the tables
\* map RAM and the APIC page and what is touched, to themselves, and nothing
\* else.
THEOREM TablesImplementMap == Spec => Promise!Safety
<1>1. Init => Promise!Init
  BY DEF Init, Promise!Init, MapState, TheMap, Touched
<1>2. ASSUME IInv, Mapped, Mapped', [Next]_vars
      PROVE  [Promise!Next]_<<MapState, TheMap, Touched>>
  <2> USE DEF Promise!Next
  <2>1. CASE AllocateEptData \/ AllocateEptPointer \/ AllocateEptPm14 \/ AllocatePreallocatedEntries \/ EptInitializationFails
    BY <1>2, <2>1, NothingYet
    DEF AllocateEptData, AllocateEptPointer, AllocateEptPm14, AllocatePreallocatedEntries, EptInitializationFails, EptGone
  <2>2. CASE FillPreallocatedEntries
    <3>1. pc = "fill" /\ pc' \in {"fill", "ready"}
      BY <2>2 DEF FillPreallocatedEntries
    <3>2. QED
      BY <1>2, <2>2, <3>1, NothingYet, FillBuilds
  <2>3. CASE ConstructDescends
    <3>1. pc' = pc /\ page' = page /\ \A p \in Pages : Mapping(p)' = Mapping(p)
      BY <1>2, <2>3, DescendMapped DEF ConstructDescends
    <3>2. MapState' = MapState /\ Touched' = Touched
      BY <3>1 DEF MapState, Touched
    <3>3. QED
      BY <1>2, <3>1, <3>2, MapStutters
  <2>4. CASE ConstructFromPool \/ (ConstructFromPreallocated /\ pc' # "halted")
    <3>1. pc' = pc /\ page' = page /\ \A p \in Pages : Mapping(p)' = Mapping(p)
      BY <1>2, <2>4, ConstructMapped DEF ConstructFromPool
    <3>2. MapState' = MapState /\ Touched' = Touched
      BY <3>1 DEF MapState, Touched
    <3>3. QED
      BY <1>2, <3>1, <3>2, MapStutters
  <2>5. CASE ConstructFromPreallocated /\ pc' = "halted"
    BY <1>2, <2>5, ExhaustedStops
  <2>6. CASE ConstructLeaf
    <3>1. CASE pc = "fault"
      BY <1>2, <2>6, <3>1, LeafExtends
    <3>2. CASE pc = "build" /\ NextPage
      BY <1>2, <3>2, NextPageIsPage, NothingYet
    <3>3. QED
      BY <2>6, <3>1, <3>2 DEF ConstructLeaf
  <2>7. CASE \E p \in Pages : EptHandleEptViolation(p)
    BY <1>2, <2>7, ViolationTouches
  <2>8. CASE EptTermination
    <3>1. pc = "ready" /\ pc' = "none"
      BY <2>8 DEF EptTermination, EptGone
    <3>2. TheMap' = {}
      BY <1>2, <3>1, MapIsIdentity
    <3>3. Promise!Drop
      BY <3>1, <3>2 DEF Promise!Drop, MapState, Touched
    <3>4. QED
      BY <3>3
  <2>9. CASE UNCHANGED vars
    <3>1. UNCHANGED <<mem, root, pc, page>>
      BY <2>9 DEF vars, ept, walk
    <3>2. \A p \in Pages : Mapping(p)' = Mapping(p)
      BY <3>1, SameMapping
    <3>3. MapState' = MapState /\ Touched' = Touched
      BY <3>1 DEF MapState, Touched
    <3>4. QED
      BY <1>2, <3>1, <3>2, <3>3, MapStutters
  <2>10. QED
    BY <1>2, <2>1, <2>2, <2>3, <2>4, <2>5, <2>6, <2>7, <2>8, <2>9
    DEF Next, EptInitialization, EptConstructTables
<1>3. QED
  BY <1>1, <1>2, MInvIsInvariant, PTL DEF Spec, MInv, Promise!Safety
=============================================================================
