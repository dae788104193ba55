---------------------------- MODULE Paging_proofs ----------------------------
(***************************************************************************)
(* Proofs about Paging: types, the ownership of tables, memory_list, what  *)
(* mapping and unmapping do to translations, and the TLB.                  *)
(***************************************************************************)
EXTENDS Paging, FiniteSetTheorems, Numbers, TLAPS

Contents == [Tables -> [Index -> Nat \cup {ABSENT}]]

St == [mem : Contents, pool : SUBSET Tables, list : Seq(Tables)]

(* ------------------------------------------------------------------------ *)
(* The inductive invariant                                                  *)
(* Every table has a level (0 for a PML4, 3 for a page table, 4 when it is  *)
(* in the pool) and an owner; both follow from mem and root, and are        *)
(* quantified so that a step only has to say which labels it changes.       *)

\* What an entry of a directory leads to is one level down, in the same space.
Downward(m, lev, own) ==
    \A t \in Tables, i \in Index :
        lev[t] \in 0..2 /\ m[t][i] # ABSENT =>
            m[t][i] \in Tables /\ lev[m[t][i]] = lev[t] + 1 /\ own[m[t][i]] = own[t]

\* No table hangs in two places.
OneParent(m, lev) ==
    \A t, u \in Tables, i, j \in Index :
        lev[t] \in 0..2 /\ lev[u] \in 0..2 /\ m[t][i] # ABSENT /\ m[t][i] = m[u][j] =>
            t = u /\ i = j

\* No table below a PML4 hangs nowhere.
HasParent(m, lev) ==
    \A x \in Tables : lev[x] \in 1..3 =>
        \E t \in Tables, i \in Index : lev[t] \in 0..2 /\ m[t][i] = x

\* The tables of level 0 are the PML4s.
Rooted(lev, own) ==
    /\ \A s \in AllSpaces : root[s] # ABSENT =>
          root[s] \in Tables /\ lev[root[s]] = 0 /\ own[root[s]] = s
    /\ \A t \in Tables : lev[t] = 0 => root[own[t]] = t

Labels(lev, own) == lev \in [Tables -> 0..4] /\ own \in [Tables -> AllSpaces]

Tree(m, left, lev, own) ==
    /\ Labels(lev, own)
    /\ \A t \in Tables : t \in left <=> lev[t] = 4
    /\ Rooted(lev, own)
    /\ Downward(m, lev, own)
    /\ OneParent(m, lev)
    /\ HasParent(m, lev)

\* memory_list of space s names its tables below the PML4, each once.
Listed(list, s, lev, own) ==
    /\ list \in Seq(Tables)
    /\ \A i \in 1..Len(list) : lev[list[i]] \in 1..3 /\ own[list[i]] = s
    /\ \A i, j \in 1..Len(list) : list[i] = list[j] => i = j
    /\ \A t \in Tables : lev[t] \in 1..3 /\ own[t] = s => \E i \in 1..Len(list) : list[i] = t

\* All tables below the PML4s, but perhaps x, have an entry.
Filled(m, lev, x) ==
    \A t \in Tables : lev[t] \in 1..3 /\ t # x => \E i \in Index : m[t][i] # ABSENT

\* The storage of space s in the middle of a call, table x not filled yet.
Good(st, s, lev, own, x) ==
    /\ st \in St
    /\ Tree(st.mem, st.pool, lev, own)
    /\ \A r \in AllSpaces : Listed(IF r = s THEN st.list ELSE memory_list[r], r, lev, own)
    /\ Filled(st.mem, lev, x)

\* Between two pages nothing is half done.
TablesInv ==
    \E lev, own :
        /\ Tree(mem, pool, lev, own)
        /\ \A s \in AllSpaces : Listed(memory_list[s], s, lev, own)
        /\ Filled(mem, lev, ABSENT)

\* The calls under way stay inside the address space, in a space that has a PML4, and
\* are those of create_address_space when it runs.
CallsInv ==
    /\ global_mem_map \in Seq(Mapping)
    /\ \A i \in 1..Len(todo) :
          /\ todo[i].virt + todo[i].n <= ENTRIES*ENTRIES*ENTRIES*ENTRIES
          /\ root[todo[i].space] # ABSENT
    /\ as # ABSENT =>
          /\ status # "boot" /\ root[as] # ABSENT
          /\ \A i \in 1..Len(todo) : todo[i].space = as /\ todo[i].op = "map"

Covers(c, v) == v \in c.virt .. c.virt + c.n - 1

\* The space that create_address_space fills will map what the kernel's records say:
\* through the last call that covers a page, or already.
Pending ==
    as # ABSENT => \A v \in Pages :
        /\ \A i \in 1..Len(todo) :
              Covers(todo[i], v) /\ (\A j \in 1..Len(todo) : j > i => ~Covers(todo[j], v)) =>
                 todo[i].phys + v - todo[i].virt = Recorded(v)
        /\ (\A i \in 1..Len(todo) : ~Covers(todo[i], v)) => Walk(mem, as, v) = Recorded(v)

\* Before CR3 is loaded the CPU holds no translation of the kernel's space.
TlbInv == (status = "boot" => \A v \in Pages : tlb[v] = ABSENT) /\ TlbNeverContradicts

PInv == TypeOK /\ TablesInv /\ CallsInv /\ Pending /\ TlbInv

\* The kernel halted between two levels of map_page_entry: the last table that was entered
\* maps nothing, and the list of its space may lack it.
StoppedInv ==
    /\ status = "halted" /\ TypeOK /\ TlbNeverContradicts
    /\ \E lev, own :
          /\ Tree(mem, pool, lev, own)
          /\ Filled(mem, lev, StoppedAt)
          /\ \A r \in AllSpaces : \E list :
                /\ Listed(list, r, lev, own)
                /\ list = memory_list[r] \/ list = Append(memory_list[r], StoppedAt)

(* ------------------------------------------------------------------------ *)
(* Page numbers                                                             *)

\* Two pages with the same index on every level are the same page.
LEMMA Digits ==
    ASSUME NEW v \in Pages
    PROVE  /\ Pte(v) \in Index /\ Pde(v) \in Index /\ Pdpe(v) \in Index /\ Pml4e(v) \in Index
           /\ \A u \in Pages :
                 Pte(u) = Pte(v) /\ Pde(u) = Pde(v) /\ Pdpe(u) = Pdpe(v) /\ Pml4e(u) = Pml4e(v) =>
                    u = v
<1>. DEFINE E == ENTRIES
            a(w) == w \div E
            b(w) == a(w) \div E
            c(w) == b(w) \div E
<1>1. E \in Nat \ {0} /\ E*E \in Nat \ {0} /\ E*E*E \in Nat \ {0} /\ E*E*E*E \in Nat \ {0}
  BY PagingAssumption
<1>2. \A w \in Pages : w \in Nat /\ w < E*E*E*E
  BY <1>1 DEF Pages
<1>3. ASSUME NEW w \in Pages
      PROVE  /\ a(w) \in Nat /\ w = E * a(w) + Pte(w) /\ Pte(w) \in Index
             /\ b(w) \in Nat /\ a(w) = E * b(w) + Pde(w) /\ Pde(w) \in Index
             /\ c(w) \in Nat /\ b(w) = E * c(w) + Pdpe(w) /\ Pdpe(w) \in Index
             /\ c(w) = Pml4e(w)
  <2>1. a(w) \in Nat /\ w = E * a(w) + Pte(w) /\ Pte(w) \in Index
    BY <1>1, <1>2, DivMod DEF Pte, Index
  <2>2. b(w) \in Nat /\ a(w) = E * b(w) + (a(w) % E) /\ a(w) % E \in Index
    <3>. HIDE DEF a
    <3>. QED  BY <1>1, <2>1, DivMod DEF Index
  <2>3. c(w) \in Nat /\ b(w) = E * c(w) + (b(w) % E) /\ b(w) % E \in Index
    <3>. HIDE DEF b
    <3>. QED  BY <1>1, <2>2, DivMod DEF Index
  <2>4. w \div (E*E) = b(w)
    BY <1>1, <1>2, DivDiv
  <2>5. w \div (E*E*E) = c(w)
    BY <1>1, <1>2, <2>4, DivDiv
  <2>. QED  BY <2>1, <2>2, <2>3, <2>4, <2>5 DEF Pde, Pdpe, Pml4e
<1>4. Pml4e(v) \in Index
  <2>1. ~ (E <= c(v))
    <3>1. SUFFICES ASSUME E <= c(v) PROVE FALSE
      OBVIOUS
    <3>2. E*(E*(E*c(v))) <= v
      <4>. HIDE DEF a, b, c
      <4>1. E*c(v) <= b(v) /\ E*c(v) \in Nat
        BY <1>1, <1>3 DEF Index
      <4>2. E*(E*c(v)) <= a(v) /\ E*(E*c(v)) \in Nat
        <5>1. E*(E*c(v)) <= E*b(v)
          BY <1>1, <1>3, <4>1, TimesMono
        <5>2. E*b(v) <= a(v) /\ E*b(v) \in Nat /\ a(v) \in Nat
          BY <1>1, <1>3 DEF Index
        <5>3. E*(E*c(v)) \in Nat
          BY <1>1, <4>1
        <5>. QED  BY <5>1, <5>2, <5>3
      <4>3. E*(E*(E*c(v))) <= E*a(v)
        BY <1>1, <1>3, <4>2, TimesMono
      <4>4. E*a(v) <= v /\ E*a(v) \in Nat /\ v \in Nat
        BY <1>1, <1>2, <1>3 DEF Index
      <4>5. E*(E*(E*c(v))) \in Nat
        BY <1>1, <4>2
      <4>. QED  BY <4>3, <4>4, <4>5
    <3>3. (E*E*E)*E <= (E*E*E)*c(v)
      <4>. HIDE DEF c
      <4>. QED  BY <1>1, <1>3, <3>1, TimesMono
    <3>4. (E*E*E)*c(v) = E*(E*(E*c(v)))
      <4>. HIDE DEF c
      <4>. QED  BY <1>1, <1>3
    <3>. HIDE DEF c
    <3>5. v < E*E*E*E /\ v \in Nat /\ E*E*E*E \in Nat
      BY <1>1, <1>2
    <3>. DEFINE X == E*(E*(E*c(v)))
                F == E*E*E*E
    <3>6. X <= v /\ F <= X /\ v < F /\ v \in Nat /\ F \in Nat /\ X \in Nat
      <4>1. X \in Nat
        BY <1>1, <1>3
      <4>. QED  BY <3>2, <3>3, <3>4, <3>5, <4>1, Zenon
    <3>. HIDE DEF X, F
    <3>. QED  BY <3>6
  <2>. HIDE DEF a, b, c
  <2>. QED  BY <1>1, <1>3, <2>1 DEF Index
<1>. HIDE DEF a, b, c
<1>5. ASSUME NEW u \in Pages,
             Pte(u) = Pte(v) /\ Pde(u) = Pde(v) /\ Pdpe(u) = Pdpe(v) /\ Pml4e(u) = Pml4e(v)
      PROVE  u = v
  <2>1. b(u) = b(v)
    BY <1>3, <1>5
  <2>2. a(u) = a(v)
    BY <1>3, <1>5, <2>1
  <2>. QED  BY <1>3, <1>5, <2>2
<1>6. Pte(v) \in Index /\ Pde(v) \in Index /\ Pdpe(v) \in Index
  BY <1>3, Zenon
<1>. QED  BY <1>4, <1>5, <1>6

(* ------------------------------------------------------------------------ *)
(* Taking a table                                                           *)

\* pm_get gives a frame that is free.
LEMMA PmGetFree == ASSUME NEW from \in SUBSET Tables, from # {} PROVE PmGet(from) \in from
  BY LeastExists, PagingAssumption DEF PmGet

\* A level that is missing is filled with a fresh table; one that is there is used.
LEMMA WithTableCases ==
    ASSUME NEW st \in St, NEW t \in Tables, NEW i \in Index,
           st.mem[t][i] = ABSENT => st.pool # {}
    PROVE  LET r == WithTable(st, t, i)
           IN  \/ st.mem[t][i] # ABSENT /\ r = st
               \/ /\ st.mem[t][i] = ABSENT
                  /\ \E new \in st.pool :
                        r = [mem  |-> [st.mem EXCEPT ![new] = EmptyTable, ![t][i] = new],
                             pool |-> st.pool \ {new},
                             list |-> Append(st.list, new)]
<1>1. CASE st.mem[t][i] # ABSENT
  BY <1>1, PagingAssumption DEF WithTable, Entry
<1>2. CASE st.mem[t][i] = ABSENT
  <2>1. PmGet(st.pool) \in st.pool
    BY <1>2, PmGetFree DEF St
  <2>. QED  BY <1>2, <2>1, PagingAssumption DEF WithTable, Entry
<1>. QED  BY <1>1, <1>2

\* Memory r after a level of m is filled: a fresh table, one new entry, and nothing else.
Taken(m, r, t, i, new) ==
    /\ \A j \in Index : r[new][j] = ABSENT
    /\ r[t][i] = new
    /\ \A u \in Tables, j \in Index : u # new /\ ~(u = t /\ j = i) => r[u][j] = m[u][j]

\* EmptyTable and the entry are all that changes.
LEMMA TakenMemory ==
    ASSUME NEW m \in Contents, NEW t \in Tables, NEW i \in Index, NEW new \in Tables, new # t
    PROVE  /\ [m EXCEPT ![new] = EmptyTable, ![t][i] = new] \in Contents
           /\ Taken(m, [m EXCEPT ![new] = EmptyTable, ![t][i] = new], t, i, new)
<1>1. new \in Nat
  BY PagingAssumption
<1>. QED  BY <1>1 DEF Contents, EmptyTable, Taken

\* The labels after a level is filled.
LEMMA TakenTree ==
    ASSUME NEW m \in Contents, NEW left \in SUBSET Tables, NEW lev, NEW own,
           Tree(m, left, lev, own),
           NEW t \in Tables, NEW i \in Index, NEW new \in left,
           lev[t] \in 0..2, m[t][i] = ABSENT,
           NEW r, Taken(m, r, t, i, new)
    PROVE  Tree(r, left \ {new}, [lev EXCEPT ![new] = lev[t] + 1], [own EXCEPT ![new] = own[t]])
<1>. DEFINE l2 == [lev EXCEPT ![new] = lev[t] + 1]
            o2 == [own EXCEPT ![new] = own[t]]
<1>1. /\ lev \in [Tables -> 0..4] /\ own \in [Tables -> AllSpaces]
      /\ new \in Tables /\ lev[new] = 4 /\ new # t /\ new # ABSENT /\ ABSENT \notin Tables
  BY PagingAssumption DEF Tree, Labels
<1>2. /\ \A j \in Index : r[new][j] = ABSENT
      /\ r[t][i] = new
      /\ \A u \in Tables, j \in Index : u # new /\ ~(u = t /\ j = i) => r[u][j] = m[u][j]
  BY DEF Taken
<1>3. /\ l2 \in [Tables -> 0..4] /\ o2 \in [Tables -> AllSpaces]
      /\ l2[new] = lev[t] + 1 /\ o2[new] = own[t] /\ l2[t] = lev[t] /\ o2[t] = own[t]
      /\ \A u \in Tables \ {new} : l2[u] = lev[u] /\ o2[u] = own[u]
  BY <1>1
<1>4. \A u \in Tables, j \in Index : lev[u] \in 0..2 => m[u][j] # new
  BY <1>1 DEF Tree, Downward
<1>. HIDE DEF l2, o2
<1>5. \A u \in Tables : u \in left \ {new} <=> l2[u] = 4
  BY <1>1, <1>3 DEF Tree
<1>6. Rooted(l2, o2)
  <2>1. \A s \in AllSpaces : root[s] # ABSENT => root[s] # new
    BY <1>1 DEF Tree, Rooted
  <2>2. \A s \in AllSpaces : root[s] # ABSENT =>
           root[s] \in Tables /\ l2[root[s]] = 0 /\ o2[root[s]] = s
    BY <1>3, <2>1 DEF Tree, Rooted
  <2>3. \A u \in Tables : l2[u] = 0 => root[o2[u]] = u
    BY <1>1, <1>3 DEF Tree, Rooted
  <2>. QED  BY <2>2, <2>3 DEF Rooted
<1>7. Downward(r, l2, o2)
  <2>. SUFFICES ASSUME NEW u \in Tables, NEW j \in Index, l2[u] \in 0..2, r[u][j] # ABSENT
                PROVE  /\ r[u][j] \in Tables
                       /\ l2[r[u][j]] = l2[u] + 1 /\ o2[r[u][j]] = o2[u]
    BY DEF Downward
  <2>1. u # new
    BY <1>2
  <2>2. CASE u = t /\ j = i
    BY <1>1, <1>2, <1>3, <2>2
  <2>3. CASE ~(u = t /\ j = i)
    <3>1. r[u][j] = m[u][j] /\ m[u][j] # ABSENT /\ lev[u] \in 0..2
      BY <1>2, <1>3, <2>1, <2>3
    <3>2. m[u][j] \in Tables /\ lev[m[u][j]] = lev[u] + 1 /\ own[m[u][j]] = own[u]
      BY <3>1 DEF Tree, Downward
    <3>. QED  BY <1>3, <1>4, <2>1, <3>1, <3>2
  <2>. QED  BY <2>2, <2>3
<1>8. OneParent(r, l2)
  <2>. SUFFICES ASSUME NEW u \in Tables, NEW w \in Tables, NEW j \in Index, NEW k \in Index,
                       l2[u] \in 0..2, l2[w] \in 0..2, r[u][j] # ABSENT, r[u][j] = r[w][k]
                PROVE  u = w /\ j = k
    BY DEF OneParent
  <2>1. u # new /\ w # new
    BY <1>2
  <2>2. lev[u] \in 0..2 /\ lev[w] \in 0..2
    BY <1>3, <2>1
  <2>. QED  BY <1>2, <1>4, <2>1, <2>2 DEF Tree, OneParent
<1>9. HasParent(r, l2)
  <2>. SUFFICES ASSUME NEW x \in Tables, l2[x] \in 1..3
                PROVE  \E u \in Tables, j \in Index : l2[u] \in 0..2 /\ r[u][j] = x
    BY DEF HasParent
  <2>1. CASE x = new
    BY <1>2, <1>3, <2>1
  <2>2. CASE x # new
    <3>1. PICK u \in Tables, j \in Index : lev[u] \in 0..2 /\ m[u][j] = x
      BY <1>3, <2>2 DEF Tree, HasParent
    <3>2. u # new /\ ~(u = t /\ j = i)
      BY <1>1, <3>1
    <3>. QED  BY <1>2, <1>3, <3>1, <3>2
  <2>. QED  BY <2>1, <2>2
<1>. QED  BY <1>3, <1>5, <1>6, <1>7, <1>8, <1>9 DEF Tree, Labels, l2, o2

\* memory_list after a level is filled: the fresh table is its last element.
LEMMA TakenListed ==
    ASSUME NEW lev, NEW own, Labels(lev, own), NEW t \in Tables, NEW new \in Tables,
           lev[t] \in 0..2, lev[new] = 4,
           NEW s \in AllSpaces, NEW list, Listed(list, s, lev, own)
    PROVE  LET l2 == [lev EXCEPT ![new] = lev[t] + 1]
               o2 == [own EXCEPT ![new] = own[t]]
           IN  /\ own[t] = s => Listed(Append(list, new), s, l2, o2)
               /\ own[t] # s => Listed(list, s, l2, o2)
<1>. DEFINE l2 == [lev EXCEPT ![new] = lev[t] + 1]
            o2 == [own EXCEPT ![new] = own[t]]
            long == Append(list, new)
<1>1. /\ l2[new] \in 1..3 /\ o2[new] = own[t] /\ lev[new] = 4
      /\ \A u \in Tables \ {new} : l2[u] = lev[u] /\ o2[u] = own[u]
  BY DEF Labels
<1>2. /\ list \in Seq(Tables) /\ long \in Seq(Tables)
      /\ Len(list) \in Nat /\ Len(long) = Len(list) + 1 /\ long[Len(list) + 1] = new
      /\ \A i \in 1..Len(list) : long[i] = list[i] /\ list[i] \in Tables \ {new}
  <2>1. list \in Seq(Tables) /\ \A i \in 1..Len(list) : lev[list[i]] \in 1..3
    BY DEF Listed
  <2>. QED  BY <2>1
<1>. HIDE DEF l2, o2, long
<1>3. ASSUME own[t] = s PROVE Listed(long, s, l2, o2)
  <2>1. \A i \in 1..Len(long) : l2[long[i]] \in 1..3 /\ o2[long[i]] = s
    BY <1>1, <1>2, <1>3 DEF Listed
  <2>2. \A i, j \in 1..Len(long) : long[i] = long[j] => i = j
    BY <1>2 DEF Listed
  <2>3. \A u \in Tables : l2[u] \in 1..3 /\ o2[u] = s => \E i \in 1..Len(long) : long[i] = u
    <3>. SUFFICES ASSUME NEW u \in Tables, l2[u] \in 1..3, o2[u] = s
                  PROVE  \E i \in 1..Len(long) : long[i] = u
      OBVIOUS
    <3>1. CASE u = new
      <4>1. Len(list) + 1 \in 1..Len(long)
        BY <1>2
      <4>. QED  BY <1>2, <3>1, <4>1
    <3>2. CASE u # new
      <4>1. PICK i \in 1..Len(list) : list[i] = u
        BY <1>1, <3>2 DEF Listed
      <4>2. i \in 1..Len(long) /\ long[i] = u
        BY <1>2, <4>1
      <4>. QED  BY <4>2
    <3>. QED  BY <3>1, <3>2
  <2>. QED  BY <1>2, <2>1, <2>2, <2>3 DEF Listed
<1>4. ASSUME own[t] # s PROVE Listed(list, s, l2, o2)
  BY <1>1, <1>2, <1>4 DEF Listed
<1>. QED  BY <1>3, <1>4 DEF l2, o2, long

(* ------------------------------------------------------------------------ *)
(* Translations                                                             *)

\* A table of space s on a level, or none.
At(t, k, s, lev, own) == t = ABSENT \/ (t \in Tables /\ lev[t] = k /\ own[t] = s)

\* A translation descends from level to level inside its space.
LEMMA Path ==
    ASSUME NEW m, NEW left, NEW lev, NEW own, Tree(m, left, lev, own),
           NEW s \in AllSpaces, NEW v \in Pages
    PROVE  /\ At(root[s], 0, s, lev, own)
           /\ At(Pdpt(m, s, v), 1, s, lev, own)
           /\ At(Pd(m, s, v), 2, s, lev, own)
           /\ At(Pt(m, s, v), 3, s, lev, own)
<1>1. /\ Pml4e(v) \in Index /\ Pdpe(v) \in Index /\ Pde(v) \in Index
      /\ ABSENT \notin Tables
  BY Digits, PagingAssumption
<1>2. At(root[s], 0, s, lev, own)
  BY DEF Tree, Rooted, At
<1>3. ASSUME NEW t, NEW k \in 0..2, At(t, k, s, lev, own), NEW i \in Index
      PROVE  At(Entry(m, t, i), k + 1, s, lev, own)
  BY <1>3 DEF Tree, Downward, At, Entry
<1>4. At(Pdpt(m, s, v), 1, s, lev, own)
  <2>1. At(Entry(m, root[s], Pml4e(v)), 0 + 1, s, lev, own)
    BY <1>1, <1>2, <1>3
  <2>. QED  BY <2>1 DEF Pdpt
<1>5. At(Pd(m, s, v), 2, s, lev, own)
  <2>1. At(Entry(m, Pdpt(m, s, v), Pdpe(v)), 1 + 1, s, lev, own)
    BY <1>1, <1>3, <1>4
  <2>. QED  BY <2>1 DEF Pd
<1>6. At(Pt(m, s, v), 3, s, lev, own)
  <2>1. At(Entry(m, Pd(m, s, v), Pde(v)), 2 + 1, s, lev, own)
    BY <1>1, <1>3, <1>5
  <2>. QED  BY <2>1 DEF Pt
<1>. QED  BY <1>2, <1>4, <1>5, <1>6

\* Two pages are translated through the same entry of a page table only when they are
\* the same page of the same space.
LEMMA SamePath ==
    ASSUME NEW m, NEW left, NEW lev, NEW own, Tree(m, left, lev, own),
           NEW s \in AllSpaces, NEW v \in Pages, NEW r \in AllSpaces, NEW u \in Pages,
           Pt(m, s, v) # ABSENT, Pt(m, r, u) = Pt(m, s, v), Pte(u) = Pte(v)
    PROVE  r = s /\ u = v
<1>1. /\ Pml4e(v) \in Index /\ Pdpe(v) \in Index /\ Pde(v) \in Index
      /\ Pml4e(u) \in Index /\ Pdpe(u) \in Index /\ Pde(u) \in Index
  BY Digits
<1>2. ASSUME NEW k \in 0..2, NEW t, NEW w, NEW i \in Index, NEW j \in Index,
             At(t, k, s, lev, own), At(w, k, r, lev, own),
             Entry(m, t, i) # ABSENT, Entry(m, w, j) = Entry(m, t, i)
      PROVE  t # ABSENT /\ w = t /\ j = i
  BY <1>2 DEF Tree, OneParent, At, Entry
<1>3. Pd(m, s, v) # ABSENT /\ Pd(m, r, u) = Pd(m, s, v) /\ Pde(u) = Pde(v)
  BY <1>1, <1>2, Path DEF Pt
<1>4. Pdpt(m, s, v) # ABSENT /\ Pdpt(m, r, u) = Pdpt(m, s, v) /\ Pdpe(u) = Pdpe(v)
  BY <1>1, <1>2, <1>3, Path DEF Pd
<1>5. root[s] # ABSENT /\ root[r] = root[s] /\ Pml4e(u) = Pml4e(v)
  BY <1>1, <1>2, <1>4, Path DEF Pdpt
<1>6. r = s
  BY <1>5 DEF Tree, Rooted
<1>. QED  BY <1>3, <1>4, <1>5, <1>6, Digits

\* One more level leaves every translation as it is: the fresh table has no entry.
LEMMA TakenWalk ==
    ASSUME NEW m, NEW left, NEW lev, NEW own, Tree(m, left, lev, own),
           NEW t \in Tables, NEW i \in Index, NEW new \in Tables, lev[t] \in 0..2, lev[new] = 4,
           m[t][i] = ABSENT, NEW m2, Taken(m, m2, t, i, new),
           NEW s \in AllSpaces, NEW v \in Pages
    PROVE  Walk(m2, s, v) = Walk(m, s, v)
<1>. DEFINE Alike(b, a, k) == At(a, k, s, lev, own) /\ (b = a \/ (a = ABSENT /\ b = new))
<1>1. /\ Pml4e(v) \in Index /\ Pdpe(v) \in Index /\ Pde(v) \in Index /\ Pte(v) \in Index
      /\ ABSENT \notin Tables
  BY Digits, PagingAssumption
<1>2. ASSUME NEW a, NEW b, NEW k \in 0..3, NEW j \in Index, Alike(b, a, k)
      PROVE  Entry(m2, b, j) = Entry(m, a, j) \/ (Entry(m, a, j) = ABSENT /\ Entry(m2, b, j) = new /\ k # 3)
  BY <1>1, <1>2 DEF At, Entry, Taken
<1>3. Alike(root[s], root[s], 0)
  BY Path
<1>4. Alike(Pdpt(m2, s, v), Pdpt(m, s, v), 1)
  BY <1>1, <1>2, <1>3, Path DEF Pdpt
<1>5. Alike(Pd(m2, s, v), Pd(m, s, v), 2)
  BY <1>1, <1>2, <1>4, Path DEF Pd
<1>6. Alike(Pt(m2, s, v), Pt(m, s, v), 3)
  BY <1>1, <1>2, <1>5, Path DEF Pt
<1>. QED  BY <1>1, <1>2, <1>6 DEF Walk

\* Memory m2 after the entry for page v of space s in its page table became p.
LeafChanged(m, m2, s, v, p, lev) ==
    /\ (Filled(m, lev, Pt(m, s, v)) /\ p # ABSENT) => Filled(m2, lev, ABSENT)
    /\ Filled(m, lev, ABSENT) => Filled(m2, lev, Pt(m, s, v))
    /\ Walk(m2, s, v) = p
    /\ \A r \in AllSpaces, u \in Pages :
          <<r, u>> # <<s, v>> => Walk(m2, r, u) = Walk(m, r, u)

\* The entry for page v of space s, in its page table t, is set to p.
LeafSetting(m, left, lev, own, s, v, p, t, m2) ==
    /\ m \in Contents /\ Tree(m, left, lev, own)
    /\ Pt(m, s, v) # ABSENT /\ t = Pt(m, s, v) /\ p \in Nat \cup {ABSENT}
    /\ m2 = [m EXCEPT ![t][Pte(v)] = p]

\* An entry of a page table translates one page of one space.
LEMMA LeafSet ==
    ASSUME NEW m, NEW left, NEW lev, NEW own, NEW s \in AllSpaces, NEW v \in Pages, NEW p, NEW t,
           NEW m2, LeafSetting(m, left, lev, own, s, v, p, t, m2)
    PROVE  /\ m2 \in Contents /\ Tree(m2, left, lev, own)
           /\ LeafChanged(m, m2, s, v, p, lev)
<1>. DEFINE i == Pte(v)
<1>0. /\ m \in Contents /\ Tree(m, left, lev, own)
      /\ Pt(m, s, v) # ABSENT /\ t = Pt(m, s, v) /\ p \in Nat \cup {ABSENT}
      /\ m2 = [m EXCEPT ![t][i] = p]
  BY DEF LeafSetting
<1>1. t \in Tables /\ lev[t] = 3 /\ i \in Index /\ ABSENT \notin Tables
  BY <1>0, Path, Digits, PagingAssumption DEF At
<1>3. /\ m2 \in Contents /\ m2[t][i] = p
      /\ \A u \in Tables, j \in Index : ~(u = t /\ j = i) => m2[u][j] = m[u][j]
  BY <1>0, <1>1 DEF Contents
<1>4. \A u \in Tables, j \in Index : lev[u] \in 0..2 => m2[u][j] = m[u][j]
  BY <1>0, <1>1, <1>3
<1>5. Tree(m2, left, lev, own)
  <2>1. Downward(m2, lev, own)
    BY <1>0, <1>4 DEF Tree, Downward
  <2>2. OneParent(m2, lev)
    BY <1>0, <1>4 DEF Tree, OneParent
  <2>3. HasParent(m2, lev)
    BY <1>0, <1>4 DEF Tree, HasParent
  <2>. QED  BY <1>0, <2>1, <2>2, <2>3 DEF Tree
<1>6. Filled(m, lev, t) /\ p # ABSENT => Filled(m2, lev, ABSENT)
  BY <1>0, <1>1, <1>3 DEF Filled
<1>7. Filled(m, lev, ABSENT) => Filled(m2, lev, t)
  BY <1>0, <1>1, <1>3 DEF Filled
<1>8. ASSUME NEW r \in AllSpaces, NEW u \in Pages
      PROVE  /\ Pdpt(m2, r, u) = Pdpt(m, r, u) /\ Pd(m2, r, u) = Pd(m, r, u)
             /\ Pt(m2, r, u) = Pt(m, r, u)
  <2>1. \A w, k, j : k \in 0..2 /\ At(w, k, r, lev, own) /\ j \in Index =>
                        Entry(m2, w, j) = Entry(m, w, j)
    BY <1>0, <1>4 DEF At, Entry
  <2>2. Pml4e(u) \in Index /\ Pdpe(u) \in Index /\ Pde(u) \in Index
    BY <1>0, Digits
  <2>3. /\ At(root[r], 0, r, lev, own) /\ At(Pdpt(m, r, u), 1, r, lev, own)
        /\ At(Pd(m, r, u), 2, r, lev, own)
    BY <1>0, Path
  <2>4. Pdpt(m2, r, u) = Pdpt(m, r, u)
    <3>1. Entry(m2, root[r], Pml4e(u)) = Entry(m, root[r], Pml4e(u))
      BY <1>0, <2>1, <2>2, <2>3, 0 \in 0..2
    <3>. QED  BY <1>0, <3>1 DEF Pdpt
  <2>5. Pd(m2, r, u) = Pd(m, r, u)
    <3>1. Entry(m2, Pdpt(m, r, u), Pdpe(u)) = Entry(m, Pdpt(m, r, u), Pdpe(u))
      BY <1>0, <2>1, <2>2, <2>3, 1 \in 0..2
    <3>. QED  BY <1>0, <2>4, <3>1 DEF Pd
  <2>6. Pt(m2, r, u) = Pt(m, r, u)
    <3>1. Entry(m2, Pd(m, r, u), Pde(u)) = Entry(m, Pd(m, r, u), Pde(u))
      BY <1>0, <2>1, <2>2, <2>3, 2 \in 0..2
    <3>. QED  BY <1>0, <2>5, <3>1 DEF Pt
  <2>. QED  BY <1>0, <2>4, <2>5, <2>6
<1>9. Walk(m2, s, v) = p
  BY <1>0, <1>1, <1>3, <1>8 DEF Walk, Entry
<1>10. ASSUME NEW r \in AllSpaces, NEW u \in Pages, <<r, u>> # <<s, v>>
       PROVE  Walk(m2, r, u) = Walk(m, r, u)
  <2>1. ~(Pt(m, r, u) = t /\ Pte(u) = i)
    BY <1>0, <1>1, <1>10, SamePath
  <2>2. Pt(m, r, u) \in Tables \cup {ABSENT} /\ Pte(u) \in Index
    BY <1>0, Path, Digits DEF At
  <2>. QED  BY <1>0, <1>3, <1>8, <2>1, <2>2 DEF Walk, Entry
<1>. QED  BY <1>0, <1>3, <1>5, <1>6, <1>7, <1>9, <1>10 DEF LeafChanged

\* Entries that are present in tables of a space stay.
Kept(m, m2, lev) ==
    \A u \in Tables, j \in Index : lev[u] # 4 /\ m[u][j] # ABSENT => m2[u][j] = m[u][j]

SameWalks(m, m2) == \A r \in AllSpaces, v \in Pages : Walk(m2, r, v) = Walk(m, r, v)

\* map_page_entry is about to look for entry i of table t, which is above a page table.
Ready(st, s, lev, own, x, t, i) ==
    /\ Good(st, s, lev, own, x)
    /\ t \in Tables /\ lev[t] \in 0..2 /\ own[t] = s /\ i \in Index
    /\ x \in {t, ABSENT}
    /\ st.mem[t][i] = ABSENT => st.pool # {}

\* It has found or made the table that entry leads to.
Found(st, r, s, lev, t, i) ==
    /\ \E l2, o2 :
          /\ Good(r, s, l2, o2, r.mem[t][i])
          /\ r.mem[t][i] \in Tables
          /\ l2[r.mem[t][i]] = lev[t] + 1 /\ o2[r.mem[t][i]] = s
    /\ Kept(st.mem, r.mem, lev)
    /\ SameWalks(st.mem, r.mem)
    /\ st.mem[t][i] # ABSENT => r = st
    /\ st.mem[t][i] = ABSENT => /\ \A j \in Index : r.mem[r.mem[t][i]][j] = ABSENT
                               /\ r.list = Append(st.list, r.mem[t][i])

\* One level of map_page_entry keeps the tables in order, entries that are there and
\* every translation.
LEMMA OneLevel ==
    ASSUME NEW st, NEW s \in AllSpaces, NEW lev, NEW own, NEW x, NEW t, NEW i,
           Ready(st, s, lev, own, x, t, i)
    PROVE  Found(st, WithTable(st, t, i), s, lev, t, i)
<1>1. /\ st \in St /\ Tree(st.mem, st.pool, lev, own) /\ Labels(lev, own)
      /\ Filled(st.mem, lev, x) /\ x \in {t, ABSENT} /\ ABSENT \notin Tables
      /\ \A r \in AllSpaces : Listed(IF r = s THEN st.list ELSE memory_list[r], r, lev, own)
      /\ t \in Tables /\ lev[t] \in 0..2 /\ own[t] = s /\ i \in Index
      /\ st.mem[t][i] = ABSENT => st.pool # {}
      /\ st.pool \in SUBSET Tables
  BY PagingAssumption DEF Ready, Good, Tree, St
<1>3. CASE st.mem[t][i] # ABSENT
  <2>1. WithTable(st, t, i) = st
    BY <1>1, <1>3, WithTableCases
  <2>2. st.mem[t][i] \in Tables /\ lev[st.mem[t][i]] = lev[t] + 1 /\ own[st.mem[t][i]] = s
    BY <1>1, <1>3 DEF Tree, Downward
  <2>3. Filled(st.mem, lev, st.mem[t][i])
    BY <1>1, <1>3 DEF Filled
  <2>4. Good(st, s, lev, own, st.mem[t][i])
    BY <1>1, <2>3 DEF Good
  <2>5. Kept(st.mem, st.mem, lev) /\ SameWalks(st.mem, st.mem)
    BY DEF Kept, SameWalks
  <2>. QED  BY <1>3, <2>1, <2>2, <2>4, <2>5 DEF Found
<1>4. CASE st.mem[t][i] = ABSENT
  <2>1. PICK new \in st.pool :
          WithTable(st, t, i) = [mem  |-> [st.mem EXCEPT ![new] = EmptyTable, ![t][i] = new],
                                 pool |-> st.pool \ {new},
                                 list |-> Append(st.list, new)]
    BY <1>1, <1>4, WithTableCases
  <2>. DEFINE st2 == WithTable(st, t, i)
              l2 == [lev EXCEPT ![new] = lev[t] + 1]
              o2 == [own EXCEPT ![new] = own[t]]
  <2>2. new \in Tables /\ lev[new] = 4 /\ new # t /\ st.list \in Seq(Tables)
    BY <1>1 DEF Tree, St
  <2>3. st2.mem \in Contents /\ Taken(st.mem, st2.mem, t, i, new)
    BY <1>1, <2>1, <2>2, TakenMemory DEF St
  <2>4. Tree(st2.mem, st2.pool, l2, o2)
    BY <1>1, <1>4, <2>1, <2>3, TakenTree DEF St
  <2>5. st2 \in St
    BY <1>1, <2>1, <2>2, <2>3 DEF St
  <2>6. ASSUME NEW r \in AllSpaces
        PROVE  Listed(IF r = s THEN st2.list ELSE memory_list[r], r, l2, o2)
    <3>1. CASE r = s
      <4>1. Listed(Append(st.list, new), s, l2, o2)
        BY <1>1, <2>2, TakenListed
      <4>. QED  BY <2>1, <3>1, <4>1
    <3>2. CASE r # s
      <4>1. Listed(memory_list[r], r, lev, own)
        BY <1>1, <3>2
      <4>2. Listed(memory_list[r], r, l2, o2)
        BY <1>1, <2>2, <3>2, <4>1, TakenListed
      <4>. QED  BY <3>2, <4>2
    <3>. QED  BY <3>1, <3>2
  <2>7. l2[new] = lev[t] + 1 /\ o2[new] = s /\ st2.mem[t][i] = new
    BY <1>1, <2>2, <2>3 DEF Labels, Taken
  <2>8. Filled(st2.mem, l2, new)
    <3>. SUFFICES ASSUME NEW u \in Tables, l2[u] \in 1..3, u # new
                  PROVE  \E j \in Index : st2.mem[u][j] # ABSENT
      BY DEF Filled
    <3>1. lev[u] \in 1..3
      BY <1>1, <2>2 DEF Labels
    <3>2. CASE u = t
      BY <1>1, <2>2, <2>7, <3>2
    <3>3. CASE u # t
      <4>1. PICK j \in Index : st.mem[u][j] # ABSENT
        BY <1>1, <3>1, <3>3 DEF Filled
      <4>. QED  BY <2>3, <3>3, <4>1 DEF Taken
    <3>. QED  BY <3>2, <3>3
  <2>9. Good(st2, s, l2, o2, st2.mem[t][i])
    <3>. HIDE DEF l2, o2, st2
    <3>. QED  BY <2>4, <2>5, <2>6, <2>7, <2>8 DEF Good
  <2>10. SameWalks(st.mem, st2.mem)
    BY <1>1, <1>4, <2>2, <2>3, TakenWalk DEF SameWalks
  <2>11. Kept(st.mem, st2.mem, lev)
    BY <1>4, <2>2, <2>3 DEF Kept, Taken
  <2>12. st2.list = Append(st.list, new) /\ \A j \in Index : st2.mem[new][j] = ABSENT
    BY <2>1, <2>3 DEF Taken
  <2>. HIDE DEF l2, o2, st2
  <2>13. \E l, o : /\ Good(st2, s, l, o, st2.mem[t][i])
                   /\ l[st2.mem[t][i]] = lev[t] + 1 /\ o[st2.mem[t][i]] = s
    BY <2>7, <2>9
  <2>14. st2.mem[t][i] \in Tables
    BY <2>2, <2>7
  <2>15. Found(st, st2, s, lev, t, i)
    BY <1>4, <2>7, <2>10, <2>11, <2>12, <2>13, <2>14 DEF Found
  <2>. QED  BY <2>15 DEF st2
<1>. QED  BY <1>3, <1>4

(* ------------------------------------------------------------------------ *)
(* Mapping a page                                                           *)

\* The storage on the way down to page v of space s: perhaps the last table that was
\* entered maps nothing yet, and no translation has changed.
Stage(st, s, v) ==
    /\ \E lev, own : Good(st, s, lev, own, Reached(st.mem, s, v))
    /\ SameWalks(mem, st.mem)

\* A level that was made is the last table on the way, and the last that is listed.
Grown(st, r, s, v) ==
    \/ r = st
    \/ Reached(r.mem, s, v) \in Tables /\ r.list = Append(st.list, Reached(r.mem, s, v))

\* Entry i of table t is one that map_page_entry looks up for page v of space s.
Level(st, s, v, t, i) ==
    \/ t = root[s] /\ i = Pml4e(v)
    \/ t = Pdpt(st.mem, s, v) /\ i = Pdpe(v)
    \/ t = Pd(st.mem, s, v) /\ i = Pde(v)

\* The tables on the way down stay when the entries that are present do.
LEMMA KeptPath ==
    ASSUME NEW m, NEW left, NEW lev, NEW own, Tree(m, left, lev, own), NEW m2, Kept(m, m2, lev),
           NEW s \in AllSpaces, NEW v \in Pages
    PROVE  /\ Pdpt(m, s, v) # ABSENT => Pdpt(m2, s, v) = Pdpt(m, s, v)
           /\ Pd(m, s, v) # ABSENT => Pd(m2, s, v) = Pd(m, s, v)
<1>1. /\ At(root[s], 0, s, lev, own) /\ At(Pdpt(m, s, v), 1, s, lev, own)
      /\ Pml4e(v) \in Index /\ Pdpe(v) \in Index
  BY Path, Digits
<1>2. ASSUME NEW k \in 0..2, NEW t, At(t, k, s, lev, own), NEW i \in Index, Entry(m, t, i) # ABSENT
      PROVE  t # ABSENT /\ Entry(m2, t, i) = Entry(m, t, i)
  BY <1>2 DEF At, Entry, Kept
<1>3. Pdpt(m, s, v) # ABSENT => Pdpt(m2, s, v) = Pdpt(m, s, v)
  BY <1>1, <1>2, 0 \in 0..2 DEF Pdpt
<1>4. ASSUME Pd(m, s, v) # ABSENT PROVE Pd(m2, s, v) = Pd(m, s, v)
  <2>1. Pdpt(m, s, v) # ABSENT /\ Entry(m2, Pdpt(m, s, v), Pdpe(v)) = Entry(m, Pdpt(m, s, v), Pdpe(v))
    BY <1>1, <1>2, <1>4, 1 \in 0..2 DEF Pd
  <2>. QED  BY <1>3, <2>1 DEF Pd
<1>. QED  BY <1>3, <1>4

\* Each level is left as it is, or made: then the fresh table is where the way ends.
LEMMA StageStep ==
    ASSUME NEW st, NEW s \in AllSpaces, NEW v \in Pages, Stage(st, s, v),
           NEW t, NEW i, Level(st, s, v, t, i)
    PROVE  Stage(WithTable(st, t, i), s, v) /\ Grown(st, WithTable(st, t, i), s, v)
<1>. DEFINE r == WithTable(st, t, i)
            new == r.mem[t][i]
            x == Reached(st.mem, s, v)
<1>1. CASE Entry(st.mem, t, i) # ABSENT \/ t = ABSENT \/ st.pool = {}
  <2>1. r = st
    BY <1>1, Zenon DEF WithTable
  <2>. QED  BY <2>1 DEF Grown
<1>2. CASE t # ABSENT /\ Entry(st.mem, t, i) = ABSENT /\ st.pool # {}
  <2>1. PICK lev, own : Good(st, s, lev, own, x)
    BY DEF Stage
  <2>2. /\ Tree(st.mem, st.pool, lev, own) /\ SameWalks(mem, st.mem) /\ ABSENT \notin Tables
        /\ st.mem[t][i] = ABSENT
    BY <1>2, <2>1, PagingAssumption DEF Good, Stage, Entry
  <2>3. /\ At(root[s], 0, s, lev, own) /\ At(Pdpt(st.mem, s, v), 1, s, lev, own)
        /\ At(Pd(st.mem, s, v), 2, s, lev, own)
        /\ Pml4e(v) \in Index /\ Pdpe(v) \in Index /\ Pde(v) \in Index
    BY <2>2, Path, Digits
  <2>4. t \in Tables /\ lev[t] \in 0..2 /\ own[t] = s /\ i \in Index
    BY <1>2, <2>3 DEF Level, At
  <2>5. CASE t = root[s] /\ i = Pml4e(v)
    <3>1. Pdpt(st.mem, s, v) = ABSENT /\ Pd(st.mem, s, v) = ABSENT /\ Pt(st.mem, s, v) = ABSENT
      BY <1>2, <2>5 DEF Pdpt, Pd, Pt, Entry
    <3>2. x = ABSENT
      BY <3>1 DEF Reached
    <3>3. Found(st, r, s, lev, t, i)
      BY <1>2, <2>1, <2>4, <3>2, OneLevel DEF Ready
    <3>4. new \in Tables /\ \A j \in Index : r.mem[new][j] = ABSENT
      BY <2>2, <3>3 DEF Found
    <3>5. Pdpt(r.mem, s, v) = new
      BY <1>2, <2>5 DEF Pdpt, Entry
    <3>. HIDE DEF new
    <3>6. Pd(r.mem, s, v) = ABSENT /\ Pt(r.mem, s, v) = ABSENT
      BY <2>3, <3>4, <3>5 DEF Pd, Pt, Entry
    <3>7. Reached(r.mem, s, v) = new
      BY <2>2, <3>4, <3>5, <3>6 DEF Reached
    <3>. QED  BY <2>2, <3>3, <3>7 DEF Found, Stage, Grown, SameWalks, new
  <2>6. CASE t = Pdpt(st.mem, s, v) /\ i = Pdpe(v)
    <3>1. Pd(st.mem, s, v) = ABSENT /\ Pt(st.mem, s, v) = ABSENT
      BY <1>2, <2>6 DEF Pd, Pt, Entry
    <3>2. x = t
      BY <2>6, <3>1 DEF Reached
    <3>3. Found(st, r, s, lev, t, i)
      BY <1>2, <2>1, <2>4, <3>2, OneLevel DEF Ready
    <3>4. new \in Tables /\ \A j \in Index : r.mem[new][j] = ABSENT
      BY <2>2, <3>3 DEF Found
    <3>5. Pdpt(r.mem, s, v) = t
      BY <1>2, <2>2, <2>6, <3>3, KeptPath DEF Found
    <3>6. Pd(r.mem, s, v) = new
      BY <1>2, <2>6, <3>5 DEF Pd, Entry
    <3>. HIDE DEF new
    <3>7. Pt(r.mem, s, v) = ABSENT
      BY <2>3, <3>4, <3>6 DEF Pt, Entry
    <3>8. Reached(r.mem, s, v) = new
      BY <2>2, <3>4, <3>6, <3>7 DEF Reached
    <3>. QED  BY <2>2, <3>3, <3>8 DEF Found, Stage, Grown, SameWalks, new
  <2>7. CASE t = Pd(st.mem, s, v) /\ i = Pde(v)
    <3>1. Pt(st.mem, s, v) = ABSENT
      BY <1>2, <2>7 DEF Pt, Entry
    <3>2. x = t
      BY <1>2, <2>7, <3>1 DEF Reached
    <3>3. Found(st, r, s, lev, t, i)
      BY <1>2, <2>1, <2>4, <3>2, OneLevel DEF Ready
    <3>4. new \in Tables
      BY <3>3 DEF Found
    <3>5. Pd(r.mem, s, v) = t
      BY <1>2, <2>2, <2>7, <3>3, KeptPath DEF Found
    <3>6. Pt(r.mem, s, v) = new
      BY <1>2, <2>7, <3>5 DEF Pt, Entry
    <3>. HIDE DEF new
    <3>7. Reached(r.mem, s, v) = new
      BY <2>2, <3>4, <3>6 DEF Reached
    <3>. QED  BY <2>2, <3>3, <3>7 DEF Found, Stage, Grown, SameWalks, new
  <2>. QED  BY <2>5, <2>6, <2>7 DEF Level
<1>. QED  BY <1>1, <1>2

\* The storage at each of the three levels of map_page_entry.
LEMMA Stages ==
    ASSUME TypeOK, TablesInv, NEW s \in AllSpaces, NEW v \in Pages
    PROVE  /\ Stage(Storage(s), s, v) /\ Stage(WithPdpt(s, v), s, v)
           /\ Stage(WithPd(s, v), s, v) /\ Stage(WithPt(s, v), s, v)
           /\ Grown(Storage(s), WithPdpt(s, v), s, v) /\ Grown(WithPdpt(s, v), WithPd(s, v), s, v)
           /\ Grown(WithPd(s, v), WithPt(s, v), s, v)
<1>1. Stage(Storage(s), s, v)
  <2>1. PICK lev, own : Good(Storage(s), s, lev, own, ABSENT)
    BY DEF TablesInv, Good, Storage, St, TypeOK, Contents
  <2>2. Good(Storage(s), s, lev, own, Reached(Storage(s).mem, s, v))
    BY <2>1, PagingAssumption DEF Good, Filled
  <2>. QED  BY <2>2 DEF Stage, SameWalks, Storage
<1>2. Stage(WithPdpt(s, v), s, v) /\ Grown(Storage(s), WithPdpt(s, v), s, v)
  <2>1. Level(Storage(s), s, v, root[s], Pml4e(v))
    BY DEF Level
  <2>. QED  BY <1>1, <2>1, StageStep DEF WithPdpt
<1>3. Stage(WithPd(s, v), s, v) /\ Grown(WithPdpt(s, v), WithPd(s, v), s, v)
  <2>. DEFINE a == WithPdpt(s, v)
  <2>1. WithPd(s, v) = WithTable(a, Pdpt(a.mem, s, v), Pdpe(v))
    BY DEF WithPd
  <2>. HIDE DEF a
  <2>2. Level(a, s, v, Pdpt(a.mem, s, v), Pdpe(v)) /\ Stage(a, s, v)
    BY <1>2 DEF Level, a
  <2>3. Stage(WithPd(s, v), s, v) /\ Grown(a, WithPd(s, v), s, v)
    BY <2>1, <2>2, StageStep
  <2>. QED  BY <2>3 DEF a
<1>4. Stage(WithPt(s, v), s, v) /\ Grown(WithPd(s, v), WithPt(s, v), s, v)
  <2>. DEFINE b == WithPd(s, v)
  <2>1. WithPt(s, v) = WithTable(b, Pd(b.mem, s, v), Pde(v))
    BY DEF WithPt
  <2>. HIDE DEF b
  <2>2. Level(b, s, v, Pd(b.mem, s, v), Pde(v)) /\ Stage(b, s, v)
    BY <1>3 DEF Level, b
  <2>3. Stage(WithPt(s, v), s, v) /\ Grown(b, WithPt(s, v), s, v)
    BY <2>1, <2>2, StageStep
  <2>. QED  BY <2>3 DEF b
<1>. QED  BY <1>1, <1>2, <1>3, <1>4

\* map_page_entry keeps the tables in order, maps the page it is asked to map, and
\* changes the translation of no other page of any space.
LEMMA MappedEffect ==
    ASSUME TypeOK, TablesInv, NEW s \in AllSpaces, NEW v \in Pages, NEW p \in Nat,
           Pt(WithPt(s, v).mem, s, v) # ABSENT
    PROVE  /\ \E lev, own : Good(Mapped(s, v, p), s, lev, own, ABSENT)
           /\ Walk(Mapped(s, v, p).mem, s, v) = p
           /\ \A r \in AllSpaces, u \in Pages :
                 <<r, u>> # <<s, v>> => Walk(Mapped(s, v, p).mem, r, u) = Walk(mem, r, u)
<1>. DEFINE c == WithPt(s, v)
            pt == Pt(c.mem, s, v)
            m2 == [c.mem EXCEPT ![pt][Pte(v)] = p]
            d == Mapped(s, v, p)
<1>1. d = [c EXCEPT !.mem = m2] /\ pt # ABSENT /\ Stage(c, s, v) /\ p # ABSENT
  BY Stages, PagingAssumption DEF Mapped
<1>. HIDE DEF c, d
<1>2. Reached(c.mem, s, v) = pt
  BY <1>1 DEF Reached
<1>3. PICK lev, own : Good(c, s, lev, own, pt)
  BY <1>1, <1>2 DEF Stage
<1>4. SameWalks(mem, c.mem)
  BY <1>1 DEF Stage
<1>. HIDE DEF m2
<1>5. /\ c.mem \in Contents /\ c.pool \in SUBSET Tables /\ Tree(c.mem, c.pool, lev, own)
      /\ Filled(c.mem, lev, pt) /\ m2 = [c.mem EXCEPT ![pt][Pte(v)] = p]
  BY <1>3 DEF Good, St, m2
<1>6. LeafSetting(c.mem, c.pool, lev, own, s, v, p, pt, m2)
  BY <1>1, <1>5 DEF LeafSetting
<1>7. m2 \in Contents /\ Tree(m2, c.pool, lev, own) /\ LeafChanged(c.mem, m2, s, v, p, lev)
  BY <1>6, LeafSet
<1>. HIDE DEF pt
<1>8. /\ Filled(m2, lev, ABSENT) /\ Walk(m2, s, v) = p
      /\ \A r \in AllSpaces, u \in Pages : <<r, u>> # <<s, v>> => Walk(m2, r, u) = Walk(c.mem, r, u)
  BY <1>1, <1>5, <1>7 DEF LeafChanged, pt
<1>9. d.mem = m2 /\ d.pool = c.pool /\ d.list = c.list /\ d \in St
  BY <1>1, <1>3, <1>7 DEF Good, St
<1>10. Good(d, s, lev, own, ABSENT)
  BY <1>3, <1>7, <1>8, <1>9 DEF Good
<1>11. \A r \in AllSpaces, u \in Pages : <<r, u>> # <<s, v>> => Walk(d.mem, r, u) = Walk(mem, r, u)
  BY <1>4, <1>8, <1>9 DEF SameWalks
<1>. QED  BY <1>8, <1>9, <1>10, <1>11 DEF d

\* What a call that runs out of memory leaves: a stage of the way down, in which
\* memory_list may lack the last table.
LEMMA CutEffect ==
    ASSUME TypeOK, TablesInv, NEW s \in AllSpaces, NEW v \in Pages, NEW st \in Cut(s, v)
    PROVE  /\ st.list \in Seq(Tables)
           /\ \E g : /\ Stage(g, s, v) /\ g.mem = st.mem /\ g.pool = st.pool
                     /\ \/ st.list = g.list
                        \/ /\ Reached(g.mem, s, v) \in Tables
                           /\ g.list = Append(st.list, Reached(g.mem, s, v))
<1>1. \A g : Stage(g, s, v) => g \in St
  BY DEF Stage, Good
<1>2. ASSUME st = WithPt(s, v)
      PROVE  /\ st.list \in Seq(Tables)
             /\ \E g : Stage(g, s, v) /\ g.mem = st.mem /\ g.pool = st.pool /\ st.list = g.list
  BY <1>1, <1>2, Stages DEF St
<1>3. ASSUME NEW old, NEW g, Stage(old, s, v), Stage(g, s, v), Grown(old, g, s, v), g # old,
             st = [g EXCEPT !.list = old.list]
      PROVE  /\ st.list \in Seq(Tables) /\ g.mem = st.mem /\ g.pool = st.pool
             /\ Reached(g.mem, s, v) \in Tables
             /\ g.list = Append(st.list, Reached(g.mem, s, v))
  <2>1. g \in St /\ old \in St
    BY <1>1, <1>3
  <2>2. st.list = old.list /\ st.mem = g.mem /\ st.pool = g.pool /\ st.list \in Seq(Tables)
    BY <1>3, <2>1 DEF St
  <2>. QED  BY <1>3, <2>2 DEF Grown
<1>4. \/ st = WithPt(s, v)
      \/ WithPdpt(s, v) # Storage(s) /\ st = [WithPdpt(s, v) EXCEPT !.list = Storage(s).list]
      \/ WithPd(s, v) # WithPdpt(s, v) /\ st = [WithPd(s, v) EXCEPT !.list = WithPdpt(s, v).list]
      \/ WithPt(s, v) # WithPd(s, v) /\ st = [WithPt(s, v) EXCEPT !.list = WithPd(s, v).list]
  BY DEF Cut
<1>. QED  BY <1>2, <1>3, <1>4, Stages

(* ------------------------------------------------------------------------ *)
(* Erasing from a vector                                                    *)

\* vector_erase closes the gap.
LEMMA EraseFacts ==
    ASSUME NEW S, NEW vec \in Seq(S), NEW k \in 1..Len(vec)
    PROVE  /\ vector_erase(vec, k) \in Seq(S)
           /\ Len(vector_erase(vec, k)) = Len(vec) - 1
           /\ \A i \in 1..k-1 : vector_erase(vec, k)[i] = vec[i]
           /\ \A i \in k..Len(vec)-1 : vector_erase(vec, k)[i] = vec[i + 1]
<1>. DEFINE l == SubSeq(vec, 1, k - 1)
            r == SubSeq(vec, k + 1, Len(vec))
            n == Len(vec)
<1>1. l \in Seq(S) /\ Len(l) = k - 1 /\ \A i \in 1..k-1 : l[i] = vec[i]
  OBVIOUS
<1>2. r \in Seq(S) /\ Len(r) = n - k /\ \A i \in 1..n-k : r[i] = vec[k + i]
  OBVIOUS
<1>3. vector_erase(vec, k) = l \o r
  BY DEF vector_erase, RemoveAt
<1>4. n \in Nat /\ k \in 1..n
  OBVIOUS
<1>. HIDE DEF l, r, n
<1>5. l \o r \in Seq(S) /\ Len(l \o r) = n - 1
  <2>0. l \in Seq(S) /\ r \in Seq(S)
    BY <1>1, <1>2
  <2>1. l \o r \in Seq(S) /\ Len(l \o r) = Len(l) + Len(r)
    BY ONLY <2>0
  <2>. QED  BY <1>1, <1>2, <1>4, <2>1
<1>7. \A i \in 1..k-1 : (l \o r)[i] = l[i]
  BY <1>1, <1>2, <1>4
<1>8. \A i \in k..n-1 : (l \o r)[i] = r[i - (k - 1)]
  <2>1. \A q \in 1..Len(r) : (l \o r)[Len(l) + q] = r[q]
    BY <1>1, <1>2
  <2>. TAKE i \in k..n-1
  <2>2. i - (k - 1) \in 1..Len(r) /\ Len(l) + (i - (k - 1)) = i
    BY <1>1, <1>2, <1>4
  <2>. QED  BY <2>1, <2>2
<1>6. \A i \in k..n-1 : r[i - (k - 1)] = vec[i + 1]
  <2>. SUFFICES ASSUME NEW i \in k..n-1 PROVE r[i - (k - 1)] = vec[i + 1]
    OBVIOUS
  <2>1. i - (k - 1) \in 1..n-k /\ k + (i - (k - 1)) = i + 1
    BY <1>4
  <2>. QED  BY <1>2, <2>1
<1>. QED  BY <1>1, <1>3, <1>5, <1>6, <1>7, <1>8 DEF n

\* vector_erase_value removes one occurrence, if there is one.
LEMMA EraseValueCases ==
    ASSUME NEW vec \in Seq(Tables), NEW val
    PROVE  \/ vector_erase_value(vec, val) = vec /\ \A i \in 1..Len(vec) : vec[i] # val
           \/ \E k \in 1..Len(vec) : vec[k] = val /\ vector_erase_value(vec, val) = vector_erase(vec, k)
<1>. DEFINE I == {i \in 1..Len(vec) : vec[i] = val}
<1>1. vector_erase_value(vec, val) =
        IF (IF I # {} THEN Min(I) ELSE 0) = 0 THEN vec
        ELSE vector_erase(vec, IF I # {} THEN Min(I) ELSE 0)
  BY DEF vector_erase_value, SelectInSeq
<1>2. CASE I = {}
  BY <1>1, <1>2
<1>3. CASE I # {}
  <2>1. Min(I) \in I
    <3>1. I \in SUBSET Nat
      OBVIOUS
    <3>. QED  BY <1>3, <3>1, LeastExists DEF Min
  <2>2. PICK k \in 1..Len(vec) : k = Min(I) /\ vec[k] = val
    BY <2>1
  <2>3. k # 0
    OBVIOUS
  <2>. HIDE DEF I
  <2>4. vector_erase_value(vec, val) = vector_erase(vec, k)
    BY <1>1, <1>3, <2>2, <2>3
  <2>. QED  BY <2>2, <2>4
<1>. QED  BY <1>2, <1>3

\* memory_list after a table is freed: it is erased, wherever it is listed.
LEMMA ErasedListed ==
    ASSUME NEW lev, NEW own, Labels(lev, own), NEW x \in Tables, lev[x] \in 1..3,
           NEW s \in AllSpaces, NEW list, Listed(list, s, lev, own)
    PROVE  /\ own[x] = s => Listed(vector_erase_value(list, x), s, [lev EXCEPT ![x] = 4], own)
           /\ own[x] # s => Listed(list, s, [lev EXCEPT ![x] = 4], own)
<1>. DEFINE l2 == [lev EXCEPT ![x] = 4]
            short == vector_erase_value(list, x)
<1>1. l2[x] = 4 /\ \A u \in Tables \ {x} : l2[u] = lev[u]
  BY DEF Labels
<1>2. list \in Seq(Tables) /\ \A i \in 1..Len(list) : list[i] \in Tables
  <2>1. list \in Seq(Tables)
    BY DEF Listed
  <2>. QED  BY <2>1
<1>. HIDE DEF l2
<1>3. ASSUME own[x] # s PROVE Listed(list, s, l2, own)
  BY <1>1, <1>2, <1>3 DEF Listed
<1>4. ASSUME own[x] = s PROVE Listed(short, s, l2, own)
  <2>1. PICK k \in 1..Len(list) : list[k] = x /\ short = vector_erase(list, k)
    BY <1>2, <1>4, EraseValueCases DEF Listed
  <2>. HIDE DEF short
  <2>2. /\ short \in Seq(Tables) /\ Len(short) = Len(list) - 1
        /\ \A i \in 1..k-1 : short[i] = list[i]
        /\ \A i \in k..Len(list)-1 : short[i] = list[i + 1]
    BY <1>2, <2>1, EraseFacts
  <2>3. Len(list) \in Nat /\ k \in 1..Len(list)
    BY <1>2
  <2>. DEFINE n == Len(list)
  <2>4. /\ n \in Nat /\ k \in 1..n /\ list[k] = x /\ Len(short) = n - 1
        /\ \A i \in 1..k-1 : short[i] = list[i]
        /\ \A i \in k..n-1 : short[i] = list[i + 1]
    BY <1>2, <2>1, <2>2, <2>3 DEF Listed
  <2>9. \A i, j \in 1..n : list[i] = list[j] => i = j
    BY DEF Listed
  <2>10. \A i \in 1..n : list[i] \in Tables /\ lev[list[i]] \in 1..3 /\ own[list[i]] = s
    BY <1>2 DEF Listed
  <2>11. \A u \in Tables : lev[u] \in 1..3 /\ own[u] = s => \E i \in 1..n : list[i] = u
    BY DEF Listed
  <2>. HIDE DEF n
  <2>5. \A i \in 1..n-1 : \E j \in 1..n : j # k /\ short[i] = list[j] /\ j = IF i < k THEN i ELSE i + 1
    <3>. TAKE i \in 1..n-1
    <3>1. CASE i < k
      <4>1. i \in 1..k-1 /\ i \in 1..n /\ i # k
        BY <2>4, <3>1
      <4>2. short[i] = list[i]
        BY <2>4, <4>1
      <4>. QED  BY <3>1, <4>1, <4>2
    <3>2. CASE ~(i < k)
      <4>1. i \in k..n-1 /\ i + 1 \in 1..n /\ i + 1 # k
        BY <2>4, <3>2
      <4>2. short[i] = list[i + 1]
        BY <2>4, <4>1
      <4>. QED  BY <3>2, <4>1, <4>2
    <3>. QED  BY <3>1, <3>2
  <2>6. \A i \in 1..n-1 : l2[short[i]] \in 1..3 /\ own[short[i]] = s
    <3>. TAKE i \in 1..n-1
    <3>1. PICK j \in 1..n : j # k /\ short[i] = list[j]
      BY <2>5
    <3>2. list[j] # x
      BY <2>4, <2>9, <3>1
    <3>. QED  BY <1>1, <2>10, <3>1, <3>2
  <2>7. \A i, j \in 1..n-1 : short[i] = short[j] => i = j
    <3>. SUFFICES ASSUME NEW i \in 1..n-1, NEW j \in 1..n-1, short[i] = short[j] PROVE i = j
      OBVIOUS
    <3>1. PICK p \in 1..n : p # k /\ short[i] = list[p] /\ p = IF i < k THEN i ELSE i + 1
      BY <2>5
    <3>2. PICK q \in 1..n : q # k /\ short[j] = list[q] /\ q = IF j < k THEN j ELSE j + 1
      BY <2>5
    <3>3. p = q
      <4>1. list[p] = list[q]
        BY <3>1, <3>2
      <4>. QED  BY <2>9, <3>1, <3>2, <4>1
    <3>. QED  BY <2>4, <3>1, <3>2, <3>3
  <2>8. \A u \in Tables : l2[u] \in 1..3 /\ own[u] = s => \E i \in 1..n-1 : short[i] = u
    <3>. SUFFICES ASSUME NEW u \in Tables, l2[u] \in 1..3, own[u] = s
                  PROVE  \E i \in 1..n-1 : short[i] = u
      OBVIOUS
    <3>1. u # x /\ lev[u] \in 1..3
      BY <1>1
    <3>2. PICK j \in 1..n : list[j] = u
      BY <2>11, <3>1
    <3>3. CASE j < k
      <4>1. j \in 1..k-1 /\ j \in 1..n-1
        BY <2>4, <3>3
      <4>2. short[j] = u
        BY <2>4, <3>2, <4>1
      <4>. QED  BY <4>1, <4>2
    <3>4. CASE j > k
      <4>1. j - 1 \in k..n-1 /\ (j - 1) + 1 = j /\ j - 1 \in 1..n-1
        BY <2>4, <3>4
      <4>2. short[j - 1] = u
        BY <2>4, <3>2, <4>1
      <4>. QED  BY <4>1, <4>2
    <3>. QED  BY <2>4, <3>1, <3>2, <3>3, <3>4
  <2>. QED  BY <2>2, <2>4, <2>6, <2>7, <2>8 DEF Listed
<1>. QED  BY <1>3, <1>4 DEF l2, short

(* ------------------------------------------------------------------------ *)
(* Freeing a table                                                          *)

\* Memory r after table x, entry i of table t, is freed.
Freed(m, r, t, i, x) ==
    /\ r[t][i] = ABSENT
    /\ \A u \in Tables, j \in Index : u # x /\ ~(u = t /\ j = i) => r[u][j] = m[u][j]

\* The entry and the freed table are all that changes.
LEMMA FreedMemory ==
    ASSUME NEW m \in Contents, NEW t \in Tables, NEW i \in Index, NEW x \in Tables, x # t
    PROVE  /\ [m EXCEPT ![x] = Junk(x), ![t][i] = ABSENT] \in Contents
           /\ Freed(m, [m EXCEPT ![x] = Junk(x), ![t][i] = ABSENT], t, i, x)
<1>1. x \in Nat
  BY PagingAssumption
<1>. QED  BY <1>1 DEF Contents, Junk, Freed

\* The labels after table x is freed, which is a page table or leads nowhere.
LEMMA FreedTree ==
    ASSUME NEW m \in Contents, NEW left \in SUBSET Tables, NEW lev, NEW own,
           Tree(m, left, lev, own),
           NEW t \in Tables, NEW i \in Index, lev[t] \in 0..2, NEW x, x = m[t][i], x # ABSENT,
           lev[x] = 3 \/ \A j \in Index : m[x][j] = ABSENT,
           NEW r, Freed(m, r, t, i, x)
    PROVE  Tree(r, left \cup {x}, [lev EXCEPT ![x] = 4], own)
<1>. DEFINE l2 == [lev EXCEPT ![x] = 4]
<1>1. /\ lev \in [Tables -> 0..4] /\ own \in [Tables -> AllSpaces]
      /\ x \in Tables /\ lev[x] \in 1..3 /\ x # t /\ ABSENT \notin Tables
  <2>1. lev \in [Tables -> 0..4] /\ own \in [Tables -> AllSpaces] /\ ABSENT \notin Tables
    BY PagingAssumption DEF Tree, Labels
  <2>2. x \in Tables /\ lev[x] = lev[t] + 1
    BY DEF Tree, Downward
  <2>. QED  BY <2>1, <2>2
<1>2. l2 \in [Tables -> 0..4] /\ l2[x] = 4 /\ \A u \in Tables \ {x} : l2[u] = lev[u]
  BY <1>1
<1>3. /\ r[t][i] = ABSENT
      /\ \A u \in Tables, j \in Index : u # x /\ ~(u = t /\ j = i) => r[u][j] = m[u][j]
  BY DEF Freed
<1>. HIDE DEF l2
<1>4. \A u \in Tables : u \in left \cup {x} <=> l2[u] = 4
  BY <1>1, <1>2 DEF Tree
<1>5. Rooted(l2, own)
  BY <1>1, <1>2 DEF Tree, Rooted
<1>6. \A u \in Tables, j \in Index : l2[u] \in 0..2 /\ r[u][j] # ABSENT =>
         lev[u] \in 0..2 /\ r[u][j] = m[u][j] /\ m[u][j] # x
  BY <1>1, <1>2, <1>3 DEF Tree, OneParent
<1>7. Downward(r, l2, own)
  BY <1>1, <1>2, <1>6 DEF Tree, Downward
<1>8. OneParent(r, l2)
  BY <1>6 DEF Tree, OneParent
<1>9. HasParent(r, l2)
  <2>. SUFFICES ASSUME NEW y \in Tables, l2[y] \in 1..3
                PROVE  \E u \in Tables, j \in Index : l2[u] \in 0..2 /\ r[u][j] = y
    BY DEF HasParent
  <2>1. y # x /\ lev[y] \in 1..3
    BY <1>2
  <2>2. PICK u \in Tables, j \in Index : lev[u] \in 0..2 /\ m[u][j] = y
    BY <2>1 DEF Tree, HasParent
  <2>3. u # x /\ ~(u = t /\ j = i)
    BY <1>1, <2>1, <2>2
  <2>. QED  BY <1>2, <1>3, <2>2, <2>3
<1>. QED  BY <1>1, <1>2, <1>4, <1>5, <1>7, <1>8, <1>9 DEF Tree, Labels, l2

\* Some translations may be gone, none is new.
FewerWalks(m, m2) == \A r \in AllSpaces, v \in Pages : Walk(m2, r, v) \in {Walk(m, r, v), ABSENT}

\* Freeing a table makes no translation.
LEMMA FreedWalk ==
    ASSUME NEW m \in Contents, NEW left, NEW lev, NEW own, Tree(m, left, lev, own),
           NEW t \in Tables, NEW i \in Index, lev[t] \in 0..2, NEW x, x = m[t][i], x # ABSENT,
           NEW r, Freed(m, r, t, i, x)
    PROVE  FewerWalks(m, r)
<1>. SUFFICES ASSUME NEW s \in AllSpaces, NEW v \in Pages
              PROVE  Walk(r, s, v) \in {Walk(m, s, v), ABSENT}
  BY DEF FewerWalks
<1>. DEFINE Alike(b, a, k) == At(a, k, s, lev, own) /\ ((b = a /\ a # x) \/ b = ABSENT)
<1>1. /\ Pml4e(v) \in Index /\ Pdpe(v) \in Index /\ Pde(v) \in Index /\ Pte(v) \in Index
      /\ ABSENT \notin Tables
  BY Digits, PagingAssumption
<1>2. x \in Tables /\ lev[x] \in 1..3
  <2>1. x \in Tables /\ lev[x] = lev[t] + 1
    BY DEF Tree, Downward
  <2>. QED  BY <2>1
<1>3. ASSUME NEW a, NEW b, NEW k \in 0..2, NEW j \in Index, Alike(b, a, k)
      PROVE  (Entry(r, b, j) = Entry(m, a, j) /\ Entry(m, a, j) # x) \/ Entry(r, b, j) = ABSENT
  BY <1>1, <1>3 DEF At, Entry, Freed, Tree, OneParent
<1>4. ASSUME NEW a, NEW b, NEW j \in Index, Alike(b, a, 3)
      PROVE  Entry(r, b, j) \in {Entry(m, a, j), ABSENT}
  BY <1>1, <1>4 DEF At, Entry, Freed
<1>5. Alike(root[s], root[s], 0)
  <2>1. At(root[s], 0, s, lev, own)
    BY Path
  <2>2. root[s] # x
    BY <1>1, <1>2, <2>1 DEF At
  <2>. QED  BY <2>1, <2>2
<1>6. Alike(Pdpt(r, s, v), Pdpt(m, s, v), 1)
  BY <1>1, <1>3, <1>5, Path DEF Pdpt
<1>7. Alike(Pd(r, s, v), Pd(m, s, v), 2)
  BY <1>1, <1>3, <1>6, Path DEF Pd
<1>8. Alike(Pt(r, s, v), Pt(m, s, v), 3)
  BY <1>1, <1>3, <1>7, Path DEF Pt
<1>. QED  BY <1>1, <1>4, <1>8 DEF Walk

\* unmap_page_entry is about to free the table that entry i of table t leads to.
Removable(st, s, lev, own, t, i) ==
    /\ Good(st, s, lev, own, st.mem[t][i])
    /\ t \in Tables /\ lev[t] \in 0..2 /\ own[t] = s /\ i \in Index
    /\ st.mem[t][i] # ABSENT
    /\ lev[st.mem[t][i]] = 3 \/ \A j \in Index : st.mem[st.mem[t][i]][j] = ABSENT

\* It has freed that table, and nothing else changed.
Removed(st, r, s, lev, own, t, i) ==
    /\ Good(r, s, [lev EXCEPT ![st.mem[t][i]] = 4], own, t)
    /\ Freed(st.mem, r.mem, t, i, st.mem[t][i])
    /\ FewerWalks(st.mem, r.mem)

\* One level of unmap_page_entry keeps the tables in order.
LEMMA OneLevelLess ==
    ASSUME NEW st, NEW s \in AllSpaces, NEW lev, NEW own, NEW t, NEW i,
           Removable(st, s, lev, own, t, i)
    PROVE  Removed(st, WithoutTable(st, t, i), s, lev, own, t, i)
<1>. DEFINE x == st.mem[t][i]
            l2 == [lev EXCEPT ![x] = 4]
            r == WithoutTable(st, t, i)
<1>1. /\ st \in St /\ Tree(st.mem, st.pool, lev, own) /\ Labels(lev, own)
      /\ Filled(st.mem, lev, x) /\ ABSENT \notin Tables
      /\ \A q \in AllSpaces : Listed(IF q = s THEN st.list ELSE memory_list[q], q, lev, own)
      /\ t \in Tables /\ lev[t] \in 0..2 /\ own[t] = s /\ i \in Index /\ x # ABSENT
      /\ lev[x] = 3 \/ \A j \in Index : st.mem[x][j] = ABSENT
  BY PagingAssumption DEF Removable, Good, Tree
<1>2. x \in Tables /\ lev[x] = lev[t] + 1 /\ own[x] = s /\ x \in Nat
  BY <1>1, PagingAssumption DEF Tree, Downward
<1>3. lev[x] \in 1..3 /\ x # t
  BY <1>1, <1>2
<1>4. /\ r.mem = [st.mem EXCEPT ![x] = Junk(x), ![t][i] = ABSENT]
      /\ r.pool = st.pool \cup {x} /\ r.list = vector_erase_value(st.list, x)
      /\ r = [mem |-> r.mem, pool |-> r.pool, list |-> r.list]
  BY DEF WithoutTable
<1>5. st.mem \in Contents /\ st.pool \in SUBSET Tables
  BY <1>1 DEF St
<1>. HIDE DEF x, l2, r
<1>0. x = st.mem[t][i] /\ l2 = [lev EXCEPT ![x] = 4]
  BY DEF x, l2
<1>6. r.mem \in Contents /\ Freed(st.mem, r.mem, t, i, x)
  BY <1>1, <1>2, <1>3, <1>4, <1>5, FreedMemory
<1>7. Tree(r.mem, r.pool, l2, own)
  <2>1. /\ Tree(st.mem, st.pool, lev, own) /\ t \in Tables /\ i \in Index /\ lev[t] \in 0..2
        /\ x # ABSENT /\ Freed(st.mem, r.mem, t, i, x)
    BY <1>1, <1>6
  <2>2. lev[x] = 3 \/ \A j \in Index : st.mem[x][j] = ABSENT
    BY <1>1
  <2>3. Tree(r.mem, st.pool \cup {x}, [lev EXCEPT ![x] = 4], own)
    BY <1>0, <1>5, <2>1, <2>2, FreedTree
  <2>. QED  BY <1>0, <1>4, <2>3
<1>8. ASSUME NEW q \in AllSpaces
      PROVE  Listed(IF q = s THEN r.list ELSE memory_list[q], q, l2, own)
  <2>1. CASE q = s
    <3>1. Listed(st.list, s, lev, own)
      BY <1>1
    <3>2. Listed(vector_erase_value(st.list, x), s, l2, own)
      BY <1>0, <1>1, <1>2, <1>3, <3>1, ErasedListed
    <3>. QED  BY <1>4, <2>1, <3>2
  <2>2. CASE q # s
    <3>1. Listed(memory_list[q], q, lev, own)
      BY <1>1, <2>2
    <3>2. Listed(memory_list[q], q, l2, own)
      BY <1>0, <1>1, <1>2, <1>3, <2>2, <3>1, ErasedListed
    <3>. QED  BY <2>2, <3>2
  <2>. QED  BY <2>1, <2>2
<1>9. r \in St
  <2>1. r.list \in Seq(Tables)
    BY <1>8 DEF Listed
  <2>. QED  BY <1>1, <1>2, <1>4, <1>6, <2>1 DEF St
<1>10. Filled(r.mem, l2, t)
  <2>. SUFFICES ASSUME NEW u \in Tables, l2[u] \in 1..3, u # t
                PROVE  \E j \in Index : r.mem[u][j] # ABSENT
    BY DEF Filled
  <2>1. u # x /\ lev[u] \in 1..3
    BY <1>0, <1>1, <1>2 DEF Labels
  <2>2. PICK j \in Index : st.mem[u][j] # ABSENT
    BY <1>1, <2>1 DEF Filled
  <2>. QED  BY <1>6, <2>1, <2>2 DEF Freed
<1>11. FewerWalks(st.mem, r.mem)
  BY <1>0, <1>1, <1>5, <1>6, FreedWalk
<1>12. Good(r, s, l2, own, t)
  BY <1>7, <1>8, <1>9, <1>10 DEF Good
<1>. QED  BY <1>0, <1>6, <1>11, <1>12 DEF Removed, r

\* A directory whose scan finds an entry is not empty.
LEMMA NotEmpty ==
    ASSUME NEW m \in Contents, NEW t \in Tables
    PROVE  m[t] = EmptyTable <=> \A i \in Index : m[t][i] = ABSENT
  BY DEF Contents, EmptyTable

\* unmap_page_entry keeps the tables in order and makes no translation.
LEMMA UnmappedEffect ==
    ASSUME TypeOK, TablesInv, NEW s \in AllSpaces, NEW v \in Pages, Walk(mem, s, v) # ABSENT
    PROVE  /\ \E lev, own : Good(Unmapped(s, v), s, lev, own, ABSENT)
           /\ FewerWalks(mem, Unmapped(s, v).mem)
<1>. DEFINE pdpt == Pdpt(mem, s, v)
            pd == Pd(mem, s, v)
            pt == Pt(mem, s, v)
            m1 == [mem EXCEPT ![pt][Pte(v)] = ABSENT]
            a == [Storage(s) EXCEPT !.mem[pt][Pte(v)] = ABSENT]
            b == WithoutTable(a, pd, Pde(v))
            c == IF b.mem[pd] = EmptyTable THEN WithoutTable(b, pdpt, Pdpe(v)) ELSE b
            d == IF b.mem[pd] = EmptyTable /\ c.mem[pdpt] = EmptyTable
                 THEN WithoutTable(c, root[s], Pml4e(v)) ELSE c
<1>0. Unmapped(s, v) = d
  BY DEF Unmapped
<1>1. /\ Pml4e(v) \in Index /\ Pdpe(v) \in Index /\ Pde(v) \in Index /\ Pte(v) \in Index
      /\ ABSENT \notin Tables /\ ABSENT \notin Nat
  BY Digits, PagingAssumption
<1>2. PICK lev, own : /\ Tree(mem, pool, lev, own) /\ Filled(mem, lev, ABSENT)
                      /\ \A q \in AllSpaces : Listed(memory_list[q], q, lev, own)
  BY DEF TablesInv
<1>3. /\ At(root[s], 0, s, lev, own) /\ At(pdpt, 1, s, lev, own)
      /\ At(pd, 2, s, lev, own) /\ At(pt, 3, s, lev, own)
  BY <1>2, Path
<1>4. pt # ABSENT /\ pd # ABSENT /\ pdpt # ABSENT /\ root[s] # ABSENT
  BY DEF Walk, Pt, Pd, Pdpt, Entry
<1>5. /\ mem[root[s]][Pml4e(v)] = pdpt /\ mem[pdpt][Pdpe(v)] = pd /\ mem[pd][Pde(v)] = pt
  BY <1>4 DEF Pt, Pd, Pdpt, Entry
<1>6. /\ root[s] \in Tables /\ lev[root[s]] = 0 /\ own[root[s]] = s
      /\ pdpt \in Tables /\ lev[pdpt] = 1 /\ own[pdpt] = s
      /\ pd \in Tables /\ lev[pd] = 2 /\ own[pd] = s
      /\ pt \in Tables /\ lev[pt] = 3 /\ own[pt] = s
  BY <1>3, <1>4 DEF At
<1>7. mem \in Contents
  BY DEF TypeOK, Contents
<1>8. Storage(s) = [mem |-> mem, pool |-> pool, list |-> memory_list[s]]
  BY DEF Storage
<1>9. a.mem = m1 /\ a.pool = pool /\ a.list = memory_list[s]
      /\ a = [mem |-> m1, pool |-> pool, list |-> memory_list[s]]
  BY <1>8
<1>. HIDE DEF pdpt, pd, pt, m1, a, d
<1>10. /\ m1 \in Contents /\ Tree(m1, pool, lev, own) /\ Filled(m1, lev, pt)
       /\ \A r \in AllSpaces, u \in Pages : <<r, u>> # <<s, v>> => Walk(m1, r, u) = Walk(mem, r, u)
       /\ Walk(m1, s, v) = ABSENT
  <2>1. pt = Pt(mem, s, v)
    BY DEF pt
  <2>2. LeafSetting(mem, pool, lev, own, s, v, ABSENT, pt, m1)
    BY <1>2, <1>4, <1>7, <2>1 DEF LeafSetting, m1
  <2>3. m1 \in Contents /\ Tree(m1, pool, lev, own) /\ LeafChanged(mem, m1, s, v, ABSENT, lev)
    BY <2>2, LeafSet
  <2>. QED  BY <1>2, <2>1, <2>3 DEF LeafChanged
<1>11. FewerWalks(mem, m1)
  BY <1>10 DEF FewerWalks
<1>12. m1[root[s]][Pml4e(v)] = pdpt /\ m1[pdpt][Pdpe(v)] = pd /\ m1[pd][Pde(v)] = pt
  BY <1>5, <1>6, <1>7, <1>1 DEF m1, Contents
<1>13. a \in St
  BY <1>2, <1>9, <1>10 DEF St, TypeOK
<1>14. Good(a, s, lev, own, pt)
  BY <1>2, <1>9, <1>10, <1>13 DEF Good
<1>15. Removable(a, s, lev, own, pd, Pde(v))
  BY <1>1, <1>4, <1>6, <1>9, <1>12, <1>14 DEF Removable
<1>. HIDE DEF b
<1>16. b = WithoutTable(a, pd, Pde(v))
  BY Zenon DEF b
<1>17. Removed(a, b, s, lev, own, pd, Pde(v))
  BY <1>15, <1>16, OneLevelLess
<1>. DEFINE lb == [lev EXCEPT ![pt] = 4]
<1>18. Good(b, s, lb, own, pd) /\ Freed(m1, b.mem, pd, Pde(v), pt) /\ FewerWalks(m1, b.mem)
  BY <1>9, <1>12, <1>17 DEF Removed
<1>. HIDE DEF lb
<1>19. lb[root[s]] = 0 /\ lb[pdpt] = 1 /\ lb[pd] = 2
  BY <1>2, <1>6 DEF lb, Tree, Labels
<1>20. b.mem[root[s]][Pml4e(v)] = pdpt /\ b.mem[pdpt][Pdpe(v)] = pd
  BY <1>1, <1>6, <1>12, <1>18 DEF Freed
<1>21. FewerWalks(mem, b.mem)
  BY <1>11, <1>18 DEF FewerWalks
<1>22. b.mem \in Contents
  BY <1>18 DEF Good, St
<1>. HIDE DEF c
<1>23. CASE b.mem[pd] # EmptyTable
  <2>1. c = b
    BY <1>23 DEF c
  <2>2. d = b
    BY <1>23, <2>1 DEF d
  <2>3. Filled(b.mem, lb, ABSENT)
    BY <1>6, <1>18, <1>22, <1>23, NotEmpty DEF Good, Filled
  <2>4. Good(b, s, lb, own, ABSENT)
    BY <1>18, <2>3 DEF Good
  <2>. QED  BY <1>0, <1>21, <2>2, <2>4
<1>24. CASE b.mem[pd] = EmptyTable
  <2>. DEFINE lc == [lb EXCEPT ![pd] = 4]
  <2>1. c = WithoutTable(b, pdpt, Pdpe(v))
    BY <1>24 DEF c
  <2>2. Removable(b, s, lb, own, pdpt, Pdpe(v))
    <3>1. \A j \in Index : b.mem[pd][j] = ABSENT
      BY <1>6, <1>22, <1>24, NotEmpty
    <3>. QED  BY <1>1, <1>4, <1>6, <1>18, <1>19, <1>20, <3>1 DEF Removable
  <2>3. Removed(b, c, s, lb, own, pdpt, Pdpe(v))
    BY <2>1, <2>2, OneLevelLess
  <2>4. Good(c, s, lc, own, pdpt) /\ Freed(b.mem, c.mem, pdpt, Pdpe(v), pd) /\ FewerWalks(b.mem, c.mem)
    BY <1>20, <2>3 DEF Removed
  <2>. HIDE DEF lc
  <2>5. lc[root[s]] = 0 /\ lc[pdpt] = 1
    BY <1>6, <1>18, <1>19 DEF lc, Good, Tree, Labels
  <2>6. c.mem[root[s]][Pml4e(v)] = pdpt
    BY <1>1, <1>6, <1>19, <1>20, <2>4 DEF Freed
  <2>7. FewerWalks(mem, c.mem)
    BY <1>21, <2>4 DEF FewerWalks
  <2>8. c.mem \in Contents
    BY <2>4 DEF Good, St
  <2>9. CASE c.mem[pdpt] # EmptyTable
    <3>1. d = c
      BY <2>9 DEF d
    <3>2. Filled(c.mem, lc, ABSENT)
      BY <1>6, <2>4, <2>8, <2>9, NotEmpty DEF Good, Filled
    <3>3. Good(c, s, lc, own, ABSENT)
      BY <2>4, <3>2 DEF Good
    <3>. QED  BY <1>0, <2>7, <3>1, <3>3
  <2>10. CASE c.mem[pdpt] = EmptyTable
    <3>. DEFINE ld == [lc EXCEPT ![pdpt] = 4]
    <3>1. d = WithoutTable(c, root[s], Pml4e(v))
      BY <1>24, <2>10 DEF d
    <3>2. Removable(c, s, lc, own, root[s], Pml4e(v))
      <4>1. \A j \in Index : c.mem[pdpt][j] = ABSENT
        BY <1>6, <2>8, <2>10, NotEmpty
      <4>. QED  BY <1>1, <1>4, <1>6, <2>4, <2>5, <2>6, <4>1 DEF Removable
    <3>3. Removed(c, d, s, lc, own, root[s], Pml4e(v))
      BY <3>1, <3>2, OneLevelLess
    <3>4. Good(d, s, ld, own, root[s]) /\ FewerWalks(c.mem, d.mem)
      BY <2>6, <3>3 DEF Removed
    <3>. HIDE DEF ld
    <3>5. ld[root[s]] = 0
      BY <1>6, <2>4, <2>5 DEF ld, Good, Tree, Labels
    <3>6. Filled(d.mem, ld, ABSENT)
      BY <3>4, <3>5 DEF Good, Filled
    <3>7. Good(d, s, ld, own, ABSENT)
      BY <3>4, <3>6 DEF Good
    <3>8. FewerWalks(mem, d.mem)
      BY <2>7, <3>4 DEF FewerWalks
    <3>. QED  BY <1>0, <3>7, <3>8
  <2>. QED  BY <2>9, <2>10
<1>. QED  BY <1>23, <1>24

(* ------------------------------------------------------------------------ *)
(* Steps that leave the tables alone, and new spaces                        *)

\* A step that changes no table changes no translation.
LEMMA WalkPrimed ==
    ASSUME root' = root, NEW s \in AllSpaces, NEW v \in Pages
    PROVE  Walk(mem, s, v)' = Walk(mem', s, v)
  BY DEF Walk, Pt, Pd, Pdpt, Entry

\* The tables stay in order when nobody touches them.
LEMMA TablesStutter ==
    ASSUME TablesInv, UNCHANGED <<pool, mem, root, memory_list>>
    PROVE  TablesInv'
<1>1. PICK lev, own : /\ Tree(mem, pool, lev, own) /\ Filled(mem, lev, ABSENT)
                      /\ \A s \in AllSpaces : Listed(memory_list[s], s, lev, own)
  BY DEF TablesInv
<1>2. Tree(mem, pool, lev, own)'
  BY <1>1 DEF Tree, Rooted
<1>3. Filled(mem, lev, ABSENT)' /\ \A s \in AllSpaces : Listed(memory_list[s], s, lev, own)'
  BY <1>1 DEF Filled, Listed
<1>. QED  BY <1>2, <1>3 DEF TablesInv

\* What a space without tables is translated to.
NewSpaceDone(s) ==
    /\ TablesInv'
    /\ pool' \in SUBSET Tables /\ mem' \in Contents /\ root' \in [AllSpaces -> Tables \cup {ABSENT}]
    /\ root'[s] # ABSENT /\ \A r \in AllSpaces : root[r] # ABSENT => root'[r] # ABSENT
    /\ \A r \in AllSpaces, v \in Pages : Walk(mem, r, v)' = Walk(mem, r, v)
    /\ \A v \in Pages : Walk(mem, s, v)' = ABSENT

\* A PML4 that is taken and zeroed is private and translates nothing.
LEMMA NewRootEffect ==
    ASSUME TypeOK, TablesInv, NEW s \in AllSpaces, NewRoot(s), memory_list' = memory_list
    PROVE  NewSpaceDone(s)
<1>1. PICK t : t = PmGet(pool)
  OBVIOUS
<1>2. /\ root[s] = ABSENT /\ root' = [root EXCEPT ![s] = t]
      /\ pool' = pool \ {t} /\ mem' = [mem EXCEPT ![t] = EmptyTable]
      /\ t \in pool /\ t \in Tables /\ ABSENT \notin Tables /\ t # ABSENT
      /\ root \in [AllSpaces -> Tables \cup {ABSENT}] /\ mem \in Contents
  BY <1>1, PmGetFree, PagingAssumption DEF NewRoot, TypeOK, Contents
<1>3. PICK lev, own : /\ Tree(mem, pool, lev, own) /\ Filled(mem, lev, ABSENT)
                      /\ \A r \in AllSpaces : Listed(memory_list[r], r, lev, own)
  BY DEF TablesInv
<1>. DEFINE l2 == [lev EXCEPT ![t] = 0]
            o2 == [own EXCEPT ![t] = s]
<1>4. lev \in [Tables -> 0..4] /\ own \in [Tables -> AllSpaces] /\ lev[t] = 4
  BY <1>2, <1>3 DEF Tree, Labels
<1>5. /\ l2 \in [Tables -> 0..4] /\ o2 \in [Tables -> AllSpaces] /\ l2[t] = 0 /\ o2[t] = s
      /\ \A u \in Tables \ {t} : l2[u] = lev[u] /\ o2[u] = own[u]
  BY <1>2, <1>4
<1>6. /\ mem' \in Contents /\ \A i \in Index : mem'[t][i] = ABSENT
      /\ \A u \in Tables \ {t} : mem'[u] = mem[u]
  BY <1>2 DEF Contents, EmptyTable
<1>7. /\ root'[s] = t /\ \A r \in AllSpaces \ {s} : root'[r] = root[r]
      /\ root' \in [AllSpaces -> Tables \cup {ABSENT}]
  BY <1>2
<1>. HIDE DEF l2, o2
<1>8. \A u \in Tables, i \in Index : lev[u] \in 0..2 => mem[u][i] # t
  BY <1>2, <1>3, <1>4 DEF Tree, Downward
<1>9. Tree(mem, pool, l2, o2)'
  <2>1. \A u \in Tables : u \in pool' <=> l2[u] = 4
    BY <1>2, <1>3, <1>5 DEF Tree
  <2>2. Rooted(l2, o2)'
    <3>1. \A r \in AllSpaces : root'[r] # ABSENT =>
             root'[r] \in Tables /\ l2[root'[r]] = 0 /\ o2[root'[r]] = r
      BY <1>2, <1>3, <1>4, <1>5, <1>7 DEF Tree, Rooted
    <3>2. \A u \in Tables : l2[u] = 0 => root'[o2[u]] = u
      <4>. SUFFICES ASSUME NEW u \in Tables, l2[u] = 0 PROVE root'[o2[u]] = u
        OBVIOUS
      <4>1. CASE u = t
        BY <1>5, <1>7, <4>1
      <4>2. CASE u # t
        <5>1. root[own[u]] = u /\ own[u] \in AllSpaces
          BY <1>3, <1>4, <1>5, <4>2 DEF Tree, Rooted
        <5>2. own[u] # s
          BY <1>2, <5>1, PagingAssumption
        <5>. QED  BY <1>5, <1>7, <4>2, <5>1, <5>2
      <4>. QED  BY <4>1, <4>2
    <3>. QED  BY <3>1, <3>2 DEF Rooted
  <2>3. Downward(mem', l2, o2)
    <3>. SUFFICES ASSUME NEW u \in Tables, NEW i \in Index, l2[u] \in 0..2, mem'[u][i] # ABSENT
                  PROVE  /\ mem'[u][i] \in Tables
                         /\ l2[mem'[u][i]] = l2[u] + 1 /\ o2[mem'[u][i]] = o2[u]
      BY DEF Downward
    <3>1. u # t /\ lev[u] \in 0..2 /\ mem'[u][i] = mem[u][i]
      BY <1>5, <1>6
    <3>2. mem[u][i] \in Tables /\ lev[mem[u][i]] = lev[u] + 1 /\ own[mem[u][i]] = own[u]
      BY <1>3, <3>1 DEF Tree, Downward
    <3>. QED  BY <1>5, <1>8, <3>1, <3>2
  <2>4. OneParent(mem', l2)
    <3>. SUFFICES ASSUME NEW u \in Tables, NEW w \in Tables, NEW i \in Index, NEW j \in Index,
                         l2[u] \in 0..2, l2[w] \in 0..2, mem'[u][i] # ABSENT, mem'[u][i] = mem'[w][j]
                  PROVE  u = w /\ i = j
      BY DEF OneParent
    <3>1. u # t /\ w # t
      BY <1>6
    <3>. QED  BY <1>3, <1>5, <1>6, <3>1 DEF Tree, OneParent
  <2>5. HasParent(mem', l2)
    <3>. SUFFICES ASSUME NEW x \in Tables, l2[x] \in 1..3
                  PROVE  \E u \in Tables, i \in Index : l2[u] \in 0..2 /\ mem'[u][i] = x
      BY DEF HasParent
    <3>1. lev[x] \in 1..3
      BY <1>5
    <3>2. PICK u \in Tables, i \in Index : lev[u] \in 0..2 /\ mem[u][i] = x
      BY <1>3, <3>1 DEF Tree, HasParent
    <3>3. u # t
      BY <1>4, <3>2
    <3>. QED  BY <1>5, <1>6, <3>2, <3>3
  <2>. QED  BY <1>5, <2>1, <2>2, <2>3, <2>4, <2>5 DEF Tree, Labels
<1>10. \A r \in AllSpaces : Listed(memory_list[r], r, l2, o2)
  <2>. TAKE r \in AllSpaces
  <2>1. Listed(memory_list[r], r, lev, own)
    BY <1>3
  <2>2. memory_list[r] \in Seq(Tables)
    BY <2>1 DEF Listed
  <2>3. \A i \in 1..Len(memory_list[r]) : memory_list[r][i] \in Tables
    BY <2>2
  <2>. QED  BY <1>4, <1>5, <2>1, <2>3 DEF Listed
<1>11. Filled(mem', l2, ABSENT)
  <2>. SUFFICES ASSUME NEW u \in Tables, l2[u] \in 1..3 PROVE \E i \in Index : mem'[u][i] # ABSENT
    BY DEF Filled
  <2>1. u # t /\ lev[u] \in 1..3 /\ u # ABSENT
    BY <1>2, <1>5
  <2>. QED  BY <1>3, <1>6, <2>1 DEF Filled
<1>12. TablesInv'
  BY <1>9, <1>10, <1>11 DEF TablesInv
<1>13. \A v \in Pages : Walk(mem, s, v) = ABSENT
  BY <1>2 DEF Walk, Pt, Pd, Pdpt, Entry
<1>14. ASSUME NEW v \in Pages PROVE Walk(mem, s, v)' = ABSENT
  <2>1. Pml4e(v) \in Index
    BY Digits
  <2>. QED  BY <1>2, <1>6, <1>7, <2>1 DEF Walk, Pt, Pd, Pdpt, Entry
<1>15. ASSUME NEW r \in AllSpaces \ {s}, NEW v \in Pages PROVE Walk(mem, r, v)' = Walk(mem, r, v)
  <2>1. /\ At(root[r], 0, r, lev, own) /\ At(Pdpt(mem, r, v), 1, r, lev, own)
        /\ At(Pd(mem, r, v), 2, r, lev, own) /\ At(Pt(mem, r, v), 3, r, lev, own)
    BY <1>3, Path
  <2>2. \A w, k, j : k \in 0..3 /\ At(w, k, r, lev, own) => Entry(mem', w, j) = Entry(mem, w, j)
    BY <1>4, <1>6 DEF At, Entry
  <2>3. Entry(mem', root[r], Pml4e(v)) = Pdpt(mem, r, v)
    BY <2>1, <2>2, 0 \in 0..3 DEF Pdpt
  <2>4. Entry(mem', Pdpt(mem, r, v), Pdpe(v)) = Pd(mem, r, v)
    BY <2>1, <2>2, 1 \in 0..3 DEF Pd
  <2>5. Entry(mem', Pd(mem, r, v), Pde(v)) = Pt(mem, r, v)
    BY <2>1, <2>2, 2 \in 0..3 DEF Pt
  <2>6. Entry(mem', Pt(mem, r, v), Pte(v)) = Walk(mem, r, v)
    BY <2>1, <2>2, 3 \in 0..3 DEF Walk
  <2>7. Walk(mem, r, v)' = Entry(mem', Entry(mem', Entry(mem', Entry(mem', root'[r], Pml4e(v)), Pdpe(v)), Pde(v)), Pte(v))
    BY DEF Walk, Pt, Pd, Pdpt, Entry
  <2>. QED  BY <1>7, <2>3, <2>4, <2>5, <2>6, <2>7
<1>16. pool' \in SUBSET Tables
  BY <1>2 DEF TypeOK
<1>17. \A r \in AllSpaces, v \in Pages : Walk(mem, r, v)' = Walk(mem, r, v)
  BY <1>13, <1>14, <1>15
<1>18. root'[s] # ABSENT /\ \A r \in AllSpaces : root[r] # ABSENT => root'[r] # ABSENT
  BY <1>2, <1>7
<1>. QED  BY <1>6, <1>7, <1>12, <1>14, <1>16, <1>17, <1>18 DEF NewSpaceDone

(* ------------------------------------------------------------------------ *)
(* The calls under way                                                      *)

\* The ranges that are left after the first page of the first range.
Advanced(old, new) ==
    \/ /\ old[1].n = 1
       /\ Len(new) = Len(old) - 1
       /\ \A i \in 1..Len(new) : new[i] = old[i + 1]
    \/ /\ old[1].n > 1
       /\ Len(new) = Len(old)
       /\ new[1] = [old[1] EXCEPT !.n = @ - 1, !.virt = @ + 1, !.phys = @ + 1]
       /\ \A i \in 2..Len(new) : new[i] = old[i]

\* The fields of a call.
LEMMA CallFields ==
    ASSUME NEW c \in CallRecord
    PROVE  /\ c = [op |-> c.op, space |-> c.space, virt |-> c.virt, n |-> c.n, phys |-> c.phys]
           /\ c.op \in {"map", "unmap"} /\ c.space \in AllSpaces
           /\ c.virt \in Pages /\ c.virt \in Nat /\ c.n \in Nat \ {0} /\ c.phys \in Nat
  BY PagingAssumption DEF CallRecord, Pages

\* The same call one page further.
LEMMA NextPage ==
    ASSUME NEW c \in CallRecord
    PROVE  [c EXCEPT !.n = @ - 1, !.virt = @ + 1, !.phys = @ + 1] =
             [op |-> c.op, space |-> c.space, virt |-> c.virt + 1, n |-> c.n - 1, phys |-> c.phys + 1]
<1>1. PICK o, s, v, k, p : c = [op |-> o, space |-> s, virt |-> v, n |-> k, phys |-> p]
  BY CallFields
<1>2. c.op = o /\ c.space = s /\ c.virt = v /\ c.n = k /\ c.phys = p
  BY <1>1
<1>3. PICK d : d = [c EXCEPT !.n = @ - 1]
  OBVIOUS
<1>4. PICK e : e = [d EXCEPT !.virt = @ + 1]
  OBVIOUS
<1>5. d = [op |-> o, space |-> s, virt |-> v, n |-> k - 1, phys |-> p]
  BY <1>1, <1>3
<1>6. e = [op |-> o, space |-> s, virt |-> v + 1, n |-> k - 1, phys |-> p]
  BY <1>4, <1>5
<1>7. [e EXCEPT !.phys = @ + 1] = [op |-> o, space |-> s, virt |-> v + 1, n |-> k - 1, phys |-> p + 1]
  BY <1>6
<1>8. [e EXCEPT !.phys = @ + 1] = [c EXCEPT !.n = @ - 1, !.virt = @ + 1, !.phys = @ + 1]
  BY <1>3, <1>4
<1>. QED  BY <1>2, <1>7, <1>8

\* The loop of a call goes on with the next page of its range, or to the next range.
LEMMA RestEffect ==
    ASSUME TypeOK, CallsInv, todo # <<>>
    PROVE  Rest \in Seq(CallRecord) /\ Advanced(todo, Rest)
<1>. DEFINE c == Head(todo)
            F == ENTRIES*ENTRIES*ENTRIES*ENTRIES
            next == [c EXCEPT !.n = @ - 1, !.virt = @ + 1, !.phys = @ + 1]
<1>1. todo \in Seq(CallRecord) /\ Len(todo) \in Nat /\ Len(todo) >= 1 /\ c = todo[1]
  BY DEF TypeOK
<1>2. /\ c \in CallRecord /\ Tail(todo) \in Seq(CallRecord) /\ Len(Tail(todo)) = Len(todo) - 1
      /\ \A i \in 1..Len(todo)-1 : Tail(todo)[i] = todo[i + 1]
  BY <1>1
<1>3. c.n \in Nat \ {0} /\ c.phys \in Nat /\ c.virt \in Nat /\ c.virt + c.n <= F /\ F \in Nat
  BY <1>1, <1>2, PagingAssumption DEF CallRecord, Pages, CallsInv
<1>. HIDE DEF c
<1>4. CASE ~(c.n > 1)
  <2>1. Rest = Tail(todo)
    BY <1>4 DEF Rest, c
  <2>2. c.n = 1
    BY <1>3, <1>4
  <2>. QED  BY <1>1, <1>2, <2>1, <2>2 DEF Advanced
<1>5. CASE c.n > 1
  <2>1. Rest = <<next>> \o Tail(todo)
    BY <1>5 DEF Rest, c
  <2>2. next = [op |-> c.op, space |-> c.space, virt |-> c.virt + 1, n |-> c.n - 1, phys |-> c.phys + 1]
    BY <1>2, NextPage
  <2>3. c.virt + 1 \in Pages
    <3>. HIDE DEF F
    <3>1. c.virt + 1 \in 0..F-1
      BY <1>3, <1>5
    <3>. QED  BY <3>1 DEF Pages, F
  <2>4. next \in CallRecord
    <3>1. c.n - 1 \in Nat \ {0} /\ c.phys + 1 \in Nat /\ c.op \in {"map", "unmap"} /\ c.space \in AllSpaces
      BY <1>2, <1>3, <1>5, CallFields
    <3>. QED  BY <2>2, <2>3, <3>1 DEF CallRecord
  <2>. HIDE DEF next
  <2>5. <<next>> \in Seq(CallRecord) /\ Len(<<next>>) = 1 /\ <<next>>[1] = next
    BY <2>4
  <2>. DEFINE r == Tail(todo)
  <2>6. /\ r \in Seq(CallRecord) /\ Len(r) = Len(todo) - 1
        /\ \A i \in 1..Len(todo)-1 : r[i] = todo[i + 1]
    BY <1>2
  <2>. HIDE DEF r
  <2>7. <<next>> \o r \in Seq(CallRecord) /\ Len(<<next>> \o r) = 1 + Len(r) /\ (<<next>> \o r)[1] = next
    BY ONLY <2>4, <2>6
  <2>8. \A i \in 1..Len(r) : (<<next>> \o r)[1 + i] = r[i]
    BY ONLY <2>4, <2>6
  <2>9. \A i \in 2..Len(todo) : (<<next>> \o r)[i] = todo[i]
    <3>. TAKE i \in 2..Len(todo)
    <3>1. i - 1 \in 1..Len(r) /\ 1 + (i - 1) = i /\ (i - 1) + 1 = i
      BY <1>1, <2>6
    <3>. QED  BY <2>6, <2>8, <3>1
  <2>10. Rest = <<next>> \o r
    BY <2>1 DEF r
  <2>11. next = [todo[1] EXCEPT !.n = @ - 1, !.virt = @ + 1, !.phys = @ + 1]
    BY <1>1 DEF next
  <2>. QED  BY <1>1, <1>5, <2>6, <2>7, <2>9, <2>10, <2>11 DEF Advanced
<1>. QED  BY <1>4, <1>5

\* Every call that is left, as a call that was there, with its first page perhaps gone.
LEMMA AdvancedCall ==
    ASSUME NEW old \in Seq(CallRecord), NEW new \in Seq(CallRecord), old # <<>>, Advanced(old, new),
           NEW i \in 1..Len(new)
    PROVE  \E j \in 1..Len(old) :
              /\ new[i].op = old[j].op /\ new[i].space = old[j].space
              /\ new[i].virt + new[i].n = old[j].virt + old[j].n
              /\ j = (IF old[1].n = 1 THEN i + 1 ELSE i)
              /\ new[i] = old[j] \/ (i = 1 /\ j = 1 /\ old[1].n > 1)
<1>1. Len(old) \in Nat /\ Len(old) >= 1 /\ Len(new) \in Nat /\ old[1] \in CallRecord
  OBVIOUS
<1>2. CASE old[1].n = 1
  <2>1. i + 1 \in 1..Len(old) /\ new[i] = old[i + 1]
    BY <1>1, <1>2 DEF Advanced
  <2>. QED  BY <1>2, <2>1
<1>3. CASE old[1].n # 1 /\ i # 1
  <2>1. i \in 1..Len(old) /\ new[i] = old[i]
    BY <1>1, <1>3 DEF Advanced
  <2>. QED  BY <1>3, <2>1
<1>4. CASE old[1].n # 1 /\ i = 1
  <2>1. old[1].n > 1 /\ new[1] = [old[1] EXCEPT !.n = @ - 1, !.virt = @ + 1, !.phys = @ + 1]
    BY <1>4 DEF Advanced
  <2>2. new[1].op = old[1].op /\ new[1].space = old[1].space
        /\ new[1].virt + new[1].n = old[1].virt + old[1].n
    <3>1. new[1] = [op |-> old[1].op, space |-> old[1].space, virt |-> old[1].virt + 1,
                    n |-> old[1].n - 1, phys |-> old[1].phys + 1]
      BY <1>1, <2>1, NextPage
    <3>2. old[1].virt \in Nat /\ old[1].n \in Nat
      BY <1>1, CallFields
    <3>3. (old[1].virt + 1) + (old[1].n - 1) = old[1].virt + old[1].n
      BY <3>2
    <3>. QED  BY <3>1, <3>3
  <2>3. 1 \in 1..Len(old)
    BY <1>1
  <2>. QED  BY <1>4, <2>1, <2>2, <2>3
<1>. QED  BY <1>2, <1>3, <1>4

\* After one page the calls that are left still stay inside the address space.
LEMMA CallsAdvance ==
    ASSUME TypeOK, CallsInv, todo # <<>>, todo' = Rest, UNCHANGED <<status, root, global_mem_map, as>>
    PROVE  CallsInv' /\ todo' \in Seq(CallRecord)
<1>1. Rest \in Seq(CallRecord) /\ Advanced(todo, Rest) /\ todo \in Seq(CallRecord)
  BY RestEffect DEF TypeOK
<1>2. ASSUME NEW i \in 1..Len(todo')
      PROVE  \E j \in 1..Len(todo) : /\ todo'[i].op = todo[j].op /\ todo'[i].space = todo[j].space
                                     /\ todo'[i].virt + todo'[i].n = todo[j].virt + todo[j].n
  BY <1>1, AdvancedCall
<1>. DEFINE F == ENTRIES*ENTRIES*ENTRIES*ENTRIES
<1>3. /\ global_mem_map \in Seq(Mapping)
      /\ \A i \in 1..Len(todo) : todo[i].virt + todo[i].n <= F /\ root[todo[i].space] # ABSENT
      /\ as # ABSENT => /\ status # "boot" /\ root[as] # ABSENT
                        /\ \A i \in 1..Len(todo) : todo[i].space = as /\ todo[i].op = "map"
  BY DEF CallsInv
<1>. HIDE DEF F
<1>4. \A i \in 1..Len(todo') : todo'[i].virt + todo'[i].n <= F /\ root'[todo'[i].space] # ABSENT
  BY <1>2, <1>3
<1>5. as' # ABSENT => /\ status' # "boot" /\ root'[as'] # ABSENT
                      /\ \A i \in 1..Len(todo') : todo'[i].space = as' /\ todo'[i].op = "map"
  BY <1>2, <1>3
<1>. QED  BY <1>1, <1>3, <1>4, <1>5 DEF CallsInv, F

\* No range but the first is lost.
LEMMA AdvancedBack ==
    ASSUME NEW old \in Seq(CallRecord), NEW new \in Seq(CallRecord), old # <<>>, Advanced(old, new),
           NEW j \in 2..Len(old)
    PROVE  \E i \in 1..Len(new) : new[i] = old[j] /\ i = IF old[1].n = 1 THEN j - 1 ELSE j
<1>1. Len(old) \in Nat /\ Len(old) >= 1 /\ Len(new) \in Nat
  OBVIOUS
<1>2. CASE old[1].n = 1
  <2>1. j - 1 \in 1..Len(new) /\ (j - 1) + 1 = j
    BY <1>1, <1>2 DEF Advanced
  <2>2. new[j - 1] = old[j]
    BY <1>1, <1>2, <2>1 DEF Advanced
  <2>. QED  BY <1>2, <2>1, <2>2
<1>3. CASE old[1].n # 1
  <2>1. j \in 1..Len(new) /\ new[j] = old[j]
    BY <1>1, <1>3 DEF Advanced
  <2>. QED  BY <1>3, <2>1
<1>. QED  BY <1>2, <1>3

\* What the records say of a page is what the last record that covers it says.
LEMMA RecordedCases ==
    ASSUME global_mem_map \in Seq(Mapping), NEW v \in Pages
    PROVE  \/ /\ \A i \in 1..Len(global_mem_map) : ~Covers(global_mem_map[i], v)
              /\ Recorded(v) = ABSENT
           \/ \E i \in 1..Len(global_mem_map) :
                 /\ Covers(global_mem_map[i], v)
                 /\ \A j \in 1..Len(global_mem_map) : j > i => ~Covers(global_mem_map[j], v)
                 /\ Recorded(v) = global_mem_map[i].phys + v - global_mem_map[i].virt
<1>. DEFINE g == global_mem_map
            I == {i \in 1..Len(g) : Covers(g[i], v)}
            k == IF I # {} THEN Max(I) ELSE 0
<1>1. Recorded(v) = IF k = 0 THEN ABSENT ELSE g[k].phys + v - g[k].virt
  BY DEF Recorded, SelectLastInSubSeq, Covers
<1>2. CASE I = {}
  BY <1>1, <1>2
<1>3. CASE I # {}
  <2>1. Len(g) \in Nat /\ I \in SUBSET Nat /\ \A i \in I : i <= Len(g)
    OBVIOUS
  <2>2. PICK m \in I : \A i \in I : i <= m
    BY <1>3, <2>1, GreatestExists
  <2>3. Max(I) \in I /\ \A i \in I : i <= Max(I)
    <3>1. \A i \in I : m >= i
      BY <2>1, <2>2
    <3>2. Max(I) \in I /\ \A i \in I : Max(I) >= i
      BY <2>2, <3>1 DEF Max
    <3>. QED  BY <2>1, <3>2
  <2>4. k \in 1..Len(g) /\ Covers(g[k], v) /\ \A i \in I : i <= k
    BY <1>3, <2>3
  <2>5. \A j \in 1..Len(g) : j > k => ~Covers(g[j], v)
    BY <2>4
  <2>6. Recorded(v) = g[k].phys + v - g[k].virt
    BY <1>1, <2>4
  <2>. HIDE DEF k
  <2>. QED  BY <2>4, <2>5, <2>6
<1>. QED  BY <1>2, <1>3

\* Replaying the records makes one call for each of them, in their order.
LEMMA ReplayEffect ==
    ASSUME NEW g \in Seq(Mapping), NEW s \in AllSpaces
    PROVE  /\ Replay(g, s) \in Seq(CallRecord) /\ Len(Replay(g, s)) = Len(g)
           /\ \A i \in 1..Len(g) :
                 /\ Replay(g, s)[i].op = "map" /\ Replay(g, s)[i].space = s
                 /\ Replay(g, s)[i].virt = g[i].virt /\ Replay(g, s)[i].n = g[i].n
                 /\ Replay(g, s)[i].phys = g[i].phys
                 /\ g[i].virt + g[i].n <= ENTRIES*ENTRIES*ENTRIES*ENTRIES
<1>1. Len(g) \in Nat /\ \A i \in 1..Len(g) : g[i] \in Mapping
  OBVIOUS
<1>2. ASSUME NEW i \in 1..Len(g)
      PROVE  /\ Call("map", s, g[i], g[i].phys) \in CallRecord
             /\ g[i].virt + g[i].n <= ENTRIES*ENTRIES*ENTRIES*ENTRIES
  <2>1. g[i] \in [virt : Pages, n : Nat \ {0}, phys : Nat]
    BY <1>1 DEF Mapping
  <2>2. g[i].virt \in Pages /\ g[i].n \in Nat \ {0} /\ g[i].phys \in Nat
    BY <2>1
  <2>. QED  BY <1>1, <2>2 DEF Call, CallRecord, Mapping
<1>3. Replay(g, s) = [i \in 1..Len(g) |-> Call("map", s, g[i], g[i].phys)]
  BY DEF Replay
<1>. DEFINE r == Replay(g, s)
<1>. HIDE DEF r
<1>4. r \in [1..Len(g) -> CallRecord] /\ \A i \in 1..Len(g) : r[i] = Call("map", s, g[i], g[i].phys)
  BY <1>2, <1>3 DEF r
<1>5. r \in Seq(CallRecord) /\ Len(r) = Len(g)
  BY <1>1, <1>4
<1>6. \A i \in 1..Len(g) : /\ r[i].op = "map" /\ r[i].space = s /\ r[i].virt = g[i].virt
                           /\ r[i].n = g[i].n /\ r[i].phys = g[i].phys
  BY <1>4 DEF Call
<1>. QED  BY <1>2, <1>5, <1>6 DEF r

\* After one page, the space under way still misses only what the calls that are left map.
LEMMA PendingAdvance ==
    ASSUME TypeOK, CallsInv, Pending, as # ABSENT, todo # <<>>, todo' = Rest,
           UNCHANGED <<global_mem_map, as>>,
           \A v \in Pages : v # todo[1].virt => Walk(mem, as, v)' = Walk(mem, as, v),
           \A v \in Pages : v = todo[1].virt => Walk(mem, as, v)' = todo[1].phys
    PROVE  Pending'
<1>1. /\ todo' \in Seq(CallRecord) /\ todo \in Seq(CallRecord) /\ Advanced(todo, todo')
      /\ Len(todo) \in Nat /\ Len(todo) >= 1 /\ todo[1] \in CallRecord /\ Len(todo') \in Nat
  <2>1. todo' \in Seq(CallRecord) /\ todo \in Seq(CallRecord) /\ Advanced(todo, todo')
    BY RestEffect DEF TypeOK
  <2>. QED  BY <2>1
<1>2. \A v \in Pages : Recorded(v)' = Recorded(v)
  BY DEF Recorded, SelectLastInSubSeq, Max
<1>3. \A i \in 1..Len(todo) : /\ todo[i].virt \in Nat /\ todo[i].n \in Nat \ {0} /\ todo[i].phys \in Nat
                              /\ todo[i].virt \in Pages
  BY <1>1, CallFields
<1>. SUFFICES ASSUME NEW v \in Pages
              PROVE  /\ \A i \in 1..Len(todo') :
                           Covers(todo'[i], v) /\ (\A j \in 1..Len(todo') : j > i => ~Covers(todo'[j], v)) =>
                              todo'[i].phys + v - todo'[i].virt = Recorded(v)
                     /\ (\A i \in 1..Len(todo') : ~Covers(todo'[i], v)) => Walk(mem, as, v)' = Recorded(v)
  <2>1. ASSUME NEW v \in Pages,
               /\ \A i \in 1..Len(todo') :
                     Covers(todo'[i], v) /\ (\A j \in 1..Len(todo') : j > i => ~Covers(todo'[j], v)) =>
                        todo'[i].phys + v - todo'[i].virt = Recorded(v)
               /\ (\A i \in 1..Len(todo') : ~Covers(todo'[i], v)) => Walk(mem, as, v)' = Recorded(v)
        PROVE  /\ \A i \in 1..Len(todo') :
                     Covers(todo'[i], v) /\ (\A j \in 1..Len(todo') : j > i => ~Covers(todo'[j], v)) =>
                        todo'[i].phys + v - todo'[i].virt = Recorded(v)'
               /\ (\A i \in 1..Len(todo') : ~Covers(todo'[i], v)) => Walk(mem, as, v)' = Recorded(v)'
    BY <1>2, <2>1
  <2>. QED  BY <2>1, Zenon DEF Pending
<1>4. v \in Nat
  BY PagingAssumption DEF Pages
<1>5. /\ \A i \in 1..Len(todo) :
            Covers(todo[i], v) /\ (\A j \in 1..Len(todo) : j > i => ~Covers(todo[j], v)) =>
               todo[i].phys + v - todo[i].virt = Recorded(v)
      /\ (\A i \in 1..Len(todo) : ~Covers(todo[i], v)) => Walk(mem, as, v) = Recorded(v)
  BY DEF Pending
<1>6. todo[1].n > 1 =>
        /\ Len(todo') >= 1 /\ todo'[1].virt = todo[1].virt + 1 /\ todo'[1].n = todo[1].n - 1
        /\ todo'[1].phys = todo[1].phys + 1
  <2>. SUFFICES ASSUME todo[1].n > 1
                PROVE  /\ Len(todo') >= 1 /\ todo'[1].virt = todo[1].virt + 1
                       /\ todo'[1].n = todo[1].n - 1 /\ todo'[1].phys = todo[1].phys + 1
    OBVIOUS
  <2>1. Len(todo') >= 1 /\ todo'[1] = [todo[1] EXCEPT !.n = @ - 1, !.virt = @ + 1, !.phys = @ + 1]
    BY <1>1 DEF Advanced
  <2>2. todo'[1] = [op |-> todo[1].op, space |-> todo[1].space, virt |-> todo[1].virt + 1,
                    n |-> todo[1].n - 1, phys |-> todo[1].phys + 1]
    BY <1>1, <2>1, NextPage
  <2>. QED  BY <2>1, <2>2
<1>7. todo[1].n > 1 => (Covers(todo'[1], v) <=> Covers(todo[1], v) /\ v # todo[1].virt)
  BY <1>1, <1>3, <1>4, <1>6 DEF Covers
<1>8. todo[1].n = 1 => (Covers(todo[1], v) <=> v = todo[1].virt)
  BY <1>1, <1>3, <1>4 DEF Covers
<1>9. ASSUME NEW i \in 1..Len(todo'), Covers(todo'[i], v),
             \A j \in 1..Len(todo') : j > i => ~Covers(todo'[j], v)
      PROVE  todo'[i].phys + v - todo'[i].virt = Recorded(v)
  <2>1. PICK j \in 1..Len(todo) : /\ j = (IF todo[1].n = 1 THEN i + 1 ELSE i)
                                  /\ todo'[i] = todo[j] \/ (i = 1 /\ j = 1 /\ todo[1].n > 1)
    BY <1>1, AdvancedCall
  <2>2. Covers(todo[j], v)
    BY <1>7, <1>9, <2>1
  <2>3. \A q \in 1..Len(todo) : q > j => ~Covers(todo[q], v)
    <3>. SUFFICES ASSUME NEW q \in 1..Len(todo), q > j PROVE ~Covers(todo[q], v)
      OBVIOUS
    <3>1. q \in 2..Len(todo)
      BY <1>1
    <3>2. PICK p \in 1..Len(todo') : todo'[p] = todo[q] /\ p = IF todo[1].n = 1 THEN q - 1 ELSE q
      BY <1>1, <3>1, AdvancedBack
    <3>3. p > i
      BY <1>1, <2>1, <3>2
    <3>. QED  BY <1>9, <3>2, <3>3
  <2>4. todo[j].phys + v - todo[j].virt = Recorded(v)
    BY <1>5, <2>2, <2>3
  <2>5. CASE todo'[i] = todo[j]
    BY <2>4, <2>5
  <2>6. CASE i = 1 /\ j = 1 /\ todo[1].n > 1
    <3>1. todo[1].phys \in Nat /\ todo[1].virt \in Nat
      BY <1>1, CallFields
    <3>2. (todo[1].phys + 1) + v - (todo[1].virt + 1) = todo[1].phys + v - todo[1].virt
      <4>1. \A p, q, w \in Nat : (p + 1) + w - (q + 1) = p + w - q
        OBVIOUS
      <4>. QED  BY ONLY <1>4, <3>1, <4>1
    <3>3. todo'[1].phys = todo[1].phys + 1 /\ todo'[1].virt = todo[1].virt + 1
      BY <1>6, <2>6
    <3>. QED  BY <2>4, <2>6, <3>2, <3>3
  <2>. QED  BY <2>1, <2>5, <2>6
<1>10. ASSUME \A i \in 1..Len(todo') : ~Covers(todo'[i], v)
       PROVE  Walk(mem, as, v)' = Recorded(v)
  <2>1. \A q \in 1..Len(todo) : q > 1 => ~Covers(todo[q], v)
    <3>. SUFFICES ASSUME NEW q \in 1..Len(todo), q > 1 PROVE ~Covers(todo[q], v)
      OBVIOUS
    <3>1. q \in 2..Len(todo)
      BY <1>1
    <3>2. PICK p \in 1..Len(todo') : todo'[p] = todo[q]
      BY <1>1, <3>1, AdvancedBack
    <3>. QED  BY <1>10, <3>2
  <2>2. 1 \in 1..Len(todo) /\ todo[1].n \in Nat \ {0}
    BY <1>1, <1>3
  <2>3. CASE v = todo[1].virt
    <3>1. Covers(todo[1], v)
      BY <1>3, <1>4, <2>2, <2>3 DEF Covers
    <3>2. todo[1].phys + v - todo[1].virt = Recorded(v)
      BY <1>5, <2>1, <2>2, <3>1
    <3>3. todo[1].phys = Recorded(v)
      <4>1. todo[1].phys \in Nat /\ todo[1].virt \in Nat
        BY <1>1, CallFields
      <4>2. todo[1].phys + todo[1].virt - todo[1].virt = todo[1].phys
        BY <4>1
      <4>. QED  BY <2>3, <3>2, <4>2
    <3>. QED  BY <2>3, <3>3
  <2>4. CASE v # todo[1].virt
    <3>1. ~Covers(todo[1], v)
      <4>1. CASE todo[1].n = 1
        BY <1>8, <2>4, <4>1
      <4>2. CASE todo[1].n > 1
        <5>1. 1 \in 1..Len(todo')
          BY <1>1, <1>6, <4>2
        <5>. QED  BY <1>7, <1>10, <2>4, <4>2, <5>1
      <4>. QED  BY <2>2, <4>1, <4>2
    <3>2. \A q \in 1..Len(todo) : ~Covers(todo[q], v)
      BY <1>1, <2>1, <3>1
    <3>. QED  BY <1>5, <2>4, <3>2
  <2>. QED  BY <2>3, <2>4
<1>. QED  BY <1>9, <1>10

(* ------------------------------------------------------------------------ *)
(* Each action keeps the invariant                                          *)

\* The memory that a page leaves behind becomes the state of the tables.
LEMMA BecomeEffect ==
    ASSUME TypeOK, NEW s \in AllSpaces, NEW v \in Pages, NEW st,
           \E lev, own : Good(st, s, lev, own, ABSENT), Become(s, v, st)
    PROVE  /\ TablesInv'
           /\ pool' \subseteq Tables /\ mem' \in [Tables -> [Index -> Nat \cup {ABSENT}]]
           /\ memory_list' \in [AllSpaces -> Seq(Tables)]
           /\ tlb' \in [Pages -> Nat \cup {ABSENT}]
           /\ \A r \in AllSpaces, u \in Pages : Walk(mem, r, u)' = Walk(st.mem, r, u)
<1>1. PICK lev, own : Good(st, s, lev, own, ABSENT)
  OBVIOUS
<1>2. /\ mem' = st.mem /\ pool' = st.pool /\ memory_list' = [memory_list EXCEPT ![s] = st.list]
      /\ root' = root /\ tlb' = Invlpg(s, v)
  BY DEF Become
<1>3. st.mem \in Contents /\ st.pool \in SUBSET Tables /\ st.list \in Seq(Tables)
  BY <1>1 DEF Good, St
<1>4. memory_list' \in [AllSpaces -> Seq(Tables)]
  BY <1>2, <1>3 DEF TypeOK
<1>5. \A r \in AllSpaces : memory_list'[r] = IF r = s THEN st.list ELSE memory_list[r]
  BY <1>2 DEF TypeOK
<1>6. Tree(mem, pool, lev, own)'
  <2>1. Tree(st.mem, st.pool, lev, own)
    BY <1>1 DEF Good
  <2>. QED  BY <1>2, <2>1 DEF Tree, Rooted
<1>7. \A r \in AllSpaces : Listed(memory_list'[r], r, lev, own)
  BY <1>1, <1>5 DEF Good
<1>8. Filled(mem', lev, ABSENT)
  BY <1>1, <1>2 DEF Good
<1>9. TablesInv'
  BY <1>6, <1>7, <1>8 DEF TablesInv
<1>10. tlb' \in [Pages -> Nat \cup {ABSENT}]
  BY <1>2 DEF TypeOK, Invlpg
<1>11. \A r \in AllSpaces, u \in Pages : Walk(mem, r, u)' = Walk(st.mem, r, u)
  BY <1>2, WalkPrimed
<1>. QED  BY <1>2, <1>3, <1>4, <1>9, <1>10, <1>11 DEF Contents

\* invlpg forgets the page that changes, and what the CPU holds of other pages stays true.
LEMMA TlbStep ==
    ASSUME TypeOK, TlbInv, status # "halted", NEW s \in AllSpaces, NEW v \in Pages,
           tlb' = Invlpg(s, v), status' = status,
           \A u \in Pages : <<KERNEL, u>> # <<s, v>> => Walk(mem, KERNEL, u)' \in {Walk(mem, KERNEL, u), ABSENT}
    PROVE  TlbInv'
<1>1. /\ status = "boot" => \A u \in Pages : tlb[u] = ABSENT
      /\ \A u \in Pages : tlb[u] # ABSENT => Walk(mem, KERNEL, u) \in {tlb[u], ABSENT}
      /\ status \in {"boot", "up"} /\ tlb \in [Pages -> Nat \cup {ABSENT}]
  BY DEF TlbInv, TlbNeverContradicts, TypeOK
<1>2. status' = "boot" => \A u \in Pages : tlb'[u] = ABSENT
  BY <1>1 DEF Invlpg
<1>3. ASSUME NEW u \in Pages, tlb'[u] # ABSENT
      PROVE  Walk(mem, KERNEL, u)' \in {tlb'[u], ABSENT}
  <2>1. tlb'[u] = tlb[u] /\ <<KERNEL, u>> # <<s, v>>
    BY <1>1, <1>3 DEF Invlpg
  <2>2. Walk(mem, KERNEL, u) \in {tlb[u], ABSENT}
    BY <1>1, <1>3, <2>1
  <2>3. Walk(mem, KERNEL, u)' \in {Walk(mem, KERNEL, u), ABSENT}
    BY <2>1
  <2>. QED  BY <2>1, <2>2, <2>3
<1>. QED  BY <1>2, <1>3 DEF TlbInv, TlbNeverContradicts

\* The page that is next.
LEMMA CurrentCall ==
    ASSUME TypeOK, CallsInv, NEW op, Current(op)
    PROVE  LET c == Head(todo)
           IN  /\ todo # <<>> /\ Len(todo) \in Nat /\ Len(todo) >= 1 /\ c = todo[1] /\ status # "halted"
               /\ c.op = op /\ c.space \in AllSpaces /\ c.virt \in Pages /\ c.phys \in Nat
               /\ root[c.space] # ABSENT
               /\ as # ABSENT => c.space = as /\ op = "map"
<1>1. todo \in Seq(CallRecord) /\ todo # <<>> /\ Head(todo).op = op /\ status # "halted"
  BY DEF TypeOK, Current
<1>2. Len(todo) \in Nat /\ Len(todo) >= 1 /\ Head(todo) = todo[1] /\ todo[1] \in CallRecord
  BY <1>1
<1>3. 1 \in 1..Len(todo)
  BY <1>2
<1>. QED  BY <1>1, <1>2, <1>3, CallFields DEF CallsInv

\* map_page_entry
LEMMA MapPageStep == ASSUME PInv, MapPage PROVE PInv'
<1>. DEFINE c == Head(todo)
            st == Mapped(c.space, c.virt, c.phys)
<1>1. TypeOK /\ TablesInv /\ CallsInv /\ Pending /\ TlbInv
  BY DEF PInv
<1>2. Current("map") /\ Pt(WithPt(c.space, c.virt).mem, c.space, c.virt) # ABSENT /\ Become(c.space, c.virt, st)
  BY DEF MapPage
<1>3. /\ todo # <<>> /\ c = todo[1] /\ status # "halted"
      /\ c.space \in AllSpaces /\ c.virt \in Pages /\ c.phys \in Nat /\ root[c.space] # ABSENT
      /\ as # ABSENT => c.space = as
  BY <1>1, <1>2, CurrentCall
<1>4. /\ \E lev, own : Good(st, c.space, lev, own, ABSENT)
      /\ Walk(st.mem, c.space, c.virt) = c.phys
      /\ \A r \in AllSpaces, u \in Pages :
            <<r, u>> # <<c.space, c.virt>> => Walk(st.mem, r, u) = Walk(mem, r, u)
  <2>. DEFINE s == c.space
              v == c.virt
              p == c.phys
  <2>. HIDE DEF s, v, p
  <2>1. s \in AllSpaces /\ v \in Pages /\ p \in Nat /\ Pt(WithPt(s, v).mem, s, v) # ABSENT
    BY <1>2, <1>3 DEF s, v, p
  <2>2. /\ \E lev, own : Good(Mapped(s, v, p), s, lev, own, ABSENT)
        /\ Walk(Mapped(s, v, p).mem, s, v) = p
        /\ \A r \in AllSpaces, u \in Pages :
              <<r, u>> # <<s, v>> => Walk(Mapped(s, v, p).mem, r, u) = Walk(mem, r, u)
    BY <1>1, <2>1, MappedEffect
  <2>. QED  BY <2>2, Zenon DEF s, v, p
<1>5. UNCHANGED <<status, root, global_mem_map, as>> /\ todo' = Rest /\ tlb' = Invlpg(c.space, c.virt)
  BY <1>2 DEF Become
<1>. HIDE DEF c, st
<1>6. /\ TablesInv'
      /\ pool' \subseteq Tables /\ mem' \in [Tables -> [Index -> Nat \cup {ABSENT}]]
      /\ memory_list' \in [AllSpaces -> Seq(Tables)]
      /\ tlb' \in [Pages -> Nat \cup {ABSENT}]
      /\ \A r \in AllSpaces, u \in Pages : Walk(mem, r, u)' = Walk(st.mem, r, u)
  BY <1>1, <1>2, <1>3, <1>4, BecomeEffect
<1>7. CallsInv' /\ todo' \in Seq(CallRecord)
  BY <1>1, <1>3, <1>5, CallsAdvance
<1>8. TypeOK'
  BY <1>1, <1>5, <1>6, <1>7 DEF TypeOK
<1>9. Pending'
  <2>1. CASE as = ABSENT
    BY <1>5, <2>1 DEF Pending
  <2>2. CASE as # ABSENT
    <3>1. as \in AllSpaces /\ as = c.space
      BY <1>1, <1>3, <2>2 DEF TypeOK, AllSpaces
    <3>2. \A v \in Pages : v # todo[1].virt => Walk(mem, as, v)' = Walk(mem, as, v)
      <4>. TAKE v \in Pages
      <4>1. \A r \in AllSpaces : r = as => Walk(mem, r, v)' = Walk(st.mem, r, v)
        BY <1>6
      <4>2. Walk(mem, as, v)' = Walk(st.mem, as, v)
        BY <1>5, <1>6, <3>1 DEF Walk, Pt, Pd, Pdpt, Entry
      <4>. QED  BY <1>3, <1>4, <3>1, <4>2
    <3>3. \A v \in Pages : v = todo[1].virt => Walk(mem, as, v)' = todo[1].phys
      <4>. TAKE v \in Pages
      <4>1. Walk(mem, as, v)' = Walk(st.mem, as, v)
        BY <1>5, <1>6, <3>1 DEF Walk, Pt, Pd, Pdpt, Entry
      <4>. QED  BY <1>3, <1>4, <3>1, <4>1
    <3>. QED  BY <1>1, <1>3, <1>5, <2>2, <3>2, <3>3, PendingAdvance
  <2>. QED  BY <2>1, <2>2
<1>10. TlbInv'
  <2>1. \A u \in Pages : <<KERNEL, u>> # <<c.space, c.virt>> =>
           Walk(mem, KERNEL, u)' \in {Walk(mem, KERNEL, u), ABSENT}
    BY <1>4, <1>6 DEF AllSpaces
  <2>. QED  BY <1>1, <1>3, <1>5, <2>1, TlbStep
<1>. QED  BY <1>6, <1>7, <1>8, <1>9, <1>10 DEF PInv

\* unmap_page_entry of a page that is mapped
LEMMA UnmapPageStep == ASSUME PInv, UnmapPage PROVE PInv'
<1>. DEFINE c == Head(todo)
            st == Unmapped(c.space, c.virt)
<1>1. TypeOK /\ TablesInv /\ CallsInv /\ Pending /\ TlbInv
  BY DEF PInv
<1>2. Current("unmap") /\ Walk(mem, c.space, c.virt) # ABSENT /\ Become(c.space, c.virt, st)
  BY DEF UnmapPage
<1>3. /\ todo # <<>> /\ c = todo[1] /\ status # "halted"
      /\ c.space \in AllSpaces /\ c.virt \in Pages /\ root[c.space] # ABSENT /\ as = ABSENT
  <2>1. as # ABSENT => "unmap" = "map"
    BY <1>1, <1>2, CurrentCall
  <2>. QED  BY <1>1, <1>2, <2>1, CurrentCall
<1>4. (\E lev, own : Good(st, c.space, lev, own, ABSENT)) /\ FewerWalks(mem, st.mem)
  <2>. DEFINE s == c.space
              v == c.virt
  <2>. HIDE DEF s, v
  <2>1. s \in AllSpaces /\ v \in Pages /\ Walk(mem, s, v) # ABSENT
    BY <1>2, <1>3 DEF s, v
  <2>2. (\E lev, own : Good(Unmapped(s, v), s, lev, own, ABSENT)) /\ FewerWalks(mem, Unmapped(s, v).mem)
    BY <1>1, <2>1, UnmappedEffect
  <2>. QED  BY <2>2, Zenon DEF s, v
<1>5. UNCHANGED <<status, root, global_mem_map, as>> /\ todo' = Rest /\ tlb' = Invlpg(c.space, c.virt)
  BY <1>2 DEF Become
<1>. HIDE DEF c, st
<1>6. /\ TablesInv'
      /\ pool' \subseteq Tables /\ mem' \in [Tables -> [Index -> Nat \cup {ABSENT}]]
      /\ memory_list' \in [AllSpaces -> Seq(Tables)]
      /\ tlb' \in [Pages -> Nat \cup {ABSENT}]
      /\ \A r \in AllSpaces, u \in Pages : Walk(mem, r, u)' = Walk(st.mem, r, u)
  BY <1>1, <1>2, <1>3, <1>4, BecomeEffect
<1>7. CallsInv' /\ todo' \in Seq(CallRecord)
  BY <1>1, <1>3, <1>5, CallsAdvance
<1>8. TypeOK'
  BY <1>1, <1>5, <1>6, <1>7 DEF TypeOK
<1>9. Pending'
  BY <1>3, <1>5 DEF Pending
<1>10. TlbInv'
  <2>1. \A u \in Pages : <<KERNEL, u>> # <<c.space, c.virt>> =>
           Walk(mem, KERNEL, u)' \in {Walk(mem, KERNEL, u), ABSENT}
    BY <1>4, <1>6 DEF AllSpaces, FewerWalks
  <2>. QED  BY <1>1, <1>3, <1>5, <2>1, TlbStep
<1>. QED  BY <1>6, <1>7, <1>8, <1>9, <1>10 DEF PInv

\* unmap_page_entry of a page that is not mapped
LEMMA UnmapNothingStep == ASSUME PInv, UnmapNothing PROVE PInv'
<1>1. TypeOK /\ TablesInv /\ CallsInv /\ Pending /\ TlbInv
  BY DEF PInv
<1>2. /\ Current("unmap") /\ todo' = Rest
      /\ UNCHANGED <<status, pool, mem, root, memory_list, global_mem_map, as, tlb>>
  BY DEF UnmapNothing
<1>3. todo # <<>> /\ as = ABSENT
  <2>1. as # ABSENT => "unmap" = "map"
    BY <1>1, <1>2, CurrentCall
  <2>. QED  BY <1>1, <1>2, <2>1, CurrentCall
<1>4. CallsInv' /\ todo' \in Seq(CallRecord)
  BY <1>1, <1>2, <1>3, CallsAdvance
<1>5. TablesInv'
  BY <1>1, <1>2, TablesStutter
<1>6. TypeOK'
  BY <1>1, <1>2, <1>4 DEF TypeOK
<1>7. Pending'
  BY <1>2, <1>3 DEF Pending
<1>8. TlbInv'
  <2>1. \A u \in Pages : Walk(mem, KERNEL, u)' = Walk(mem, KERNEL, u)
    BY <1>2, WalkPrimed DEF AllSpaces
  <2>. QED  BY <1>1, <1>2, <2>1 DEF TlbInv, TlbNeverContradicts
<1>. QED  BY <1>4, <1>5, <1>6, <1>7, <1>8 DEF PInv

\* Records have the type of global_mem_map.
LEMMA RecordsTyped ==
    ASSUME NEW g \in Seq(Mapping) PROVE g \in Seq([virt : Pages, n : Nat, phys : Nat])
<1>. DEFINE T == [virt : Pages, n : Nat, phys : Nat]
<1>1. \A i \in 1..Len(g) : g[i] \in T
  <2>. TAKE i \in 1..Len(g)
  <2>1. g[i] \in [virt : Pages, n : Nat \ {0}, phys : Nat]
    BY DEF Mapping
  <2>. QED  BY <2>1
<1>. HIDE DEF T
<1>2. Len(g) \in Nat /\ g = [i \in 1..Len(g) |-> g[i]]
  OBVIOUS
<1>3. [i \in 1..Len(g) |-> g[i]] \in Seq(T)
  BY <1>1, <1>2
<1>4. g \in Seq(T)
  BY <1>2, <1>3
<1>. QED  BY <1>4 DEF T

\* The direct map is a mapping as the callers make them.
LEMMA DirectMapping ==
    ASSUME NEW n \in Nat \ {0}, n <= PHYS_LIMIT PROVE Direct(n) \in Mapping
<1>. DEFINE F == ENTRIES*ENTRIES*ENTRIES*ENTRIES
<1>1. F \in Nat /\ PHYS_LIMIT <= F /\ PHYS_LIMIT \in Nat
  BY PagingAssumption, MappingsAssumption
<1>2. n <= F
  <2>. HIDE DEF F
  <2>. QED  BY <1>1
<1>3. 0 \in Pages
  <2>. HIDE DEF F
  <2>1. 0 \in 0..F-1
    BY <1>1, <1>2
  <2>. QED  BY <2>1 DEF Pages, F
<1>. HIDE DEF F
<1>4. Direct(n) \in [virt : Pages, n : Nat \ {0}, phys : Nat] /\ Direct(n).virt = 0 /\ Direct(n).n = n
  BY <1>3 DEF Direct
<1>5. Direct(n).virt + Direct(n).n <= F
  BY <1>2, <1>4
<1>. QED  BY <1>4, <1>5 DEF Mapping, F

\* Starting to replay records in a space with a PML4.
LEMMA ReplayStep ==
    ASSUME NEW g \in Seq(Mapping), NEW s \in AllSpaces, root'[s] # ABSENT, todo' = Replay(g, s),
           global_mem_map' \in Seq(Mapping), as' \in {s, ABSENT}, as' # ABSENT => status' # "boot"
    PROVE  CallsInv' /\ todo' \in Seq(CallRecord)
<1>1. /\ todo' \in Seq(CallRecord) /\ Len(todo') = Len(g)
      /\ \A i \in 1..Len(g) : /\ todo'[i].op = "map" /\ todo'[i].space = s
                              /\ todo'[i].virt = g[i].virt /\ todo'[i].n = g[i].n
                              /\ g[i].virt + g[i].n <= ENTRIES*ENTRIES*ENTRIES*ENTRIES
  BY ReplayEffect
<1>. DEFINE F == ENTRIES*ENTRIES*ENTRIES*ENTRIES
<1>2. \A i \in 1..Len(todo') : todo'[i].virt + todo'[i].n <= F /\ root'[todo'[i].space] # ABSENT
  <2>. HIDE DEF F
  <2>. QED  BY <1>1 DEF F
<1>3. as' # ABSENT => /\ status' # "boot" /\ root'[as'] # ABSENT
                      /\ \A i \in 1..Len(todo') : todo'[i].space = as' /\ todo'[i].op = "map"
  BY <1>1
<1>. HIDE DEF F
<1>. QED  BY <1>1, <1>2, <1>3 DEF CallsInv, F

\* vm_init up to the loops
LEMMA VmInitStep == ASSUME PInv, VmInit PROVE PInv'
<1>. DEFINE k == IF PHYS_LIMIT < MEM_SIZE THEN PHYS_LIMIT ELSE MEM_SIZE
            kept == <<Direct(k)>> \o BootMaps
            made == <<Direct(k)>> \o <<Direct(PHYS_LIMIT)>> \o BootMaps
<1>1. TypeOK /\ TablesInv /\ CallsInv /\ Pending /\ TlbInv
  BY DEF PInv
<1>2. /\ status = "boot" /\ NewRoot(KERNEL) /\ global_mem_map' = kept /\ todo' = Replay(made, KERNEL)
      /\ UNCHANGED <<status, memory_list, as, tlb>>
  BY DEF VmInit
<1>3. Direct(k) \in Mapping /\ Direct(PHYS_LIMIT) \in Mapping /\ BootMaps \in Seq(Mapping)
  BY DirectMapping, PagingAssumption, MappingsAssumption
<1>4. /\ kept \in Seq(Mapping) /\ Len(kept) = 1 + Len(BootMaps) /\ made \in Seq(Mapping)
      /\ Len(BootMaps) \in Nat
  BY ONLY <1>3
<1>5. Len(kept) <= MaxRecords
  BY <1>4, MappingsAssumption
<1>6. as = ABSENT
  BY <1>1, <1>2 DEF CallsInv
<1>. HIDE DEF kept, made
<1>7. NewSpaceDone(KERNEL) /\ KERNEL \in AllSpaces
  BY <1>1, <1>2, NewRootEffect DEF AllSpaces
<1>8. CallsInv' /\ todo' \in Seq(CallRecord)
  BY <1>2, <1>4, <1>6, <1>7, ReplayStep DEF NewSpaceDone
<1>9. TypeOK'
  BY <1>1, <1>2, <1>4, <1>5, <1>7, <1>8, RecordsTyped DEF TypeOK, NewSpaceDone, Contents
<1>10. Pending'
  BY <1>2, <1>6 DEF Pending
<1>11. TlbInv'
  <2>1. \A u \in Pages : Walk(mem, KERNEL, u)' = Walk(mem, KERNEL, u)
    BY <1>7 DEF NewSpaceDone
  <2>. QED  BY <1>1, <1>2, <2>1 DEF TlbInv, TlbNeverContradicts
<1>. QED  BY <1>7, <1>8, <1>9, <1>10, <1>11 DEF PInv, NewSpaceDone

\* create_address_space up to the loop
LEMMA CreateAddressSpaceStep ==
    ASSUME PInv, NEW s \in Spaces, CreateAddressSpace(s) PROVE PInv'
<1>1. TypeOK /\ TablesInv /\ CallsInv /\ Pending /\ TlbInv
  BY DEF PInv
<1>2. /\ status = "up" /\ NewRoot(s) /\ todo' = Replay(global_mem_map, s) /\ as' = s
      /\ UNCHANGED <<status, memory_list, global_mem_map, tlb>>
      /\ s \in AllSpaces /\ global_mem_map \in Seq(Mapping)
  BY <1>1 DEF CreateAddressSpace, Idle, AllSpaces, CallsInv
<1>3. NewSpaceDone(s)
  BY <1>1, <1>2, NewRootEffect
<1>4. CallsInv' /\ todo' \in Seq(CallRecord)
  BY <1>2, <1>3, ReplayStep DEF NewSpaceDone
<1>5. TypeOK'
  BY <1>1, <1>2, <1>3, <1>4 DEF TypeOK, NewSpaceDone, Contents
<1>6. Pending'
  <2>1. /\ Len(todo') = Len(global_mem_map)
        /\ \A i \in 1..Len(todo') : /\ todo'[i].virt = global_mem_map[i].virt
                                    /\ todo'[i].n = global_mem_map[i].n
                                    /\ todo'[i].phys = global_mem_map[i].phys
    BY <1>2, ReplayEffect
  <2>2. \A v \in Pages : \A i \in 1..Len(todo') : Covers(todo'[i], v) <=> Covers(global_mem_map[i], v)
    BY <2>1 DEF Covers
  <2>3. \A v \in Pages : Recorded(v)' = Recorded(v)
    BY <1>2 DEF Recorded, SelectLastInSubSeq, Max
  <2>4. \A v \in Pages : Walk(mem, as, v)' = ABSENT
    BY <1>2, <1>3 DEF NewSpaceDone, Walk, Pt, Pd, Pdpt, Entry
  <2>. SUFFICES ASSUME NEW v \in Pages
                PROVE  /\ \A i \in 1..Len(todo') :
                             Covers(todo'[i], v) /\ (\A j \in 1..Len(todo') : j > i => ~Covers(todo'[j], v)) =>
                                todo'[i].phys + v - todo'[i].virt = Recorded(v)'
                       /\ (\A i \in 1..Len(todo') : ~Covers(todo'[i], v)) => Walk(mem, as, v)' = Recorded(v)'
    BY Zenon DEF Pending
  <2>5. Len(global_mem_map) \in Nat
    BY <1>2
  <2>6. CASE /\ \A i \in 1..Len(global_mem_map) : ~Covers(global_mem_map[i], v)
             /\ Recorded(v) = ABSENT
    BY <2>1, <2>2, <2>3, <2>4, <2>6
  <2>7. CASE \E i \in 1..Len(global_mem_map) :
                 /\ Covers(global_mem_map[i], v)
                 /\ \A j \in 1..Len(global_mem_map) : j > i => ~Covers(global_mem_map[j], v)
                 /\ Recorded(v) = global_mem_map[i].phys + v - global_mem_map[i].virt
    <3>1. PICK q \in 1..Len(global_mem_map) :
                 /\ Covers(global_mem_map[q], v)
                 /\ \A j \in 1..Len(global_mem_map) : j > q => ~Covers(global_mem_map[j], v)
                 /\ Recorded(v) = global_mem_map[q].phys + v - global_mem_map[q].virt
      BY <2>7
    <3>2. ~(\A i \in 1..Len(todo') : ~Covers(todo'[i], v))
      BY <2>1, <2>2, <3>1
    <3>3. ASSUME NEW i \in 1..Len(todo'), Covers(todo'[i], v),
                 \A j \in 1..Len(todo') : j > i => ~Covers(todo'[j], v)
          PROVE  todo'[i].phys + v - todo'[i].virt = Recorded(v)'
      <4>1. Covers(global_mem_map[i], v) /\ Covers(todo'[q], v)
        BY <2>1, <2>2, <3>1, <3>3
      <4>2. ~(q > i) /\ ~(i > q)
        BY <2>1, <3>1, <3>3, <4>1
      <4>3. i = q
        BY <2>1, <2>5, <4>2
      <4>. QED  BY <2>1, <2>3, <3>1, <4>3
    <3>. QED  BY <3>2, <3>3
  <2>. QED  BY <1>2, <2>6, <2>7, RecordedCases
<1>7. TlbInv'
  <2>1. \A u \in Pages : Walk(mem, KERNEL, u)' = Walk(mem, KERNEL, u)
    BY <1>3 DEF NewSpaceDone, AllSpaces
  <2>. QED  BY <1>1, <1>2, <2>1 DEF TlbInv, TlbNeverContradicts
<1>. QED  BY <1>3, <1>4, <1>5, <1>6, <1>7 DEF PInv, NewSpaceDone

\* One call of vm_map or vm_unmap begins.
LEMMA CallStep ==
    ASSUME NEW op \in {"map", "unmap"}, NEW s \in AllSpaces, NEW r \in Ranges, NEW p \in Nat,
           todo' = <<Call(op, s, r, p)>>, root'[s] # ABSENT, as' = ABSENT,
           global_mem_map' \in Seq(Mapping)
    PROVE  CallsInv' /\ todo' \in Seq(CallRecord)
<1>. DEFINE F == ENTRIES*ENTRIES*ENTRIES*ENTRIES
            c == Call(op, s, r, p)
<1>1. r.n \in Nat \ {0} /\ r.virt \in Pages /\ r.virt + r.n <= F
  BY MappingsAssumption
<1>. HIDE DEF F
<1>2. c \in CallRecord /\ c.virt = r.virt /\ c.n = r.n /\ c.space = s
  BY <1>1 DEF Call, CallRecord
<1>. HIDE DEF c
<1>3. todo' = <<c>>
  BY DEF c
<1>4. todo' \in Seq(CallRecord) /\ Len(todo') = 1 /\ todo'[1] = c
  BY <1>2, <1>3
<1>5. \A i \in 1..Len(todo') : todo'[i].virt + todo'[i].n <= F /\ root'[todo'[i].space] # ABSENT
  BY <1>1, <1>2, <1>4
<1>. QED  BY <1>4, <1>5 DEF CallsInv, F

\* A step that touches no table and finds no space half made keeps the rest.
LEMMA QuietStep ==
    ASSUME PInv, UNCHANGED <<pool, mem, root, memory_list, tlb>>, as' = ABSENT,
           status' # "boot" \/ status' = status
    PROVE  TablesInv' /\ Pending' /\ TlbInv'
<1>1. TypeOK /\ TablesInv /\ TlbInv
  BY DEF PInv
<1>2. TablesInv'
  BY <1>1, TablesStutter
<1>3. \A u \in Pages : Walk(mem, KERNEL, u)' = Walk(mem, KERNEL, u)
  BY WalkPrimed DEF AllSpaces
<1>4. TlbInv'
  BY <1>1, <1>3 DEF TlbInv, TlbNeverContradicts
<1>. QED  BY <1>2, <1>4 DEF Pending

\* vm_map
LEMMA VmMapStep ==
    ASSUME PInv, NEW s \in AllSpaces, NEW r \in Ranges, NEW p \in PhysPages, VmMap(s, r, p)
    PROVE  PInv'
<1>1. TypeOK /\ CallsInv /\ global_mem_map \in Seq(Mapping)
  BY DEF PInv, CallsInv
<1>2. /\ status = "up" /\ as = ABSENT /\ root[s] # ABSENT
      /\ s = KERNEL => Len(global_mem_map) < MaxRecords
      /\ global_mem_map' = IF s = KERNEL THEN Append(global_mem_map, Record(r, p)) ELSE global_mem_map
      /\ todo' = <<Call("map", s, r, p)>>
      /\ UNCHANGED <<status, pool, mem, root, memory_list, as, tlb>>
  BY DEF VmMap, Idle
<1>3. Record(r, p) \in Mapping /\ p \in Nat
  <2>1. r.n \in Nat \ {0} /\ r.virt \in Pages /\ r.virt + r.n <= ENTRIES*ENTRIES*ENTRIES*ENTRIES
    BY MappingsAssumption
  <2>2. p \in Nat
    BY PagingAssumption
  <2>. QED  BY <2>1, <2>2 DEF Record, Mapping
<1>4. global_mem_map' \in Seq(Mapping) /\ Len(global_mem_map') <= MaxRecords
  <2>1. CASE s = KERNEL
    <3>. DEFINE x == Record(r, p)
    <3>1. x \in Mapping
      BY <1>3
    <3>. HIDE DEF x
    <3>2. global_mem_map' = Append(global_mem_map, x)
      BY <1>2, <2>1 DEF x
    <3>3. Append(global_mem_map, x) \in Seq(Mapping) /\ Len(Append(global_mem_map, x)) = Len(global_mem_map) + 1
          /\ Len(global_mem_map) \in Nat
      BY <1>1, <3>1
    <3>. QED  BY <1>2, <2>1, <3>2, <3>3, MappingsAssumption
  <2>2. CASE s # KERNEL
    BY <1>1, <1>2, <2>2 DEF TypeOK
  <2>. QED  BY <2>1, <2>2
<1>5. CallsInv' /\ todo' \in Seq(CallRecord)
  BY <1>2, <1>3, <1>4, CallStep
<1>6. TypeOK'
  BY <1>1, <1>2, <1>4, <1>5, RecordsTyped DEF TypeOK
<1>7. TablesInv' /\ Pending' /\ TlbInv'
  BY <1>2, QuietStep
<1>. QED  BY <1>5, <1>6, <1>7 DEF PInv

\* vm_unmap
LEMMA VmUnmapStep ==
    ASSUME PInv, NEW s \in AllSpaces, NEW r \in Ranges, VmUnmap(s, r)
    PROVE  PInv'
<1>. DEFINE g == global_mem_map
            I == {i \in 1..Len(g) : g[i].virt = r.virt}
            k == IF I # {} THEN Min(I) ELSE 0
<1>1. TypeOK /\ CallsInv /\ g \in Seq(Mapping) /\ Len(g) \in Nat /\ Len(g) <= MaxRecords
  <2>1. TypeOK /\ CallsInv
    BY DEF PInv
  <2>2. g \in Seq(Mapping) /\ Len(g) <= MaxRecords
    BY <2>1 DEF CallsInv, TypeOK
  <2>. QED  BY <2>1, <2>2
<1>2. /\ status = "up" /\ as = ABSENT /\ root[s] # ABSENT
      /\ todo' = <<Call("unmap", s, r, 0)>>
      /\ UNCHANGED <<status, pool, mem, root, memory_list, as, tlb>>
  BY DEF VmUnmap, Idle
<1>3. g' = IF s = KERNEL /\ k # 0 THEN vector_erase(g, k) ELSE g
  BY DEF VmUnmap, SelectInSeq
<1>4. k # 0 => k \in 1..Len(g)
  <2>1. CASE I = {}
    BY <2>1
  <2>2. CASE I # {}
    <3>1. Min(I) \in I
      <4>1. I \in SUBSET Nat
        OBVIOUS
      <4>. QED  BY <2>2, <4>1, LeastExists DEF Min
    <3>. QED  BY <2>2, <3>1
  <2>. QED  BY <2>1, <2>2
<1>. HIDE DEF k
<1>5. g' \in Seq(Mapping) /\ Len(g') <= MaxRecords
  <2>1. CASE s = KERNEL /\ k # 0
    <3>1. vector_erase(g, k) \in Seq(Mapping) /\ Len(vector_erase(g, k)) = Len(g) - 1
      BY <1>1, <1>4, <2>1, EraseFacts
    <3>. QED  BY <1>1, <1>3, <2>1, <3>1, MappingsAssumption
  <2>2. CASE ~(s = KERNEL /\ k # 0)
    BY <1>1, <1>3, <2>2
  <2>. QED  BY <2>1, <2>2
<1>6. CallsInv' /\ todo' \in Seq(CallRecord)
  BY <1>2, <1>5, CallStep
<1>7. TypeOK'
  BY <1>1, <1>2, <1>5, <1>6, RecordsTyped DEF TypeOK
<1>8. TablesInv' /\ Pending' /\ TlbInv'
  BY <1>2, QuietStep
<1>. QED  BY <1>6, <1>7, <1>8 DEF PInv

\* The CPU fills its TLB from the tables.
LEMMA AccessStep == ASSUME PInv, NEW v \in Pages, Access(v) PROVE PInv'
<1>1. TypeOK /\ TablesInv /\ CallsInv /\ Pending /\ TlbInv
  BY DEF PInv
<1>2. /\ status = "up" /\ Walk(mem, KERNEL, v) # ABSENT
      /\ tlb' = [tlb EXCEPT ![v] = Walk(mem, KERNEL, v)]
      /\ UNCHANGED <<status, pool, mem, root, memory_list, global_mem_map, todo, as>>
  BY DEF Access
<1>3. \A s \in AllSpaces, u \in Pages : Walk(mem, s, u)' = Walk(mem, s, u)
  BY <1>2, WalkPrimed
<1>4. Walk(mem, KERNEL, v) \in Nat
  <2>1. PICK lev, own : Tree(mem, pool, lev, own)
    BY <1>1 DEF TablesInv
  <2>2. Pt(mem, KERNEL, v) \in Tables /\ Pte(v) \in Index
    BY <1>2, <2>1, Path, Digits DEF At, Walk, Entry, AllSpaces
  <2>. QED  BY <1>1, <1>2, <2>2 DEF TypeOK, Walk, Entry
<1>5. TypeOK'
  BY <1>1, <1>2, <1>4 DEF TypeOK
<1>6. TablesInv'
  BY <1>1, <1>2, TablesStutter
<1>7. CallsInv'
  BY <1>1, <1>2 DEF CallsInv
<1>8. Pending'
  <2>1. \A u \in Pages : Recorded(u)' = Recorded(u)
    BY <1>2 DEF Recorded, SelectLastInSubSeq, Max
  <2>2. \A u \in Pages : Walk(mem, as, u)' = Walk(mem, as, u)
    BY <1>2 DEF Walk, Pt, Pd, Pdpt, Entry
  <2>. QED  BY <1>1, <1>2, <2>1, <2>2 DEF Pending, Covers
<1>9. TlbInv'
  <2>1. \A u \in Pages : tlb'[u] = IF u = v THEN Walk(mem, KERNEL, v) ELSE tlb[u]
    BY <1>1, <1>2 DEF TypeOK
  <2>2. \A u \in Pages : Walk(mem, KERNEL, u)' = Walk(mem, KERNEL, u)
    BY <1>3 DEF AllSpaces
  <2>. QED  BY <1>1, <1>2, <2>1, <2>2 DEF TlbInv, TlbNeverContradicts
<1>. QED  BY <1>5, <1>6, <1>7, <1>8, <1>9 DEF PInv

\* Steps that change neither tables, TLB, records nor calls: CR3, the return, the halt.
LEMMA StatusStep ==
    ASSUME PInv, UNCHANGED <<pool, mem, root, memory_list, global_mem_map, todo, tlb>>,
           status' \in {"up", "halted"} \/ status' = status, as' \in {as, ABSENT}
    PROVE  PInv'
<1>1. TypeOK /\ TablesInv /\ CallsInv /\ Pending /\ TlbInv
  BY DEF PInv
<1>2. TypeOK'
  BY <1>1 DEF TypeOK
<1>3. TablesInv'
  BY <1>1, TablesStutter
<1>4. CallsInv'
  BY <1>1 DEF CallsInv
<1>5. Pending'
  <2>1. \A u \in Pages : Recorded(u)' = Recorded(u)
    BY DEF Recorded, SelectLastInSubSeq, Max
  <2>2. as' = as => \A u \in Pages : Walk(mem, as, u)' = Walk(mem, as, u)
    BY DEF Walk, Pt, Pd, Pdpt, Entry
  <2>. QED  BY <1>1, <2>1, <2>2 DEF Pending, Covers
<1>6. TlbInv'
  <2>1. \A u \in Pages : Walk(mem, KERNEL, u)' = Walk(mem, KERNEL, u)
    BY WalkPrimed DEF AllSpaces
  <2>. QED  BY <1>1, <2>1 DEF TlbInv, TlbNeverContradicts
<1>. QED  BY <1>2, <1>3, <1>4, <1>5, <1>6 DEF PInv

\* Memory runs out in the middle of map_page_entry.
LEMMA OutOfMemoryStep == ASSUME PInv, OutOfMemory PROVE StoppedInv'
<1>. DEFINE s == Head(todo).space
            v == Head(todo).virt
<1>1. TypeOK /\ TablesInv /\ CallsInv /\ TlbNeverContradicts
  BY DEF PInv, TlbInv
<1>2. todo # <<>> /\ s \in AllSpaces /\ v \in Pages
  BY <1>1, CurrentCall DEF OutOfMemory
<1>3. PICK st \in Cut(s, v) :
         mem' = st.mem /\ pool' = st.pool /\ memory_list' = [memory_list EXCEPT ![s] = st.list]
  BY DEF OutOfMemory
<1>4. /\ status' = "halted" /\ root' = root /\ global_mem_map' = global_mem_map /\ todo' = todo
      /\ as' = as /\ tlb' = tlb
  BY DEF OutOfMemory
<1>5. StoppedAt' = Reached(mem, s, v)'
  BY <1>2, <1>4 DEF StoppedAt
<1>6. Reached(mem, s, v)' = Reached(mem', s, v)
  BY <1>4 DEF Reached, Pt, Pd, Pdpt, Entry
<1>. HIDE DEF s, v
<1>7. PICK g : /\ st.list \in Seq(Tables) /\ Stage(g, s, v) /\ g.mem = mem' /\ g.pool = pool'
               /\ \/ st.list = g.list
                  \/ g.list = Append(st.list, Reached(g.mem, s, v))
  BY <1>1, <1>2, <1>3, CutEffect
<1>8. StoppedAt' = Reached(g.mem, s, v)
  BY <1>5, <1>6, <1>7
<1>9. PICK lev, own : Good(g, s, lev, own, StoppedAt')
  BY <1>7, <1>8 DEF Stage
<1>10. Tree(mem, pool, lev, own)' /\ Filled(mem, lev, StoppedAt)'
  <2>1. Tree(g.mem, g.pool, lev, own) /\ Filled(g.mem, lev, StoppedAt')
    BY <1>9 DEF Good
  <2>2. Tree(mem', pool', lev, own) /\ Filled(mem', lev, StoppedAt')
    BY <1>7, <2>1
  <2>. QED  BY <1>4, <2>2 DEF Tree, Rooted
<1>11. memory_list' \in [AllSpaces -> Seq(Tables)]
  BY <1>1, <1>2, <1>3, <1>7 DEF TypeOK
<1>12. ASSUME NEW r \in AllSpaces
       PROVE  \E list : /\ Listed(list, r, lev, own)
                        /\ list = memory_list'[r] \/ list = Append(memory_list'[r], StoppedAt')
  <2>1. memory_list'[r] = IF r = s THEN st.list ELSE memory_list[r]
    BY <1>1, <1>3 DEF TypeOK
  <2>2. Listed(IF r = s THEN g.list ELSE memory_list[r], r, lev, own)
    BY <1>9 DEF Good
  <2>3. CASE r = s
    BY <1>7, <1>8, <2>1, <2>2, <2>3
  <2>4. CASE r # s
    BY <2>1, <2>2, <2>4
  <2>. QED  BY <2>3, <2>4
<1>13. TypeOK'
  BY <1>1, <1>4, <1>7, <1>9, <1>11 DEF TypeOK, Good, St, Contents
<1>14. TlbNeverContradicts'
  <2>1. \A u \in Pages : Walk(mem, KERNEL, u)' = Walk(mem, KERNEL, u)
    BY <1>4, <1>7, WalkPrimed DEF Stage, SameWalks, AllSpaces
  <2>. QED  BY <1>1, <1>4, <2>1 DEF TlbNeverContradicts
<1>15. (\A r \in AllSpaces : \E list :
                /\ Listed(list, r, lev, own)
                /\ list = memory_list[r] \/ list = Append(memory_list[r], StoppedAt))'
  BY <1>12 DEF Listed
<1>. QED  BY <1>4, <1>10, <1>13, <1>14, <1>15 DEF StoppedInv

\* Nothing happens once the kernel has halted.
LEMMA StoppedStep == ASSUME status = "halted", [Next]_vars PROVE UNCHANGED vars
<1>1. ~VmInit /\ ~LoadCr3 /\ ~ReturnAddressSpace /\ ~Idle
  BY DEF VmInit, LoadCr3, ReturnAddressSpace, Idle
<1>2. ~MapPage /\ ~UnmapPage /\ ~UnmapNothing /\ ~OutOfMemory
  BY DEF MapPage, UnmapPage, UnmapNothing, OutOfMemory, Current
<1>3. ~HeapOutOfMemory /\ ~(\E v \in Pages : Access(v))
  BY <1>1 DEF HeapOutOfMemory, Access
<1>4. ~(\E q \in Spaces : CreateAddressSpace(q)) /\ ~(\E q \in AllSpaces, r \in Ranges : VmUnmap(q, r))
  BY <1>1 DEF CreateAddressSpace, VmUnmap
<1>5. ~(\E q \in AllSpaces, r \in Ranges : \E p \in PhysPages : VmMap(q, r, p))
  BY <1>1 DEF VmMap
<1>. QED  BY <1>1, <1>2, <1>3, <1>4, <1>5 DEF Next

\* The halted kernel stays as it is.
LEMMA StoppedStays == ASSUME StoppedInv, [Next]_vars PROVE StoppedInv'
<1>1. UNCHANGED vars
  BY StoppedStep DEF StoppedInv
<1>2. /\ status = "halted" /\ TypeOK /\ TlbNeverContradicts
      /\ StoppedAt' = StoppedAt
  BY <1>1 DEF StoppedInv, vars, StoppedAt, Reached, Pt, Pd, Pdpt, Entry
<1>3. PICK lev, own :
         /\ Tree(mem, pool, lev, own)
         /\ Filled(mem, lev, StoppedAt)
         /\ \A r \in AllSpaces : \E list :
               /\ Listed(list, r, lev, own)
               /\ list = memory_list[r] \/ list = Append(memory_list[r], StoppedAt)
  BY DEF StoppedInv
<1>4. Tree(mem, pool, lev, own)' /\ Filled(mem, lev, StoppedAt)'
  BY <1>1, <1>2, <1>3 DEF vars, Tree, Rooted, Filled
<1>5. (\A r \in AllSpaces : \E list :
          /\ Listed(list, r, lev, own)
          /\ list = memory_list[r] \/ list = Append(memory_list[r], StoppedAt))'
  BY <1>1, <1>2, <1>3 DEF vars, Listed
<1>6. TypeOK' /\ TlbNeverContradicts' /\ status' = "halted"
  BY <1>1, <1>2 DEF vars, TypeOK, TlbNeverContradicts, Walk, Pt, Pd, Pdpt, Entry
<1>. QED  BY <1>4, <1>5, <1>6 DEF StoppedInv

\* At first every frame is free and no space has a PML4.
LEMMA PInvInit == ASSUME Init PROVE PInv
<1>1. /\ status = "boot" /\ pool = Tables /\ mem = [t \in Tables |-> Junk(t)]
      /\ root = [s \in AllSpaces |-> ABSENT] /\ memory_list = [s \in AllSpaces |-> <<>>]
      /\ global_mem_map = <<>> /\ todo = <<>> /\ as = ABSENT /\ tlb = [v \in Pages |-> ABSENT]
  BY DEF Init
<1>2. TypeOK
  BY <1>1, PagingAssumption, MappingsAssumption DEF TypeOK, Junk
<1>3. TablesInv
  <2>. DEFINE lev == [t \in Tables |-> 4]
              own == [t \in Tables |-> KERNEL]
  <2>1. lev \in [Tables -> 0..4] /\ own \in [Tables -> AllSpaces] /\ \A t \in Tables : lev[t] = 4
    BY DEF AllSpaces
  <2>. HIDE DEF lev, own
  <2>2. Tree(mem, pool, lev, own)
    BY <1>1, <2>1 DEF Tree, Labels, Rooted, Downward, OneParent, HasParent
  <2>3. \A s \in AllSpaces : Listed(memory_list[s], s, lev, own)
    BY <1>1, <2>1 DEF Listed
  <2>4. Filled(mem, lev, ABSENT)
    BY <2>1 DEF Filled
  <2>. QED  BY <2>2, <2>3, <2>4 DEF TablesInv
<1>4. CallsInv
  BY <1>1 DEF CallsInv
<1>5. Pending
  BY <1>1 DEF Pending
<1>6. TlbInv
  BY <1>1 DEF TlbInv, TlbNeverContradicts
<1>. QED  BY <1>2, <1>3, <1>4, <1>5, <1>6 DEF PInv

\* The invariant is inductive.
LEMMA PInvStep == ASSUME PInv, [Next]_vars PROVE PInv' \/ StoppedInv'
<1>1. CASE VmInit
  BY <1>1, VmInitStep
<1>2. CASE LoadCr3
  BY <1>2, StatusStep DEF LoadCr3
<1>3. CASE ReturnAddressSpace
  BY <1>3, StatusStep DEF ReturnAddressSpace
<1>4. ASSUME NEW s \in AllSpaces, NEW r \in Ranges, NEW p \in PhysPages, VmMap(s, r, p) PROVE PInv'
  BY <1>4, VmMapStep
<1>5. ASSUME NEW s \in AllSpaces, NEW r \in Ranges, VmUnmap(s, r) PROVE PInv'
  BY <1>5, VmUnmapStep
<1>6. ASSUME NEW s \in Spaces, CreateAddressSpace(s) PROVE PInv'
  BY <1>6, CreateAddressSpaceStep
<1>7. CASE MapPage
  BY <1>7, MapPageStep
<1>8. CASE UnmapPage
  BY <1>8, UnmapPageStep
<1>9. CASE UnmapNothing
  BY <1>9, UnmapNothingStep
<1>10. CASE OutOfMemory
  BY <1>10, OutOfMemoryStep
<1>11. ASSUME NEW v \in Pages, Access(v) PROVE PInv'
  BY <1>11, AccessStep
<1>12. CASE HeapOutOfMemory
  BY <1>12, StatusStep DEF HeapOutOfMemory
<1>13. CASE UNCHANGED vars
  BY <1>13, StatusStep DEF vars
<1>. QED  BY <1>1, <1>2, <1>3, <1>4, <1>5, <1>6, <1>7, <1>8, <1>9, <1>10, <1>11, <1>12, <1>13 DEF Next

\* In every reachable state the tables are in order, or the kernel stopped in the middle.
AnyInv == PInv \/ StoppedInv

\* The invariant holds in every reachable state.
LEMMA PInvAlways == Spec => []AnyInv
<1>1. Init => AnyInv
  BY PInvInit DEF AnyInv
<1>2. AnyInv /\ [Next]_vars => AnyInv'
  BY PInvStep, StoppedStays DEF AnyInv
<1>. QED  BY <1>1, <1>2, PTL DEF Spec

(* ------------------------------------------------------------------------ *)
(* What follows from the invariant                                          *)

\* The labels of the tables say what is reached from the PML4s.
LEMMA LinkedLabels ==
    ASSUME TypeOK, NEW left, NEW lev, NEW own, Tree(mem, left, lev, own), NEW s \in AllSpaces
    PROVE  /\ \A t : t \in Pdpts(s) <=> t \in Tables /\ lev[t] = 1 /\ own[t] = s
           /\ \A t : t \in Pds(s) <=> t \in Tables /\ lev[t] = 2 /\ own[t] = s
           /\ \A t : t \in Pts(s) <=> t \in Tables /\ lev[t] = 3 /\ own[t] = s
<1>1. /\ lev \in [Tables -> 0..4] /\ own \in [Tables -> AllSpaces] /\ ABSENT \notin Tables
      /\ Downward(mem, lev, own) /\ HasParent(mem, lev) /\ Rooted(lev, own)
  BY PagingAssumption DEF Tree, Labels
<1>2. \A t \in Tables : \A x : lev[t] \in 0..2 /\ x \in Below(t) =>
         x \in Tables /\ lev[x] = lev[t] + 1 /\ own[x] = own[t]
  BY <1>1 DEF Downward, Below
<1>3. \A x \in Tables : lev[x] \in 1..3 =>
         \E t \in Tables : lev[x] = lev[t] + 1 /\ lev[t] \in 0..2 /\ own[t] = own[x] /\ x \in Below(t)
  <2>. SUFFICES ASSUME NEW x \in Tables, lev[x] \in 1..3
                PROVE  \E t \in Tables : /\ lev[x] = lev[t] + 1 /\ lev[t] \in 0..2
                                         /\ own[t] = own[x] /\ x \in Below(t)
    OBVIOUS
  <2>1. PICK t \in Tables, i \in Index : lev[t] \in 0..2 /\ mem[t][i] = x
    BY <1>1 DEF HasParent
  <2>2. x \in Below(t)
    BY <1>1, <2>1 DEF Below
  <2>. QED  BY <1>2, <2>1, <2>2
<1>4. \A t : t \in Pdpts(s) <=> t \in Tables /\ lev[t] = 1 /\ own[t] = s
  <2>1. ASSUME NEW x \in Pdpts(s) PROVE x \in Tables /\ lev[x] = 1 /\ own[x] = s
    BY <1>1, <1>2, <2>1 DEF Pdpts, Rooted
  <2>2. ASSUME NEW x \in Tables, lev[x] = 1, own[x] = s PROVE x \in Pdpts(s)
    <3>1. PICK t \in Tables : lev[x] = lev[t] + 1 /\ lev[t] \in 0..2 /\ own[t] = s /\ x \in Below(t)
      BY <1>3, <2>2
    <3>2. root[s] = t /\ root[s] # ABSENT
      BY <1>1, <2>2, <3>1 DEF Rooted
    <3>. QED  BY <3>1, <3>2 DEF Pdpts
  <2>. QED  BY <2>1, <2>2
<1>5. \A t : t \in Pds(s) <=> t \in Tables /\ lev[t] = 2 /\ own[t] = s
  <2>1. ASSUME NEW x \in Pds(s) PROVE x \in Tables /\ lev[x] = 2 /\ own[x] = s
    BY <1>2, <1>4, <2>1 DEF Pds
  <2>2. ASSUME NEW x \in Tables, lev[x] = 2, own[x] = s PROVE x \in Pds(s)
    <3>1. PICK t \in Tables : lev[x] = lev[t] + 1 /\ lev[t] \in 0..2 /\ own[t] = s /\ x \in Below(t)
      BY <1>3, <2>2
    <3>2. t \in Pdpts(s)
      BY <1>4, <2>2, <3>1
    <3>. QED  BY <3>1, <3>2 DEF Pds
  <2>. QED  BY <2>1, <2>2
<1>6. \A t : t \in Pts(s) <=> t \in Tables /\ lev[t] = 3 /\ own[t] = s
  <2>1. ASSUME NEW x \in Pts(s) PROVE x \in Tables /\ lev[x] = 3 /\ own[x] = s
    BY <1>2, <1>5, <2>1 DEF Pts
  <2>2. ASSUME NEW x \in Tables, lev[x] = 3, own[x] = s PROVE x \in Pts(s)
    <3>1. PICK t \in Tables : lev[x] = lev[t] + 1 /\ lev[t] \in 0..2 /\ own[t] = s /\ x \in Below(t)
      BY <1>3, <2>2
    <3>2. t \in Pds(s)
      BY <1>5, <2>2, <3>1
    <3>. QED  BY <3>1, <3>2 DEF Pts
  <2>. QED  BY <2>1, <2>2
<1>. QED  BY <1>4, <1>5, <1>6

\* Which tables a space owns, by their labels.
LEMMA OwnedLabels ==
    ASSUME TypeOK, NEW left, NEW lev, NEW own, Tree(mem, left, lev, own), NEW s \in AllSpaces
    PROVE  /\ \A t : t \in Linked(s) <=> t \in Tables /\ lev[t] \in 1..3 /\ own[t] = s
           /\ \A t \in Owned(s) : t \in Tables /\ lev[t] \in 0..3 /\ own[t] = s
           /\ \A t \in Owned(s) \ Pts(s) : t \in Tables /\ lev[t] \in 0..2
<1>1. lev \in [Tables -> 0..4] /\ ABSENT \notin Tables
  BY PagingAssumption DEF Tree, Labels
<1>2. \A t : t \in Linked(s) <=> t \in Tables /\ lev[t] \in 1..3 /\ own[t] = s
  BY <1>1, LinkedLabels DEF Linked
<1>3. root[s] # ABSENT => root[s] \in Tables /\ lev[root[s]] = 0 /\ own[root[s]] = s
  BY DEF Tree, Rooted
<1>4. \A t \in Owned(s) : t \in Tables /\ lev[t] \in 0..3 /\ own[t] = s
  BY <1>2, <1>3 DEF Owned
<1>5. \A t \in Tables : lev[t] = 3 /\ own[t] = s => t \in Pts(s)
  BY LinkedLabels
<1>. QED  BY <1>2, <1>4, <1>5

\* What a space is translated through is its own.
LEMMA PrivateFromInv == ASSUME AnyInv PROVE TablesPrivate
<1>1. TypeOK
  BY DEF AnyInv, PInv, StoppedInv
<1>2. PICK lev, own : Tree(mem, pool, lev, own)
  BY DEF AnyInv, PInv, TablesInv, StoppedInv
<1>3. \A s \in AllSpaces : Owned(s) \cap pool = {}
  <2>. TAKE s \in AllSpaces
  <2>1. \A t \in Owned(s) : t \in Tables /\ lev[t] \in 0..3
    BY <1>1, <1>2, OwnedLabels
  <2>. QED  BY <1>2, <2>1 DEF Tree
<1>4. \A s, r \in AllSpaces : s # r => Owned(s) \cap Owned(r) = {}
  <2>. TAKE s, r \in AllSpaces
  <2>1. (\A t \in Owned(s) : own[t] = s) /\ \A t \in Owned(r) : own[t] = r
    BY <1>1, <1>2, OwnedLabels
  <2>. QED  BY <2>1
<1>5. ASSUME NEW s \in AllSpaces, NEW t \in Owned(s) \ Pts(s), NEW u \in Owned(s) \ Pts(s),
             NEW i \in Index, NEW j \in Index, mem[t][i] # ABSENT, mem[t][i] = mem[u][j]
      PROVE  t = u /\ i = j
  <2>1. t \in Tables /\ lev[t] \in 0..2 /\ u \in Tables /\ lev[u] \in 0..2
    BY <1>1, <1>2, OwnedLabels
  <2>. QED  BY <1>2, <1>5, <2>1 DEF Tree, OneParent
<1>. QED  BY <1>3, <1>4, <1>5 DEF TablesPrivate

\* A list in which each member of a set stands once has as many elements as the set.
LEMMA EachOnce ==
    ASSUME NEW list \in Seq(Tables), NEW S,
           \A i, j \in 1..Len(list) : list[i] = list[j] => i = j,
           \A i \in 1..Len(list) : list[i] \in S,
           \A t \in S : \E i \in 1..Len(list) : list[i] = t
    PROVE  Names(list, S)
<1>. DEFINE n == Len(list)
<1>1. n \in Nat /\ DOMAIN list = 1..n /\ list \in [1..n -> Tables]
  OBVIOUS
<1>2. ToSet(list) = S
  BY <1>1 DEF ToSet
<1>3. list \in [1..n -> S]
  BY <1>1
<1>. HIDE DEF n
<1>4. list \in Bijection(1..n, S)
  BY <1>1, <1>3 DEF Bijection, Injection, Surjection, IsInjective, n
<1>5. Cardinality(S) = n
  <2>1. ExistsBijection(1..n, S)
    BY <1>4 DEF ExistsBijection
  <2>. QED  BY <1>1, <2>1, FS_CountingElements
<1>. QED  BY <1>2, <1>5 DEF Names, n

\* memory_list names what is linked.
LEMMA ListFromInv == ASSUME AnyInv PROVE MemoryListExact
<1>1. TypeOK
  BY DEF AnyInv, PInv, StoppedInv
<1>2. PICK lev, own :
         /\ Tree(mem, pool, lev, own)
         /\ \A s \in AllSpaces : \E list :
               /\ Listed(list, s, lev, own)
               /\ list = memory_list[s] \/ list = Append(memory_list[s], StoppedAt)
  BY DEF AnyInv, PInv, TablesInv, StoppedInv
<1>. SUFFICES ASSUME NEW s \in AllSpaces
              PROVE  \/ Names(memory_list[s], Linked(s))
                     \/ Names(memory_list[s], Linked(s) \ {StoppedAt})
  BY DEF MemoryListExact
<1>. DEFINE short == memory_list[s]
<1>3. PICK list : Listed(list, s, lev, own) /\ (list = short \/ list = Append(short, StoppedAt))
  BY <1>2
<1>4. /\ list \in Seq(Tables) /\ short \in Seq(Tables)
      /\ \A i \in 1..Len(list) : lev[list[i]] \in 1..3 /\ own[list[i]] = s
      /\ \A i, j \in 1..Len(list) : list[i] = list[j] => i = j
      /\ \A t \in Tables : lev[t] \in 1..3 /\ own[t] = s => \E i \in 1..Len(list) : list[i] = t
  BY <1>1, <1>3 DEF Listed, TypeOK
<1>5. \A t : t \in Linked(s) <=> t \in Tables /\ lev[t] \in 1..3 /\ own[t] = s
  BY <1>1, <1>2, OwnedLabels
<1>. HIDE DEF short
<1>6. /\ \A i \in 1..Len(list) : list[i] \in Linked(s)
      /\ \A t \in Linked(s) : \E i \in 1..Len(list) : list[i] = t
  BY <1>4, <1>5
<1>7. CASE list = short
  <2>1. Names(list, Linked(s))
    BY <1>4, <1>6, EachOnce
  <2>. QED  BY <1>7, <2>1 DEF short
<1>8. CASE list = Append(short, StoppedAt)
  <2>. DEFINE x == StoppedAt
              n == Len(short)
  <2>1. n \in Nat /\ Len(list) = n + 1 /\ list[n + 1] = x /\ \A i \in 1..n : list[i] = short[i]
    BY <1>4, <1>8
  <2>. HIDE DEF x, n
  <2>2. \A i \in 1..n : short[i] \in Linked(s) \ {x}
    BY <1>4, <1>6, <2>1
  <2>3. \A t \in Linked(s) \ {x} : \E i \in 1..n : short[i] = t
    BY <1>6, <2>1
  <2>4. \A i, j \in 1..n : short[i] = short[j] => i = j
    BY <1>4, <2>1
  <2>5. Names(short, Linked(s) \ {x})
    BY <1>4, <2>2, <2>3, <2>4, EachOnce DEF n
  <2>. QED  BY <2>5 DEF short, x
<1>. QED  BY <1>3, <1>7, <1>8

\* A table below a PML4 maps something, but for the one at which a mapping stopped.
LEMMA FilledFromInv == ASSUME AnyInv PROVE NoEmptyTable
<1>1. TypeOK
  BY DEF AnyInv, PInv, StoppedInv
<1>2. PICK lev, own : Tree(mem, pool, lev, own) /\ (Filled(mem, lev, ABSENT) \/ Filled(mem, lev, StoppedAt))
  BY DEF AnyInv, PInv, TablesInv, StoppedInv
<1>. SUFFICES ASSUME NEW s \in AllSpaces, NEW t \in Linked(s), mem[t] = EmptyTable, t # StoppedAt
              PROVE  FALSE
  BY DEF NoEmptyTable
<1>3. t \in Tables /\ lev[t] \in 1..3 /\ t # ABSENT
  <2>1. \A x : x \in Linked(s) <=> x \in Tables /\ lev[x] \in 1..3 /\ own[x] = s
    BY <1>1, <1>2, OwnedLabels
  <2>. QED  BY <2>1, PagingAssumption
<1>4. PICK i \in Index : mem[t][i] # ABSENT
  BY <1>2, <1>3 DEF Filled
<1>. QED  BY <1>4 DEF EmptyTable

\* A space that is returned has every mapping of the kernel.
LEMMA SharesFromInv == ASSUME AnyInv PROVE NewSpaceSharesKernel
<1>. SUFFICES ASSUME status = "up", as # ABSENT, todo = <<>>, NEW v \in Pages
              PROVE  Walk(mem, as, v) = Recorded(v)
  BY DEF NewSpaceSharesKernel
<1>1. \A i \in 1..Len(todo) : ~Covers(todo[i], v)
  OBVIOUS
<1>. QED  BY <1>1 DEF AnyInv, StoppedInv, PInv, Pending

\* Only map_page_entry changes a table while a mapping is under way, and only for its page.
LEMMA MapStep ==
    ASSUME AnyInv, [Next]_vars, ~(UNCHANGED <<mem, todo>>), Current("map"),
           NEW s \in AllSpaces, NEW v \in Pages, <<s, v>> # <<Head(todo).space, Head(todo).virt>>
    PROVE  Walk(mem, s, v)' = Walk(mem, s, v)
<1>. DEFINE c == Head(todo)
            st == Mapped(c.space, c.virt, c.phys)
<1>1. PInv
  BY StoppedStep DEF AnyInv, StoppedInv, vars
<1>2. todo # <<>> /\ c.op = "map" /\ TypeOK /\ TablesInv /\ CallsInv
  BY <1>1 DEF Current, PInv
<1>3. c.space \in AllSpaces /\ c.virt \in Pages /\ c.phys \in Nat
  BY <1>2, CurrentCall
<1>4. MapPage \/ OutOfMemory
  <2>1. ~Idle /\ ~VmInit /\ ~LoadCr3 /\ ~ReturnAddressSpace
    BY <1>2 DEF Idle, VmInit, LoadCr3, ReturnAddressSpace
  <2>2. ~UnmapPage /\ ~UnmapNothing
    BY <1>2 DEF UnmapPage, UnmapNothing, Current
  <2>3. ~HeapOutOfMemory /\ ~(\E u \in Pages : Access(u)) /\ ~(UNCHANGED vars)
    BY <2>1 DEF HeapOutOfMemory, Access, vars
  <2>4. ~(\E q \in Spaces : CreateAddressSpace(q)) /\ ~(\E q \in AllSpaces, r \in Ranges : VmUnmap(q, r))
    BY <2>1 DEF CreateAddressSpace, VmUnmap
  <2>5. ~(\E q \in AllSpaces, r \in Ranges : \E p \in PhysPages : VmMap(q, r, p))
    BY <2>1 DEF VmMap
  <2>. QED  BY <2>1, <2>2, <2>3, <2>4, <2>5 DEF Next
<1>. HIDE DEF c
<1>5. CASE MapPage
  <2>1. Pt(WithPt(c.space, c.virt).mem, c.space, c.virt) # ABSENT /\ Become(c.space, c.virt, st)
    BY <1>5 DEF MapPage, c
  <2>2. \A r \in AllSpaces, u \in Pages :
           <<r, u>> # <<c.space, c.virt>> => Walk(st.mem, r, u) = Walk(mem, r, u)
    <3>. DEFINE q == c.space
                w == c.virt
                p == c.phys
    <3>. HIDE DEF q, w, p
    <3>1. q \in AllSpaces /\ w \in Pages /\ p \in Nat /\ Pt(WithPt(q, w).mem, q, w) # ABSENT
      BY <1>3, <2>1 DEF q, w, p
    <3>2. \A r \in AllSpaces, u \in Pages :
             <<r, u>> # <<q, w>> => Walk(Mapped(q, w, p).mem, r, u) = Walk(mem, r, u)
      BY <1>2, <3>1, MappedEffect
    <3>. QED  BY <3>2, Zenon DEF q, w, p
  <2>3. Walk(mem, s, v)' = Walk(st.mem, s, v)
    BY <2>1 DEF Become, Walk, Pt, Pd, Pdpt, Entry
  <2>. QED  BY <2>2, <2>3 DEF c
<1>6. CASE OutOfMemory
  <2>1. PICK g \in Cut(c.space, c.virt) : mem' = g.mem /\ root' = root
    BY <1>6 DEF OutOfMemory, c
  <2>. DEFINE q == c.space
              w == c.virt
  <2>2. q \in AllSpaces /\ w \in Pages /\ g \in Cut(q, w)
    BY <1>3, <2>1
  <2>. HIDE DEF q, w
  <2>3. SameWalks(mem, g.mem)
    BY <1>2, <2>2, CutEffect DEF Stage
  <2>. QED  BY <2>1, <2>3, WalkPrimed DEF SameWalks
<1>. QED  BY <1>4, <1>5, <1>6

(* ------------------------------------------------------------------------ *)
(* Theorems                                                                 *)

\* The variables of the page tables have their types: every range stays in the address
\* space, every table is storage, and the records fit in the vector.
THEOREM PagingTypeCorrect == Spec => []TypeOK
<1>1. AnyInv => TypeOK
  BY DEF AnyInv, PInv, StoppedInv
<1>. QED  BY <1>1, PInvAlways, PTL

\* Through every order of vm_map, vm_unmap and create_address_space, with memory running
\* out at any level of any page, the tables of a space are its own, are not free, and hang
\* in one place.
THEOREM TablesStayPrivate == Spec => []TablesPrivate
<1>1. AnyInv => TablesPrivate
  BY PrivateFromInv
<1>. QED  BY <1>1, PInvAlways, PTL

\* memory_list names each table below the PML4 once: vector_erase_value removes the table
\* that is freed, and none is appended twice.  When memory runs out in a mapping it names
\* what has been entered until then, but for the last table if the list could not grow.
THEOREM MemoryListStaysExact == Spec => []MemoryListExact
<1>1. AnyInv => MemoryListExact
  BY ListFromInv
<1>. QED  BY <1>1, PInvAlways, PTL

\* The scans of unmap_page_entry free every directory that maps nothing, and of a mapping
\* for which memory runs out one table is left, that of the level it had reached.
THEOREM NoTableStaysEmpty == Spec => []NoEmptyTable
<1>1. AnyInv => NoEmptyTable
  BY FilledFromInv
<1>. QED  BY <1>1, PInvAlways, PTL

\* What the CPU holds of the kernel's space never differs from a translation the tables
\* have: map_page_entry and unmap_page_entry forget every page they change.
THEOREM TlbStaysTrue == Spec => []TlbNeverContradicts
<1>1. AnyInv => TlbNeverContradicts
  BY DEF AnyInv, PInv, TlbInv, StoppedInv
<1>. QED  BY <1>1, PInvAlways, PTL

\* create_address_space returns a space that maps what the records of the kernel cover, as
\* the last of them says, and nothing else.
THEOREM NewSpacesShareKernel == Spec => []NewSpaceSharesKernel
<1>1. AnyInv => NewSpaceSharesKernel
  BY SharesFromInv
<1>. QED  BY <1>1, PInvAlways, PTL

\* map_page_entry changes the translation of the page it maps and of no other page of any
\* space, whatever tables it makes on the way.
THEOREM MapTouchesOnePage == Spec => MapTouchesOnlyItsPage
<1>1. AnyInv /\ [Next]_vars =>
        [Current("map") => \A s \in AllSpaces, v \in Pages :
            <<s, v>> # <<Head(todo).space, Head(todo).virt>> =>
               Walk(mem, s, v)' = Walk(mem, s, v)]_<<mem, todo>>
  BY MapStep
<1>. QED  BY <1>1, PInvAlways, PTL DEF Spec, MapTouchesOnlyItsPage

=============================================================================
