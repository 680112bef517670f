-------------------------- MODULE Windows_proofs ---------------------------
(***************************************************************************)
(* Proofs about the windows of xcin: the linked lists, the font cache, the *)
(* window list, and what the update leaves on the screen after a message.  *)
(*                                                                         *)
(* The inductive invariant is WindowsInv: until xcin is told to exit, the  *)
(* memory is Good, which is four things.  Base: the lists are lists, every *)
(* record on winlist has an X window and a font of its own or shared and   *)
(* counted, and belongs to a live IC or is a main window.  Up: a window of *)
(* an IC is up only where the focus is.  Fixed: the main windows are those *)
(* that the settings ask for.  Told: they are drawn for the current IC.    *)
(* A handler leaves the memory Ready, and the update makes that Good.      *)
(*                                                                         *)
(* The theorems hold for MaxReq = 1: with two requests of an IMC a menu    *)
(* may point to an element of gwin that is no longer its own.              *)
(***************************************************************************)
EXTENDS Windows, SequenceTheorems, FiniteSetTheorems, NaturalsInduction, TLAPS

-----------------------------------------------------------------------------
(***************************************************************************)
(* Linked lists.  A walk is a function of the number of links followed; it *)
(* is compared with the sequence of the structs met.                       *)
(***************************************************************************)
\* A set of numbers that is not empty has a least element.
LEMMA LeastOf ==
    ASSUME NEW S \in SUBSET Nat, S # {}
    PROVE  \E n \in S : \A k \in S : n <= k
<1>1. PICK n \in S : \A k \in S : ~(<<k, n>> \in OpToRel(<, Nat))
  BY NatLessThanWellFounded, WFMin
<1>2. \A k \in S : ~(k < n)
  BY <1>1 DEF OpToRel
<1> QED BY <1>2

\* q is the list of n structs that starts at head.
IsChain(mem, head, n, q) ==
    /\ n \in Nat
    /\ q \in [1 .. n -> DOMAIN mem]
    /\ \A j, k \in 1 .. n : q[j] = q[k] => j = k
    /\ head = IF n = 0 THEN NULL ELSE q[1]
    /\ \A k \in 1 .. n : mem[q[k]].next = IF k = n THEN NULL ELSE q[k + 1]

\* L are the structs of the list that starts at head, which ends and meets
\* none of them twice.
IsList(mem, head, L) ==
    \E n \in Nat : \E q \in [1 .. n -> DOMAIN mem] :
        IsChain(mem, head, n, q) /\ L = {q[k] : k \in 1 .. n}

\* A walk visits a list in its order, and then stays at NULL.
LEMMA WalkOfChain ==
    ASSUME NEW mem, Len(mem) \in Nat, DOMAIN mem = 1 .. Len(mem),
           NEW head, NEW n, NEW q, IsChain(mem, head, n, q)
    PROVE  walk(mem, head) = [k \in 0 .. Len(mem) |-> IF k < n THEN q[k + 1] ELSE NULL]
<1> DEFINE N == Len(mem)
           g == [k \in 0 .. N |-> IF k < n THEN q[k + 1] ELSE NULL]
           step(f) == [k \in 0 .. N |->
                         IF k = 0 THEN head
                         ELSE IF f[k - 1] = NULL THEN NULL ELSE mem[f[k - 1]].next]
           w == CHOOSE f : f = step(f)
<1>n. N \in Nat
  OBVIOUS
<1>1. g = step(g)
  <2> SUFFICES ASSUME NEW k \in 0 .. N
               PROVE  g[k] = IF k = 0 THEN head
                             ELSE IF g[k - 1] = NULL THEN NULL ELSE mem[g[k - 1]].next
    OBVIOUS
  <2>1. CASE k = 0
    BY <2>1 DEF IsChain
  <2>2. CASE k # 0
    <3> DEFINE j == k - 1
    <3>1. j \in 0 .. N /\ k = j + 1 /\ j \in Nat
      BY <2>2, <1>n
    <3>2. g[j] = IF j < n THEN q[j + 1] ELSE NULL
      BY <3>1
    <3>3. g[k] = IF k < n THEN q[k + 1] ELSE NULL
      OBVIOUS
    <3>4. CASE j < n
      <4>1. k \in 1 .. n /\ q[k] \in 1 .. N
        BY <3>1, <3>4 DEF IsChain
      <4>2. mem[q[k]].next = IF k = n THEN NULL ELSE q[k + 1]
        BY <4>1 DEF IsChain
      <4>3. g[j] = q[k] /\ g[j] # NULL
        BY <3>1, <3>2, <3>4, <4>1 DEF NULL
      <4>4. g[k] = IF k = n THEN NULL ELSE q[k + 1]
        BY <3>3, <4>1 DEF IsChain
      <4> QED BY <4>2, <4>3, <4>4, <2>2
    <3>5. CASE ~(j < n)
      <4>1. g[j] = NULL /\ g[k] = NULL
        BY <3>1, <3>2, <3>3, <3>5 DEF IsChain
      <4> QED BY <4>1, <2>2
    <3> QED BY <3>4, <3>5
  <2> QED BY <2>1, <2>2
<1>2. w = step(w)
  BY <1>1
<1>3. walk(mem, head) = w
  BY DEF walk
<1>4. \A k \in 0 .. N : w[k] = g[k]
  <2> DEFINE bad == {k \in 0 .. N : w[k] # g[k]}
  <2> SUFFICES ASSUME bad # {} PROVE FALSE
    OBVIOUS
  <2> HIDE DEF w, g, step
  <2>0. bad \in SUBSET Nat
    BY <1>n
  <2>1. PICK k \in bad : \A j \in bad : k <= j
    <3> HIDE DEF bad
    <3> QED BY <2>0, LeastOf
  <2>w. /\ k \in 0 .. N
        /\ w[k] = IF k = 0 THEN head
                  ELSE IF w[k - 1] = NULL THEN NULL ELSE mem[w[k - 1]].next
        /\ g[k] = IF k = 0 THEN head
                  ELSE IF g[k - 1] = NULL THEN NULL ELSE mem[g[k - 1]].next
    <3>1. k \in 0 .. N
      OBVIOUS
    <3>2. \A f : f = step(f) =>
            f[k] = IF k = 0 THEN head
                   ELSE IF f[k - 1] = NULL THEN NULL ELSE mem[f[k - 1]].next
      BY <3>1 DEF step
    <3> QED BY <3>1, <3>2, <1>1, <1>2
  <2>2. k # 0
    BY <2>w
  <2>3. k - 1 \in 0 .. N /\ k - 1 < k
    BY <2>2, <2>w, <1>n
  <2>4. k - 1 \notin bad
    BY <2>3, <2>1, <2>w
  <2>5. w[k - 1] = g[k - 1]
    BY <2>4, <2>3
  <2> QED BY <2>5, <2>w
<1>5. w = [k \in 0 .. N |-> w[k]] /\ g = [k \in 0 .. N |-> g[k]]
  <2> HIDE DEF w
  <2> QED BY <1>2
<1> QED BY <1>3, <1>4, <1>5

IsMemory(mem) == Len(mem) \in Nat /\ DOMAIN mem = 1 .. Len(mem)

\* A list is no longer than the memory.
LEMMA ChainFits ==
    ASSUME NEW mem, IsMemory(mem), NEW head, NEW n, NEW q, IsChain(mem, head, n, q)
    PROVE  n <= Len(mem)
<1>1. q \in Injection(1 .. n, 1 .. Len(mem))
  BY DEF IsChain, IsMemory, Injection, IsInjective
<1>2. \A k \in Nat : IsFiniteSet(1 .. k) /\ Cardinality(1 .. k) = k
  <2> SUFFICES ASSUME NEW k \in Nat
               PROVE  IsFiniteSet(1 .. k) /\ Cardinality(1 .. k) = k
    OBVIOUS
  <2>1. Cardinality(1 .. k) = (IF 1 > k THEN 0 ELSE k - 1 + 1) /\ IsFiniteSet(1 .. k)
    BY FS_Interval
  <2> QED BY <2>1
<1>3. n \in Nat /\ Len(mem) \in Nat
  BY DEF IsChain, IsMemory
<1> QED BY <1>1, <1>2, <1>3, FS_Injection

\* What the walks of a list find.
LEMMA ListWalked ==
    ASSUME NEW mem, IsMemory(mem), NEW head, NEW L, IsList(mem, head, L)
    PROVE  /\ on_list(mem, head) = L
           /\ walk(mem, head)[Len(mem)] = NULL
           /\ L \subseteq DOMAIN mem
<1>0. PICK n \in Nat : \E q \in [1 .. n -> DOMAIN mem] :
          IsChain(mem, head, n, q) /\ L = {q[k] : k \in 1 .. n}
  BY DEF IsList
<1>1. PICK q \in [1 .. n -> DOMAIN mem] :
          IsChain(mem, head, n, q) /\ L = {q[k] : k \in 1 .. n}
  BY <1>0
<1>2. n <= Len(mem)
  BY <1>1, ChainFits
<1>3. walk(mem, head) = [k \in 0 .. Len(mem) |-> IF k < n THEN q[k + 1] ELSE NULL]
  BY <1>1, WalkOfChain DEF IsMemory
<1>4. walk(mem, head)[Len(mem)] = NULL
  BY <1>2, <1>3 DEF IsMemory
<1>5. ASSUME NEW c \in L PROVE c \in on_list(mem, head)
  <2>1. PICK k \in 1 .. n : c = q[k]
    BY <1>1
  <2>2. k - 1 \in 0 .. Len(mem) /\ k - 1 < n /\ (k - 1) + 1 = k
    BY <1>2 DEF IsMemory
  <2>3. walk(mem, head)[k - 1] = c
    BY <2>1, <2>2, <1>3
  <2>4. c # NULL
    BY <2>1, <1>1 DEF IsMemory, NULL
  <2> QED BY <2>2, <2>3, <2>4, <1>3 DEF on_list, Range
<1>6. ASSUME NEW c \in on_list(mem, head) PROVE c \in L
  <2>1. PICK k \in 0 .. Len(mem) : c = walk(mem, head)[k] /\ c # NULL
    BY <1>3 DEF on_list, Range
  <2>2. k < n /\ c = q[k + 1]
    BY <2>1, <1>3
  <2>3. k + 1 \in 1 .. n
    BY <2>2 DEF IsMemory
  <2> QED BY <2>2, <2>3, <1>1
<1> QED BY <1>1, <1>4, <1>5, <1>6

\* The search of a list finds a struct of the set if there is one on the list.
LEMMA FirstFound ==
    ASSUME NEW mem, IsMemory(mem), NEW head, NEW L, IsList(mem, head, L),
           NEW S, NULL \notin S
    PROVE  /\ L \cap S = {} => first_of(mem, head, S) = NULL
           /\ L \cap S # {} => first_of(mem, head, S) \in L \cap S
<1> DEFINE w == walk(mem, head)
           hits == {k \in DOMAIN w : w[k] \in S}
<1>1. on_list(mem, head) = L
  BY ListWalked
<1>2. DOMAIN w = 0 .. Len(mem)
  BY WalkOfChain DEF IsList, IsMemory
<1>3. \A k \in hits : w[k] \in L \cap S
  BY <1>1 DEF on_list, Range
<1>4. CASE L \cap S = {}
  BY <1>3, <1>4 DEF first_of
<1>5. CASE L \cap S # {}
  <2>1. PICK c \in L \cap S : TRUE
    BY <1>5
  <2>2. \E k \in DOMAIN w : w[k] = c
    BY <2>1, <1>1 DEF on_list, Range
  <2>3. hits # {} /\ hits \in SUBSET Nat
    BY <2>1, <2>2, <1>2 DEF IsMemory
  <2>4. \E k \in hits : \A j \in hits : k <= j
    <3> HIDE DEF hits
    <3> QED BY <2>3, LeastOf
  <2>5. Min(hits) \in hits
    <3> HIDE DEF hits
    <3> QED BY <2>4 DEF Min
  <2>6. first_of(mem, head, S) = w[Min(hits)]
    BY <2>3 DEF first_of
  <2> QED BY <2>5, <2>6, <1>3, <1>5
<1> QED BY <1>4, <1>5

\* Memories that agree on the links of a list agree on the list.
LEMMA ListSame ==
    ASSUME NEW mem, NEW m2, NEW head, NEW L, IsList(mem, head, L),
           L \subseteq DOMAIN m2, \A c \in L : m2[c].next = mem[c].next
    PROVE  IsList(m2, head, L)
<1>0. PICK n \in Nat : \E q \in [1 .. n -> DOMAIN mem] :
          IsChain(mem, head, n, q) /\ L = {q[k] : k \in 1 .. n}
  BY DEF IsList
<1>1. PICK q \in [1 .. n -> DOMAIN mem] :
          IsChain(mem, head, n, q) /\ L = {q[k] : k \in 1 .. n}
  BY <1>0
<1>2. \A k \in 1 .. n : q[k] \in L
  BY <1>1
<1>3. q \in [1 .. n -> DOMAIN m2]
  BY <1>2
<1>4. IsChain(m2, head, n, q)
  BY <1>1, <1>2, <1>3 DEF IsChain
<1> QED BY <1>1, <1>3, <1>4 DEF IsList

\* The head of a list, and that no two links lead to one struct.
LEMMA ListHead ==
    ASSUME NEW mem, IsMemory(mem), NEW head, NEW L, IsList(mem, head, L)
    PROVE  /\ L \subseteq DOMAIN mem /\ NULL \notin L
           /\ head = NULL => L = {}
           /\ head # NULL => head \in L
           /\ \A c \in L : mem[c].next \in L \cup {NULL} /\ mem[c].next # head
           /\ \A c, d \in L : mem[c].next = mem[d].next => c = d
<1>0. PICK n \in Nat : \E q \in [1 .. n -> DOMAIN mem] :
          IsChain(mem, head, n, q) /\ L = {q[k] : k \in 1 .. n}
  BY DEF IsList
<1>1. PICK q \in [1 .. n -> DOMAIN mem] :
          IsChain(mem, head, n, q) /\ L = {q[k] : k \in 1 .. n}
  BY <1>0
<1>2. L \subseteq DOMAIN mem /\ NULL \notin L
  BY <1>1 DEF IsMemory, NULL
<1>3. n = 0 => L = {} /\ head = NULL
  BY <1>1 DEF IsChain
<1>4. n # 0 => 1 \in 1 .. n /\ head = q[1] /\ head \in L
  <2>1. n # 0 => 1 \in 1 .. n
    OBVIOUS
  <2> QED BY <1>1, <2>1 DEF IsChain
<1>5. ASSUME NEW k \in 1 .. n
      PROVE  mem[q[k]].next \in L \cup {NULL} /\ mem[q[k]].next # head
  <2>1. CASE k = n
    BY <2>1, <1>1, <1>2, <1>3, <1>4 DEF IsChain
  <2>2. CASE k # n
    <3>1. k + 1 \in 1 .. n /\ k + 1 # 1
      BY <2>2
    <3>2. mem[q[k]].next = q[k + 1]
      BY <2>2, <1>1 DEF IsChain
    <3>3. q[k + 1] # q[1]
      BY <3>1, <1>1, <1>4 DEF IsChain
    <3> QED BY <3>1, <3>2, <3>3, <1>1, <1>4, <1>3
  <2> QED BY <2>1, <2>2
<1>6. ASSUME NEW j \in 1 .. n, NEW k \in 1 .. n, mem[q[j]].next = mem[q[k]].next
      PROVE  j = k
  <2>1. \A i \in 1 .. n : i # n => i + 1 \in 1 .. n /\ mem[q[i]].next = q[i + 1]
                                   /\ q[i + 1] # NULL
    BY <1>1, <1>2 DEF IsChain
  <2>2. mem[q[n]].next = NULL
    BY <1>1 DEF IsChain
  <2>3. j = n <=> k = n
    BY <1>6, <2>1, <2>2
  <2>4. j # n => j + 1 = k + 1
    BY <1>6, <2>1, <2>3, <1>1 DEF IsChain
  <2> QED BY <2>3, <2>4
<1> QED BY <1>1, <1>2, <1>3, <1>4, <1>5, <1>6

\* A struct that is put before the head.
LEMMA ListPushed ==
    ASSUME NEW mem, NEW m2, NEW head, NEW L, IsList(mem, head, L),
           L \subseteq DOMAIN m2, \A c \in L : m2[c].next = mem[c].next,
           NEW r \in DOMAIN m2, r \notin L, m2[r].next = head
    PROVE  IsList(m2, r, L \cup {r})
<1>0. PICK n \in Nat : \E q \in [1 .. n -> DOMAIN mem] :
          IsChain(mem, head, n, q) /\ L = {q[k] : k \in 1 .. n}
  BY DEF IsList
<1>1. PICK q \in [1 .. n -> DOMAIN mem] :
          IsChain(mem, head, n, q) /\ L = {q[k] : k \in 1 .. n}
  BY <1>0
<1> DEFINE p == [k \in 1 .. n + 1 |-> IF k = 1 THEN r ELSE q[k - 1]]
<1>2. \A k \in 1 .. n + 1 : k = 1 \/ (k # 1 /\ k - 1 \in 1 .. n)
  OBVIOUS
<1>3. \A k \in 1 .. n : q[k] \in L
  BY <1>1
<1>4. p[1] = r /\ \A k \in 1 .. n + 1 : k # 1 => p[k] = q[k - 1] /\ p[k] \in L
  BY <1>2, <1>3
<1>5. p \in [1 .. n + 1 -> DOMAIN m2]
  BY <1>2, <1>3
<1>6. \A j, k \in 1 .. n + 1 : p[j] = p[k] => j = k
  <2> SUFFICES ASSUME NEW j \in 1 .. n + 1, NEW k \in 1 .. n + 1, p[j] = p[k]
               PROVE  j = k
    OBVIOUS
  <2>1. j = 1 <=> k = 1
    BY <1>4
  <2>2. j # 1 => j - 1 = k - 1
    BY <2>1, <1>2, <1>4, <1>1 DEF IsChain
  <2> QED BY <2>1, <2>2
<1>7. \A k \in 1 .. n + 1 : m2[p[k]].next = IF k = n + 1 THEN NULL ELSE p[k + 1]
  <2> SUFFICES ASSUME NEW k \in 1 .. n + 1
               PROVE  m2[p[k]].next = IF k = n + 1 THEN NULL ELSE p[k + 1]
    OBVIOUS
  <2>1. CASE k = 1
    <3>1. m2[p[k]].next = IF n = 0 THEN NULL ELSE q[1]
      BY <2>1, <1>4, <1>1 DEF IsChain
    <3>2. n # 0 => p[2] = q[1]
      OBVIOUS
    <3> QED BY <2>1, <3>1, <3>2
  <2>2. CASE k # 1
    <3> DEFINE j == k - 1
    <3>1. j \in 1 .. n /\ k = j + 1 /\ p[k] = q[j]
      BY <2>2, <1>2, <1>4
    <3>2. m2[q[j]].next = IF j = n THEN NULL ELSE q[j + 1]
      BY <3>1, <1>3, <1>1 DEF IsChain
    <3>3. j # n => k + 1 \in 1 .. n + 1 /\ p[k + 1] = q[j + 1]
      BY <3>1
    <3> QED BY <3>1, <3>2, <3>3
  <2> QED BY <2>1, <2>2
<1>8. IsChain(m2, r, n + 1, p)
  <2> HIDE DEF p
  <2> QED BY <1>4, <1>5, <1>6, <1>7 DEF IsChain
<1>9. L \cup {r} = {p[k] : k \in 1 .. n + 1}
  <2>1. \A k \in 1 .. n : k + 1 \in 1 .. n + 1 /\ p[k + 1] = q[k]
    OBVIOUS
  <2> HIDE DEF p
  <2>2. 1 \in 1 .. n + 1
    OBVIOUS
  <2> QED BY <1>1, <1>4, <2>1, <2>2
<1>10. n + 1 \in Nat
  OBVIOUS
<1> HIDE DEF p
<1> QED BY <1>5, <1>8, <1>9, <1>10 DEF IsList

\* No struct is the list that starts at NULL.
LEMMA ListEmpty ==
    ASSUME NEW mem
    PROVE  IsList(mem, NULL, {})
<1> DEFINE q == [k \in 1 .. 0 |-> NULL]
<1>1. 1 .. 0 = {}
  OBVIOUS
<1>2. q \in [1 .. 0 -> DOMAIN mem] /\ IsChain(mem, NULL, 0, q)
  BY <1>1 DEF IsChain
<1>3. {} = {q[k] : k \in 1 .. 0}
  BY <1>1
<1> QED BY <1>2, <1>3 DEF IsList

\* Every struct but the first is led to, and one is the last.
LEMMA ListLinks ==
    ASSUME NEW mem, NEW head, NEW L, IsList(mem, head, L)
    PROVE  /\ \A c \in L : c # head => \E d \in L : mem[d].next = c
           /\ L # {} => \E e \in L : mem[e].next = NULL
<1>0. PICK n \in Nat : \E q \in [1 .. n -> DOMAIN mem] :
          IsChain(mem, head, n, q) /\ L = {q[k] : k \in 1 .. n}
  BY DEF IsList
<1>1. PICK q \in [1 .. n -> DOMAIN mem] :
          IsChain(mem, head, n, q) /\ L = {q[k] : k \in 1 .. n}
  BY <1>0
<1>2. ASSUME NEW k \in 1 .. n, q[k] # head
      PROVE  \E d \in L : mem[d].next = q[k]
  <2>1. k # 1
    BY <1>2, <1>1 DEF IsChain
  <2>2. k - 1 \in 1 .. n /\ k - 1 # n /\ (k - 1) + 1 = k
    BY <2>1
  <2>3. mem[q[k - 1]].next = q[k]
    BY <2>2, <1>1 DEF IsChain
  <2> QED BY <2>2, <2>3, <1>1
<1>3. ASSUME L # {} PROVE \E e \in L : mem[e].next = NULL
  <2>1. n \in 1 .. n
    BY <1>3, <1>1
  <2> QED BY <2>1, <1>1 DEF IsChain
<1> QED BY <1>1, <1>2, <1>3

\* A struct is taken off a list by the link that leads to it.
LEMMA ListDropped ==
    ASSUME NEW mem, IsMemory(mem), NEW m2, NEW head, NEW L, IsList(mem, head, L),
           NEW c \in L, L \ {c} \subseteq DOMAIN m2,
           \A d \in L \ {c} :
               m2[d].next = IF mem[d].next = c THEN mem[c].next ELSE mem[d].next
    PROVE  IsList(m2, IF head = c THEN mem[c].next ELSE head, L \ {c})
<1>0. PICK n \in Nat : \E q \in [1 .. n -> DOMAIN mem] :
          IsChain(mem, head, n, q) /\ L = {q[k] : k \in 1 .. n}
  BY DEF IsList
<1>1. PICK q \in [1 .. n -> DOMAIN mem] :
          IsChain(mem, head, n, q) /\ L = {q[k] : k \in 1 .. n}
  BY <1>0
<1>2. PICK i \in 1 .. n : c = q[i]
  BY <1>1
<1> DEFINE first == IF head = c THEN mem[c].next ELSE head
           p == [k \in 1 .. n - 1 |-> IF k < i THEN q[k] ELSE q[k + 1]]
           at(k) == IF k < i THEN k ELSE k + 1
<1>3. n - 1 \in Nat
  OBVIOUS
<1>4. \A k \in 1 .. n - 1 : at(k) \in 1 .. n /\ at(k) # i /\ p[k] = q[at(k)]
  OBVIOUS
<1>5. \A j, k \in 1 .. n - 1 : at(j) = at(k) => j = k
  OBVIOUS
<1>6. \A j \in 1 .. n : j # i => \E k \in 1 .. n - 1 : j = at(k)
  <2> SUFFICES ASSUME NEW j \in 1 .. n, j # i PROVE \E k \in 1 .. n - 1 : j = at(k)
    OBVIOUS
  <2>1. CASE j < i
    <3>1. j \in 1 .. n - 1 /\ j = at(j)
      BY <2>1
    <3> QED BY <3>1
  <2>2. CASE ~(j < i)
    <3>1. j - 1 \in 1 .. n - 1 /\ j = at(j - 1)
      BY <2>2
    <3> QED BY <3>1
  <2> QED BY <2>1, <2>2
<1>7. \A j, k \in 1 .. n : q[j] = q[k] => j = k
  BY <1>1 DEF IsChain
<1>8. L \ {c} = {p[k] : k \in 1 .. n - 1}
  <2>1. ASSUME NEW d \in L \ {c} PROVE \E k \in 1 .. n - 1 : d = p[k]
    <3>1. PICK j \in 1 .. n : d = q[j]
      BY <1>1
    <3>2. j # i
      BY <3>1, <2>1, <1>2
    <3> QED BY <3>1, <3>2, <1>6, <1>4
  <2>2. ASSUME NEW k \in 1 .. n - 1 PROVE p[k] \in L \ {c}
    BY <1>1, <1>2, <1>4, <1>7
  <2> HIDE DEF p
  <2> QED BY <2>1, <2>2
<1>9. p \in [1 .. n - 1 -> DOMAIN m2]
  <2>1. \A k \in 1 .. n - 1 : p[k] \in DOMAIN m2
    BY <1>8
  <2> QED BY <2>1
<1>10. \A j, k \in 1 .. n - 1 : p[j] = p[k] => j = k
  <2> HIDE DEF p, at
  <2> QED BY <1>4, <1>5, <1>7
<1>11. ASSUME NEW k \in 1 .. n - 1
       PROVE  m2[p[k]].next = IF k = n - 1 THEN NULL ELSE p[k + 1]
  <2> DEFINE d == p[k]
  <2>1. d \in L \ {c} /\ d = q[at(k)]
    BY <1>4, <1>8
  <2>2. mem[d].next = IF at(k) = n THEN NULL ELSE q[at(k) + 1]
    BY <2>1, <1>4, <1>1 DEF IsChain
  <2>3. mem[c].next = IF i = n THEN NULL ELSE q[i + 1]
    BY <1>2, <1>1 DEF IsChain
  <2>4. c # NULL
    BY <1>1, <1>2 DEF IsMemory, NULL
  <2>5. mem[d].next = c <=> at(k) + 1 = i
    <3>1. at(k) # n => at(k) + 1 \in 1 .. n
      BY <1>4
    <3>2. at(k) = n => at(k) + 1 # i
      OBVIOUS
    <3> HIDE DEF at, d
    <3> QED BY <3>1, <3>2, <2>2, <2>4, <1>2, <1>7
  <2>6. CASE at(k) + 1 = i
    <3>1. k = i - 1 /\ at(k) = k
      BY <2>6
    <3>2. m2[d].next = mem[c].next
      BY <2>1, <2>5, <2>6
    <3>3. k = n - 1 <=> i = n
      BY <3>1
    <3>4. k # n - 1 => k + 1 \in 1 .. n - 1 /\ p[k + 1] = q[i + 1]
      BY <3>1
    <3> QED BY <2>3, <3>2, <3>3, <3>4
  <2>7. CASE at(k) + 1 # i
    <3>1. m2[d].next = mem[d].next
      BY <2>1, <2>5, <2>7
    <3>2. at(k) = n <=> k = n - 1
      BY <2>7
    <3>3. k # n - 1 => k + 1 \in 1 .. n - 1 /\ p[k + 1] = q[at(k) + 1]
      BY <2>7
    <3> QED BY <2>2, <3>1, <3>2, <3>3
  <2> QED BY <2>6, <2>7
<1>12. first = IF n - 1 = 0 THEN NULL ELSE p[1]
  <2>1. head = q[1] /\ 1 \in 1 .. n
    BY <1>1 DEF IsChain
  <2>2. head = c <=> i = 1
    BY <2>1, <1>2, <1>7
  <2>3. CASE i = 1
    <3>1. first = IF n = 1 THEN NULL ELSE q[2]
      BY <2>2, <2>3, <1>2, <1>1 DEF IsChain
    <3>2. n # 1 => p[1] = q[2]
      BY <2>3
    <3> QED BY <3>1, <3>2
  <2>4. CASE i # 1
    <3>1. first = q[1] /\ n - 1 # 0 /\ p[1] = q[1]
      BY <2>1, <2>2, <2>4
    <3> QED BY <3>1
  <2> QED BY <2>3, <2>4
<1>13. IsChain(m2, first, n - 1, p)
  <2> HIDE DEF p, first
  <2> QED BY <1>3, <1>9, <1>10, <1>11, <1>12 DEF IsChain
<1> HIDE DEF p, first
<1>14. IsList(m2, first, L \ {c})
  BY <1>3, <1>8, <1>9, <1>13 DEF IsList
<1> QED BY <1>14 DEF first

\* What follows a struct of a list is a list.
LEMMA ListTail ==
    ASSUME NEW mem, NEW head, NEW L, IsList(mem, head, L), NEW c \in L
    PROVE  \E T \in SUBSET (L \ {c}) : IsList(mem, mem[c].next, T)
<1>0. PICK n \in Nat : \E q \in [1 .. n -> DOMAIN mem] :
          IsChain(mem, head, n, q) /\ L = {q[k] : k \in 1 .. n}
  BY DEF IsList
<1>1. PICK q \in [1 .. n -> DOMAIN mem] :
          IsChain(mem, head, n, q) /\ L = {q[k] : k \in 1 .. n}
  BY <1>0
<1>2. PICK i \in 1 .. n : c = q[i]
  BY <1>1
<1> DEFINE p == [k \in 1 .. n - i |-> q[k + i]]
           T == {p[k] : k \in 1 .. n - i}
<1>3. n - i \in Nat
  OBVIOUS
<1>4. \A k \in 1 .. n - i : k + i \in 1 .. n /\ k + i # i /\ p[k] = q[k + i]
  OBVIOUS
<1>5. \A j, k \in 1 .. n : q[j] = q[k] => j = k
  BY <1>1 DEF IsChain
<1>6. \A k \in 1 .. n - i : p[k] \in L \ {c}
  <2> SUFFICES ASSUME NEW k \in 1 .. n - i PROVE p[k] \in L \ {c}
    OBVIOUS
  <2>1. q[k + i] # q[i]
    BY <1>4, <1>5
  <2> QED BY <2>1, <1>4, <1>1, <1>2
<1>7. p \in [1 .. n - i -> DOMAIN mem]
  BY <1>4
<1>8. \A j, k \in 1 .. n - i : p[j] = p[k] => j = k
  <2> SUFFICES ASSUME NEW j \in 1 .. n - i, NEW k \in 1 .. n - i, p[j] = p[k]
               PROVE  j = k
    OBVIOUS
  <2>1. j + i = k + i
    <3> HIDE DEF p
    <3> QED BY <1>4, <1>5
  <2> QED BY <2>1
<1>9. ASSUME NEW k \in 1 .. n - i
      PROVE  mem[p[k]].next = IF k = n - i THEN NULL ELSE p[k + 1]
  <2>1. mem[q[k + i]].next = IF k + i = n THEN NULL ELSE q[(k + i) + 1]
    BY <1>4, <1>1 DEF IsChain
  <2>2. k # n - i => k + 1 \in 1 .. n - i /\ p[k + 1] = q[(k + i) + 1]
    OBVIOUS
  <2>3. k + i = n <=> k = n - i
    OBVIOUS
  <2> QED BY <2>1, <2>2, <2>3, <1>4
<1>10. mem[c].next = IF n - i = 0 THEN NULL ELSE p[1]
  <2>1. mem[c].next = IF i = n THEN NULL ELSE q[i + 1]
    BY <1>1, <1>2 DEF IsChain
  <2>2. n - i # 0 => p[1] = q[i + 1]
    OBVIOUS
  <2> QED BY <2>1, <2>2
<1>11. IsChain(mem, mem[c].next, n - i, p)
  <2> HIDE DEF p
  <2> QED BY <1>3, <1>7, <1>8, <1>9, <1>10 DEF IsChain
<1>12. IsList(mem, mem[c].next, T)
  <2> HIDE DEF p
  <2> QED BY <1>3, <1>7, <1>11 DEF IsList
<1>13. T \in SUBSET (L \ {c})
  <2> HIDE DEF p
  <2> QED BY <1>6
<1> QED BY <1>12, <1>13

-----------------------------------------------------------------------------
(***************************************************************************)
(* The cache of fontsets.  Until it is given back, a window counts as a    *)
(* user of its font; a menu never gives it back, so a count may be too     *)
(* large, but it is never too small.                                       *)
(***************************************************************************)
FontMemory == [cell : Seq(IFont), fontlist : Nat, freef_head : Nat, freef_end : Nat]

\* H gives each window the cell it draws with, and A the name it was given.
holders(H, c) == {r \in DOMAIN H : H[r] = c}

with_holder(H, w, c) == [r \in DOMAIN H \cup {w} |-> IF r = w THEN c ELSE H[r]]

without(H, w) == [r \in DOMAIN H \ {w} |-> H[r]]

\* U is the list of fontsets in use and I that of the idle ones.
ListsOfFonts(F, U, I) ==
    /\ IsList(F.cell, F.fontlist, U)
    /\ IsList(F.cell, F.freef_head, I)
    /\ U \cap I = {}
    /\ I = {} => F.freef_end = NULL
    /\ I # {} => F.freef_end \in I /\ F.cell[F.freef_end].next = NULL

CountedFonts(F, U, I, H) ==
    /\ \A c \in U \cup I : F.cell[c].open
    /\ \A c \in U : Cardinality(holders(H, c)) <= F.cell[c].ref_cnt
    /\ \A c \in I : F.cell[c].ref_cnt = 0 /\ holders(H, c) = {}

HeldFonts(F, H, A) ==
    /\ IsFiniteSet(DOMAIN H) /\ DOMAIN A = DOMAIN H
    /\ \A r \in DOMAIN H : /\ H[r] \in DOMAIN F.cell
                           /\ F.cell[H[r]].open
                           /\ F.cell[H[r]].basename = A[r]

FontsSound(F, H, A) ==
    /\ F \in FontMemory
    /\ \A c \in DOMAIN F.cell : F.cell[c].prev = NoFont
    /\ HeldFonts(F, H, A)
    /\ \E U, I : ListsOfFonts(F, U, I) /\ CountedFonts(F, U, I, H)

\* H2 is H, with at most one more window, which draws with c.
Grown(H, A, H2, A2, c, name) ==
    /\ IsFiniteSet(DOMAIN H2) /\ DOMAIN A2 = DOMAIN H2
    /\ \A d : d # c => holders(H2, d) = holders(H, d)
    /\ Cardinality(holders(H2, c)) <= Cardinality(holders(H, c)) + 1
    /\ \A r \in DOMAIN H2 : \/ r \in DOMAIN H /\ H2[r] = H[r] /\ A2[r] = A[r]
                            \/ H2[r] = c /\ A2[r] = name

\* The cells of the cache are a memory.
LEMMA CellsAreMemory ==
    ASSUME NEW F \in FontMemory
    PROVE  /\ IsMemory(F.cell)
           /\ \A c \in DOMAIN F.cell : F.cell[c] \in IFont /\ c # NULL /\ c \in Nat
<1> QED BY DEF FontMemory, IsMemory, NULL

\* One cell is written.
LEMMA CellWritten ==
    ASSUME NEW F \in FontMemory, NEW c \in DOMAIN F.cell, NEW r \in IFont
    PROVE  /\ [F EXCEPT !.cell[c] = r] \in FontMemory
           /\ [F EXCEPT !.cell[c] = r].cell = [F.cell EXCEPT ![c] = r]
           /\ DOMAIN [F EXCEPT !.cell[c] = r].cell = DOMAIN F.cell
<1>1. F.cell \in Seq(IFont)
  BY DEF FontMemory
<1>2. [F.cell EXCEPT ![c] = r] \in Seq(IFont)
  BY <1>1, ExceptSeq
<1> QED BY <1>1, <1>2 DEF FontMemory

\* A cell is put on another place of a list.
LEMMA LinkedCell ==
    ASSUME NEW r \in IFont, NEW n \in Int, NEW x \in Nat, NEW y \in Nat
    PROVE  [r EXCEPT !.ref_cnt = n, !.next = x, !.prev = y] \in IFont
<1> DEFINE r1 == [r EXCEPT !.ref_cnt = n]
           r2 == [r1 EXCEPT !.next = x]
<1>1. r1 \in IFont
  BY DEF IFont
<1>2. r2 \in IFont
  <2> HIDE DEF r1
  <2> QED BY <1>1 DEF IFont
<1>3. [r2 EXCEPT !.prev = y] \in IFont
  <2> HIDE DEF r2
  <2> QED BY <1>2 DEF IFont
<1>4. [r EXCEPT !.ref_cnt = n, !.next = x, !.prev = y] = [r2 EXCEPT !.prev = y]
  OBVIOUS
<1> QED BY <1>3, <1>4

\* Finitely many windows draw with a font.
LEMMA HoldersFinite ==
    ASSUME NEW H, IsFiniteSet(DOMAIN H), NEW c
    PROVE  /\ IsFiniteSet(holders(H, c)) /\ Cardinality(holders(H, c)) \in Nat
           /\ Cardinality(holders(H, c)) = 0 <=> holders(H, c) = {}
<1>1. holders(H, c) \in SUBSET DOMAIN H
  BY DEF holders
<1>2. IsFiniteSet(holders(H, c))
  BY <1>1, FS_Subset
<1> QED BY <1>2, FS_CardinalityType, FS_EmptySet

\* Nobody draws with one more font, or a new window does.
LEMMA GrownByNone ==
    ASSUME NEW H, NEW A, NEW c, NEW name, IsFiniteSet(DOMAIN H), DOMAIN A = DOMAIN H
    PROVE  Grown(H, A, H, A, c, name)
<1> QED BY HoldersFinite DEF Grown

LEMMA GrownByOne ==
    ASSUME NEW H, NEW A, NEW c, NEW name, NEW w, IsFiniteSet(DOMAIN H),
           w \notin DOMAIN H, DOMAIN A = DOMAIN H
    PROVE  Grown(H, A, with_holder(H, w, c), with_holder(A, w, name), c, name)
<1> DEFINE H2 == with_holder(H, w, c)
           A2 == with_holder(A, w, name)
<1>1. /\ DOMAIN H2 = DOMAIN H \cup {w} /\ H2[w] = c /\ A2[w] = name
      /\ \A r \in DOMAIN H : H2[r] = H[r] /\ A2[r] = A[r] /\ r # w
  BY DEF with_holder
<1>8. DOMAIN A2 = DOMAIN H2
  BY DEF with_holder
<1> HIDE DEF H2, A2
<1>2. IsFiniteSet(DOMAIN H2)
  BY <1>1, FS_AddElement
<1>3. ASSUME NEW d, d # c PROVE holders(H2, d) = holders(H, d)
  BY <1>1, <1>3 DEF holders
<1>4. holders(H2, c) = holders(H, c) \cup {w} /\ w \notin holders(H, c)
  BY <1>1 DEF holders
<1>5. Cardinality(holders(H2, c)) = Cardinality(holders(H, c)) + 1
  BY <1>4, HoldersFinite, FS_AddElement
<1>6. Cardinality(holders(H2, c)) <= Cardinality(holders(H, c)) + 1
  BY <1>5, HoldersFinite
<1>7. Grown(H, A, H2, A2, c, name)
  BY <1>1, <1>2, <1>3, <1>6, <1>8 DEF Grown
<1> QED BY <1>7 DEF H2, A2

\* What is found under a name has that name.
LEMMA NamedFont ==
    ASSUME NEW F \in FontMemory, NEW head, NEW L, IsList(F.cell, head, L), NEW name
    PROVE  \/ named(F, head, name) = NoFont
           \/ named(F, head, name) \in L /\ F.cell[named(F, head, name)].basename = name
<1> DEFINE S == {c \in DOMAIN F.cell : F.cell[c].basename = name}
<1>1. IsMemory(F.cell) /\ NULL \notin S
  BY CellsAreMemory
<1>2. first_of(F.cell, head, S) = NULL \/ first_of(F.cell, head, S) \in L \cap S
  <2> HIDE DEF S
  <2> QED BY <1>1, FirstFound
<1> QED BY <1>2 DEF named, NoFont

\* The links back are never set: no neighbour is joined through them.
LEMMA JoinedAsIs ==
    ASSUME NEW F \in FontMemory, \A c \in DOMAIN F.cell : F.cell[c].prev = NoFont,
           NEW c \in DOMAIN F.cell, F.cell[c].next \in DOMAIN F.cell \cup {NULL}
    PROVE  joined(F, c) = F
<1> DEFINE n == F.cell[c].next
<1>1. F.cell[c].prev = NoFont
  OBVIOUS
<1>2. joined(F, c) = IF n # NoFont THEN [F EXCEPT !.cell[n].prev = NoFont] ELSE F
  BY <1>1 DEF joined
<1>3. CASE n # NoFont
  <2>1. n \in DOMAIN F.cell /\ F.cell[n] \in IFont /\ F.cell[n].prev = NoFont
    BY <1>3, CellsAreMemory DEF NoFont
  <2>2. [F.cell[n] EXCEPT !.prev = NoFont] = F.cell[n]
    BY <2>1 DEF IFont
  <2>3. [F.cell EXCEPT ![n].prev = NoFont] = F.cell
    BY <2>1, <2>2 DEF FontMemory
  <2>4. [F EXCEPT !.cell[n].prev = NoFont] = F
    BY <2>3 DEF FontMemory
  <2> QED BY <1>2, <2>4
<1>4. CASE n = NoFont
  BY <1>2, <1>4
<1> QED BY <1>3, <1>4

\* F2 is F but for the cell c, which is open there under the name, as it was
\* before if a window draws with it.
Touched(F, F2, H, c, name) ==
    /\ c \in DOMAIN F2.cell /\ F2.cell[c].open /\ F2.cell[c].basename = name
    /\ \A d \in DOMAIN F.cell : d # c => /\ d \in DOMAIN F2.cell
                                        /\ F2.cell[d].open = F.cell[d].open
                                        /\ F2.cell[d].basename = F.cell[d].basename
    /\ holders(H, c) # {} => F.cell[c].basename = name

\* The windows keep their fonts when one more window has its own.
LEMMA HeldGrown ==
    ASSUME NEW F, NEW F2, NEW H, NEW A, NEW H2, NEW A2, NEW c, NEW name,
           HeldFonts(F, H, A), Grown(H, A, H2, A2, c, name), Touched(F, F2, H, c, name)
    PROVE  HeldFonts(F2, H2, A2)
<1>1. ASSUME NEW r \in DOMAIN H2
      PROVE  /\ H2[r] \in DOMAIN F2.cell /\ F2.cell[H2[r]].open
             /\ F2.cell[H2[r]].basename = A2[r]
  <2>1. CASE H2[r] = c /\ A2[r] = name
    BY <2>1 DEF Touched
  <2>2. CASE r \in DOMAIN H /\ H2[r] = H[r] /\ A2[r] = A[r]
    <3>1. H[r] \in DOMAIN F.cell /\ F.cell[H[r]].open /\ F.cell[H[r]].basename = A[r]
      BY <2>2 DEF HeldFonts
    <3>2. CASE H[r] = c
      <4>1. r \in holders(H, c)
        BY <2>2, <3>2 DEF holders
      <4> QED BY <4>1, <2>2, <3>1, <3>2 DEF Touched
    <3>3. CASE H[r] # c
      BY <2>2, <3>1, <3>3 DEF Touched
    <3> QED BY <3>2, <3>3
  <2> QED BY <1>1, <2>1, <2>2 DEF Grown
<1> QED BY <1>1 DEF HeldFonts, Grown

\* A font in use gets one more user.
LEMMA SharingSound ==
    ASSUME NEW F, NEW H, NEW A, FontsSound(F, H, A), NEW U, NEW I,
           ListsOfFonts(F, U, I), CountedFonts(F, U, I, H), NEW c \in U,
           NEW H2, NEW A2, Grown(H, A, H2, A2, c, F.cell[c].basename)
    PROVE  FontsSound(one_more(F, c), H2, A2)
<1> DEFINE G == one_more(F, c)
<1>1. F \in FontMemory /\ IsMemory(F.cell) /\ c \in DOMAIN F.cell /\ F.cell[c] \in IFont
      /\ U \subseteq DOMAIN F.cell /\ I \subseteq DOMAIN F.cell
  <2>1. F \in FontMemory /\ IsMemory(F.cell)
    BY CellsAreMemory DEF FontsSound
  <2>2. U \subseteq DOMAIN F.cell /\ I \subseteq DOMAIN F.cell
    BY <2>1, ListHead DEF ListsOfFonts
  <2> QED BY <2>1, <2>2, CellsAreMemory
<1>2. G \in FontMemory
  <2>1. [F.cell[c] EXCEPT !.ref_cnt = @ + 1] \in IFont
    BY <1>1 DEF IFont
  <2>2. G = [F EXCEPT !.cell[c] = [F.cell[c] EXCEPT !.ref_cnt = @ + 1]]
    BY <1>1 DEF one_more, FontMemory
  <2> QED BY <2>1, <2>2, <1>1, CellWritten
<1>3. /\ DOMAIN G.cell = DOMAIN F.cell
      /\ G.fontlist = F.fontlist /\ G.freef_head = F.freef_head /\ G.freef_end = F.freef_end
      /\ \A d \in DOMAIN F.cell :
             /\ G.cell[d].next = F.cell[d].next /\ G.cell[d].prev = F.cell[d].prev
             /\ G.cell[d].open = F.cell[d].open /\ G.cell[d].basename = F.cell[d].basename
             /\ G.cell[d].ref_cnt = IF d = c THEN F.cell[d].ref_cnt + 1 ELSE F.cell[d].ref_cnt
  BY <1>1 DEF one_more, FontMemory, IFont
<1> HIDE DEF G
<1>4. ListsOfFonts(G, U, I)
  <2>1. IsList(G.cell, F.fontlist, U) /\ IsList(G.cell, F.freef_head, I)
    BY <1>1, <1>3, ListSame DEF ListsOfFonts
  <2> QED BY <2>1, <1>1, <1>3 DEF ListsOfFonts
<1>5. CountedFonts(G, U, I, H2)
  <2>1. \A d \in U \cup I : G.cell[d].open
    BY <1>1, <1>3 DEF CountedFonts
  <2>2. ASSUME NEW d \in U PROVE Cardinality(holders(H2, d)) <= G.cell[d].ref_cnt
    <3>1. IsFiniteSet(DOMAIN H) /\ IsFiniteSet(DOMAIN H2)
      BY DEF FontsSound, HeldFonts, Grown
    <3>2. Cardinality(holders(H, d)) \in Nat /\ Cardinality(holders(H2, d)) \in Nat
      BY <3>1, HoldersFinite
    <3>3. F.cell[d].ref_cnt \in Int /\ Cardinality(holders(H, d)) <= F.cell[d].ref_cnt
      BY <1>1, CellsAreMemory DEF CountedFonts, IFont
    <3>4. CASE d = c
      <4>1. Cardinality(holders(H2, d)) <= Cardinality(holders(H, d)) + 1
        BY <3>4 DEF Grown
      <4> QED BY <4>1, <3>2, <3>3, <3>4, <1>1, <1>3
    <3>5. CASE d # c
      BY <3>3, <3>5, <1>1, <1>3 DEF Grown
    <3> QED BY <3>4, <3>5
  <2>3. ASSUME NEW d \in I PROVE G.cell[d].ref_cnt = 0 /\ holders(H2, d) = {}
    <3>1. d # c
      BY DEF ListsOfFonts
    <3> QED BY <3>1, <1>1, <1>3 DEF CountedFonts, Grown
  <2> QED BY <2>1, <2>2, <2>3 DEF CountedFonts
<1>6. HeldFonts(G, H2, A2)
  <2> DEFINE name == F.cell[c].basename
  <2>1. HeldFonts(F, H, A) /\ F.cell[c].open /\ Grown(H, A, H2, A2, c, name)
    BY DEF FontsSound, CountedFonts
  <2>2. Touched(F, G, H, c, name)
    BY <2>1, <1>1, <1>3 DEF Touched
  <2> QED BY <2>1, <2>2, HeldGrown
<1>7. FontsSound(G, H2, A2)
  BY <1>1, <1>2, <1>3, <1>4, <1>5, <1>6 DEF FontsSound
<1> QED BY <1>7 DEF G

\* An idle font is used again.
LEMMA RevivingSound ==
    ASSUME NEW F, NEW H, NEW A, FontsSound(F, H, A), NEW U, NEW I,
           ListsOfFonts(F, U, I), CountedFonts(F, U, I, H), NEW c \in I,
           NEW H2, NEW A2, Grown(H, A, H2, A2, c, F.cell[c].basename)
    PROVE  /\ FontsSound(revived(F, c), H2, A2)
           /\ revived(F, c).cell[c].basename = F.cell[c].basename
<1> DEFINE G == revived(F, c)
           n == F.cell[c].next
<1>1. F \in FontMemory /\ IsMemory(F.cell) /\ c \in DOMAIN F.cell /\ F.cell[c] \in IFont
      /\ U \subseteq DOMAIN F.cell /\ I \subseteq DOMAIN F.cell
      /\ n \in I \cup {NULL} /\ F.cell[c].prev = NoFont
  <2>1. F \in FontMemory /\ IsMemory(F.cell)
    BY CellsAreMemory DEF FontsSound
  <2>2. U \subseteq DOMAIN F.cell /\ I \subseteq DOMAIN F.cell /\ n \in I \cup {NULL}
    BY <2>1, ListHead DEF ListsOfFonts
  <2> QED BY <2>1, <2>2, CellsAreMemory DEF FontsSound
<1>2. joined(F, c) = F
  BY <1>1, JoinedAsIs DEF FontsSound
<1>3. G = [F EXCEPT !.freef_head = n,
                    !.freef_end = IF n = NoFont THEN NoFont ELSE F.freef_end,
                    !.cell[c] = [one_more(F, c).cell[c] EXCEPT !.next = F.fontlist,
                                                              !.prev = NoFont],
                    !.fontlist = c]
  BY <1>1, <1>2 DEF revived, enlisted, FontMemory
<1>4. G \in FontMemory
  <2> DEFINE r == [F.cell[c] EXCEPT !.ref_cnt = @ + 1, !.next = F.fontlist, !.prev = NoFont]
             F1 == [F EXCEPT !.cell[c] = r]
  <2>1. r \in IFont /\ n \in Nat
    <3>1. F.fontlist \in Nat /\ NoFont \in Nat
      BY <1>1 DEF FontMemory, NoFont, NULL
    <3> DEFINE old == F.cell[c]
    <3>2. old \in IFont
      BY <1>1
    <3>3. old.next \in Nat
      BY <3>2 DEF IFont
    <3>4. [old EXCEPT !.ref_cnt = @ + 1, !.next = F.fontlist, !.prev = NoFont] \in IFont
      <4>1. old.ref_cnt + 1 \in Int
        BY <3>2 DEF IFont
      <4> HIDE DEF old
      <4> QED BY <3>1, <3>2, <4>1, LinkedCell
    <3> QED BY <3>3, <3>4
  <2>2. F1 \in FontMemory
    BY <2>1, <1>1, CellWritten
  <2>3. [one_more(F, c).cell[c] EXCEPT !.next = F.fontlist, !.prev = NoFont] = r
    BY <1>1 DEF one_more, FontMemory, IFont
  <2>4. G = [F1 EXCEPT !.freef_head = n,
                       !.freef_end = IF n = NoFont THEN NoFont ELSE F.freef_end,
                       !.fontlist = c]
    BY <1>1, <1>3, <2>3 DEF FontMemory
  <2>5. c \in Nat
    BY <1>1, CellsAreMemory
  <2> HIDE DEF r, F1
  <2> QED BY <1>1, <2>1, <2>2, <2>4, <2>5 DEF FontMemory, NoFont, NULL
<1>5. /\ DOMAIN G.cell = DOMAIN F.cell
      /\ G.fontlist = c /\ G.freef_head = n
      /\ G.freef_end = IF n = NoFont THEN NoFont ELSE F.freef_end
      /\ \A d \in DOMAIN F.cell : d # c => G.cell[d] = F.cell[d]
      /\ G.cell[c].next = F.fontlist /\ G.cell[c].prev = NoFont
      /\ G.cell[c].open = F.cell[c].open /\ G.cell[c].basename = F.cell[c].basename
      /\ G.cell[c].ref_cnt = F.cell[c].ref_cnt + 1
  BY <1>1, <1>3 DEF one_more, FontMemory, IFont
<1> HIDE DEF G
<1>6. PICK T \in SUBSET (I \ {c}) : IsList(F.cell, n, T)
  BY ListTail DEF ListsOfFonts
<1>7. c \notin U
  BY DEF ListsOfFonts
<1>8. ListsOfFonts(G, U \cup {c}, T)
  <2>1. IsList(G.cell, c, U \cup {c})
    BY <1>1, <1>5, <1>7, ListPushed DEF ListsOfFonts
  <2>2. IsList(G.cell, n, T)
    BY <1>1, <1>5, <1>6, ListSame
  <2>3. (U \cup {c}) \cap T = {}
    BY DEF ListsOfFonts
  <2>4. n = NULL <=> T = {}
    BY <1>1, <1>6, ListHead
  <2>5. T # {} => F.freef_end \in T /\ F.cell[F.freef_end].next = NULL
    <3>1. T # {} => \E e \in T : F.cell[e].next = NULL
      BY <1>6, ListLinks
    <3>2. F.freef_end \in I /\ F.cell[F.freef_end].next = NULL
      BY DEF ListsOfFonts
    <3>3. \A d, e \in I : F.cell[d].next = F.cell[e].next => d = e
      BY <1>1, ListHead DEF ListsOfFonts
    <3> QED BY <3>1, <3>2, <3>3
  <2> QED BY <1>1, <1>5, <2>1, <2>2, <2>3, <2>4, <2>5 DEF ListsOfFonts, NoFont
<1>9. CountedFonts(G, U \cup {c}, T, H2)
  <2>1. \A d \in U \cup {c} \cup T : G.cell[d].open
    BY <1>1, <1>5 DEF CountedFonts
  <2>2. ASSUME NEW d \in U \cup {c} PROVE Cardinality(holders(H2, d)) <= G.cell[d].ref_cnt
    <3>1. CASE d = c
      <4>1. holders(H, c) = {} /\ F.cell[c].ref_cnt = 0
        BY DEF CountedFonts
      <4>2. Cardinality(holders(H2, c)) <= 0 + 1
        BY <4>1, FS_EmptySet DEF Grown
      <4> QED BY <3>1, <4>1, <4>2, <1>5
    <3>2. CASE d # c
      BY <3>2, <1>1, <1>5 DEF CountedFonts, Grown
    <3> QED BY <3>1, <3>2
  <2>3. ASSUME NEW d \in T PROVE G.cell[d].ref_cnt = 0 /\ holders(H2, d) = {}
    BY <1>1, <1>5 DEF CountedFonts, Grown
  <2> QED BY <2>1, <2>2, <2>3 DEF CountedFonts
<1>10. HeldFonts(G, H2, A2)
  <2> DEFINE name == F.cell[c].basename
  <2>1. HeldFonts(F, H, A) /\ F.cell[c].open /\ Grown(H, A, H2, A2, c, name)
    BY DEF FontsSound, CountedFonts
  <2>2. Touched(F, G, H, c, name)
    BY <2>1, <1>1, <1>5 DEF Touched
  <2> QED BY <2>1, <2>2, HeldGrown
<1>11. \A d \in DOMAIN G.cell : G.cell[d].prev = NoFont
  BY <1>5 DEF FontsSound
<1>12. FontsSound(G, H2, A2)
  BY <1>4, <1>8, <1>9, <1>10, <1>11 DEF FontsSound
<1> QED BY <1>12, <1>5 DEF G

\* No font is idle, and c is a cell that no list and no window leads to.
Spare(F, H, A, U, c) ==
    /\ FontsSound(F, H, A)
    /\ ListsOfFonts(F, U, {}) /\ CountedFonts(F, U, {}, H)
    /\ c \in DOMAIN F.cell \ U
    /\ holders(H, c) = {}

\* What a cell is filled with.
LEMMA UnusedCell == Unused \in IFont
<1> QED BY DEF Unused, IFont, NoFont, NULL

\* The idle cell that is taken is the only one: nobody draws with it.
LEMMA RecyclingSpares ==
    ASSUME NEW F, NEW H, NEW A, FontsSound(F, H, A), NEW U, NEW I,
           ListsOfFonts(F, U, I), CountedFonts(F, U, I, H), F.freef_end # NoFont
    PROVE  Spare(recycled(F), H, A, U, F.freef_end)
<1> DEFINE e == F.freef_end
           G == recycled(F)
<1>1. F \in FontMemory /\ IsMemory(F.cell) /\ e \in I /\ e \in DOMAIN F.cell
      /\ U \subseteq DOMAIN F.cell /\ F.cell[e].prev = NoFont
  <2>1. F \in FontMemory /\ IsMemory(F.cell)
    BY CellsAreMemory DEF FontsSound
  <2>2. U \subseteq DOMAIN F.cell /\ I \subseteq DOMAIN F.cell
    BY <2>1, ListHead DEF ListsOfFonts
  <2> QED BY <2>1, <2>2 DEF FontsSound, ListsOfFonts, NoFont
<1>2. G = [F EXCEPT !.cell[e] = Unused, !.freef_end = NoFont, !.freef_head = NoFont]
  BY <1>1 DEF recycled
<1> DEFINE F1 == [F EXCEPT !.cell[e] = Unused]
<1>3. F1 \in FontMemory /\ F1.cell = [F.cell EXCEPT ![e] = Unused]
  BY <1>1, UnusedCell, CellWritten
<1>4. G = [F1 EXCEPT !.freef_end = NoFont, !.freef_head = NoFont]
  BY <1>1, <1>2 DEF FontMemory
<1>5. G \in FontMemory
  <2> HIDE DEF F1, G
  <2> QED BY <1>3, <1>4 DEF FontMemory, NoFont, NULL
<1>6. /\ DOMAIN G.cell = DOMAIN F.cell
      /\ G.fontlist = F.fontlist /\ G.freef_head = NULL /\ G.freef_end = NULL
      /\ \A d \in DOMAIN F.cell : d # e => G.cell[d] = F.cell[d]
      /\ G.cell[e] = Unused
  BY <1>1, <1>2 DEF FontMemory, NoFont
<1> HIDE DEF G, F1
<1>7. e \notin U /\ holders(H, e) = {}
  BY <1>1 DEF ListsOfFonts, CountedFonts
<1>8. ListsOfFonts(G, U, {})
  <2>1. IsList(G.cell, F.fontlist, U)
    BY <1>1, <1>6, <1>7, ListSame DEF ListsOfFonts
  <2> QED BY <2>1, <1>6, ListEmpty DEF ListsOfFonts
<1>9. CountedFonts(G, U, {}, H)
  BY <1>1, <1>6, <1>7 DEF CountedFonts
<1>10. HeldFonts(G, H, A)
  <2>1. \A r \in DOMAIN H : H[r] # e
    BY <1>7 DEF holders
  <2> QED BY <2>1, <1>6 DEF HeldFonts, FontsSound
<1>11. \A d \in DOMAIN G.cell : G.cell[d].prev = NoFont
  BY <1>6 DEF FontsSound, Unused
<1>12. FontsSound(G, H, A)
  BY <1>5, <1>8, <1>9, <1>10, <1>11 DEF FontsSound
<1> QED BY <1>1, <1>6, <1>7, <1>8, <1>9, <1>12 DEF Spare, G

\* Or a cell is allocated.
LEMMA AllocatingSpares ==
    ASSUME NEW F, NEW H, NEW A, FontsSound(F, H, A), NEW U, NEW I,
           ListsOfFonts(F, U, I), CountedFonts(F, U, I, H), F.freef_end = NoFont
    PROVE  Spare(allocated(F), H, A, U, Len(F.cell) + 1)
<1> DEFINE c == Len(F.cell) + 1
           G == allocated(F)
<1>1. F \in FontMemory /\ IsMemory(F.cell) /\ U \subseteq DOMAIN F.cell
  <2>1. F \in FontMemory /\ IsMemory(F.cell)
    BY CellsAreMemory DEF FontsSound
  <2> QED BY <2>1, ListHead DEF ListsOfFonts
<1>2. I = {}
  <2> SUFFICES ASSUME I # {} PROVE FALSE
    OBVIOUS
  <2>1. NULL \in I
    BY DEF ListsOfFonts, NoFont
  <2>2. NULL \notin I
    BY <1>1, ListHead DEF ListsOfFonts
  <2> QED BY <2>1, <2>2
<1>3. Append(F.cell, Unused) \in Seq(IFont)
  BY <1>1, UnusedCell DEF FontMemory
<1>4. G \in FontMemory
  BY <1>1, <1>3 DEF allocated, FontMemory
<1>5. /\ DOMAIN G.cell = DOMAIN F.cell \cup {c} /\ c \notin DOMAIN F.cell
      /\ G.fontlist = F.fontlist /\ G.freef_head = F.freef_head /\ G.freef_end = F.freef_end
      /\ \A d \in DOMAIN F.cell : G.cell[d] = F.cell[d]
      /\ G.cell[c] = Unused
  <2>1. G.cell = Append(F.cell, Unused)
    BY <1>1 DEF allocated, FontMemory
  <2>2. F.cell \in Seq(IFont)
    BY <1>1 DEF FontMemory
  <2>3. DOMAIN G.cell = 1 .. c /\ DOMAIN F.cell = 1 .. Len(F.cell) /\ Len(F.cell) \in Nat
    BY <2>1, <2>2, <1>3
  <2>4. 1 .. c = (1 .. Len(F.cell)) \cup {c} /\ c \notin 1 .. Len(F.cell)
    BY <2>3
  <2>5. \A d \in 1 .. c : G.cell[d] = IF d <= Len(F.cell) THEN F.cell[d] ELSE Unused
    BY <2>1, <2>2, <2>3
  <2>6. (\A d \in DOMAIN F.cell : G.cell[d] = F.cell[d]) /\ G.cell[c] = Unused
    BY <2>3, <2>4, <2>5
  <2> QED BY <2>3, <2>4, <2>6, <1>1 DEF allocated, FontMemory
<1> HIDE DEF G, c
<1>6. ListsOfFonts(G, U, {})
  <2>1. IsList(G.cell, F.fontlist, U)
    BY <1>1, <1>5, ListSame DEF ListsOfFonts
  <2>2. F.freef_head = NULL
    BY <1>1, <1>2, ListHead DEF ListsOfFonts
  <2> QED BY <2>1, <2>2, <1>5, ListEmpty DEF ListsOfFonts, NoFont
<1>7. CountedFonts(G, U, {}, H)
  BY <1>1, <1>2, <1>5 DEF CountedFonts
<1>8. HeldFonts(G, H, A)
  BY <1>5 DEF HeldFonts, FontsSound
<1>9. \A d \in DOMAIN G.cell : G.cell[d].prev = NoFont
  BY <1>5 DEF FontsSound, Unused
<1>10. FontsSound(G, H, A)
  BY <1>4, <1>6, <1>7, <1>8, <1>9 DEF FontsSound
<1>11. holders(H, c) = {} /\ c \notin U
  BY <1>1, <1>5 DEF holders, FontsSound, HeldFonts
<1> QED BY <1>5, <1>6, <1>7, <1>10, <1>11 DEF Spare, G, c

NewCell(r, name) == r \in IFont /\ r.basename = name /\ r.ref_cnt = 1 /\ r.open

LEMMA CellFilled ==
    ASSUME NEW name \in FontName
    PROVE  NewCell([Unused EXCEPT !.basename = name, !.ref_cnt = 1, !.open = TRUE], name)
<1> DEFINE r1 == [Unused EXCEPT !.basename = name]
           r2 == [r1 EXCEPT !.ref_cnt = 1]
           r3 == [r2 EXCEPT !.open = TRUE]
<1>1. r1 \in IFont /\ r1.basename = name
  BY UnusedCell DEF IFont
<1>2. r2 \in IFont /\ r2.basename = name /\ r2.ref_cnt = 1
  <2> HIDE DEF r1
  <2> QED BY <1>1 DEF IFont
<1>3. r3 \in IFont /\ r3.basename = name /\ r3.ref_cnt = 1 /\ r3.open
  <2> HIDE DEF r2
  <2> QED BY <1>2 DEF IFont
<1>4. [Unused EXCEPT !.basename = name, !.ref_cnt = 1, !.open = TRUE] = r3
  OBVIOUS
<1> HIDE DEF r3
<1>5. NewCell(r3, name)
  BY <1>3 DEF NewCell
<1> QED BY <1>4, <1>5

\* The spare cell is filled and put on the list of the fonts in use.
LEMMA EnlistingSound ==
    ASSUME NEW F, NEW H, NEW A, NEW U, NEW c, Spare(F, H, A, U, c), NEW name \in FontName,
           NEW H2, NEW A2, Grown(H, A, H2, A2, c, name),
           NEW r, NewCell(r, name)
    PROVE  /\ FontsSound(enlisted(F, c, r), H2, A2)
           /\ enlisted(F, c, r).cell[c].basename = name
<1> DEFINE t == [r EXCEPT !.next = F.fontlist, !.prev = NoFont]
           G == enlisted(F, c, r)
<1>1. F \in FontMemory /\ IsMemory(F.cell) /\ c \in DOMAIN F.cell /\ c \in Nat /\ c \notin U
      /\ U \subseteq DOMAIN F.cell /\ holders(H, c) = {}
      /\ ListsOfFonts(F, U, {}) /\ CountedFonts(F, U, {}, H) /\ FontsSound(F, H, A)
  <2>1. F \in FontMemory /\ IsMemory(F.cell)
    BY CellsAreMemory DEF FontsSound, Spare
  <2> QED BY <2>1, ListHead, CellsAreMemory DEF ListsOfFonts, Spare
<1>2. F.fontlist \in Nat /\ NoFont \in Nat
  BY <1>1 DEF FontMemory, NoFont, NULL
<1>3. t \in IFont /\ t.next = F.fontlist /\ t.prev = NoFont /\ t.open /\ t.basename = name
      /\ t.ref_cnt = 1
  <2> DEFINE t1 == [r EXCEPT !.next = F.fontlist]
  <2>1. t1 \in IFont /\ t1.basename = name /\ t1.ref_cnt = 1 /\ t1.open
        /\ t1.next = F.fontlist
    BY <1>2 DEF NewCell, IFont
  <2>2. [t1 EXCEPT !.prev = NoFont] = t
    OBVIOUS
  <2> HIDE DEF t1
  <2>3. t = [t1 EXCEPT !.prev = NoFont]
    BY <2>2
  <2> HIDE DEF t
  <2> QED BY <1>2, <2>1, <2>3 DEF IFont
<1> HIDE DEF t
<1>4. G = [F EXCEPT !.cell[c] = t, !.fontlist = c]
  BY DEF enlisted, t
<1>5. [F EXCEPT !.cell[c] = t] \in FontMemory
  BY <1>1, <1>3, CellWritten
<1>6. G = [[F EXCEPT !.cell[c] = t] EXCEPT !.fontlist = c]
  BY <1>1, <1>4 DEF FontMemory
<1>7. G \in FontMemory
  <2> DEFINE F1 == [F EXCEPT !.cell[c] = t]
  <2> HIDE DEF F1, G
  <2>1. G = [F1 EXCEPT !.fontlist = c] /\ F1 \in FontMemory
    BY <1>5, <1>6 DEF F1
  <2> QED BY <2>1, <1>1 DEF FontMemory
<1>8. /\ DOMAIN G.cell = DOMAIN F.cell
      /\ G.fontlist = c /\ G.freef_head = F.freef_head /\ G.freef_end = F.freef_end
      /\ \A d \in DOMAIN F.cell : d # c => G.cell[d] = F.cell[d]
      /\ G.cell[c] = t
  BY <1>1, <1>4 DEF FontMemory
<1> HIDE DEF G
<1>10. ListsOfFonts(G, U \cup {c}, {})
  <2>1. IsList(G.cell, c, U \cup {c})
    BY <1>1, <1>8, <1>3, ListPushed DEF ListsOfFonts
  <2>2. F.freef_head = NULL
    BY <1>1, ListHead DEF ListsOfFonts
  <2> QED BY <2>1, <2>2, <1>1, <1>8, ListEmpty DEF ListsOfFonts
<1>11. CountedFonts(G, U \cup {c}, {}, H2)
  <2>1. \A d \in U \cup {c} : G.cell[d].open
    BY <1>1, <1>8, <1>3 DEF CountedFonts
  <2>2. Cardinality(holders(H2, c)) <= 0 + 1
    BY <1>1, FS_EmptySet DEF Grown
  <2>3. \A d \in U : Cardinality(holders(H2, d)) <= G.cell[d].ref_cnt
    BY <1>1, <1>8 DEF CountedFonts, Grown
  <2> QED BY <2>1, <2>2, <2>3, <1>8, <1>3 DEF CountedFonts
<1>12. HeldFonts(G, H2, A2)
  <2>1. HeldFonts(F, H, A)
    BY <1>1 DEF FontsSound
  <2>2. Touched(F, G, H, c, name)
    BY <1>1, <1>8, <1>3 DEF Touched
  <2> QED BY <2>1, <2>2, HeldGrown
<1>13. \A d \in DOMAIN G.cell : G.cell[d].prev = NoFont
  BY <1>1, <1>8, <1>3 DEF FontsSound
<1>14. FontsSound(G, H2, A2)
  BY <1>7, <1>10, <1>11, <1>12, <1>13 DEF FontsSound
<1> QED BY <1>8, <1>3, <1>14 DEF G

\* r is the answer to somebody who wants a font, and may now draw with it.
Gives(r, H, A) ==
    /\ FontsSound(r.fonts, H, A)
    /\ r.font # NoFont => \A H2, A2 :
           Grown(H, A, H2, A2, r.font, r.fonts.cell[r.font].basename)
               => FontsSound(r.fonts, H2, A2)

\* The three ways to answer one who wants a font, and then the whole function.
LEMMA OpeningGives ==
    ASSUME NEW F, NEW H, NEW A, FontsSound(F, H, A), NEW name \in FontName
    PROVE  /\ Gives(opened(F, name), H, A)
           /\ name \in Loadable => opened(F, name).font # NoFont
<1>1. F \in FontMemory /\ IsFiniteSet(DOMAIN H) /\ DOMAIN A = DOMAIN H
  BY DEF FontsSound, HeldFonts
<1>2. PICK U, I : ListsOfFonts(F, U, I) /\ CountedFonts(F, U, I, H)
  BY DEF FontsSound
<1> DEFINE reused == F.freef_end # NoFont
           F1 == IF reused THEN recycled(F) ELSE F
           G  == IF reused THEN F1 ELSE allocated(F1)
           c  == IF reused THEN F.freef_end ELSE Len(F.cell) + 1
           r  == [Unused EXCEPT !.basename = name, !.ref_cnt = 1, !.open = TRUE]
<1>3. opened(F, name) = IF name \in Loadable THEN [fonts |-> enlisted(G, c, r), font |-> c]
                                             ELSE [fonts |-> F1, font |-> NoFont]
  BY DEF opened
<1>4. Spare(G, H, A, U, c)
  <2>1. CASE reused
    BY <2>1, <1>2, RecyclingSpares
  <2>2. CASE ~reused
    BY <2>2, <1>2, AllocatingSpares
  <2> QED BY <2>1, <2>2
<1>5. FontsSound(F1, H, A)
  <2>1. CASE reused
    BY <2>1, <1>4 DEF Spare
  <2>2. CASE ~reused
    BY <2>2
  <2> QED BY <2>1, <2>2
<1>6. c # NoFont
  <2>1. Len(F.cell) \in Nat
    BY <1>1 DEF FontMemory
  <2> QED BY <2>1 DEF NoFont, NULL
<1>7. /\ enlisted(G, c, r).cell[c].basename = name
      /\ \A H2, A2 : Grown(H, A, H2, A2, c, name) => FontsSound(enlisted(G, c, r), H2, A2)
  <2>0. NewCell(r, name)
    BY CellFilled
  <2> HIDE DEF G, c, r
  <2>1. Grown(H, A, H, A, c, name)
    BY <1>1, GrownByNone
  <2>2. ASSUME NEW H2, NEW A2, Grown(H, A, H2, A2, c, name)
        PROVE  /\ FontsSound(enlisted(G, c, r), H2, A2)
               /\ enlisted(G, c, r).cell[c].basename = name
    BY <1>4, <2>0, <2>2, EnlistingSound
  <2> QED BY <2>1, <2>2
<1>8. FontsSound(enlisted(G, c, r), H, A)
  BY <1>1, <1>7, GrownByNone
<1> HIDE DEF G, F1, c, r
<1>9. CASE name \in Loadable
  BY <1>3, <1>6, <1>7, <1>8, <1>9 DEF Gives
<1>10. CASE name \notin Loadable
  BY <1>3, <1>5, <1>10 DEF Gives
<1> QED BY <1>9, <1>10

LEMMA CreatingGives ==
    ASSUME NEW F, NEW H, NEW A, FontsSound(F, H, A), NEW name \in FontName \cup {NoName}
    PROVE  /\ Gives(gui_create_fontset(F, name), H, A)
           /\ name \in Loadable => gui_create_fontset(F, name).font # NoFont
<1>1. F \in FontMemory /\ IsFiniteSet(DOMAIN H) /\ DOMAIN A = DOMAIN H
  BY DEF FontsSound, HeldFonts
<1>2. PICK U, I : ListsOfFonts(F, U, I) /\ CountedFonts(F, U, I, H)
  BY DEF FontsSound
<1> DEFINE used == named(F, F.fontlist, name)
           idle == named(F, F.freef_head, name)
<1>3. used = NoFont \/ (used \in U /\ F.cell[used].basename = name)
  BY <1>1, <1>2, NamedFont DEF ListsOfFonts
<1>4. idle = NoFont \/ (idle \in I /\ F.cell[idle].basename = name)
  BY <1>1, <1>2, NamedFont DEF ListsOfFonts
<1> HIDE DEF used, idle
<1>5. CASE name = NoName
  <2>1. gui_create_fontset(F, name) = [fonts |-> F, font |-> NoFont]
    BY <1>5 DEF gui_create_fontset
  <2>2. name \notin Loadable
    BY <1>5, FontAssumption
  <2> QED BY <2>1, <2>2 DEF Gives
<1>6. CASE name # NoName /\ used # NoFont
  <2>1. gui_create_fontset(F, name) = [fonts |-> one_more(F, used), font |-> used]
    BY <1>6 DEF gui_create_fontset, shared, used
  <2>2. \A H2, A2 : Grown(H, A, H2, A2, used, name) => FontsSound(one_more(F, used), H2, A2)
    BY <1>2, <1>3, <1>6, SharingSound
  <2>3. FontsSound(one_more(F, used), H, A)
    BY <1>1, <2>2, GrownByNone
  <2>4. one_more(F, used).cell[used].basename = name
    <3>1. used \in DOMAIN F.cell
      BY <1>1, <1>2, <1>3, <1>6, ListHead, CellsAreMemory DEF ListsOfFonts
    <3> QED BY <1>1, <1>3, <1>6, <3>1, CellsAreMemory DEF one_more, FontMemory, IFont
  <2> QED BY <2>1, <2>2, <2>3, <2>4, <1>6 DEF Gives
<1>7. CASE name # NoName /\ used = NoFont /\ idle # NoFont
  <2>1. gui_create_fontset(F, name) = [fonts |-> revived(F, idle), font |-> idle]
    BY <1>7 DEF gui_create_fontset, shared, used, idle
  <2>2. \A H2, A2 : Grown(H, A, H2, A2, idle, name) =>
            FontsSound(revived(F, idle), H2, A2) /\ revived(F, idle).cell[idle].basename = name
    BY <1>2, <1>4, <1>7, RevivingSound
  <2>3. FontsSound(revived(F, idle), H, A) /\ revived(F, idle).cell[idle].basename = name
    BY <1>1, <2>2, GrownByNone
  <2> QED BY <2>1, <2>2, <2>3, <1>7 DEF Gives
<1>8. CASE name # NoName /\ used = NoFont /\ idle = NoFont
  <2>1. gui_create_fontset(F, name) = opened(F, name)
    BY <1>8 DEF gui_create_fontset, shared, used, idle
  <2> QED BY <1>8, <2>1, OpeningGives
<1> QED BY <1>5, <1>6, <1>7, <1>8

\* A window always gets a font, in the end xcin's own.
LEMMA OrElseGives ==
    ASSUME NEW r, NEW H, NEW A, Gives(r, H, A), NEW name \in FontName
    PROVE  /\ Gives(or_else(r, name), H, A)
           /\ r.font # NoFont \/ name \in Loadable => or_else(r, name).font # NoFont
<1>1. CASE r.font # NoFont
  BY <1>1 DEF or_else
<1>2. CASE r.font = NoFont
  <2>1. or_else(r, name) = gui_create_fontset(r.fonts, name)
    BY <1>2 DEF or_else
  <2> QED BY <1>2, <2>1, CreatingGives DEF Gives
<1> QED BY <1>1, <1>2

LEMMA UpdatingGives ==
    ASSUME NEW F, NEW H, NEW A, FontsSound(F, H, A), NEW name \in FontName \cup {NoName}
    PROVE  /\ Gives(update_IC_fontset(F, name), H, A)
           /\ update_IC_fontset(F, name).font # NoFont
<1> DEFINE r1 == gui_create_fontset(F, name)
           r2 == or_else(r1, OverspotFont)
<1>1. Gives(r1, H, A)
  BY CreatingGives
<1>2. Gives(r2, H, A)
  BY <1>1, OrElseGives, FontAssumption
<1>3. DefaultFont \in FontName /\ DefaultFont \in Loadable
  BY FontAssumption
<1>4. update_IC_fontset(F, name) = or_else(r2, DefaultFont)
  BY DEF update_IC_fontset
<1> HIDE DEF r2
<1> QED BY <1>2, <1>3, <1>4, OrElseGives

\* A window that is gone holds no font, whether or not it gave it back.
LEMMA FewerHolders ==
    ASSUME NEW F, NEW H, NEW A, FontsSound(F, H, A), NEW H2, NEW A2,
           DOMAIN H2 \subseteq DOMAIN H, DOMAIN A2 = DOMAIN H2,
           \A r \in DOMAIN H2 : H2[r] = H[r] /\ A2[r] = A[r]
    PROVE  FontsSound(F, H2, A2)
<1>1. PICK U, I : ListsOfFonts(F, U, I) /\ CountedFonts(F, U, I, H)
  BY DEF FontsSound
<1>2. IsFiniteSet(DOMAIN H) /\ IsFiniteSet(DOMAIN H2)
  BY FS_Subset DEF FontsSound, HeldFonts
<1>3. \A c : holders(H2, c) \subseteq holders(H, c)
  BY DEF holders
<1>4. U \subseteq DOMAIN F.cell /\ F \in FontMemory
  BY <1>1, ListHead, CellsAreMemory DEF ListsOfFonts, FontsSound
<1>5. ASSUME NEW c \in U PROVE Cardinality(holders(H2, c)) <= F.cell[c].ref_cnt
  <2>1. Cardinality(holders(H2, c)) <= Cardinality(holders(H, c))
    BY <1>2, <1>3, HoldersFinite, FS_Subset
  <2>2. Cardinality(holders(H, c)) <= F.cell[c].ref_cnt /\ F.cell[c].ref_cnt \in Int
    BY <1>1, <1>4, CellsAreMemory DEF CountedFonts, IFont
  <2> QED BY <2>1, <2>2, <1>2, HoldersFinite
<1>6. CountedFonts(F, U, I, H2)
  BY <1>1, <1>3, <1>5 DEF CountedFonts
<1>7. HeldFonts(F, H2, A2)
  BY <1>2 DEF HeldFonts, FontsSound
<1> QED BY <1>1, <1>6, <1>7 DEF FontsSound

\* A font that is no longer used goes to the list of the idle ones.
LEMMA RetiringSound ==
    ASSUME NEW F, NEW H, NEW A, F \in FontMemory,
           \A d \in DOMAIN F.cell : F.cell[d].prev = NoFont,
           HeldFonts(F, H, A), NEW U, NEW I, ListsOfFonts(F, U, I), NEW c \in U,
           \A d \in (U \cup I) : F.cell[d].open,
           \A d \in U \ {c} : Cardinality(holders(H, d)) <= F.cell[d].ref_cnt,
           \A d \in I : F.cell[d].ref_cnt = 0 /\ holders(H, d) = {},
           F.cell[c].ref_cnt = 0, holders(H, c) = {}
    PROVE  FontsSound(retired(F, c), H, A)
<1> DEFINE n == F.cell[c].next
           r == [F.cell[c] EXCEPT !.prev = NoFont, !.next = F.freef_head]
           e == IF F.freef_end = NoFont THEN c ELSE F.freef_end
           G == retired(F, c)
<1>1. IsMemory(F.cell) /\ c \in DOMAIN F.cell /\ F.cell[c] \in IFont /\ c # NULL /\ c \in Nat
      /\ U \subseteq DOMAIN F.cell /\ I \subseteq DOMAIN F.cell
      /\ n \in U \cup {NULL} /\ n \in Nat /\ F.cell[c].prev = NoFont
  <2>1. IsMemory(F.cell)
    BY CellsAreMemory
  <2>2. U \subseteq DOMAIN F.cell /\ I \subseteq DOMAIN F.cell /\ n \in U \cup {NULL}
    BY <2>1, ListHead DEF ListsOfFonts
  <2>3. c \in DOMAIN F.cell
    BY <2>2
  <2>4. F.cell[c] \in IFont /\ c # NULL /\ c \in Nat
    BY <2>3, CellsAreMemory
  <2>5. n \in Nat
    BY <2>4 DEF IFont
  <2> QED BY <2>1, <2>2, <2>3, <2>4, <2>5
<1>2. joined(F, c) = F
  BY <1>1, JoinedAsIs
<1>3. r \in IFont
  <2> DEFINE r1 == [F.cell[c] EXCEPT !.prev = NoFont]
  <2>1. r1 \in IFont
    BY <1>1 DEF IFont, NoFont, NULL
  <2>2. F.freef_head \in Nat
    BY DEF FontMemory
  <2>3. [r1 EXCEPT !.next = F.freef_head] \in IFont
    <3> HIDE DEF r1
    <3> QED BY <2>1, <2>2 DEF IFont
  <2>4. r = [r1 EXCEPT !.next = F.freef_head]
    OBVIOUS
  <2> QED BY <2>3, <2>4
<1>4. /\ r.next = F.freef_head /\ r.prev = NoFont
      /\ r.open = F.cell[c].open /\ r.basename = F.cell[c].basename
      /\ r.ref_cnt = F.cell[c].ref_cnt
  BY <1>1 DEF IFont
<1>5. G = [F EXCEPT !.fontlist = n, !.cell[c] = r, !.freef_head = c, !.freef_end = e]
  BY <1>1, <1>2 DEF retired, FontMemory
<1> DEFINE F1 == [F EXCEPT !.cell[c] = r]
<1>6. F1 \in FontMemory /\ F1.cell = [F.cell EXCEPT ![c] = r]
  BY <1>1, <1>3, CellWritten
<1>7. G = [F1 EXCEPT !.fontlist = n, !.freef_head = c, !.freef_end = e]
  BY <1>5 DEF FontMemory
<1>8. e \in Nat
  BY <1>1 DEF FontMemory
<1> HIDE DEF r, e, F1, G, n
<1>9. G \in FontMemory
  BY <1>1, <1>6, <1>7, <1>8 DEF FontMemory
<1>10. /\ DOMAIN G.cell = DOMAIN F.cell
       /\ G.fontlist = n /\ G.freef_head = c /\ G.freef_end = e
       /\ \A d \in DOMAIN F.cell : d # c => G.cell[d] = F.cell[d]
       /\ G.cell[c] = r
  <2>1. G.cell = [F.cell EXCEPT ![c] = r]
    BY <1>6, <1>7 DEF FontMemory
  <2> QED BY <2>1, <1>1, <1>6, <1>7 DEF FontMemory
<1>11. c \notin I
  BY DEF ListsOfFonts
<1>12. PICK T \in SUBSET (U \ {c}) : IsList(F.cell, n, T)
  BY ListTail DEF ListsOfFonts, n
<1>13. ListsOfFonts(G, T, I \cup {c})
  <2>1. IsList(G.cell, c, I \cup {c})
    BY <1>1, <1>4, <1>10, <1>11, ListPushed DEF ListsOfFonts
  <2>2. IsList(G.cell, n, T)
    BY <1>1, <1>10, <1>12, ListSame
  <2>3. T \cap (I \cup {c}) = {}
    BY DEF ListsOfFonts
  <2>4. e \in I \cup {c} /\ G.cell[e].next = NULL
    <3>1. CASE F.freef_end = NoFont
      <4>1. I = {}
        <5>1. NULL \notin I
          BY <1>1, ListHead DEF ListsOfFonts
        <5> QED BY <3>1, <5>1 DEF ListsOfFonts, NoFont
      <4>2. F.freef_head = NULL
        BY <4>1, <1>1, ListHead DEF ListsOfFonts
      <4> QED BY <3>1, <4>2, <1>4, <1>10 DEF e
    <3>2. CASE F.freef_end # NoFont
      <4>1. F.freef_end \in I /\ F.cell[F.freef_end].next = NULL
        BY <3>2 DEF ListsOfFonts, NoFont
      <4> QED BY <3>2, <4>1, <1>1, <1>10, <1>11 DEF e
    <3> QED BY <3>1, <3>2
  <2> QED BY <2>1, <2>2, <2>3, <2>4, <1>10 DEF ListsOfFonts
<1>14. CountedFonts(G, T, I \cup {c}, H)
  BY <1>1, <1>4, <1>10, <1>11 DEF CountedFonts
<1>15. HeldFonts(G, H, A)
  BY <1>1, <1>4, <1>10 DEF HeldFonts
<1>16. \A d \in DOMAIN G.cell : G.cell[d].prev = NoFont
  BY <1>4, <1>10
<1>17. FontsSound(G, H, A)
  BY <1>9, <1>13, <1>14, <1>15, <1>16 DEF FontsSound
<1> QED BY <1>17 DEF G

\* gui_free_fontset().
LEMMA FreeingSound ==
    ASSUME NEW F, NEW H, NEW A, FontsSound(F, H, A), NEW w \in DOMAIN H
    PROVE  FontsSound(gui_free_fontset(F, H[w]), without(H, w), without(A, w))
<1> DEFINE c  == H[w]
           H2 == without(H, w)
           A2 == without(A, w)
           F1 == [F EXCEPT !.cell[c].ref_cnt = @ - 1]
<1>1. /\ DOMAIN H2 = DOMAIN H \ {w}
      /\ \A r \in DOMAIN H2 : H2[r] = H[r]
      /\ \A c2 : holders(H2, c2) = holders(H, c2) \ {w}
  BY DEF without, holders
<1>2. FontsSound(F, H2, A2)
  <2>1. DOMAIN A2 = DOMAIN H2 /\ \A r \in DOMAIN H2 : A2[r] = A[r]
    BY DEF without, FontsSound, HeldFonts
  <2> HIDE DEF H2, A2
  <2> QED BY <1>1, <2>1, FewerHolders
<1>3. CASE c \notin on_list(F.cell, F.fontlist)
  BY <1>2, <1>3 DEF gui_free_fontset
<1>4. CASE c \in on_list(F.cell, F.fontlist)
  <2>1. PICK U, I : ListsOfFonts(F, U, I) /\ CountedFonts(F, U, I, H)
    BY DEF FontsSound
  <2>2. F \in FontMemory /\ IsMemory(F.cell) /\ IsFiniteSet(DOMAIN H)
    BY CellsAreMemory DEF FontsSound, HeldFonts
  <2>3. c \in U /\ c \in DOMAIN F.cell /\ F.cell[c] \in IFont
        /\ U \subseteq DOMAIN F.cell /\ I \subseteq DOMAIN F.cell
    <3>1. c \in U
      BY <1>4, <2>1, <2>2, ListWalked DEF ListsOfFonts
    <3>2. U \subseteq DOMAIN F.cell /\ I \subseteq DOMAIN F.cell
      BY <2>1, <2>2, ListHead DEF ListsOfFonts
    <3> QED BY <3>1, <3>2, <2>2, CellsAreMemory
  <2>4. F1 \in FontMemory
    <3>1. [F.cell[c] EXCEPT !.ref_cnt = @ - 1] \in IFont
      BY <2>3 DEF IFont
    <3>2. F1 = [F EXCEPT !.cell[c] = [F.cell[c] EXCEPT !.ref_cnt = @ - 1]]
      BY <2>2, <2>3 DEF FontMemory
    <3> QED BY <3>1, <3>2, <2>2, <2>3, CellWritten
  <2>5. /\ DOMAIN F1.cell = DOMAIN F.cell
        /\ F1.fontlist = F.fontlist /\ F1.freef_head = F.freef_head
        /\ F1.freef_end = F.freef_end
        /\ \A d \in DOMAIN F.cell :
               /\ F1.cell[d].next = F.cell[d].next /\ F1.cell[d].prev = F.cell[d].prev
               /\ F1.cell[d].open = F.cell[d].open
               /\ F1.cell[d].basename = F.cell[d].basename
               /\ F1.cell[d].ref_cnt = IF d = c THEN F.cell[d].ref_cnt - 1 ELSE F.cell[d].ref_cnt
    BY <2>2, <2>3 DEF FontMemory, IFont
  <2>6. gui_free_fontset(F, c) = IF F1.cell[c].ref_cnt <= 0 THEN retired(F1, c) ELSE F1
    BY <1>4 DEF gui_free_fontset
  <2> HIDE DEF F1, c, H2, A2
  <2>7. ListsOfFonts(F1, U, I)
    <3>1. IsList(F1.cell, F.fontlist, U) /\ IsList(F1.cell, F.freef_head, I)
      BY <2>1, <2>2, <2>3, <2>5, ListSame DEF ListsOfFonts
    <3> QED BY <3>1, <2>1, <2>3, <2>5 DEF ListsOfFonts
  <2>8. \A d \in U \cup I : F1.cell[d].open
    BY <2>1, <2>3, <2>5 DEF CountedFonts
  <2>9. ASSUME NEW d \in U PROVE Cardinality(holders(H2, d)) <= F1.cell[d].ref_cnt
    <3>1. Cardinality(holders(H, d)) <= F.cell[d].ref_cnt /\ F.cell[d].ref_cnt \in Int
      BY <2>1, <2>2, <2>3, CellsAreMemory DEF CountedFonts, IFont
    <3>2. IsFiniteSet(holders(H, d)) /\ Cardinality(holders(H, d)) \in Nat
      BY <2>2, HoldersFinite
    <3>3. CASE d = c
      <4>1. w \in holders(H, d)
        BY <3>3 DEF holders, c
      <4>2. Cardinality(holders(H, d) \ {w}) = Cardinality(holders(H, d)) - 1
        BY <3>2, <4>1, FS_RemoveElement
      <4>3. holders(H2, d) = holders(H, d) \ {w} /\ F1.cell[d].ref_cnt = F.cell[d].ref_cnt - 1
        BY <3>3, <1>1, <2>3, <2>5 DEF H2
      <4> QED BY <3>1, <3>2, <4>2, <4>3
    <3>4. CASE d # c
      <4>1. holders(H2, d) = holders(H, d)
        BY <1>1, <3>4 DEF holders, c
      <4> QED BY <3>1, <3>4, <4>1, <2>3, <2>5
    <3> QED BY <3>3, <3>4
  <2>10. \A d \in I : F1.cell[d].ref_cnt = 0 /\ holders(H2, d) = {}
    <3>1. c \notin I
      BY <2>1, <2>3 DEF ListsOfFonts
    <3> QED BY <3>1, <1>1, <2>1, <2>3, <2>5 DEF CountedFonts
  <2>11. HeldFonts(F1, H2, A2)
    BY <1>2, <2>5 DEF FontsSound, HeldFonts
  <2>12. \A d \in DOMAIN F1.cell : F1.cell[d].prev = NoFont
    BY <2>5 DEF FontsSound
  <2>13. CASE F1.cell[c].ref_cnt <= 0
    <3>1. IsFiniteSet(DOMAIN H2)
      BY <2>11 DEF HeldFonts
    <3>2. Cardinality(holders(H2, c)) \in Nat /\ F1.cell[c].ref_cnt \in Int
      BY <3>1, <2>3, <2>4, <2>5, HoldersFinite, CellsAreMemory DEF IFont
    <3>3. F1.cell[c].ref_cnt = 0 /\ Cardinality(holders(H2, c)) = 0
      BY <2>3, <2>9, <2>13, <3>2
    <3>4. holders(H2, c) = {}
      BY <3>1, <3>3, HoldersFinite
    <3>5. FontsSound(retired(F1, c), H2, A2)
      BY <2>3, <2>4, <2>7, <2>8, <2>9, <2>10, <2>11, <2>12, <3>3, <3>4, RetiringSound
    <3> QED BY <3>5, <2>6, <2>13 DEF c, H2, A2
  <2>14. CASE ~(F1.cell[c].ref_cnt <= 0)
    <3>1. CountedFonts(F1, U, I, H2)
      BY <2>8, <2>9, <2>10 DEF CountedFonts
    <3>2. FontsSound(F1, H2, A2)
      BY <2>4, <2>7, <2>11, <2>12, <3>1 DEF FontsSound
    <3> QED BY <3>2, <2>6, <2>14 DEF c, H2, A2
  <2> QED BY <2>13, <2>14
<1> QED BY <1>3, <1>4

-----------------------------------------------------------------------------
(***************************************************************************)
(* Types, and what of a state or of a record stays as it is.               *)
(***************************************************************************)
Flag == {"HIDE", "MAINWIN2", "WINONLY", "USRFONTSET", "RUN_EXIT", "RUN_EXITALL"}
Im   == Ims \cup {English, NoIC.inp_num}

WinRec == [window : Nat, kind : {"none", "main", "main2", "overspot", "menusel"},
           imid : ICID \cup {NULL}, map : BOOLEAN, exit : BOOLEAN, font : Nat,
           asked : FontName \cup {NoName}, data : Nat, next : Nat]

Request == [reqid : Nat, window : Nat, callback : BOOLEAN]

ICRec == [live : BOOLEAN, style : {"Root", "OverSpot"}, base_font : FontName \cup {NoName},
          font_update : BOOLEAN, focus : BOOLEAN,
          inp_state : SUBSET {"CINPUT", "XIMFOCUS", "2BYTES", "2BFOCUS"}, inp_num : Im,
          typed : BOOLEAN, overspot_win : Nat, gwin : Seq(Request)]

Screen == [IC : [ICID \cup {NULL} -> ICRec], ic : ICID \cup {NULL}, icp : ICID \cup {NULL},
           mode : SUBSET Flag, winchange : SUBSET {"IM", "FOCUS"}, fonts : FontMemory,
           win : Seq(WinRec), winlist : Nat, free_win : Nat, mainwin : Nat, mainwin2 : Nat,
           xwin : SUBSET Nat, xid : Nat, unseen : BOOLEAN, left : SUBSET ICID,
           drawn : [{"main", "main2"} -> [im : Im, wide : BOOLEAN]]]

Fields == {"IC", "ic", "icp", "mode", "winchange", "fonts", "win", "winlist", "free_win",
           "mainwin", "mainwin2", "xwin", "xid", "unseen", "left", "drawn"}

WinFields == {"window", "kind", "imid", "map", "exit", "font", "asked", "data", "next"}

ICFields == {"live", "style", "base_font", "font_update", "focus", "inp_state", "inp_num",
             "typed", "overspot_win", "gwin"}

\* Two states, two records or two ICs agree but for the fields in N.
Agree(t, u, N) == \A f \in Fields \ N : u[f] = t[f]
Alike(p, q, N) == \A f \in WinFields \ N : q[f] = p[f]
Akin(i, j, N)  == \A f \in ICFields \ N : j[f] = i[f]

wins(t) == on_list(t.win, t.winlist)
idle(t) == on_list(t.win, t.free_win)

fonts_of(t) == [r \in wins(t) |-> t.win[r].font]
asked_of(t) == [r \in wins(t) |-> t.win[r].asked]

\* Every window on the list is one of xcin, with a font it may draw with.
Heap(t) ==
    /\ IsList(t.win, t.winlist, wins(t))
    /\ IsList(t.win, t.free_win, idle(t))
    /\ wins(t) \cap idle(t) = {}
    /\ \A r \in wins(t) : ~t.win[r].exit /\ t.win[r].window \in 1 .. t.xid
    /\ \A q, r \in wins(t) : t.win[q].window = t.win[r].window => q = r
    /\ t.xwin = {t.win[r].window : r \in wins(t)}
    /\ FontsSound(t.fonts, fonts_of(t), asked_of(t))

-----------------------------------------------------------------------------
\* The window records are a memory.
LEMMA RecordsAreMemory ==
    ASSUME NEW t \in Screen
    PROVE  /\ t.win \in Seq(WinRec) /\ IsMemory(t.win)
           /\ \A r \in DOMAIN t.win : t.win[r] \in WinRec /\ r # NULL /\ r \in Nat
<1>1. t.win \in Seq(WinRec)
  BY DEF Screen
<1>2. \A r \in DOMAIN t.win : t.win[r] \in WinRec /\ r # NULL /\ r \in Nat
  BY <1>1 DEF NULL
<1>3. IsMemory(t.win)
  BY <1>1 DEF IsMemory
<1> QED BY <1>1, <1>2, <1>3

\* One record is written.
LEMMA WinWritten ==
    ASSUME NEW t \in Screen, NEW w \in DOMAIN t.win, NEW r \in WinRec
    PROVE  /\ [t EXCEPT !.win[w] = r] \in Screen
           /\ Agree(t, [t EXCEPT !.win[w] = r], {"win"})
           /\ [t EXCEPT !.win[w] = r].win = [t.win EXCEPT ![w] = r]
           /\ DOMAIN [t EXCEPT !.win[w] = r].win = DOMAIN t.win
<1> DEFINE u == [t EXCEPT !.win[w] = r]
<1>1. t.win \in Seq(WinRec)
  BY DEF Screen
<1>2. [t.win EXCEPT ![w] = r] \in Seq(WinRec)
  BY <1>1, ExceptSeq
<1>3. u = [t EXCEPT !.win = [t.win EXCEPT ![w] = r]]
  BY DEF Screen
<1>4. u \in Screen
  BY <1>2, <1>3 DEF Screen
<1>5. Agree(t, u, {"win"}) /\ u.win = [t.win EXCEPT ![w] = r]
  BY <1>3 DEF Agree, Fields, Screen
<1>6. DOMAIN u.win = DOMAIN t.win
  BY <1>1, <1>5
<1> QED BY <1>4, <1>5, <1>6

\* What is to be shown for a heap.
LEMMA HeapMade ==
    ASSUME NEW t \in Screen, NEW W, NEW M,
           IsList(t.win, t.winlist, W), IsList(t.win, t.free_win, M), W \cap M = {},
           \A r \in W : ~t.win[r].exit /\ t.win[r].window \in 1 .. t.xid,
           \A q, r \in W : t.win[q].window = t.win[r].window => q = r,
           t.xwin = {t.win[r].window : r \in W},
           FontsSound(t.fonts, [r \in W |-> t.win[r].font], [r \in W |-> t.win[r].asked])
    PROVE  Heap(t) /\ wins(t) = W /\ idle(t) = M
<1>1. wins(t) = W /\ idle(t) = M
  BY RecordsAreMemory, ListWalked DEF wins, idle
<1> QED BY <1>1 DEF Heap, fonts_of, asked_of

\* The records on the two lists.
LEMMA ListsIn ==
    ASSUME NEW t \in Screen, Heap(t)
    PROVE  /\ wins(t) \subseteq DOMAIN t.win /\ idle(t) \subseteq DOMAIN t.win
           /\ NULL \notin wins(t) /\ NULL \notin idle(t)
           /\ \A r \in wins(t) : t.win[r] \in WinRec /\ r \in Nat /\ r # NULL
<1>1. wins(t) \subseteq DOMAIN t.win /\ idle(t) \subseteq DOMAIN t.win
  BY RecordsAreMemory, ListHead DEF Heap
<1> QED BY <1>1, RecordsAreMemory

\* A step that leaves the links as they are leaves the lists as they are.
LEMMA SameLinks ==
    ASSUME NEW t \in Screen, NEW u \in Screen, Heap(t), DOMAIN u.win = DOMAIN t.win,
           \A r \in DOMAIN t.win : u.win[r].next = t.win[r].next,
           u.winlist = t.winlist, u.free_win = t.free_win
    PROVE  /\ wins(u) = wins(t) /\ idle(u) = idle(t)
           /\ IsList(u.win, u.winlist, wins(t)) /\ IsList(u.win, u.free_win, idle(t))
<1>1. IsList(u.win, u.winlist, wins(t)) /\ IsList(u.win, u.free_win, idle(t))
  BY ListsIn, ListSame DEF Heap
<1> QED BY <1>1, RecordsAreMemory, ListWalked DEF wins, idle

\* What a window is does not change when it is drawn, mapped or refonted.
LEMMA HeapKept ==
    ASSUME NEW t \in Screen, NEW u \in Screen, Heap(t), DOMAIN u.win = DOMAIN t.win,
           \A r \in DOMAIN t.win : Alike(t.win[r], u.win[r], {"map", "kind", "imid", "data"}),
           Agree(t, u, Fields \ {"winlist", "free_win", "fonts", "xwin", "xid"})
    PROVE  Heap(u) /\ wins(u) = wins(t)
<1>1. /\ u.winlist = t.winlist /\ u.free_win = t.free_win /\ u.fonts = t.fonts
      /\ u.xwin = t.xwin /\ u.xid = t.xid
  BY DEF Agree, Fields
<1>2. \A r \in DOMAIN t.win : /\ u.win[r].next = t.win[r].next
                              /\ u.win[r].exit = t.win[r].exit
                              /\ u.win[r].window = t.win[r].window
                              /\ u.win[r].font = t.win[r].font
                              /\ u.win[r].asked = t.win[r].asked
  BY DEF Alike, WinFields
<1>3. wins(u) = wins(t) /\ idle(u) = idle(t) /\ wins(t) \subseteq DOMAIN t.win
  BY <1>1, <1>2, SameLinks, ListsIn
<1>4. IsList(u.win, u.winlist, wins(t)) /\ IsList(u.win, u.free_win, idle(t))
  BY <1>1, <1>2, SameLinks
<1>5. fonts_of(u) = fonts_of(t) /\ asked_of(u) = asked_of(t)
  BY <1>2, <1>3 DEF fonts_of, asked_of
<1>6. {u.win[r].window : r \in wins(t)} = {t.win[r].window : r \in wins(t)}
  BY <1>2, <1>3
<1> QED BY <1>1, <1>2, <1>3, <1>4, <1>5, <1>6 DEF Heap

\* A window is found by its X window.
LEMMA WindowFound ==
    ASSUME NEW t \in Screen, Heap(t), NEW x
    PROVE  /\ gui_search_win(t, x) \in wins(t) \cup {NULL}
           /\ gui_search_win(t, x) # NULL => t.win[gui_search_win(t, x)].window = x
           /\ \A r \in wins(t) : t.win[r].window = x => gui_search_win(t, x) = r
<1> DEFINE S == {r \in DOMAIN t.win : t.win[r].window = x}
<1>1. IsMemory(t.win) /\ NULL \notin S /\ IsList(t.win, t.winlist, wins(t))
  BY RecordsAreMemory DEF Heap
<1>2. wins(t) \subseteq DOMAIN t.win
  BY ListsIn
<1>3. gui_search_win(t, x) = first_of(t.win, t.winlist, S)
  BY DEF gui_search_win
<1>4. CASE wins(t) \cap S = {}
  <2>1. gui_search_win(t, x) = NULL
    <3> HIDE DEF S
    <3> QED BY <1>1, <1>3, <1>4, FirstFound
  <2> QED BY <2>1, <1>2, <1>4
<1>5. CASE wins(t) \cap S # {}
  <2>1. gui_search_win(t, x) \in wins(t) \cap S
    <3> HIDE DEF S
    <3> QED BY <1>1, <1>3, <1>5, FirstFound
  <2> QED BY <2>1 DEF Heap
<1> QED BY <1>4, <1>5

\* malloc, or the first record of the free list.
LEMMA RecordTaken ==
    ASSUME NEW t \in Screen, Heap(t), NEW w, NEW u,
           w = gui_new_win(t).rec, u = gui_new_win(t).mem
    PROVE  /\ u \in Screen /\ Agree(t, u, {"win", "winlist", "free_win"})
           /\ w \in DOMAIN u.win \ wins(t) /\ wins(t) \subseteq DOMAIN u.win
           /\ u.win[w] = [ZeroWin EXCEPT !.next = t.winlist] /\ u.winlist = w
           /\ \A q \in wins(t) : u.win[q] = t.win[q]
           /\ \E M : IsList(u.win, u.free_win, M) /\ M \cap (wins(t) \cup {w}) = {}
<1> DEFINE z == [ZeroWin EXCEPT !.next = t.winlist]
<1>1. ZeroWin \in WinRec
  BY FontAssumption DEF ZeroWin, WinRec, NoFont, NULL
<1>2. z \in WinRec /\ z.next = t.winlist
  <2>1. t.winlist \in Nat
    BY DEF Screen
  <2> QED BY <1>1, <2>1 DEF WinRec
<1> HIDE DEF z
<1>3. t.win \in Seq(WinRec) /\ wins(t) \subseteq DOMAIN t.win /\ idle(t) \subseteq DOMAIN t.win
  BY RecordsAreMemory, ListsIn
<1>4. CASE t.free_win # NULL
  <2> DEFINE f == t.free_win
             v == [t EXCEPT !.free_win = t.win[f].next]
  <2>1. f \in idle(t) /\ f \in DOMAIN t.win /\ f \notin wins(t)
    BY <1>3, <1>4, RecordsAreMemory, ListHead DEF Heap
  <2>2. v \in Screen /\ Agree(t, v, {"free_win"}) /\ v.free_win = t.win[f].next /\ v.win = t.win
    <3>1. t.win[f].next \in Nat
      BY <2>1, RecordsAreMemory DEF WinRec
    <3> QED BY <3>1 DEF Screen, Agree, Fields
  <2>3. w = f /\ u = [v EXCEPT !.win[f] = [ZeroWin EXCEPT !.next = v.winlist], !.winlist = f]
    BY <1>4 DEF gui_new_win, new_rec
  <2>4. v.winlist = t.winlist
    BY <2>2 DEF Agree, Fields
  <2> DEFINE x == [v EXCEPT !.win[f] = z]
  <2>5. u = [x EXCEPT !.winlist = f]
    BY <2>3, <2>4 DEF z
  <2> HIDE DEF v
  <2>6. x \in Screen /\ Agree(v, x, {"win"}) /\ x.win[f] = z /\ DOMAIN x.win = DOMAIN t.win
        /\ \A q \in DOMAIN t.win : q # f => x.win[q] = t.win[q]
    <3>0. f \in DOMAIN v.win
      BY <2>1, <2>2
    <3> HIDE DEF f
    <3>1. x \in Screen /\ Agree(v, x, {"win"}) /\ x.win = [v.win EXCEPT ![f] = z]
      BY <1>2, <2>2, <3>0, WinWritten
    <3> QED BY <1>3, <2>1, <2>2, <3>1
  <2> HIDE DEF x
  <2>7. u \in Screen /\ Agree(x, u, {"winlist"}) /\ u.winlist = f /\ u.win = x.win
    <3>1. f \in Nat
      BY <2>1, RecordsAreMemory
    <3> QED BY <2>5, <2>6, <3>1 DEF Screen, Agree, Fields
  <2>8. Agree(t, u, {"win", "winlist", "free_win"})
    BY <2>2, <2>6, <2>7 DEF Agree
  <2>9. u.free_win = t.win[f].next
    BY <2>2, <2>6, <2>7 DEF Agree, Fields
  <2>10. PICK M \in SUBSET (idle(t) \ {f}) : IsList(t.win, t.win[f].next, M)
    BY <2>1, ListTail DEF Heap
  <2>11. IsList(u.win, u.free_win, M)
    <3>1. M \subseteq DOMAIN u.win /\ \A q \in M : u.win[q].next = t.win[q].next
      BY <1>3, <2>6, <2>7, <2>10
    <3> QED BY <2>9, <2>10, <3>1, ListSame
  <2>12. M \cap (wins(t) \cup {f}) = {}
    BY <2>10 DEF Heap
  <2>13. \A q \in wins(t) : u.win[q] = t.win[q]
    BY <1>3, <2>1, <2>6, <2>7
  <2> HIDE DEF f
  <2> QED BY <1>3, <2>1, <2>3, <2>6, <2>7, <2>8, <2>11, <2>12, <2>13 DEF z
<1>5. CASE t.free_win = NULL
  <2> DEFINE f == Len(t.win) + 1
             v == [t EXCEPT !.win = Append(t.win, ZeroWin)]
  <2>1. v \in Screen /\ Agree(t, v, {"win"}) /\ v.win = Append(t.win, ZeroWin)
    <3>1. Append(t.win, ZeroWin) \in Seq(WinRec)
      BY <1>1, <1>3
    <3> QED BY <3>1 DEF Screen, Agree, Fields
  <2>2. w = f /\ u = [v EXCEPT !.win[f] = [ZeroWin EXCEPT !.next = v.winlist], !.winlist = f]
    BY <1>5 DEF gui_new_win, new_rec
  <2>3. v.winlist = t.winlist /\ v.free_win = t.free_win
    BY <2>1 DEF Agree, Fields
  <2>4. /\ f \in Nat /\ f \in DOMAIN v.win /\ f \notin DOMAIN t.win
        /\ DOMAIN t.win \subseteq DOMAIN v.win
        /\ \A q \in DOMAIN t.win : v.win[q] = t.win[q]
    <3>1. Len(t.win) \in Nat /\ DOMAIN t.win = 1 .. Len(t.win)
      BY <1>3
    <3>2. DOMAIN v.win = 1 .. f
      BY <1>1, <1>3, <2>1
    <3>3. \A q \in 1 .. Len(t.win) : v.win[q] = t.win[q]
      BY <1>1, <1>3, <2>1
    <3> QED BY <3>1, <3>2, <3>3
  <2> DEFINE x == [v EXCEPT !.win[f] = z]
  <2>5. u = [x EXCEPT !.winlist = f]
    BY <2>2, <2>3 DEF z
  <2> HIDE DEF v, f
  <2>6. x \in Screen /\ Agree(v, x, {"win"}) /\ x.win[f] = z /\ DOMAIN x.win = DOMAIN v.win
        /\ \A q \in DOMAIN v.win : q # f => x.win[q] = v.win[q]
    <3>0. f \in DOMAIN v.win /\ v \in Screen
      BY <2>1, <2>4
    <3>1. x \in Screen /\ Agree(v, x, {"win"}) /\ x.win = [v.win EXCEPT ![f] = z]
      BY <1>2, <3>0, WinWritten
    <3> QED BY <2>1, <2>4, <3>1, RecordsAreMemory
  <2> HIDE DEF x
  <2>7. u \in Screen /\ Agree(x, u, {"winlist"}) /\ u.winlist = f /\ u.win = x.win
    BY <2>4, <2>5, <2>6 DEF Screen, Agree, Fields
  <2>8. Agree(t, u, {"win", "winlist", "free_win"})
    BY <2>1, <2>6, <2>7 DEF Agree
  <2>9. u.free_win = NULL
    BY <1>5, <2>3, <2>6, <2>7 DEF Agree, Fields
  <2>10. IsList(u.win, u.free_win, {})
    BY <2>9, ListEmpty
  <2>11. \A q \in wins(t) : u.win[q] = t.win[q]
    BY <1>3, <2>4, <2>6, <2>7
  <2> QED BY <1>3, <2>2, <2>4, <2>6, <2>7, <2>8, <2>10, <2>11 DEF z
<1> QED BY <1>4, <1>5

-----------------------------------------------------------------------------
(***************************************************************************)
(* A new window.                                                           *)
(***************************************************************************)
\* u is t with r for the record w.
Wrote(t, u, w, r) ==
    /\ u \in Screen /\ Agree(t, u, {"win"}) /\ DOMAIN u.win = DOMAIN t.win
    /\ u.win[w] = r
    /\ \A q \in DOMAIN t.win \ {w} : u.win[q] = t.win[q]

\* A record is written once, and twice.
LEMMA RecordWritten ==
    ASSUME NEW t \in Screen, NEW w \in DOMAIN t.win, NEW r \in WinRec
    PROVE  Wrote(t, [t EXCEPT !.win[w] = r], w, r)
<1> DEFINE u == [t EXCEPT !.win[w] = r]
<1>1. /\ u \in Screen /\ Agree(t, u, {"win"}) /\ u.win = [t.win EXCEPT ![w] = r]
      /\ DOMAIN u.win = DOMAIN t.win
  BY WinWritten
<1>2. t.win \in Seq(WinRec)
  BY DEF Screen
<1> HIDE DEF u
<1>3. u.win[w] = r /\ \A q \in DOMAIN t.win \ {w} : u.win[q] = t.win[q]
  BY <1>1, <1>2
<1>4. Wrote(t, u, w, r)
  BY <1>1, <1>3 DEF Wrote
<1> QED BY <1>4 DEF u

LEMMA WroteTwice ==
    ASSUME NEW t, NEW u, NEW v, NEW w, NEW r, NEW q, Wrote(t, u, w, r), Wrote(u, v, w, q)
    PROVE  Wrote(t, v, w, q)
<1> QED BY DEF Wrote, Agree

\* One field of a record is set.
LEMMA FieldTyped ==
    ASSUME NEW z \in WinRec
    PROVE  /\ \A x \in Nat : [z EXCEPT !.window = x] \in WinRec
           /\ \A x \in {"main", "main2", "overspot", "menusel"} : [z EXCEPT !.kind = x] \in WinRec
           /\ \A x \in ICID \cup {NULL} : [z EXCEPT !.imid = x] \in WinRec
           /\ \A x \in BOOLEAN : [z EXCEPT !.map = x] \in WinRec
           /\ \A x \in BOOLEAN : [z EXCEPT !.exit = x] \in WinRec
           /\ \A x \in Nat : [z EXCEPT !.font = x] \in WinRec
           /\ \A x \in FontName \cup {NoName} : [z EXCEPT !.asked = x] \in WinRec
           /\ \A x \in Nat : [z EXCEPT !.data = x] \in WinRec
           /\ \A x \in Nat : [z EXCEPT !.next = x] \in WinRec
<1> QED BY DEF WinRec

\* What a record is filled with when its window is made.
named_win(z, kind, imid, data) == [[[z EXCEPT !.kind = kind] EXCEPT !.imid = imid] EXCEPT !.data = data]

\* What it is for, and for whom.
LEMMA WindowNamed ==
    ASSUME NEW t \in Screen, NEW w \in DOMAIN t.win,
           NEW kind \in {"main", "main2", "overspot", "menusel"},
           NEW imid \in ICID \cup {NULL}, NEW data \in Nat
    PROVE  Wrote(t, [t EXCEPT !.win[w].kind = kind, !.win[w].imid = imid,
                              !.win[w].data = data], w,
                 named_win(t.win[w], kind, imid, data))
           /\ named_win(t.win[w], kind, imid, data) \in WinRec
<1> DEFINE r1 == [t.win[w] EXCEPT !.kind = kind]
           r2 == [r1 EXCEPT !.imid = imid]
           r3 == [r2 EXCEPT !.data = data]
           t1 == [t EXCEPT !.win[w] = r1]
           t2 == [t1 EXCEPT !.win[w] = r2]
           t3 == [t2 EXCEPT !.win[w] = r3]
<1>1. r1 \in WinRec /\ r2 \in WinRec /\ r3 \in WinRec
  <2>1. t.win[w] \in WinRec
    BY RecordsAreMemory
  <2>2. r1 \in WinRec
    BY <2>1, FieldTyped
  <2>3. r2 \in WinRec
    <3> HIDE DEF r1
    <3> QED BY <2>2, FieldTyped
  <2>4. r3 \in WinRec
    <3> HIDE DEF r1, r2
    <3> QED BY <2>3, FieldTyped
  <2> QED BY <2>2, <2>3, <2>4
<1>2. t1 = [t EXCEPT !.win[w].kind = kind]
  OBVIOUS
<1>3. [t EXCEPT !.win[w].kind = kind, !.win[w].imid = imid, !.win[w].data = data]
      = [[t1 EXCEPT !.win[w].imid = imid] EXCEPT !.win[w].data = data]
  BY <1>2
<1>4. r3 = named_win(t.win[w], kind, imid, data)
  BY DEF named_win
<1> HIDE DEF r1
<1>5. Wrote(t, t1, w, r1)
  BY <1>1, RecordWritten
<1> HIDE DEF t1
<1>6. t1 \in Screen /\ w \in DOMAIN t1.win /\ t1.win[w] = r1
  BY <1>5 DEF Wrote
<1>7. t2 = [t1 EXCEPT !.win[w].imid = imid]
  BY <1>6
<1> HIDE DEF r2
<1>8. Wrote(t1, t2, w, r2)
  BY <1>1, <1>6, RecordWritten
<1> HIDE DEF t2
<1>9. t2 \in Screen /\ w \in DOMAIN t2.win /\ t2.win[w] = r2
  BY <1>6, <1>8 DEF Wrote
<1>10. t3 = [t2 EXCEPT !.win[w].data = data]
  BY <1>9
<1> HIDE DEF r3
<1>11. Wrote(t2, t3, w, r3)
  BY <1>1, <1>9, RecordWritten
<1> HIDE DEF t3
<1>12. Wrote(t, t3, w, r3)
  BY <1>5, <1>8, <1>11, WroteTwice
<1> QED BY <1>1, <1>3, <1>4, <1>7, <1>10, <1>12

\* The fonts are F and the record w draws with r.
refonted(z, font, name) == [[z EXCEPT !.font = font] EXCEPT !.asked = name]

Refonted(t, u, w, r) ==
    /\ u \in Screen /\ Agree(t, u, {"win", "fonts"}) /\ u.fonts = r.fonts
    /\ DOMAIN u.win = DOMAIN t.win
    /\ u.win[w] = refonted(t.win[w], r.font, r.fonts.cell[r.font].basename)
    /\ u.win[w] \in WinRec
    /\ \A q \in DOMAIN t.win \ {w} : u.win[q] = t.win[q]

\* A window gets its font.
LEMMA FontGiven ==
    ASSUME NEW t \in Screen, NEW w \in DOMAIN t.win, NEW r, r.fonts \in FontMemory,
           r.font \in DOMAIN r.fonts.cell, r.font # NoFont
    PROVE  Refonted(t, give_font(t, w, r), w, r)
<1> DEFINE name == r.fonts.cell[r.font].basename
           r1 == [t.win[w] EXCEPT !.font = r.font]
           r2 == [r1 EXCEPT !.asked = name]
           t1 == [t EXCEPT !.fonts = r.fonts]
           t2 == [t1 EXCEPT !.win[w] = r1]
           t3 == [t2 EXCEPT !.win[w] = r2]
<1>1. r.font \in Nat /\ name \in FontName \cup {NoName}
  BY CellsAreMemory DEF IFont
<1>2. r1 \in WinRec /\ r2 \in WinRec
  <2> HIDE DEF name
  <2>1. t.win[w] \in WinRec
    BY RecordsAreMemory
  <2>2. r1 \in WinRec
    BY <1>1, <2>1, FieldTyped
  <2>3. r2 \in WinRec
    <3> HIDE DEF r1
    <3> QED BY <1>1, <2>2, FieldTyped
  <2> QED BY <2>2, <2>3
<1>3. r2 = refonted(t.win[w], r.font, name)
  BY DEF refonted
<1>4. give_font(t, w, r) = [[t1 EXCEPT !.win[w].font = r.font] EXCEPT !.win[w].asked = name]
  BY DEF give_font
<1> HIDE DEF name
<1>5. t1 \in Screen /\ Agree(t, t1, {"fonts"}) /\ t1.fonts = r.fonts /\ t1.win = t.win
  BY DEF Screen, Agree, Fields
<1> HIDE DEF t1
<1>6. t2 = [t1 EXCEPT !.win[w].font = r.font]
  BY <1>5
<1> HIDE DEF r1
<1>7. w \in DOMAIN t1.win
  BY <1>5
<1>8. Wrote(t1, t2, w, r1)
  BY <1>2, <1>5, <1>7, RecordWritten
<1> HIDE DEF t2
<1>9. t2 \in Screen /\ w \in DOMAIN t2.win /\ t2.win[w] = r1
  BY <1>7, <1>8 DEF Wrote
<1>10. t3 = [t2 EXCEPT !.win[w].asked = name]
  BY <1>9
<1> HIDE DEF r2
<1>11. Wrote(t2, t3, w, r2)
  BY <1>2, <1>9, RecordWritten
<1> HIDE DEF t3
<1>12. Wrote(t1, t3, w, r2)
  BY <1>8, <1>11, WroteTwice
<1>13. Agree(t, t3, {"win", "fonts"}) /\ t3.fonts = r.fonts
  BY <1>5, <1>12 DEF Wrote, Agree, Fields
<1>14. give_font(t, w, r) = t3
  BY <1>4, <1>6, <1>10
<1>15. r2 \in WinRec /\ t3.win[w] = r2 /\ t3 \in Screen /\ DOMAIN t3.win = DOMAIN t.win
       /\ \A q \in DOMAIN t.win \ {w} : t3.win[q] = t.win[q]
  BY <1>2, <1>5, <1>12 DEF Wrote
<1> QED BY <1>3, <1>13, <1>14, <1>15 DEF name, Refonted

Taken(t, u, w) ==
    /\ u \in Screen /\ Agree(t, u, {"win", "winlist", "free_win"})
    /\ w \in DOMAIN u.win \ wins(t) /\ wins(t) \subseteq DOMAIN u.win
    /\ u.win[w] = [ZeroWin EXCEPT !.next = t.winlist] /\ u.winlist = w
    /\ \A q \in wins(t) : u.win[q] = t.win[q]
    /\ \E M : IsList(u.win, u.free_win, M) /\ M \cap (wins(t) \cup {w}) = {}

\* gui_new_win().
LEMMA NewRecordTaken ==
    ASSUME NEW t \in Screen, Heap(t)
    PROVE  Taken(t, gui_new_win(t).mem, gui_new_win(t).rec)
<1> DEFINE w == gui_new_win(t).rec
           u == gui_new_win(t).mem
<1>1. w = gui_new_win(t).rec /\ u = gui_new_win(t).mem
  OBVIOUS
<1> HIDE DEF w, u
<1>2. Taken(t, u, w)
  BY <1>1, RecordTaken DEF Taken
<1> QED BY <1>2 DEF w, u

\* XCreateSimpleWindow gives the record w a window of its own.
LEMMA WindowCreated ==
    ASSUME NEW t \in Screen, NEW w \in DOMAIN t.win
    PROVE  /\ XCreateWindow(t, w) \in Screen
           /\ Agree(t, XCreateWindow(t, w), {"win", "xid", "xwin"})
           /\ XCreateWindow(t, w).xid = t.xid + 1
           /\ XCreateWindow(t, w).xwin = t.xwin \cup {t.xid + 1}
           /\ DOMAIN XCreateWindow(t, w).win = DOMAIN t.win
           /\ XCreateWindow(t, w).win[w] = [t.win[w] EXCEPT !.window = t.xid + 1]
           /\ \A q \in DOMAIN t.win \ {w} : XCreateWindow(t, w).win[q] = t.win[q]
<1> DEFINE t1 == [t EXCEPT !.xid = @ + 1]
           t2 == [t1 EXCEPT !.xwin = @ \cup {t.xid + 1}]
           r  == [t.win[w] EXCEPT !.window = t.xid + 1]
           t3 == [t2 EXCEPT !.win[w] = r]
<1>1. t.xid \in Nat /\ t.xid + 1 \in Nat
  BY DEF Screen
<1>2. t1 \in Screen /\ Agree(t, t1, {"xid"}) /\ t1.xid = t.xid + 1
  BY <1>1 DEF Screen, Agree, Fields
<1>3. XCreateWindow(t, w)
      = [[t1 EXCEPT !.xwin = @ \cup {t.xid + 1}] EXCEPT !.win[w].window = t.xid + 1]
  BY DEF XCreateWindow
<1> HIDE DEF t1
<1>4. t2 \in Screen /\ Agree(t1, t2, {"xwin"}) /\ t2.xwin = t1.xwin \cup {t.xid + 1}
  BY <1>1, <1>2 DEF Screen, Agree, Fields
<1>5. XCreateWindow(t, w) = [t2 EXCEPT !.win[w].window = t.xid + 1]
  BY <1>3
<1> HIDE DEF t2
<1>6. t1.xwin = t.xwin /\ t2.win = t.win /\ t2.xid = t.xid + 1
  BY <1>2, <1>4 DEF Agree, Fields
<1>7. r \in WinRec
  BY <1>1, FieldTyped, RecordsAreMemory
<1>8. XCreateWindow(t, w) = t3
  BY <1>5, <1>6
<1>9. w \in DOMAIN t2.win
  BY <1>6
<1> HIDE DEF r
<1>10. Wrote(t2, t3, w, r)
  BY <1>4, <1>7, <1>9, RecordWritten
<1> HIDE DEF t3
<1>11. Agree(t, t3, {"win", "xid", "xwin"})
  BY <1>2, <1>4, <1>10 DEF Wrote, Agree
<1>12. t3.xid = t.xid + 1 /\ t3.xwin = t.xwin \cup {t.xid + 1}
  BY <1>4, <1>6, <1>10 DEF Wrote, Agree, Fields
<1> QED BY <1>6, <1>8, <1>10, <1>11, <1>12 DEF Wrote, r

\* u is t with one more window, of the record w.
Made(t, u, w, kind, imid, data) ==
    /\ u \in Screen /\ Heap(u) /\ w \notin wins(t) /\ wins(u) = wins(t) \cup {w}
    /\ Agree(t, u, {"win", "winlist", "free_win", "xid", "xwin", "fonts"})
    /\ \A q \in wins(t) : u.win[q] = t.win[q]
    /\ u.win[w].kind = kind /\ u.win[w].imid = imid /\ u.win[w].data = data
    /\ ~u.win[w].map /\ u.win[w].window = t.xid + 1

\* A new window of any kind.
LEMMA WindowMade ==
    ASSUME NEW t \in Screen, Heap(t), NEW kind \in {"main", "main2", "overspot", "menusel"},
           NEW imid \in ICID \cup {NULL}, NEW data \in Nat,
           NEW r, Gives(r, fonts_of(t), asked_of(t)), r.font # NoFont
    PROVE  Made(t, new_window(gui_new_win(t), kind, imid, data, r).mem,
                new_window(gui_new_win(t), kind, imid, data, r).rec, kind, imid, data)
<1> DEFINE w  == gui_new_win(t).rec
           u  == gui_new_win(t).mem
           a  == [u EXCEPT !.win[w].kind = kind, !.win[w].imid = imid, !.win[w].data = data]
           b  == give_font(a, w, r)
           c  == XCreateWindow(b, w)
           z  == [ZeroWin EXCEPT !.next = t.winlist]
           za == named_win(z, kind, imid, data)
           name == r.fonts.cell[r.font].basename
           zb == refonted(za, r.font, name)
           zc == [zb EXCEPT !.window = t.xid + 1]
           W  == wins(t) \cup {w}
           H  == with_holder(fonts_of(t), w, r.font)
           A  == with_holder(asked_of(t), w, name)
<1>1. /\ new_window(gui_new_win(t), kind, imid, data, r).mem = c
      /\ new_window(gui_new_win(t), kind, imid, data, r).rec = w
  BY DEF new_window
<1>2. Taken(t, u, w)
  BY NewRecordTaken
<1> HIDE DEF u, w
<1>3. u \in Screen /\ w \in DOMAIN u.win /\ u.win[w] = z /\ w \notin wins(t)
  BY <1>2 DEF Taken
<1>4. Wrote(u, a, w, za) /\ za \in WinRec
  BY <1>3, WindowNamed
<1> HIDE DEF a
<1>5. a \in Screen /\ w \in DOMAIN a.win /\ a.win[w] = za
  BY <1>3, <1>4 DEF Wrote
<1>6. DOMAIN fonts_of(t) = wins(t) /\ DOMAIN asked_of(t) = wins(t)
  BY DEF fonts_of, asked_of
<1>7. FontsSound(r.fonts, H, A)
  <2>1. IsFiniteSet(DOMAIN fonts_of(t))
    BY DEF Heap, FontsSound, HeldFonts
  <2>2. Grown(fonts_of(t), asked_of(t), H, A, r.font, name)
    BY <1>3, <1>6, <2>1, GrownByOne
  <2> QED BY <2>2 DEF Gives
<1>8. DOMAIN H = W /\ H[w] = r.font /\ A[w] = name /\ DOMAIN A = W
      /\ \A q \in wins(t) : H[q] = t.win[q].font /\ A[q] = t.win[q].asked
  BY <1>3, <1>6 DEF with_holder, fonts_of, asked_of
<1>9. r.fonts \in FontMemory /\ r.font \in DOMAIN r.fonts.cell
  BY <1>7, <1>8 DEF FontsSound, HeldFonts
<1>10. Refonted(a, b, w, r)
  BY <1>5, <1>9, FontGiven
<1> HIDE DEF b
<1>11. b \in Screen /\ w \in DOMAIN b.win /\ b.win[w] = zb /\ zb \in WinRec
  BY <1>5, <1>10 DEF Refonted
<1>12. b.xid = t.xid /\ b.xwin = t.xwin /\ b.winlist = w /\ b.free_win = u.free_win /\ b.fonts = r.fonts
  BY <1>2, <1>4, <1>10 DEF Taken, Wrote, Refonted, Agree, Fields
<1>13. /\ c \in Screen /\ Agree(b, c, {"win", "xid", "xwin"})
       /\ c.xid = t.xid + 1 /\ c.xwin = t.xwin \cup {t.xid + 1}
       /\ DOMAIN c.win = DOMAIN u.win /\ c.win[w] = zc
       /\ \A q \in DOMAIN u.win \ {w} : c.win[q] = u.win[q]
  <2>1. /\ c \in Screen /\ Agree(b, c, {"win", "xid", "xwin"})
        /\ c.xid = t.xid + 1 /\ c.xwin = t.xwin \cup {t.xid + 1}
        /\ DOMAIN c.win = DOMAIN b.win /\ c.win[w] = zc
        /\ \A q \in DOMAIN b.win \ {w} : c.win[q] = b.win[q]
    BY <1>11, <1>12, WindowCreated
  <2>2. DOMAIN b.win = DOMAIN u.win /\ \A q \in DOMAIN u.win \ {w} : b.win[q] = u.win[q]
    BY <1>4, <1>10 DEF Wrote, Refonted
  <2> QED BY <2>1, <2>2
<1> HIDE DEF c
<1>14. /\ zc.kind = kind /\ zc.imid = imid /\ zc.data = data /\ zc.next = t.winlist
       /\ ~zc.map /\ ~zc.exit /\ zc.font = r.font /\ zc.asked = name /\ zc.window = t.xid + 1
  BY DEF named_win, refonted, ZeroWin
<1> HIDE DEF zc, zb, za, z, name
<1>15. \A q \in wins(t) : c.win[q] = t.win[q] /\ q \in DOMAIN c.win
  BY <1>2, <1>3, <1>13 DEF Taken
<1>16. c.winlist = w /\ c.free_win = u.free_win /\ c.fonts = r.fonts
  BY <1>12, <1>13 DEF Agree, Fields
<1>17. Agree(t, c, {"win", "winlist", "free_win", "xid", "xwin", "fonts"})
  BY <1>2, <1>4, <1>10, <1>13 DEF Taken, Wrote, Refonted, Agree
<1>18. IsList(c.win, c.winlist, W)
  BY <1>3, <1>13, <1>14, <1>15, <1>16, ListPushed DEF Heap
<1>19. PICK M : IsList(u.win, u.free_win, M) /\ M \cap W = {}
  BY <1>2 DEF Taken
<1>20. IsList(c.win, c.free_win, M)
  <2>1. M \subseteq DOMAIN u.win
    BY <1>3, <1>19, RecordsAreMemory, ListHead
  <2>2. M \subseteq DOMAIN c.win /\ \A q \in M : c.win[q].next = u.win[q].next
    BY <1>13, <1>19, <2>1
  <2> QED BY <1>16, <1>19, <2>2, ListSame
<1>21. \A q \in W : ~c.win[q].exit /\ c.win[q].window \in 1 .. c.xid
  <2>1. t.xid \in Nat
    BY DEF Screen
  <2> QED BY <1>13, <1>14, <1>15, <2>1 DEF Heap
<1>22. \A q \in wins(t) : c.win[q].window # t.xid + 1
  <2>1. t.xid \in Nat
    BY DEF Screen
  <2> QED BY <1>15, <2>1 DEF Heap
<1>23. \A p, q \in W : c.win[p].window = c.win[q].window => p = q
  BY <1>13, <1>14, <1>15, <1>22 DEF Heap
<1>24. c.xwin = {c.win[q].window : q \in W}
  <2>1. {c.win[q].window : q \in W} = {c.win[q].window : q \in wins(t)} \cup {t.xid + 1}
    BY <1>13, <1>14
  <2>2. {c.win[q].window : q \in wins(t)} = {t.win[q].window : q \in wins(t)}
    BY <1>15
  <2> QED BY <1>13, <2>1, <2>2 DEF Heap
<1>25. FontsSound(c.fonts, [q \in W |-> c.win[q].font], [q \in W |-> c.win[q].asked])
  <2>1. H = [q \in W |-> c.win[q].font] /\ A = [q \in W |-> c.win[q].asked]
    <3>1. H = [q \in DOMAIN H |-> H[q]] /\ A = [q \in DOMAIN A |-> A[q]]
      BY DEF with_holder
    <3> HIDE DEF H, A
    <3>2. \A q \in W : H[q] = c.win[q].font /\ A[q] = c.win[q].asked
      BY <1>8, <1>13, <1>14, <1>15
    <3> HIDE DEF W
    <3>3. DOMAIN H = W /\ DOMAIN A = W
      BY <1>8
    <3>4. H = [q \in W |-> H[q]] /\ A = [q \in W |-> A[q]]
      BY <3>1, <3>3
    <3>5. [q \in W |-> H[q]] = [q \in W |-> c.win[q].font]
      BY <3>2
    <3>6. [q \in W |-> A[q]] = [q \in W |-> c.win[q].asked]
      BY <3>2
    <3> QED BY <3>4, <3>5, <3>6
  <2> QED BY <1>7, <1>16, <2>1
<1>26. Heap(c) /\ wins(c) = W
  <2>1. c \in Screen /\ W \cap M = {}
    BY <1>13, <1>19
  <2> HIDE DEF W
  <2> QED BY <2>1, <1>18, <1>20, <1>21, <1>23, <1>24, <1>25, HeapMade
<1>27. Made(t, c, w, kind, imid, data)
  BY <1>3, <1>13, <1>14, <1>15, <1>17, <1>26 DEF Made
<1> QED BY <1>1, <1>27

-----------------------------------------------------------------------------
(***************************************************************************)
(* A window goes.                                                          *)
(***************************************************************************)
\* What free_win_content leaves of t when it has freed what the record r holds.
Emptied(t, d, r) ==
    /\ d \in Screen /\ Agree(t, d, {"win", "fonts", "xwin", "IC"})
    /\ DOMAIN d.win = DOMAIN t.win /\ d.win[r].next = t.win[r].next
    /\ \A q \in DOMAIN t.win \ {r} : d.win[q] = t.win[q]
    /\ d.xwin = t.xwin \ {t.win[r].window}
    /\ FontsSound(d.fonts, without(fonts_of(t), r), without(asked_of(t), r))

\* The window of the record r is gone, and the other windows are as they were.
Removed(t, u, r) ==
    /\ u \in Screen /\ Heap(u) /\ wins(u) = wins(t) \ {r}
    /\ Agree(t, u, {"win", "winlist", "free_win", "fonts", "xwin", "IC"})
    /\ \A q \in wins(u) : Alike(t.win[q], u.win[q], {"next"})

\* The record before r.
LEMMA BeforeFound ==
    ASSUME NEW t \in Screen, Heap(t), NEW r \in wins(t)
    PROVE  /\ before(t, r) = NULL => t.winlist = r
           /\ before(t, r) # NULL => /\ before(t, r) \in wins(t) \ {r}
                                     /\ t.win[before(t, r)].next = r /\ t.winlist # r
           /\ \A q \in wins(t) : t.win[q].next = r => q = before(t, r)
<1> DEFINE S == {q \in DOMAIN t.win : t.win[q].next = r}
           p == before(t, r)
           L == wins(t)
<1>1. IsMemory(t.win) /\ NULL \notin S /\ IsList(t.win, t.winlist, L)
  BY RecordsAreMemory DEF Heap
<1>2. p = first_of(t.win, t.winlist, S)
  BY DEF before
<1>3. L \subseteq DOMAIN t.win /\ NULL \notin L /\ r \in L
  BY ListsIn
<1>4. /\ \A c \in L : t.win[c].next \in L \cup {NULL} /\ t.win[c].next # t.winlist
      /\ \A c, d \in L : t.win[c].next = t.win[d].next => c = d
  <2> HIDE DEF L, S
  <2> QED BY <1>1, ListHead
<1>5. t.winlist # r => \E d \in L : t.win[d].next = r
  <2> HIDE DEF L, S
  <2> QED BY <1>1, <1>3, ListLinks
<1>6. L \cap S = {} => p = NULL
  <2> HIDE DEF L, S, p
  <2> QED BY <1>1, <1>2, FirstFound
<1>7. L \cap S # {} => p \in L \cap S
  <2> HIDE DEF L, S, p
  <2> QED BY <1>1, <1>2, FirstFound
<1>8. \A q \in L : t.win[q].next = r => p \in L /\ t.win[p].next = r
  BY <1>3, <1>7
<1>9. ASSUME p # NULL
      PROVE  p \in L /\ t.win[p].next = r
  BY <1>6, <1>7, <1>9
<1> HIDE DEF p, L, S
<1>10. p = NULL => t.winlist = r
  BY <1>3, <1>5, <1>8
<1>11. p # NULL => t.winlist # r
  BY <1>4, <1>9
<1>12. ASSUME p = r, p # NULL PROVE FALSE
  <2>1. t.win[r].next = r
    BY <1>9, <1>12
  <2>2. t.winlist # r
    BY <1>11, <1>12
  <2>3. PICK T \in SUBSET (L \ {r}) : IsList(t.win, t.win[r].next, T)
    BY <1>1, <1>3, ListTail
  <2>4. r \in T
    BY <1>1, <1>3, <2>1, <2>3, ListHead
  <2> QED BY <2>3, <2>4
<1>13. \A q \in L : t.win[q].next = r => q = p
  BY <1>4, <1>8
<1> QED BY <1>9, <1>10, <1>11, <1>12, <1>13 DEF p, L

\* gui_freewin(), once the content is freed.
LEMMA Unlinking ==
    ASSUME NEW t \in Screen, Heap(t), NEW r \in wins(t), NEW d, Emptied(t, d, r)
    PROVE  Removed(t, unlinked(d, r, before(t, r)), r)
<1> DEFINE L  == wins(t)
           wp == before(t, r)
           n  == t.win[r].next
           zp == [d.win[wp] EXCEPT !.next = n]
           s1 == IF wp = NULL THEN [d EXCEPT !.winlist = n] ELSE [d EXCEPT !.win[wp] = zp]
           zr == [s1.win[r] EXCEPT !.next = t.free_win]
           s2 == [s1 EXCEPT !.win[r] = zr]
           u  == [s2 EXCEPT !.free_win = r]
<1>1. /\ d \in Screen /\ Agree(t, d, {"win", "fonts", "xwin", "IC"})
      /\ DOMAIN d.win = DOMAIN t.win /\ d.win[r].next = n
      /\ \A q \in DOMAIN t.win \ {r} : d.win[q] = t.win[q]
      /\ d.xwin = t.xwin \ {t.win[r].window}
  BY DEF Emptied
<1>2. /\ wp = NULL => t.winlist = r
      /\ wp # NULL => wp \in L \ {r} /\ t.win[wp].next = r /\ t.winlist # r
      /\ \A q \in L : t.win[q].next = r => q = wp
  BY BeforeFound
<1>3. L \subseteq DOMAIN t.win /\ idle(t) \subseteq DOMAIN t.win /\ r \in L /\ r \in Nat /\ n \in Nat
      /\ NULL \notin L /\ NULL \notin idle(t) /\ L \cap idle(t) = {} /\ t.free_win \in Nat
  BY ListsIn, RecordsAreMemory DEF WinRec, Heap, Screen
<1>4. d.free_win = t.free_win /\ d.winlist = t.winlist
  BY <1>1 DEF Agree, Fields
<1>5. unlinked(d, r, wp) = u
  <2>1. [d EXCEPT !.win[wp].next = n] = [d EXCEPT !.win[wp] = zp]
    OBVIOUS
  <2>2. unlinked(d, r, wp) = [[s1 EXCEPT !.win[r].next = t.free_win] EXCEPT !.free_win = r]
    BY <1>1, <1>4, <2>1 DEF unlinked
  <2> HIDE DEF s1
  <2>3. [s1 EXCEPT !.win[r].next = t.free_win] = s2
    OBVIOUS
  <2> QED BY <2>2, <2>3
<1> HIDE DEF wp, n, L
<1>6. /\ s1 \in Screen /\ Agree(d, s1, {"win", "winlist"}) /\ DOMAIN s1.win = DOMAIN t.win
      /\ s1.winlist = IF wp = NULL THEN n ELSE t.winlist
      /\ s1.win[r] = d.win[r]
      /\ \A q \in DOMAIN t.win \ {wp} : s1.win[q] = d.win[q]
      /\ wp # NULL => s1.win[wp] = [t.win[wp] EXCEPT !.next = n]
  <2>1. CASE wp = NULL
    <3>1. s1 = [d EXCEPT !.winlist = n]
      BY <2>1
    <3> HIDE DEF s1
    <3>2. s1 \in Screen /\ Agree(d, s1, {"win", "winlist"}) /\ s1.winlist = n /\ s1.win = d.win
      BY <1>1, <1>3, <3>1 DEF Screen, Agree, Fields
    <3> QED BY <1>1, <2>1, <3>2
  <2>2. CASE wp # NULL
    <3>1. s1 = [d EXCEPT !.win[wp] = zp]
      BY <2>2
    <3>2. wp \in DOMAIN d.win /\ wp # r /\ d.win[wp] = t.win[wp] /\ d.win[wp] \in WinRec
      BY <1>1, <1>2, <1>3, <2>2, RecordsAreMemory
    <3>3. zp \in WinRec
      BY <1>3, <3>2, FieldTyped
    <3>4. zp = [t.win[wp] EXCEPT !.next = n]
      BY <3>2
    <3> HIDE DEF s1, zp
    <3>5. Wrote(d, s1, wp, zp)
      BY <1>1, <3>1, <3>2, <3>3, RecordWritten
    <3> QED BY <1>1, <1>3, <1>4, <2>2, <3>2, <3>4, <3>5 DEF Wrote, Agree, Fields
  <2> QED BY <2>1, <2>2
<1> HIDE DEF s1, zp
<1>7. zr \in WinRec /\ zr.next = t.free_win
  <2>1. s1.win[r] \in WinRec
    BY <1>3, <1>6, RecordsAreMemory
  <2>2. zr \in WinRec
    BY <1>3, <2>1, FieldTyped
  <2> QED BY <2>1, <2>2 DEF WinRec
<1> HIDE DEF zr
<1>8. Wrote(s1, s2, r, zr)
  <2>1. r \in DOMAIN s1.win
    BY <1>3, <1>6
  <2> QED BY <1>6, <1>7, <2>1, RecordWritten
<1> HIDE DEF s2
<1>9. u \in Screen /\ Agree(s2, u, {"free_win"}) /\ u.free_win = r /\ u.win = s2.win
  BY <1>3, <1>8 DEF Wrote, Screen, Agree, Fields
<1> HIDE DEF u
<1>10. Agree(t, u, {"win", "winlist", "free_win", "fonts", "xwin", "IC"})
  BY <1>1, <1>6, <1>8, <1>9 DEF Wrote, Agree
<1>11. u.winlist = (IF t.winlist = r THEN n ELSE t.winlist) /\ u.xid = t.xid /\ u.fonts = d.fonts
       /\ u.xwin = t.xwin \ {t.win[r].window}
  BY <1>1, <1>2, <1>6, <1>8, <1>9 DEF Wrote, Agree, Fields
<1>24. DOMAIN s2.win = DOMAIN s1.win /\ s2.win[r] = zr
       /\ \A q \in DOMAIN s1.win \ {r} : s2.win[q] = s1.win[q]
  BY <1>8 DEF Wrote
<1>12. DOMAIN u.win = DOMAIN t.win /\ u.win[r].next = t.free_win
       /\ \A q \in DOMAIN t.win \ {r} : u.win[q] = s1.win[q]
  BY <1>6, <1>7, <1>9, <1>24
<1>25. \A q \in DOMAIN t.win \ {wp} : s1.win[q] = d.win[q]
  BY <1>6
<1>22. \A q \in DOMAIN t.win : q # r /\ q # wp => u.win[q] = t.win[q]
  BY <1>1, <1>12, <1>25
<1>23. wp # NULL => u.win[wp] = [t.win[wp] EXCEPT !.next = n]
  <2>1. wp # NULL => wp \in DOMAIN t.win \ {r}
    BY <1>2, <1>3
  <2>2. wp # NULL => s1.win[wp] = [t.win[wp] EXCEPT !.next = n]
    BY <1>6
  <2> QED BY <1>12, <2>1, <2>2
<1>13. \A q \in L \ {r} : /\ q \in DOMAIN u.win
                          /\ Alike(t.win[q], u.win[q], {"next"})
                          /\ u.win[q].next = IF t.win[q].next = r THEN n ELSE t.win[q].next
  <2> SUFFICES ASSUME NEW q \in L \ {r}
               PROVE  /\ q \in DOMAIN u.win /\ Alike(t.win[q], u.win[q], {"next"})
                      /\ u.win[q].next = IF t.win[q].next = r THEN n ELSE t.win[q].next
    OBVIOUS
  <2>1. q \in DOMAIN t.win /\ q # NULL
    BY <1>3
  <2>2. t.win[q] \in WinRec
    BY <2>1, RecordsAreMemory
  <2>3. CASE q = wp
    <3>0. wp # NULL
      BY <2>1, <2>3
    <3>1. u.win[q] = [t.win[q] EXCEPT !.next = n]
      BY <1>23, <2>3, <3>0
    <3>2. Alike(t.win[q], u.win[q], {"next"}) /\ u.win[q].next = n
      BY <2>2, <3>1 DEF WinRec, Alike, WinFields
    <3> QED BY <1>2, <1>12, <2>1, <2>3, <3>2
  <2>4. CASE q # wp
    <3>0. q \in DOMAIN t.win \ {r, wp} /\ q \in L
      BY <2>1, <2>4
    <3>1. u.win[q] = t.win[q]
      BY <1>22, <2>4, <3>0
    <3>2. t.win[q].next # r
      BY <1>2, <2>4, <3>0
    <3> QED BY <1>12, <2>1, <3>1, <3>2 DEF Alike
  <2> QED BY <2>3, <2>4
<1>14. IsList(u.win, u.winlist, L \ {r})
  <2>1. IsList(t.win, t.winlist, L) /\ IsMemory(t.win)
    BY RecordsAreMemory DEF Heap, L
  <2>2. L \ {r} \subseteq DOMAIN u.win
    BY <1>13
  <2>3. \A q \in L \ {r} : u.win[q].next = IF t.win[q].next = r THEN t.win[r].next ELSE t.win[q].next
    BY <1>13 DEF n
  <2>4. IsList(u.win, IF t.winlist = r THEN t.win[r].next ELSE t.winlist, L \ {r})
    BY <1>3, <2>1, <2>2, <2>3, ListDropped
  <2> QED BY <1>11, <2>4 DEF n
<1>15. IsList(u.win, u.free_win, idle(t) \cup {r})
  <2>1. IsList(t.win, t.free_win, idle(t)) /\ r \notin idle(t)
    BY <1>3 DEF Heap
  <2>2. idle(t) \subseteq DOMAIN u.win /\ r \in DOMAIN u.win
    BY <1>3, <1>12
  <2>3. \A q \in idle(t) : u.win[q].next = t.win[q].next
    <3>1. \A q \in idle(t) : q \in DOMAIN t.win \ {r, wp}
      <4>1. \A q \in idle(t) : q \in DOMAIN t.win /\ q # NULL /\ q \notin L
        BY <1>3
      <4> QED BY <1>2, <1>3, <4>1
    <3>2. \A q \in idle(t) : u.win[q] = t.win[q]
      BY <1>22, <3>1
    <3> QED BY <3>2
  <2> QED BY <1>9, <1>12, <2>1, <2>2, <2>3, ListPushed
<1>16. \A q \in L \ {r} : /\ u.win[q].exit = t.win[q].exit /\ u.win[q].window = t.win[q].window
                          /\ u.win[q].font = t.win[q].font /\ u.win[q].asked = t.win[q].asked
  BY <1>13 DEF Alike, WinFields
<1>17. /\ \A q \in L : ~t.win[q].exit /\ t.win[q].window \in 1 .. t.xid
       /\ \A p, q \in L : t.win[p].window = t.win[q].window => p = q
       /\ t.xwin = {t.win[q].window : q \in L}
  BY DEF Heap, L
<1>18. u.xwin = {u.win[q].window : q \in L \ {r}}
  <2>1. {u.win[q].window : q \in L \ {r}} = {t.win[q].window : q \in L \ {r}}
    BY <1>16
  <2>2. \A q \in L : q # r => t.win[q].window # t.win[r].window
    BY <1>3, <1>17
  <2>3. {t.win[q].window : q \in L \ {r}} = {t.win[q].window : q \in L} \ {t.win[r].window}
    BY <1>3, <2>2
  <2> QED BY <1>11, <1>17, <2>1, <2>3
<1>19. FontsSound(u.fonts, [q \in L \ {r} |-> u.win[q].font], [q \in L \ {r} |-> u.win[q].asked])
  <2>1. without(fonts_of(t), r) = [q \in L \ {r} |-> u.win[q].font]
    BY <1>16 DEF without, fonts_of, L
  <2>2. without(asked_of(t), r) = [q \in L \ {r} |-> u.win[q].asked]
    BY <1>16 DEF without, asked_of, L
  <2> QED BY <1>11, <2>1, <2>2 DEF Emptied
<1>20. Heap(u) /\ wins(u) = L \ {r}
  <2> DEFINE W == L \ {r}
             M == idle(t) \cup {r}
  <2>1. W \cap M = {}
    BY <1>3
  <2>2. /\ \A q \in W : ~u.win[q].exit /\ u.win[q].window \in 1 .. u.xid
        /\ \A p, q \in W : u.win[p].window = u.win[q].window => p = q
    BY <1>11, <1>16, <1>17
  <2>3. IsList(u.win, u.winlist, W) /\ IsList(u.win, u.free_win, M)
    BY <1>14, <1>15
  <2>4. u.xwin = {u.win[q].window : q \in W}
    BY <1>18
  <2>5. FontsSound(u.fonts, [q \in W |-> u.win[q].font], [q \in W |-> u.win[q].asked])
    BY <1>19
  <2> HIDE DEF W, M
  <2>6. Heap(u) /\ wins(u) = W
    BY <1>9, <2>1, <2>2, <2>3, <2>4, <2>5, HeapMade
  <2> QED BY <2>6 DEF W
<1>21. Removed(t, u, r)
  BY <1>9, <1>10, <1>13, <1>20 DEF Removed, L
<1> QED BY <1>5, <1>21 DEF wp

\* Unlinking a record changes no IC.
LEMMA UnlinkedIC ==
    ASSUME NEW d \in Screen, NEW r, NEW wp
    PROVE  unlinked(d, r, wp).IC = d.IC
<1> DEFINE s1 == IF wp = NULL THEN [d EXCEPT !.winlist = d.win[r].next]
                 ELSE [d EXCEPT !.win[wp].next = d.win[r].next]
           s2 == [s1 EXCEPT !.win[r].next = d.free_win]
           s3 == [s2 EXCEPT !.free_win = r]
<1>1. unlinked(d, r, wp) = s3
  BY DEF unlinked
<1>2. s1.IC = d.IC /\ DOMAIN s1 = DOMAIN d
  BY DEF Screen
<1> HIDE DEF s1
<1>3. "IC" \in DOMAIN d
  BY DEF Screen
<1>4. s2.IC = s1.IC /\ DOMAIN s2 = DOMAIN d
  BY <1>2, <1>3
<1> HIDE DEF s2
<1>5. s3.IC = s2.IC
  BY <1>3, <1>4
<1> QED BY <1>1, <1>2, <1>4, <1>5

\* The window of r goes: its content, and then its record.
LEMMA ChildFreed ==
    ASSUME NEW t \in Screen, Heap(t), NEW r \in wins(t)
    PROVE  free_child(t, t.win[r].window)
           = unlinked([child_content(t, r) EXCEPT !.win[r].exit = TRUE], r, before(t, r))
<1>1. gui_search_win(t, t.win[r].window) = r
  BY WindowFound
<1>2. r # NULL /\ ~t.win[r].exit
  BY ListsIn DEF Heap
<1> QED BY <1>1, <1>2 DEF free_child, freewin

\* A candidate window, or a main one, goes.
LEMMA SpotFreed ==
    ASSUME NEW t \in Screen, Heap(t), NEW r \in wins(t), t.win[r].kind # "menusel"
    PROVE  /\ Removed(t, free_child(t, t.win[r].window), r)
           /\ free_child(t, t.win[r].window).IC = t.IC
<1> DEFINE z1 == [t.win[r] EXCEPT !.map = FALSE]
           z2 == [z1 EXCEPT !.exit = TRUE]
           F  == gui_free_fontset(t.fonts, t.win[r].font)
           X  == t.xwin \ {t.win[r].window}
           t1 == [t EXCEPT !.win[r] = z1]
           t2 == [t1 EXCEPT !.fonts = F]
           t3 == [t2 EXCEPT !.xwin = X]
           t4 == [t3 EXCEPT !.win[r] = z2]
<1>1. r \in DOMAIN t.win /\ t.win[r] \in WinRec
  BY ListsIn, RecordsAreMemory
<1>2. z1 \in WinRec /\ z2 \in WinRec /\ z2.next = t.win[r].next
  <2>1. z1 \in WinRec
    BY <1>1, FieldTyped
  <2>2. z2 \in WinRec
    <3> HIDE DEF z1
    <3> QED BY <2>1, FieldTyped
  <2>3. z2.next = t.win[r].next
    BY <1>1 DEF WinRec
  <2> QED BY <2>1, <2>2, <2>3
<1>3. FontsSound(F, without(fonts_of(t), r), without(asked_of(t), r)) /\ F \in FontMemory
  <2>1. FontsSound(t.fonts, fonts_of(t), asked_of(t)) /\ r \in DOMAIN fonts_of(t)
        /\ fonts_of(t)[r] = t.win[r].font
    BY DEF Heap, fonts_of
  <2>2. FontsSound(F, without(fonts_of(t), r), without(asked_of(t), r))
    BY <2>1, FreeingSound
  <2> QED BY <2>2 DEF FontsSound
<1>4. plain_destroy(t, r)
      = [[[t EXCEPT !.win[r].map = FALSE] EXCEPT !.fonts = F] EXCEPT !.xwin = X]
  <2>1. plain_destroy(t, r)
        = [[[t EXCEPT !.win[r].map = FALSE] EXCEPT !.fonts = gui_free_fontset(@, t.win[r].font)]
              EXCEPT !.xwin = @ \ {t.win[r].window}]
    BY DEF plain_destroy
  <2>2. [t EXCEPT !.win[r].map = FALSE].fonts = t.fonts
    BY DEF Screen
  <2>3. [[t EXCEPT !.win[r].map = FALSE] EXCEPT !.fonts = F].xwin = t.xwin
    BY DEF Screen
  <2> QED BY <2>1, <2>2, <2>3
<1>5. child_content(t, r) = plain_destroy(t, r)
  BY DEF child_content
<1>6. [t EXCEPT !.win[r].map = FALSE] = t1
  OBVIOUS
<1> HIDE DEF F, X
<1>7. child_content(t, r) = t3
  BY <1>4, <1>5, <1>6
<1> HIDE DEF z1
<1>8. Wrote(t, t1, r, z1)
  BY <1>1, <1>2, RecordWritten
<1> HIDE DEF t1
<1>9. t2 \in Screen /\ Agree(t1, t2, {"fonts"}) /\ t2.win = t1.win /\ t2.fonts = F
  BY <1>3, <1>8 DEF Wrote, Screen, Agree, Fields
<1> HIDE DEF t2
<1>10. t3 \in Screen /\ Agree(t2, t3, {"xwin"}) /\ t3.win = t1.win /\ t3.xwin = X
  <2>1. X \in SUBSET Nat
    BY DEF Screen, X
  <2> QED BY <1>9, <2>1 DEF Screen, Agree, Fields
<1> HIDE DEF t3
<1>11. r \in DOMAIN t3.win /\ t3.win[r] = z1
  BY <1>1, <1>8, <1>10 DEF Wrote
<1>12. [t3 EXCEPT !.win[r].exit = TRUE] = t4
  BY <1>11
<1> HIDE DEF z2
<1>13. Wrote(t3, t4, r, z2)
  BY <1>2, <1>10, <1>11, RecordWritten
<1> HIDE DEF t4
<1>14. Agree(t, t4, {"win", "fonts", "xwin"}) /\ t4.fonts = F /\ t4.xwin = X
  BY <1>8, <1>9, <1>10, <1>13 DEF Wrote, Agree, Fields
<1>15. DOMAIN t4.win = DOMAIN t.win /\ t4.win[r].next = t.win[r].next /\ t4 \in Screen
       /\ \A q \in DOMAIN t.win \ {r} : t4.win[q] = t.win[q]
  BY <1>2, <1>8, <1>10, <1>13 DEF Wrote
<1>16. Emptied(t, t4, r)
  BY <1>3, <1>14, <1>15 DEF Emptied, X, Agree
<1>17. t4.IC = t.IC
  BY <1>14 DEF Agree, Fields
<1>18. free_child(t, t.win[r].window) = unlinked(t4, r, before(t, r))
  BY <1>7, <1>12, ChildFreed
<1> QED BY <1>15, <1>16, <1>17, <1>18, Unlinking, UnlinkedIC

\* One IC is written.
LEMMA ICWritten ==
    ASSUME NEW t \in Screen, NEW i \in ICID \cup {NULL}, NEW r \in ICRec
    PROVE  /\ [t EXCEPT !.IC[i] = r] \in Screen
           /\ Agree(t, [t EXCEPT !.IC[i] = r], {"IC"})
           /\ [t EXCEPT !.IC[i] = r].IC = [t.IC EXCEPT ![i] = r]
           /\ [t EXCEPT !.IC[i] = r].IC[i] = r
           /\ \A j \in (ICID \cup {NULL}) \ {i} : [t EXCEPT !.IC[i] = r].IC[j] = t.IC[j]
<1> DEFINE J == [t.IC EXCEPT ![i] = r]
           u == [t EXCEPT !.IC = J]
<1>1. [t EXCEPT !.IC[i] = r] = u
  OBVIOUS
<1>2. t.IC \in [ICID \cup {NULL} -> ICRec]
  BY DEF Screen
<1>3. J \in [ICID \cup {NULL} -> ICRec] /\ J[i] = r
      /\ \A j \in (ICID \cup {NULL}) \ {i} : J[j] = t.IC[j]
  BY <1>2
<1> HIDE DEF J
<1>4. u \in Screen /\ Agree(t, u, {"IC"}) /\ u.IC = J
  BY <1>3 DEF Screen, Agree, Fields
<1> QED BY <1>1, <1>3, <1>4 DEF J

\* IC i has no request any more.
unasked(t, i) == [t.IC EXCEPT ![i] = [t.IC[i] EXCEPT !.gwin = <<>>]]

\* A menu goes, with its request if that has a callback, and keeps its font.
LEMMA MenuFreed ==
    ASSUME NEW t \in Screen, Heap(t), NEW r \in wins(t), t.win[r].kind = "menusel",
           NEW i \in ICID, t.win[r].imid = i, t.win[r].data = 1, t.IC[i].live,
           Len(t.IC[i].gwin) = 1
    PROVE  /\ Removed(t, free_child(t, t.win[r].window), r)
           /\ free_child(t, t.win[r].window).IC
                = IF t.IC[i].gwin[1].callback THEN unasked(t, i) ELSE t.IC
<1> DEFINE g  == t.IC[i].gwin
           s1 == IF g[1].callback THEN [t EXCEPT !.IC[i] = [t.IC[i] EXCEPT !.gwin = <<>>]] ELSE t
           X  == t.xwin \ {t.win[r].window}
           s2 == [s1 EXCEPT !.xwin = X]
           z  == [t.win[r] EXCEPT !.exit = TRUE]
           d  == [s2 EXCEPT !.win[r] = z]
<1>1. r \in DOMAIN t.win /\ t.win[r] \in WinRec /\ i # NULL
  BY ListsIn, RecordsAreMemory, WinAssumption DEF ICID, NULL
<1>2. g \in Seq(Request) /\ DOMAIN g = {1} /\ t.IC[i] \in ICRec
  BY DEF Screen, ICRec
<1>3. request_of(t, r) = g[1]
  BY DEF request_of
<1>4. ASSUME NEW k, k = CHOOSE j \in DOMAIN g : g[j].reqid = g[1].reqid
      PROVE  k = 1
  BY <1>2, <1>4
<1>5. RemoveAt(g, 1) = <<>>
  <2>1. RemoveAt(g, 1) = SubSeq(g, 1, 0) \o SubSeq(g, 2, 1)
    BY DEF RemoveAt
  <2>2. SubSeq(g, 1, 0) = <<>> /\ SubSeq(g, 2, 1) = <<>>
    BY <1>2
  <2> QED BY <2>1, <2>2
<1>6. greq_unregister_internal(t, i, 1) = [t EXCEPT !.IC[i] = [t.IC[i] EXCEPT !.gwin = <<>>]]
  BY <1>5 DEF greq_unregister_internal
<1>7. gui_menusel_destroy(t, r) = [s1 EXCEPT !.xwin = @ \ {t.win[r].window}]
  <2>1. imc_find(t, i)
    BY <1>1 DEF imc_find
  <2> DEFINE k == CHOOSE j \in DOMAIN g : g[j].reqid = g[1].reqid
  <2>2. gui_menusel_destroy(t, r)
        = [IF g[1].callback THEN greq_unregister_internal(t, i, k) ELSE t
              EXCEPT !.xwin = @ \ {t.win[r].window}]
    BY <1>3, <2>1 DEF gui_menusel_destroy
  <2>3. k = 1
    BY <1>4
  <2> HIDE DEF k
  <2> QED BY <1>6, <2>2, <2>3
<1>8. child_content(t, r) = gui_menusel_destroy(t, r)
  BY DEF child_content
<1>9. /\ s1 \in Screen /\ Agree(t, s1, {"IC"}) /\ s1.win = t.win /\ s1.xwin = t.xwin
      /\ s1.IC = IF g[1].callback THEN unasked(t, i) ELSE t.IC
  <2> DEFINE n == [t.IC[i] EXCEPT !.gwin = <<>>]
  <2>1. n \in ICRec
    <3>1. <<>> \in Seq(Request)
      OBVIOUS
    <3> QED BY <1>2, <3>1 DEF ICRec
  <2>2. unasked(t, i) = [t.IC EXCEPT ![i] = n]
    BY DEF unasked
  <2> HIDE DEF n
  <2>3. [t EXCEPT !.IC[i] = n] \in Screen /\ Agree(t, [t EXCEPT !.IC[i] = n], {"IC"})
        /\ [t EXCEPT !.IC[i] = n].IC = unasked(t, i)
    BY <2>1, <2>2, ICWritten
  <2>4. s1 = IF g[1].callback THEN [t EXCEPT !.IC[i] = n] ELSE t
    BY DEF n
  <2> HIDE DEF s1
  <2>5. s1 \in Screen /\ Agree(t, s1, {"IC"})
        /\ s1.IC = IF g[1].callback THEN unasked(t, i) ELSE t.IC
    <3>1. CASE g[1].callback
      <4>1. s1 = [t EXCEPT !.IC[i] = n]
        BY <2>4, <3>1
      <4> QED BY <2>3, <3>1, <4>1
    <3>2. CASE ~g[1].callback
      <4>1. s1 = t
        BY <2>4, <3>2
      <4> QED BY <3>2, <4>1 DEF Agree
    <3> QED BY <3>1, <3>2
  <2> QED BY <2>5 DEF Agree, Fields
<1> HIDE DEF s1
<1>10. child_content(t, r) = s2
  BY <1>7, <1>8, <1>9
<1>11. s2 \in Screen /\ Agree(s1, s2, {"xwin"}) /\ s2.win = t.win /\ s2.xwin = X /\ s2.IC = s1.IC
  <2>1. X \in SUBSET Nat
    BY DEF Screen
  <2> HIDE DEF X
  <2> QED BY <1>9, <2>1 DEF Screen, Agree, Fields
<1> HIDE DEF s2
<1>12. z \in WinRec /\ z.next = t.win[r].next
  <2>1. z \in WinRec
    BY <1>1, FieldTyped
  <2> QED BY <1>1, <2>1 DEF WinRec
<1>13. [s2 EXCEPT !.win[r].exit = TRUE] = d
  BY <1>11
<1> HIDE DEF z
<1>14. Wrote(s2, d, r, z)
  <2>1. r \in DOMAIN s2.win
    BY <1>1, <1>11
  <2> QED BY <1>11, <1>12, <2>1, RecordWritten
<1> HIDE DEF d
<1>15. Agree(t, d, {"win", "fonts", "xwin", "IC"}) /\ d.xwin = X /\ d.fonts = t.fonts
       /\ d.IC = s1.IC
  BY <1>9, <1>11, <1>14 DEF Wrote, Agree, Fields
<1>16. DOMAIN d.win = DOMAIN t.win /\ d.win[r].next = t.win[r].next /\ d \in Screen
       /\ \A q \in DOMAIN t.win \ {r} : d.win[q] = t.win[q]
  BY <1>11, <1>12, <1>14 DEF Wrote
<1>17. FontsSound(d.fonts, without(fonts_of(t), r), without(asked_of(t), r))
  <2> DEFINE H == fonts_of(t)
             A == asked_of(t)
             H2 == without(H, r)
             A2 == without(A, r)
  <2>1. FontsSound(t.fonts, H, A) /\ DOMAIN H2 = DOMAIN H \ {r} /\ DOMAIN A2 = DOMAIN H2
        /\ \A q \in DOMAIN H2 : H2[q] = H[q] /\ A2[q] = A[q]
    BY DEF Heap, without, fonts_of, asked_of
  <2>2. DOMAIN H2 \subseteq DOMAIN H
    BY <2>1
  <2> HIDE DEF H, A, H2, A2
  <2>3. FontsSound(t.fonts, H2, A2)
    BY <2>1, <2>2, FewerHolders
  <2> QED BY <1>15, <2>3 DEF H, A, H2, A2
<1>18. Emptied(t, d, r)
  BY <1>15, <1>16, <1>17 DEF Emptied
<1>19. free_child(t, t.win[r].window) = unlinked(d, r, before(t, r))
  BY <1>10, <1>13, ChildFreed
<1> QED BY <1>9, <1>15, <1>16, <1>18, <1>19, Unlinking, UnlinkedIC

-----------------------------------------------------------------------------
(***************************************************************************)
(* Whose a window is, and what drawing leaves as it is.                    *)
(***************************************************************************)
IcId == ICID \cup {NULL}

\* The record r is the candidate window of IC i, or the menu of its request.
SpotOf(t, r, i) ==
    /\ t.win[r].kind = "overspot" /\ t.win[r].imid = i /\ t.win[r].data = i
    /\ t.IC[i].live /\ t.IC[i].style = "OverSpot"
    /\ t.IC[i].overspot_win = t.win[r].window

MenuOf(t, r, i) ==
    /\ t.win[r].kind = "menusel" /\ t.win[r].imid = i /\ t.win[r].data = 1
    /\ t.IC[i].live /\ Len(t.IC[i].gwin) = 1
    /\ t.IC[i].gwin[1].window = t.win[r].window

MainOf(t, r, kind, main) == r = main /\ t.win[r].kind = kind /\ t.win[r].imid = NULL

\* Each window is somebody's, and everybody has the windows he knows of.
Own(t) ==
    /\ \A r \in wins(t) : \/ MainOf(t, r, "main", t.mainwin)
                          \/ MainOf(t, r, "main2", t.mainwin2)
                          \/ \E i \in ICID : SpotOf(t, r, i) \/ MenuOf(t, r, i)
    /\ t.mainwin # NULL => t.mainwin \in wins(t) /\ t.win[t.mainwin].kind = "main"
    /\ t.mainwin2 # NULL => t.mainwin2 \in wins(t) /\ t.win[t.mainwin2].kind = "main2"
    /\ \A i \in ICID : t.IC[i].overspot_win # NULL => \E r \in wins(t) : SpotOf(t, r, i)
    /\ \A i \in ICID : t.IC[i].gwin # <<>> =>
           "CINPUT" \in t.IC[i].inp_state /\ \E r \in wins(t) : MenuOf(t, r, i)

\* What is true of every IC, and of the one that is not there.
ICs(t) ==
    /\ t.ic # NULL => t.IC[t.ic].live
    /\ t.icp # NULL => t.IC[t.icp].live
    /\ ~t.IC[NULL].live
    /\ \A i \in IcId : ~t.IC[i].live => /\ t.IC[i].overspot_win = NULL
                                        /\ t.IC[i].gwin = <<>>
                                        /\ ~t.IC[i].focus /\ t.IC[i].inp_state = {}
    /\ \A i \in IcId : "XIMFOCUS" \in t.IC[i].inp_state =>
                           "CINPUT" \in t.IC[i].inp_state /\ t.IC[i].focus
    /\ \A i \in IcId : "2BFOCUS" \in t.IC[i].inp_state =>
                           "2BYTES" \in t.IC[i].inp_state /\ t.IC[i].focus

\* The windows of t are drawn anew: but for the fields N nothing changes, and
\* no window but those of W comes up or goes away.
Drawn(t, u, N, W) ==
    /\ u \in Screen /\ Heap(u) /\ wins(u) = wins(t) /\ Agree(t, u, N)
    /\ \A r \in wins(t) : Alike(t.win[r], u.win[r], {"map", "font", "asked"})
    /\ \A r \in wins(t) \ W : u.win[r].map = t.win[r].map
    /\ \A i \in IcId : Akin(t.IC[i], u.IC[i], {"font_update"})

Redrawn == {"IC", "fonts", "win", "drawn", "winchange", "unseen"}

\* Drawing nothing, drawing twice, and saying less of it.
LEMMA DrawnNot ==
    ASSUME NEW t \in Screen, Heap(t)
    PROVE  \A N, W : Drawn(t, t, N, W)
<1> QED BY DEF Drawn, Agree, Alike, Akin

LEMMA DrawnTwice ==
    ASSUME NEW t, NEW u, NEW v, NEW N, NEW M, NEW W, NEW X,
           Drawn(t, u, N, W), Drawn(u, v, M, X)
    PROVE  Drawn(t, v, N \cup M, W \cup X)
<1>1. Agree(t, v, N \cup M)
  BY DEF Drawn, Agree
<1>2. \A r \in wins(t) : Alike(t.win[r], v.win[r], {"map", "font", "asked"})
  BY DEF Drawn, Alike
<1>3. \A i \in IcId : Akin(t.IC[i], v.IC[i], {"font_update"})
  BY DEF Drawn, Akin
<1> QED BY <1>1, <1>2, <1>3 DEF Drawn

LEMMA DrawnMore ==
    ASSUME NEW t, NEW u, NEW N, NEW M, NEW W, NEW X, Drawn(t, u, N, W), N \subseteq M, W \subseteq X
    PROVE  Drawn(t, u, M, X)
<1>1. Agree(t, u, M)
  BY DEF Drawn, Agree
<1> QED BY <1>1 DEF Drawn

\* What a window and an IC are does not change when they are drawn.
LEMMA DrawnFields ==
    ASSUME NEW t, NEW u, NEW W, Drawn(t, u, Redrawn, W)
    PROVE  /\ u.ic = t.ic /\ u.icp = t.icp /\ u.mode = t.mode /\ u.left = t.left
           /\ u.mainwin = t.mainwin /\ u.mainwin2 = t.mainwin2
           /\ \A r \in wins(t) :
                  /\ u.win[r].window = t.win[r].window /\ u.win[r].kind = t.win[r].kind
                  /\ u.win[r].imid = t.win[r].imid /\ u.win[r].data = t.win[r].data
                  /\ u.win[r].exit = t.win[r].exit
           /\ \A i \in IcId :
                  /\ u.IC[i].live = t.IC[i].live /\ u.IC[i].style = t.IC[i].style
                  /\ u.IC[i].focus = t.IC[i].focus /\ u.IC[i].inp_state = t.IC[i].inp_state
                  /\ u.IC[i].inp_num = t.IC[i].inp_num /\ u.IC[i].gwin = t.IC[i].gwin
                  /\ u.IC[i].overspot_win = t.IC[i].overspot_win
                  /\ u.IC[i].base_font = t.IC[i].base_font /\ u.IC[i].typed = t.IC[i].typed
<1>1. /\ u.ic = t.ic /\ u.icp = t.icp /\ u.mode = t.mode /\ u.left = t.left
      /\ u.mainwin = t.mainwin /\ u.mainwin2 = t.mainwin2
  BY DEF Drawn, Agree, Fields, Redrawn
<1>2. ASSUME NEW r \in wins(t)
      PROVE  /\ u.win[r].window = t.win[r].window /\ u.win[r].kind = t.win[r].kind
             /\ u.win[r].imid = t.win[r].imid /\ u.win[r].data = t.win[r].data
             /\ u.win[r].exit = t.win[r].exit
  BY DEF Drawn, Alike, WinFields
<1>3. ASSUME NEW i \in IcId
      PROVE  /\ u.IC[i].live = t.IC[i].live /\ u.IC[i].style = t.IC[i].style
             /\ u.IC[i].focus = t.IC[i].focus /\ u.IC[i].inp_state = t.IC[i].inp_state
             /\ u.IC[i].inp_num = t.IC[i].inp_num /\ u.IC[i].gwin = t.IC[i].gwin
             /\ u.IC[i].overspot_win = t.IC[i].overspot_win
             /\ u.IC[i].base_font = t.IC[i].base_font /\ u.IC[i].typed = t.IC[i].typed
  BY DEF Drawn, Akin, ICFields
<1> QED BY <1>1, <1>2, <1>3

\* The windows stay whose they are.
LEMMA DrawnOwn ==
    ASSUME NEW t, NEW u, NEW W, Drawn(t, u, Redrawn, W), Own(t), ICs(t)
    PROVE  Own(u) /\ ICs(u)
<1>1. wins(u) = wins(t) /\ ICID \subseteq IcId /\ NULL \in IcId
  BY DEF Drawn, IcId
<1>2. \A r \in wins(t), i \in ICID : /\ SpotOf(u, r, i) <=> SpotOf(t, r, i)
                                     /\ MenuOf(u, r, i) <=> MenuOf(t, r, i)
  BY <1>1, DrawnFields DEF SpotOf, MenuOf
<1>3. \A r \in wins(t) : \A k, m : MainOf(u, r, k, m) <=> MainOf(t, r, k, m)
  BY DrawnFields DEF MainOf
<1>4. Own(u)
  BY <1>1, <1>2, <1>3, DrawnFields DEF Own
<1>5. u.ic = t.ic /\ u.icp = t.icp
  BY DrawnFields
<1>6. \A i \in IcId : /\ u.IC[i].live = t.IC[i].live /\ u.IC[i].focus = t.IC[i].focus
                      /\ u.IC[i].inp_state = t.IC[i].inp_state /\ u.IC[i].gwin = t.IC[i].gwin
                      /\ u.IC[i].overspot_win = t.IC[i].overspot_win
  BY DrawnFields
<1>7. u.ic \in IcId /\ u.icp \in IcId
  BY DEF Drawn, Screen, IcId
<1>8. ICs(u)
  BY <1>1, <1>5, <1>6, <1>7 DEF ICs
<1> QED BY <1>4, <1>8

\* What is drawn is not a window.
LEMMA DrawnElsewhere ==
    ASSUME NEW t \in Screen, Heap(t), NEW u \in Screen,
           Agree(t, u, {"IC", "drawn", "winchange", "unseen"}),
           \A i \in IcId : Akin(t.IC[i], u.IC[i], {"font_update"}),
           NEW N, Agree(t, u, N)
    PROVE  Drawn(t, u, N, {})
<1>1. u.win = t.win
  BY DEF Agree, Fields
<1>2. \A r \in DOMAIN t.win : Alike(t.win[r], u.win[r], {"map", "kind", "imid", "data"})
      /\ Alike(t.win[r], u.win[r], {"map", "font", "asked"})
  BY <1>1 DEF Alike
<1>3. Agree(t, u, Fields \ {"winlist", "free_win", "fonts", "xwin", "xid"})
  BY DEF Agree, Fields
<1>4. Heap(u) /\ wins(u) = wins(t)
  BY <1>1, <1>2, <1>3, HeapKept
<1>5. wins(t) \subseteq DOMAIN t.win
  BY ListsIn
<1> QED BY <1>1, <1>2, <1>4, <1>5 DEF Drawn

\* One window comes up or goes away.
LEMMA DrawnOneWin ==
    ASSUME NEW t \in Screen, Heap(t), NEW w \in wins(t), NEW u, NEW r,
           Wrote(t, u, w, r), Alike(t.win[w], r, {"map"})
    PROVE  Drawn(t, u, {"win"}, {w})
<1>1. /\ u \in Screen /\ Agree(t, u, {"win"}) /\ DOMAIN u.win = DOMAIN t.win /\ u.win[w] = r
      /\ \A q \in DOMAIN t.win \ {w} : u.win[q] = t.win[q]
  BY DEF Wrote
<1>2. \A q \in DOMAIN t.win : Alike(t.win[q], u.win[q], {"map"})
  BY <1>1 DEF Alike
<1>3. \A q \in DOMAIN t.win : Alike(t.win[q], u.win[q], {"map", "kind", "imid", "data"})
      /\ Alike(t.win[q], u.win[q], {"map", "font", "asked"})
  BY <1>2 DEF Alike
<1>4. Agree(t, u, Fields \ {"winlist", "free_win", "fonts", "xwin", "xid"})
  BY <1>1 DEF Agree, Fields
<1>5. Heap(u) /\ wins(u) = wins(t)
  BY <1>1, <1>3, <1>4, HeapKept
<1>6. wins(t) \subseteq DOMAIN t.win
  BY ListsIn
<1>7. u.IC = t.IC
  BY <1>1 DEF Agree, Fields
<1>8. \A i \in IcId : Akin(t.IC[i], u.IC[i], {"font_update"})
  BY <1>7 DEF Akin
<1> QED BY <1>1, <1>3, <1>5, <1>6, <1>8 DEF Drawn

\* XMapWindow and XUnmapWindow.
LEMMA WindowMapped ==
    ASSUME NEW t \in Screen, Heap(t), NEW w \in wins(t), NEW state \in BOOLEAN
    PROVE  /\ Drawn(t, gui_winmap_change(t, w, state), {"win"}, {w})
           /\ gui_winmap_change(t, w, state).win[w].map = state
<1> DEFINE r == [t.win[w] EXCEPT !.map = state]
           u == [t EXCEPT !.win[w] = r]
<1>1. w \in DOMAIN t.win /\ t.win[w] \in WinRec /\ ~t.win[w].exit
  BY ListsIn DEF Heap
<1>2. gui_winmap_change(t, w, state) = u
  <2>1. gui_winmap_change(t, w, state) = [t EXCEPT !.win[w].map = state]
    BY <1>1 DEF gui_winmap_change
  <2>2. [t EXCEPT !.win[w].map = state] = u
    OBVIOUS
  <2> QED BY <2>1, <2>2
<1>3. r \in WinRec /\ Alike(t.win[w], r, {"map"}) /\ r.map = state
  <2>1. r \in WinRec
    BY <1>1, FieldTyped
  <2> QED BY <1>1, <2>1 DEF WinRec, Alike, WinFields
<1> HIDE DEF r
<1>4. Wrote(t, u, w, r)
  BY <1>1, <1>3, RecordWritten
<1> HIDE DEF u
<1>5. Drawn(t, u, {"win"}, {w})
  BY <1>3, <1>4, DrawnOneWin
<1>6. u.win[w].map = state
  BY <1>3, <1>4 DEF Wrote
<1> QED BY <1>2, <1>5, <1>6

\* The title of a main window.
LEMMA TitleTyped ==
    ASSUME NEW t \in Screen
    PROVE  \A i \in IcId : title(t, i) \in [im : Im, wide : BOOLEAN]
<1>1. \A i \in IcId : t.IC[i] \in ICRec
  BY DEF Screen, IcId
<1>2. \A i \in IcId : t.IC[i].inp_num \in Im
  BY <1>1 DEF ICRec
<1>3. English \in Im
  BY DEF Im
<1> QED BY <1>2, <1>3 DEF title, NoTitle, is_on

\* The title of a main window is drawn.
LEMMA TitleDrawn ==
    ASSUME NEW t \in Screen, Heap(t), NEW w, t.win[w].kind \in {"main", "main2"}
    PROVE  /\ Drawn(t, win_draw(t, w), {"drawn"}, {})
           /\ win_draw(t, w).drawn[t.win[w].kind] = title(t, t.ic)
           /\ \A k \in {"main", "main2"} \ {t.win[w].kind} :
                  win_draw(t, w).drawn[k] = t.drawn[k]
<1> DEFINE k == t.win[w].kind
           D == [t.drawn EXCEPT ![k] = title(t, t.ic)]
           u == [t EXCEPT !.drawn = D]
<1>1. win_draw(t, w) = u
  BY DEF win_draw
<1>2. title(t, t.ic) \in [im : Im, wide : BOOLEAN] /\ k \in {"main", "main2"}
  BY TitleTyped DEF Screen, IcId
<1> HIDE DEF k
<1>3. t.drawn \in [{"main", "main2"} -> [im : Im, wide : BOOLEAN]]
  BY DEF Screen
<1>4. D \in [{"main", "main2"} -> [im : Im, wide : BOOLEAN]] /\ D[k] = title(t, t.ic)
      /\ \A j \in {"main", "main2"} \ {k} : D[j] = t.drawn[j]
  BY <1>2, <1>3
<1> HIDE DEF D
<1>5. u \in Screen /\ Agree(t, u, {"drawn"}) /\ u.drawn = D
  BY <1>4 DEF Screen, Agree, Fields
<1> HIDE DEF u
<1>6. Agree(t, u, {"IC", "drawn", "winchange", "unseen"})
  BY <1>5 DEF Agree
<1>7. u.IC = t.IC
  BY <1>5 DEF Agree, Fields
<1>8. \A i \in IcId : Akin(t.IC[i], u.IC[i], {"font_update"})
  BY <1>7 DEF Akin
<1>9. Drawn(t, u, {"drawn"}, {})
  BY <1>5, <1>6, <1>8, DrawnElsewhere
<1> QED BY <1>1, <1>4, <1>5, <1>9 DEF k

\* IC i is up to date with its font.
LEMMA FontUpdated ==
    ASSUME NEW t \in Screen, Heap(t), NEW i \in IcId
    PROVE  Drawn(t, [t EXCEPT !.IC[i].font_update = FALSE], {"IC"}, {})
<1> DEFINE r == [t.IC[i] EXCEPT !.font_update = FALSE]
           u == [t EXCEPT !.IC[i] = r]
<1>1. [t EXCEPT !.IC[i].font_update = FALSE] = u
  OBVIOUS
<1>2. t.IC[i] \in ICRec
  BY DEF Screen, IcId
<1>3. r \in ICRec /\ Akin(t.IC[i], r, {"font_update"})
  BY <1>2 DEF ICRec, Akin, ICFields
<1> HIDE DEF r
<1>4. u \in Screen /\ Agree(t, u, {"IC"}) /\ u.IC[i] = r /\ \A j \in IcId \ {i} : u.IC[j] = t.IC[j]
  BY <1>3, ICWritten DEF IcId
<1> HIDE DEF u
<1>5. \A j \in IcId : Akin(t.IC[j], u.IC[j], {"font_update"})
  BY <1>3, <1>4 DEF Akin
<1>6. Agree(t, u, {"IC", "drawn", "winchange", "unseen"})
  BY <1>4 DEF Agree
<1> QED BY <1>1, <1>4, <1>5, <1>6, DrawnElsewhere

\* The window w draws with another font.
LEMMA FontChanged ==
    ASSUME NEW t \in Screen, Heap(t), NEW w \in wins(t), NEW i \in IcId
    PROVE  Drawn(t, change_font(t, w, i), {"IC", "fonts", "win"}, {})
<1> DEFINE t1 == [t EXCEPT !.IC[i].font_update = FALSE]
           H  == fonts_of(t)
           A  == asked_of(t)
           H1 == without(H, w)
           A1 == without(A, w)
           F  == gui_free_fontset(t.fonts, t.win[w].font)
           f  == t.IC[i].base_font
           r  == update_IC_fontset(F, f)
           name == r.fonts.cell[r.font].basename
           H2 == with_holder(H1, w, r.font)
           A2 == with_holder(A1, w, name)
           u  == give_font(t1, w, r)
           z  == refonted(t.win[w], r.font, name)
<1>1. change_font(t, w, i) = u
  BY DEF change_font
<1>2. f \in FontName \cup {NoName}
  <2>1. t.IC[i] \in ICRec
    BY DEF Screen, IcId
  <2> QED BY <2>1 DEF ICRec
<1>3. FontsSound(F, H1, A1)
  <2>1. FontsSound(t.fonts, H, A) /\ w \in DOMAIN H /\ H[w] = t.win[w].font
    BY DEF Heap, fonts_of
  <2> QED BY <2>1, FreeingSound
<1>4. Gives(r, H1, A1) /\ r.font # NoFont
  <2> HIDE DEF F, H1, A1, f
  <2> QED BY <1>2, <1>3, UpdatingGives
<1>5. DOMAIN H = wins(t) /\ DOMAIN A = wins(t) /\ DOMAIN H1 = wins(t) \ {w}
      /\ DOMAIN A1 = DOMAIN H1
  BY DEF fonts_of, asked_of, without
<1>6. FontsSound(r.fonts, H2, A2)
  <2>1. IsFiniteSet(DOMAIN H1)
    BY <1>3 DEF FontsSound, HeldFonts
  <2>2. w \notin DOMAIN H1
    BY <1>5
  <2>3. Grown(H1, A1, H2, A2, r.font, name)
    <3> HIDE DEF H1, A1, r, name
    <3> QED BY <1>5, <2>1, <2>2, GrownByOne
  <2> HIDE DEF H1, A1, H2, A2, r
  <2> QED BY <1>4, <2>3 DEF Gives
<1>7. /\ DOMAIN H2 = wins(t) /\ DOMAIN A2 = wins(t) /\ H2[w] = r.font /\ A2[w] = name
      /\ \A q \in wins(t) \ {w} : H2[q] = t.win[q].font /\ A2[q] = t.win[q].asked
  <2>1. \A q \in wins(t) \ {w} : H1[q] = t.win[q].font /\ A1[q] = t.win[q].asked
    BY DEF fonts_of, asked_of, without
  <2> HIDE DEF H1, A1, r, name
  <2> QED BY <1>5, <2>1 DEF with_holder
<1>8. H2 = [q \in DOMAIN H2 |-> H2[q]] /\ A2 = [q \in DOMAIN A2 |-> A2[q]]
  BY DEF with_holder
<1>9. Drawn(t, t1, {"IC"}, {})
  BY FontUpdated
<1>10. t1 \in Screen /\ t1.win = t.win
  BY <1>9 DEF Drawn, Agree, Fields
<1> HIDE DEF t1, r, H1, A1, F, f, H2, A2
<1>11. r.fonts \in FontMemory /\ r.font \in DOMAIN r.fonts.cell
  BY <1>6, <1>7 DEF FontsSound, HeldFonts
<1>12. w \in DOMAIN t1.win /\ wins(t) \subseteq DOMAIN t.win /\ t.win[w] \in WinRec
  BY <1>10, ListsIn
<1>13. Refonted(t1, u, w, r)
  BY <1>4, <1>10, <1>11, <1>12, FontGiven
<1> HIDE DEF u
<1>14. /\ u \in Screen /\ Agree(t1, u, {"win", "fonts"}) /\ u.fonts = r.fonts
       /\ DOMAIN u.win = DOMAIN t.win /\ u.win[w] = z
       /\ \A q \in DOMAIN t.win \ {w} : u.win[q] = t.win[q]
  BY <1>10, <1>13 DEF Refonted
<1>15. Alike(t.win[w], z, {"font", "asked"}) /\ z.font = r.font /\ z.asked = name
  <2> HIDE DEF name
  <2> QED BY <1>12 DEF refonted, WinRec, Alike, WinFields
<1> HIDE DEF z, name
<1>16. \A q \in DOMAIN t.win : Alike(t.win[q], u.win[q], {"font", "asked"})
  BY <1>14, <1>15 DEF Alike
<1>17. Agree(t, u, {"IC", "fonts", "win"})
  BY <1>9, <1>14 DEF Drawn, Agree
<1>18. /\ u.winlist = t.winlist /\ u.free_win = t.free_win /\ u.xwin = t.xwin /\ u.xid = t.xid
  BY <1>17 DEF Agree, Fields
<1>19. \A q \in DOMAIN t.win : /\ u.win[q].next = t.win[q].next /\ u.win[q].exit = t.win[q].exit
                               /\ u.win[q].window = t.win[q].window /\ u.win[q].map = t.win[q].map
  BY <1>16 DEF Alike, WinFields
<1>20. wins(u) = wins(t) /\ idle(u) = idle(t)
       /\ IsList(u.win, u.winlist, wins(t)) /\ IsList(u.win, u.free_win, idle(t))
  BY <1>14, <1>18, <1>19, SameLinks
<1>21. FontsSound(u.fonts, fonts_of(u), asked_of(u))
  <2>1. \A q \in wins(t) : H2[q] = u.win[q].font /\ A2[q] = u.win[q].asked
    BY <1>7, <1>12, <1>14, <1>15
  <2>2. [q \in DOMAIN H2 |-> H2[q]] = fonts_of(u)
    BY <1>7, <1>20, <2>1 DEF fonts_of
  <2>3. [q \in DOMAIN A2 |-> A2[q]] = asked_of(u)
    BY <1>7, <1>20, <2>1 DEF asked_of
  <2> QED BY <1>6, <1>8, <1>14, <2>2, <2>3
<1>22. Heap(u)
  <2>1. {u.win[q].window : q \in wins(t)} = {t.win[q].window : q \in wins(t)}
    BY <1>12, <1>19
  <2>2. \A q \in wins(t) : u.win[q].exit = t.win[q].exit /\ u.win[q].window = t.win[q].window
    BY <1>12, <1>19
  <2> QED BY <1>18, <1>20, <1>21, <2>1, <2>2 DEF Heap
<1>23. \A j \in IcId : Akin(t.IC[j], u.IC[j], {"font_update"})
  <2>1. u.IC = t1.IC
    BY <1>14 DEF Agree, Fields
  <2> QED BY <1>9, <2>1 DEF Drawn
<1>24. \A q \in wins(t) : /\ Alike(t.win[q], u.win[q], {"map", "font", "asked"})
                          /\ u.win[q].map = t.win[q].map
  BY <1>12, <1>16, <1>19 DEF Alike
<1>25. Drawn(t, u, {"IC", "fonts", "win"}, {})
  BY <1>14, <1>17, <1>20, <1>22, <1>23, <1>24 DEF Drawn
<1> QED BY <1>1, <1>25

-----------------------------------------------------------------------------
(***************************************************************************)
(* What each drawing function leaves on the screen.                        *)
(***************************************************************************)
comes_and_goes(t) == in_mode(t, "HIDE") \/ in_mode(t, "MAINWIN2")
small(t) == in_mode(t, "MAINWIN2") /\ t.IC[t.ic].style # "Root"
inputs(t, i) == is_on(t, i, "XIMFOCUS") \/ is_on(t, i, "2BFOCUS")

\* Nothing that decides what is shown changes when windows are drawn.
LEMMA DrawnAsked ==
    ASSUME NEW t \in Screen, NEW u, NEW W, Drawn(t, u, Redrawn, W)
    PROVE  /\ u.ic = t.ic /\ asked_for(u) = asked_for(t) /\ small(u) = small(t)
           /\ \A f : in_mode(u, f) = in_mode(t, f)
           /\ comes_and_goes(u) = comes_and_goes(t)
           /\ \A i \in IcId : /\ title(u, i) = title(t, i) /\ inputs(u, i) = inputs(t, i)
                              /\ \A f : is_on(u, i, f) = is_on(t, i, f)
<1>1. u.ic = t.ic /\ u.mode = t.mode /\ t.ic \in IcId
  BY DrawnFields DEF Screen, IcId
<1>2. \A i \in IcId : u.IC[i].inp_state = t.IC[i].inp_state
      /\ u.IC[i].inp_num = t.IC[i].inp_num /\ u.IC[i].style = t.IC[i].style
  BY DrawnFields
<1>3. \A f : in_mode(u, f) = in_mode(t, f)
  BY <1>1 DEF in_mode
<1>4. \A i \in IcId : \A f : is_on(u, i, f) = is_on(t, i, f)
  BY <1>2 DEF is_on
<1>5. \A i \in IcId : inputs(u, i) = inputs(t, i)
  BY <1>4 DEF inputs
<1>6. asked_for(u) = asked_for(t)
  BY <1>1, <1>4 DEF asked_for, converts
<1>7. small(u) = small(t)
  BY <1>1, <1>2, <1>3 DEF small
<1>8. comes_and_goes(u) = comes_and_goes(t)
  BY <1>3 DEF comes_and_goes
<1>9. \A i \in IcId : title(u, i) = title(t, i)
  BY <1>2, <1>4 DEF title
<1> QED BY <1>1, <1>3, <1>4, <1>5, <1>6, <1>7, <1>8, <1>9

\* xcin_mainwin_draw() and xcin_mainwin2_draw().
LEMMA MainDrawn ==
    ASSUME NEW t \in Screen, Heap(t), NEW w \in wins(t), t.win[w].kind = "main"
    PROVE  /\ Drawn(t, xcin_mainwin_draw(t, w), {"win", "drawn"}, {w})
           /\ xcin_mainwin_draw(t, w).win[w].map
                = IF comes_and_goes(t) THEN asked_for(t) /\ ~small(t) ELSE t.win[w].map
           /\ xcin_mainwin_draw(t, w).win[w].map
                => xcin_mainwin_draw(t, w).drawn["main"] = title(t, t.ic)
           /\ xcin_mainwin_draw(t, w).drawn["main2"] = t.drawn["main2"]
<1> DEFINE u == xcin_mainwin_draw(t, w)
           Good(v) == /\ Drawn(t, v, {"win", "drawn"}, {w})
                      /\ v.win[w].map = IF comes_and_goes(t) THEN asked_for(t) /\ ~small(t)
                                        ELSE t.win[w].map
                      /\ v.win[w].map => v.drawn["main"] = title(t, t.ic)
                      /\ v.drawn["main2"] = t.drawn["main2"]
<1>1. ~t.win[w].exit /\ t.ic \in IcId /\ t.win[w] \in WinRec
  BY ListsIn DEF Heap, Screen, IcId
<1>2. asked_for(t) \in BOOLEAN /\ small(t) \in BOOLEAN /\ t.win[w].map \in BOOLEAN
  BY <1>1 DEF asked_for, small, WinRec, converts, is_on, in_mode
<1>4. ASSUME NEW v, Drawn(t, v, {"win"}, {w})
      PROVE  /\ Drawn(t, win_draw(v, w), {"win", "drawn"}, {w})
             /\ win_draw(v, w).win[w].map = v.win[w].map
             /\ win_draw(v, w).drawn["main"] = title(t, t.ic)
             /\ win_draw(v, w).drawn["main2"] = v.drawn["main2"]
  <2> DEFINE x == win_draw(v, w)
  <2>1. Drawn(t, v, Redrawn, {w})
    BY <1>4, DrawnMore DEF Redrawn
  <2>2. v \in Screen /\ Heap(v) /\ wins(v) = wins(t) /\ v.win[w].kind = "main" /\ v.ic = t.ic
        /\ title(v, v.ic) = title(t, t.ic)
    BY <1>1, <2>1, DrawnFields, DrawnAsked DEF Drawn
  <2>3. Drawn(v, x, {"drawn"}, {}) /\ x.drawn["main"] = title(t, t.ic)
        /\ x.drawn["main2"] = v.drawn["main2"]
    <3>1. v.win[w].kind \in {"main", "main2"} /\ "main2" \in {"main", "main2"} \ {v.win[w].kind}
      BY <2>2
    <3> QED BY <2>2, <3>1, TitleDrawn
  <2>4. Drawn(t, x, {"win"} \cup {"drawn"}, {w} \cup {})
    BY <1>4, <2>3, DrawnTwice
  <2>5. x.win = v.win
    BY <2>3 DEF Drawn, Agree, Fields
  <2>6. {"win"} \cup {"drawn"} = {"win", "drawn"} /\ {w} \cup {} = {w}
    OBVIOUS
  <2> QED BY <2>3, <2>4, <2>5, <2>6
<1>5. \A x \in BOOLEAN : /\ Drawn(t, gui_winmap_change(t, w, x), {"win", "drawn"}, {w})
                         /\ gui_winmap_change(t, w, x).win[w].map = x
                         /\ gui_winmap_change(t, w, x).drawn = t.drawn
  <2> SUFFICES ASSUME NEW x \in BOOLEAN
               PROVE  LET v == gui_winmap_change(t, w, x)
                      IN  Drawn(t, v, {"win", "drawn"}, {w}) /\ v.win[w].map = x /\ v.drawn = t.drawn
    OBVIOUS
  <2> DEFINE v == gui_winmap_change(t, w, x)
  <2>1. Drawn(t, v, {"win"}, {w}) /\ v.win[w].map = x
    BY WindowMapped
  <2> HIDE DEF v
  <2>2. Drawn(t, v, {"win", "drawn"}, {w})
    BY <2>1, DrawnMore
  <2>3. v.drawn = t.drawn
    BY <2>1 DEF Drawn, Agree, Fields
  <2> QED BY <2>1, <2>2, <2>3 DEF v
<1>6. CASE ~asked_for(t) /\ comes_and_goes(t)
  <2>1. u = gui_winmap_change(t, w, FALSE)
    BY <1>1, <1>6 DEF xcin_mainwin_draw, comes_and_goes
  <2>2. Good(u)
    BY <1>5, <1>6, <2>1
  <2> QED BY <2>2
<1>7. CASE ~asked_for(t) /\ ~comes_and_goes(t)
  <2>1. u = win_draw(t, w)
    BY <1>1, <1>7 DEF xcin_mainwin_draw, comes_and_goes
  <2>2. Good(u)
    BY <1>4, <1>7, <2>1, DrawnNot
  <2> QED BY <2>2
<1>8. CASE asked_for(t) /\ small(t)
  <2>1. u = gui_winmap_change(t, w, FALSE)
    BY <1>1, <1>8 DEF xcin_mainwin_draw, small
  <2>2. comes_and_goes(t)
    BY <1>8 DEF small, comes_and_goes
  <2>3. Good(u)
    BY <1>5, <1>8, <2>1, <2>2
  <2> QED BY <2>3
<1>9. CASE asked_for(t) /\ ~small(t) /\ comes_and_goes(t)
  <2>1. u = win_draw(gui_winmap_change(t, w, TRUE), w)
    BY <1>1, <1>9 DEF xcin_mainwin_draw, small, comes_and_goes
  <2>2. Drawn(t, gui_winmap_change(t, w, TRUE), {"win"}, {w})
    BY WindowMapped
  <2>3. Good(u)
    BY <1>4, <1>5, <1>9, <2>1, <2>2
  <2> QED BY <2>3
<1>10. CASE asked_for(t) /\ ~small(t) /\ ~comes_and_goes(t)
  <2>1. u = win_draw(t, w)
    BY <1>1, <1>10 DEF xcin_mainwin_draw, small, comes_and_goes
  <2>2. Good(u)
    BY <1>4, <1>10, <2>1, DrawnNot
  <2> QED BY <2>2
<1> QED BY <1>6, <1>7, <1>8, <1>9, <1>10

LEMMA Main2Drawn ==
    ASSUME NEW t \in Screen, Heap(t), NEW w \in wins(t), t.win[w].kind = "main2"
    PROVE  /\ Drawn(t, xcin_mainwin2_draw(t, w), {"win", "drawn"}, {w})
           /\ in_mode(t, "WINONLY") => xcin_mainwin2_draw(t, w) = t
           /\ ~in_mode(t, "WINONLY") =>
                /\ xcin_mainwin2_draw(t, w).win[w].map
                     = ~((~asked_for(t) /\ in_mode(t, "HIDE")) \/ wide_is_up(t))
                /\ xcin_mainwin2_draw(t, w).win[w].map
                     => xcin_mainwin2_draw(t, w).drawn["main2"] = title(t, t.ic)
           /\ xcin_mainwin2_draw(t, w).drawn["main"] = t.drawn["main"]
<1> DEFINE u == xcin_mainwin2_draw(t, w)
           hid == (~asked_for(t) /\ in_mode(t, "HIDE")) \/ wide_is_up(t)
<1>1. ~t.win[w].exit /\ t.ic \in IcId /\ t.win[w] \in WinRec
  BY ListsIn DEF Heap, Screen, IcId
<1>2. \A x \in BOOLEAN : /\ Drawn(t, gui_winmap_change(t, w, x), {"win"}, {w})
                         /\ gui_winmap_change(t, w, x).win[w].map = x
                         /\ gui_winmap_change(t, w, x).drawn = t.drawn
  <2> SUFFICES ASSUME NEW x \in BOOLEAN
               PROVE  LET v == gui_winmap_change(t, w, x)
                      IN  Drawn(t, v, {"win"}, {w}) /\ v.win[w].map = x /\ v.drawn = t.drawn
    OBVIOUS
  <2> DEFINE v == gui_winmap_change(t, w, x)
  <2>1. Drawn(t, v, {"win"}, {w}) /\ v.win[w].map = x
    BY WindowMapped
  <2> HIDE DEF v
  <2>3. v.drawn = t.drawn
    BY <2>1 DEF Drawn, Agree, Fields
  <2> QED BY <2>1, <2>3 DEF v
<1>3. CASE in_mode(t, "WINONLY")
  <2>1. u = t
    BY <1>3 DEF xcin_mainwin2_draw
  <2>2. Drawn(t, t, {"win", "drawn"}, {w})
    BY DrawnNot
  <2> HIDE DEF u
  <2>3. Drawn(t, u, {"win", "drawn"}, {w}) /\ u.drawn["main"] = t.drawn["main"]
    BY <2>1, <2>2
  <2> QED BY <1>3, <2>1, <2>3 DEF u
<1>4. CASE ~in_mode(t, "WINONLY") /\ hid
  <2>1. u = gui_winmap_change(t, w, FALSE)
    BY <1>1, <1>4 DEF xcin_mainwin2_draw
  <2>2. Drawn(t, u, {"win"}, {w}) /\ u.win[w].map = FALSE /\ u.drawn = t.drawn
    BY <1>2, <2>1
  <2>3. Drawn(t, u, {"win", "drawn"}, {w})
    <3> HIDE DEF u
    <3> QED BY <2>2, DrawnMore
  <2> QED BY <1>4, <2>2, <2>3
<1>5. CASE ~in_mode(t, "WINONLY") /\ ~hid
  <2> DEFINE v == gui_winmap_change(t, w, TRUE)
             x == win_draw(v, w)
  <2>1. u = x
    BY <1>1, <1>5 DEF xcin_mainwin2_draw
  <2>2. Drawn(t, v, {"win"}, {w}) /\ v.win[w].map /\ v.drawn = t.drawn
    BY <1>2
  <2> HIDE DEF v
  <2>3. Drawn(t, v, Redrawn, {w})
    BY <2>2, DrawnMore DEF Redrawn
  <2>4. v \in Screen /\ Heap(v) /\ wins(v) = wins(t) /\ v.win[w].kind = "main2" /\ v.ic = t.ic
        /\ title(v, v.ic) = title(t, t.ic)
    <3>1. v \in Screen /\ Heap(v) /\ wins(v) = wins(t)
      BY <2>3 DEF Drawn
    <3>2. v.win[w].kind = "main2"
      BY <2>3, DrawnFields
    <3>3. v.ic = t.ic /\ title(v, t.ic) = title(t, t.ic)
      BY <1>1, <2>3, DrawnAsked
    <3> QED BY <3>1, <3>2, <3>3
  <2>5. Drawn(v, x, {"drawn"}, {}) /\ x.drawn["main2"] = title(t, t.ic)
        /\ x.drawn["main"] = v.drawn["main"]
    <3>1. v.win[w].kind \in {"main", "main2"} /\ "main" \in {"main", "main2"} \ {v.win[w].kind}
      BY <2>4
    <3> QED BY <2>4, <3>1, TitleDrawn
  <2>6. Drawn(t, x, {"win"} \cup {"drawn"}, {w} \cup {})
    BY <2>2, <2>5, DrawnTwice
  <2>7. x.win = v.win
    BY <2>5 DEF Drawn, Agree, Fields
  <2>8. {"win"} \cup {"drawn"} = {"win", "drawn"} /\ {w} \cup {} = {w}
    OBVIOUS
  <2> HIDE DEF x
  <2> QED BY <1>5, <2>1, <2>2, <2>5, <2>6, <2>7, <2>8
<1> QED BY <1>3, <1>4, <1>5

\* A candidate window comes up only while its IC takes keys.
LEMMA SpotDrawn ==
    ASSUME NEW t \in Screen, Heap(t), NEW w \in wins(t), t.win[w].data \in IcId
    PROVE  /\ Drawn(t, gui_overspot_draw(t, w), {"IC", "fonts", "win"}, {w})
           /\ gui_overspot_draw(t, w).win[w].map => inputs(t, t.win[w].data)
<1> DEFINE i       == t.win[w].data
           focused == is_on(t, i, "XIMFOCUS") \/ is_on(t, i, "2BFOCUS")
           flag    == \/ focused /\ in_mode(t, "WINONLY")
                      \/ is_on(t, i, "XIMFOCUS") /\ t.IC[i].typed
           new     == focused /\ ~in_mode(t, "USRFONTSET") /\ t.IC[i].font_update
           t1      == IF new THEN change_font(t, w, i) ELSE t
           u       == gui_winmap_change(t1, w, flag)
<1>1. ~t.win[w].exit
  BY DEF Heap
<1>2. gui_overspot_draw(t, w) = u
  BY <1>1 DEF gui_overspot_draw
<1>3. Drawn(t, t1, {"IC", "fonts", "win"}, {})
  <2>1. CASE new
    BY <2>1, FontChanged
  <2>2. CASE ~new
    BY <2>2, DrawnNot
  <2> QED BY <2>1, <2>2
<1>4. flag \in BOOLEAN /\ (flag => inputs(t, i))
  <2>1. t.IC[i] \in ICRec
    BY DEF Screen, IcId
  <2>2. t.IC[i].typed \in BOOLEAN
    BY <2>1 DEF ICRec
  <2> QED BY <2>2 DEF inputs
<1> HIDE DEF flag, t1
<1>5. t1 \in Screen /\ Heap(t1) /\ w \in wins(t1)
  BY <1>3 DEF Drawn
<1>6. Drawn(t1, u, {"win"}, {w}) /\ u.win[w].map = flag
  BY <1>4, <1>5, WindowMapped
<1> HIDE DEF u
<1>7. Drawn(t, u, {"IC", "fonts", "win"} \cup {"win"}, {} \cup {w})
  BY <1>3, <1>6, DrawnTwice
<1>8. {"IC", "fonts", "win"} \cup {"win"} = {"IC", "fonts", "win"} /\ {} \cup {w} = {w}
  OBVIOUS
<1> QED BY <1>2, <1>4, <1>6, <1>7, <1>8

\* The window of r shows a request of IC i.
asked_by(t, i, r) == \E g \in Range(t.IC[i].gwin) : g.window = t.win[r].window

\* windraw() of gui_menusel.c.
LEMMA MenusMapped ==
    ASSUME NEW t \in Screen, Heap(t), NEW i \in IcId, NEW state \in BOOLEAN
    PROVE  /\ Drawn(t, windraw(t, i, state), {"win"}, wins(t))
           /\ \A r \in wins(t) : windraw(t, i, state).win[r].map
                                   = IF asked_by(t, i, r) THEN state ELSE t.win[r].map
<1> DEFINE found == {gui_search_win(t, g.window) : g \in Range(t.IC[i].gwin)}
           map(r, w) == IF w \in found /\ ~r.exit THEN [r EXCEPT !.map = state] ELSE r
           f == [w \in DOMAIN t.win |-> map(t.win[w], w)]
           u == [t EXCEPT !.win = f]
<1>1. t.win \in Seq(WinRec) /\ Len(t.win) \in Nat /\ DOMAIN t.win = 1 .. Len(t.win)
      /\ \A w \in DOMAIN t.win : t.win[w] \in WinRec
  BY RecordsAreMemory
<1>2. \A w \in DOMAIN t.win : map(t.win[w], w) \in WinRec
                              /\ Alike(t.win[w], map(t.win[w], w), {"map"})
  <2> SUFFICES ASSUME NEW w \in DOMAIN t.win
               PROVE  map(t.win[w], w) \in WinRec /\ Alike(t.win[w], map(t.win[w], w), {"map"})
    OBVIOUS
  <2> DEFINE z == [t.win[w] EXCEPT !.map = state]
  <2>1. z \in WinRec
    BY <1>1, FieldTyped
  <2>2. Alike(t.win[w], z, {"map"})
    BY <1>1 DEF WinRec, Alike, WinFields
  <2>3. map(t.win[w], w) = z \/ map(t.win[w], w) = t.win[w]
    OBVIOUS
  <2> HIDE DEF z, map
  <2> QED BY <1>1, <2>1, <2>2, <2>3 DEF Alike
<1>3. f \in Seq(WinRec) /\ DOMAIN f = DOMAIN t.win /\ \A w \in DOMAIN t.win : f[w] = map(t.win[w], w)
  <2> HIDE DEF map
  <2>1. f \in [1 .. Len(t.win) -> WinRec]
    BY <1>1, <1>2
  <2>2. f \in Seq(WinRec)
    <3> HIDE DEF f
    <3> QED BY <1>1, <2>1
  <2> QED BY <2>2
<1>4. windraw(t, i, state) = u
  <2>1. windraw(t, i, state) = [t EXCEPT !.win = <<>> \o f]
    BY DEF windraw
  <2>2. <<>> \o f = f
    <3> HIDE DEF f
    <3> QED BY <1>3
  <2> HIDE DEF f
  <2> QED BY <2>1, <2>2
<1> HIDE DEF f
<1>5. u \in Screen /\ Agree(t, u, {"win"}) /\ u.win = f
  BY <1>3 DEF Screen, Agree, Fields
<1> HIDE DEF u
<1>6. \A w \in DOMAIN t.win : Alike(t.win[w], u.win[w], {"map"})
  <2> HIDE DEF map
  <2> QED BY <1>2, <1>3, <1>5
<1>7. \A w \in DOMAIN t.win : Alike(t.win[w], u.win[w], {"map", "kind", "imid", "data"})
                              /\ Alike(t.win[w], u.win[w], {"map", "font", "asked"})
  BY <1>6 DEF Alike
<1>8. Heap(u) /\ wins(u) = wins(t)
  <2>1. Agree(t, u, Fields \ {"winlist", "free_win", "fonts", "xwin", "xid"})
    BY <1>5 DEF Agree, Fields
  <2>2. DOMAIN u.win = DOMAIN t.win
    BY <1>3, <1>5
  <2> QED BY <1>5, <1>7, <2>1, <2>2, HeapKept
<1>9. wins(t) \subseteq DOMAIN t.win /\ NULL \notin wins(t)
  BY ListsIn
<1>10. \A j \in IcId : Akin(t.IC[j], u.IC[j], {"font_update"})
  BY <1>5 DEF Akin, Agree, Fields
<1>11. Drawn(t, u, {"win"}, wins(t))
  BY <1>5, <1>7, <1>8, <1>9, <1>10 DEF Drawn
<1>12. ASSUME NEW r \in wins(t)
       PROVE  u.win[r].map = IF asked_by(t, i, r) THEN state ELSE t.win[r].map
  <2>1. r \in DOMAIN t.win /\ r # NULL /\ ~t.win[r].exit /\ t.win[r] \in WinRec
    BY <1>1, <1>9 DEF Heap
  <2>2. r \in found <=> asked_by(t, i, r)
    <3>1. \A x : gui_search_win(t, x) = r <=> t.win[r].window = x
      BY <2>1, WindowFound
    <3> QED BY <3>1 DEF asked_by
  <2>3. u.win[r] = map(t.win[r], r)
    BY <1>3, <1>5, <2>1
  <2>4. [t.win[r] EXCEPT !.map = state].map = state
    BY <2>1 DEF WinRec
  <2> HIDE DEF found
  <2> QED BY <2>1, <2>2, <2>3, <2>4
<1> QED BY <1>4, <1>11, <1>12

-----------------------------------------------------------------------------
\* A main window is made, and then it is the one of its kind.
LEMMA FirstFont ==
    ASSUME NEW t \in Screen, Heap(t)
    PROVE  /\ Gives(gui_create_fontset(t.fonts, DefaultFont), fonts_of(t), asked_of(t))
           /\ gui_create_fontset(t.fonts, DefaultFont).font # NoFont
<1>1. FontsSound(t.fonts, fonts_of(t), asked_of(t))
  BY DEF Heap
<1>2. DefaultFont \in FontName \cup {NoName} /\ DefaultFont \in Loadable
  BY FontAssumption
<1> QED BY <1>1, <1>2, CreatingGives

\* u is t with the new window w of IC i, or of nobody.
Added(t, u, w, N) ==
    /\ u \in Screen /\ Heap(u) /\ w \notin wins(t) /\ wins(u) = wins(t) \cup {w}
    /\ Agree(t, u, {"win", "winlist", "free_win", "xid", "xwin", "fonts"} \cup N)
    /\ u.win[w].window = t.xid + 1
    /\ \A q \in wins(t) : u.win[q] = t.win[q]

MainMade(t, u, w, kind, up) ==
    /\ Added(t, u, w, {"mainwin", "mainwin2"})
    /\ u.win[w].kind = kind /\ u.win[w].imid = NULL /\ u.win[w].map = up

MainReady(t, v, w, kind, up) ==
    /\ v \in Screen /\ Heap(v) /\ w \in Nat /\ w \notin wins(t) /\ wins(v) = wins(t) \cup {w}
    /\ Agree(t, v, {"win", "winlist", "free_win", "xid", "xwin", "fonts"})
    /\ \A q \in wins(t) : v.win[q] = t.win[q]
    /\ v.win[w].kind = kind /\ v.win[w].imid = NULL /\ v.win[w].map = up
    /\ v.win[w].window = t.xid + 1

\* The new main window comes up if the settings want it.
LEMMA MainMapped ==
    ASSUME NEW t \in Screen, Heap(t), NEW kind \in {"main", "main2"}, NEW up \in BOOLEAN,
           NEW u, NEW w, Made(t, u, w, kind, NULL, NULL)
    PROVE  MainReady(t, gui_winmap_change(u, w, up), w, kind, up)
<1> DEFINE v == gui_winmap_change(u, w, up)
<1>1. u \in Screen /\ Heap(u) /\ w \in wins(u)
  BY DEF Made
<1>2. v \in Screen /\ Heap(v) /\ wins(v) = wins(u) /\ v.win[w].map = up /\ Agree(u, v, {"win"})
      /\ Alike(u.win[w], v.win[w], {"map"})
      /\ \A q \in wins(u) \ {w} : v.win[q] = u.win[q]
  <2> DEFINE r == [u.win[w] EXCEPT !.map = up]
  <2>1. w \in DOMAIN u.win /\ u.win[w] \in WinRec /\ ~u.win[w].exit /\ wins(u) \subseteq DOMAIN u.win
    BY <1>1, ListsIn DEF Heap
  <2>2. v = [u EXCEPT !.win[w] = r]
    <3>1. v = [u EXCEPT !.win[w].map = up]
      BY <2>1 DEF gui_winmap_change
    <3> QED BY <3>1
  <2>3. r \in WinRec /\ Alike(u.win[w], r, {"map"})
    <3>1. r \in WinRec
      BY <2>1, FieldTyped
    <3> QED BY <2>1, <3>1 DEF WinRec, Alike, WinFields
  <2>4. Drawn(u, v, {"win"}, {w}) /\ v.win[w].map = up
    BY <1>1, WindowMapped
  <2> HIDE DEF r, v
  <2>5. Wrote(u, v, w, r)
    BY <1>1, <2>1, <2>2, <2>3, RecordWritten
  <2> QED BY <2>1, <2>3, <2>4, <2>5 DEF Wrote, Drawn
<1>3. w \in Nat
  BY <1>1, ListsIn
<1> HIDE DEF v
<1>4. v.win[w].kind = kind /\ v.win[w].imid = NULL /\ v.win[w].window = t.xid + 1
  BY <1>2 DEF Made, Alike, WinFields
<1>5. /\ w \notin wins(t) /\ wins(v) = wins(t) \cup {w}
      /\ Agree(t, v, {"win", "winlist", "free_win", "xid", "xwin", "fonts"})
      /\ \A q \in wins(t) : v.win[q] = t.win[q]
  BY <1>2 DEF Made, Agree
<1>6. MainReady(t, v, w, kind, up)
  BY <1>2, <1>3, <1>4, <1>5 DEF MainReady
<1> QED BY <1>6 DEF v

as_main(v, w)  == [v EXCEPT !.mainwin = w]
as_main2(v, w) == [v EXCEPT !.mainwin2 = w]

\* Then it is noted.
LEMMA MainSet ==
    ASSUME NEW t \in Screen, Heap(t), NEW kind \in {"main", "main2"}, NEW up \in BOOLEAN,
           NEW v, NEW w, MainReady(t, v, w, kind, up)
    PROVE  /\ MainMade(t, as_main(v, w), w, kind, up)
           /\ as_main(v, w).mainwin = w /\ as_main(v, w).mainwin2 = t.mainwin2
           /\ MainMade(t, as_main2(v, w), w, kind, up)
           /\ as_main2(v, w).mainwin2 = w /\ as_main2(v, w).mainwin = t.mainwin
<1> DEFINE x == [v EXCEPT !.mainwin = w]
           y == [v EXCEPT !.mainwin2 = w]
<1>2. /\ v \in Screen /\ Heap(v) /\ v.win[w].map = up
      /\ v.win[w].kind = kind /\ v.win[w].imid = NULL /\ v.win[w].window = t.xid + 1
  BY DEF MainReady
<1>3. w \in Nat
  BY DEF MainReady
<1>5. /\ w \notin wins(t) /\ wins(v) = wins(t) \cup {w}
      /\ Agree(t, v, {"win", "winlist", "free_win", "xid", "xwin", "fonts"})
      /\ \A q \in wins(t) : v.win[q] = t.win[q]
  BY DEF MainReady
<1>6. \A q \in DOMAIN v.win : Alike(v.win[q], v.win[q], {"map", "kind", "imid", "data"})
  BY DEF Alike
<1>7. x \in Screen /\ Agree(v, x, {"mainwin"}) /\ x.mainwin = w /\ x.win = v.win
  BY <1>2, <1>3 DEF Screen, Agree, Fields
<1>8. y \in Screen /\ Agree(v, y, {"mainwin2"}) /\ y.mainwin2 = w /\ y.win = v.win
  BY <1>2, <1>3 DEF Screen, Agree, Fields
<1> HIDE DEF x, y
<1>9. Heap(x) /\ wins(x) = wins(v)
  <2>1. Agree(v, x, Fields \ {"winlist", "free_win", "fonts", "xwin", "xid"})
    BY <1>7 DEF Agree, Fields
  <2>2. DOMAIN x.win = DOMAIN v.win /\ \A q \in DOMAIN v.win : Alike(v.win[q], x.win[q], {"map", "kind", "imid", "data"})
    BY <1>6, <1>7
  <2> QED BY <1>2, <1>7, <2>1, <2>2, HeapKept
<1>10. Heap(y) /\ wins(y) = wins(v)
  <2>1. Agree(v, y, Fields \ {"winlist", "free_win", "fonts", "xwin", "xid"})
    BY <1>8 DEF Agree, Fields
  <2>2. DOMAIN y.win = DOMAIN v.win /\ \A q \in DOMAIN v.win : Alike(v.win[q], y.win[q], {"map", "kind", "imid", "data"})
    BY <1>6, <1>8
  <2> QED BY <1>2, <1>8, <2>1, <2>2, HeapKept
<1>11. Agree(t, x, {"win", "winlist", "free_win", "xid", "xwin", "fonts"} \cup {"mainwin", "mainwin2"})
       /\ Agree(t, y, {"win", "winlist", "free_win", "xid", "xwin", "fonts"} \cup {"mainwin", "mainwin2"})
  BY <1>5, <1>7, <1>8 DEF Agree
<1>12. x.mainwin2 = t.mainwin2 /\ y.mainwin = t.mainwin
  BY <1>5, <1>7, <1>8 DEF Agree, Fields
<1>13. MainMade(t, x, w, kind, up) /\ MainMade(t, y, w, kind, up)
  BY <1>2, <1>5, <1>7, <1>8, <1>9, <1>10, <1>11 DEF MainMade, Added
<1> QED BY <1>7, <1>8, <1>12, <1>13 DEF x, y, as_main, as_main2

-----------------------------------------------------------------------------
(***************************************************************************)
(* What is on the screen, after a message and before the update.           *)
(***************************************************************************)
Base(t) == t \in Screen /\ Heap(t) /\ Own(t) /\ ICs(t)

mapped(t, w) == t.win[w].map

\* A window of an IC is up only where its keys go, ...
Up(t) == \A r \in wins(t) : mapped(t, r) /\ t.win[r].imid # NULL =>
    /\ t.IC[t.win[r].imid].focus \/ t.win[r].imid \in t.left
    /\ t.win[r].imid = t.ic => inputs(t, t.ic)

\* ... and before the update, also where they last went.
UpBefore(t) == \A r \in wins(t) : mapped(t, r) /\ t.win[r].imid # NULL =>
    \/ t.IC[t.win[r].imid].focus
    \/ t.win[r].imid \in t.left
    \/ t.ic # NULL /\ t.win[r].imid = t.icp /\ left_focus(t)

\* The main windows that the settings ask for.
Fixed(t) ==
    /\ t.mainwin = NULL => in_mode(t, "MAINWIN2")
    /\ t.mainwin2 # NULL <=> in_mode(t, "MAINWIN2")
    /\ t.mainwin # NULL /\ ~comes_and_goes(t) => mapped(t, t.mainwin)
    /\ t.mainwin2 # NULL /\ in_mode(t, "WINONLY") => ~mapped(t, t.mainwin2)
    /\ ~(wide_is_up(t) /\ t.mainwin2 # NULL /\ mapped(t, t.mainwin2))

\* The main windows as they are drawn for the current IC.
Seen(t) ==
    /\ t.ic # NULL /\ t.IC[t.ic].style = "Root" => t.mainwin # NULL
    /\ t.mainwin # NULL /\ comes_and_goes(t)
           => mapped(t, t.mainwin) = (asked_for(t) /\ ~small(t))
    /\ t.mainwin2 # NULL /\ ~in_mode(t, "WINONLY")
           => mapped(t, t.mainwin2) = ~((~asked_for(t) /\ in_mode(t, "HIDE")) \/ wide_is_up(t))
    /\ t.mainwin # NULL /\ mapped(t, t.mainwin) => t.drawn["main"] = title(t, t.ic)
    /\ t.mainwin2 # NULL /\ mapped(t, t.mainwin2) => t.drawn["main2"] = title(t, t.ic)

\* Only a phrase key leaves them as they are, for an IC that takes no keys.
Told(t) == (t.unseen => ~asked_for(t)) /\ (~t.unseen => Seen(t))

\* Two states with the same main windows, and the same IC to show there.
SameFixed(t, u) ==
    /\ u.mode = t.mode /\ u.mainwin = t.mainwin /\ u.mainwin2 = t.mainwin2
    /\ t.mainwin # NULL => mapped(u, t.mainwin) = mapped(t, t.mainwin)
    /\ t.mainwin2 # NULL => mapped(u, t.mainwin2) = mapped(t, t.mainwin2)

SameShown(t, u) ==
    /\ SameFixed(t, u) /\ u.drawn = t.drawn /\ u.unseen = t.unseen /\ u.ic = t.ic
    /\ t.ic # NULL => /\ u.IC[t.ic].style = t.IC[t.ic].style
                      /\ u.IC[t.ic].inp_state = t.IC[t.ic].inp_state
                      /\ u.IC[t.ic].inp_num = t.IC[t.ic].inp_num

\* What keeps Fixed and Told.
LEMMA FixedKept ==
    ASSUME NEW t, NEW u, SameFixed(t, u)
    PROVE  Fixed(u) = Fixed(t) /\ comes_and_goes(u) = comes_and_goes(t)
           /\ wide_is_up(u) = wide_is_up(t) /\ \A f : in_mode(u, f) = in_mode(t, f)
<1>1. \A f : in_mode(u, f) = in_mode(t, f)
  BY DEF in_mode, SameFixed
<1>2. comes_and_goes(u) = comes_and_goes(t)
  BY <1>1 DEF comes_and_goes
<1>3. wide_is_up(u) = wide_is_up(t)
  BY DEF wide_is_up, SameFixed, mapped
<1> QED BY <1>1, <1>2, <1>3 DEF Fixed, SameFixed

LEMMA ToldKept ==
    ASSUME NEW t, NEW u, SameShown(t, u)
    PROVE  /\ Fixed(t) => Fixed(u)
           /\ Told(t) => Told(u)
<1>1. SameFixed(t, u) /\ u.ic = t.ic /\ u.drawn = t.drawn /\ u.unseen = t.unseen
  BY DEF SameShown
<1>2. /\ Fixed(u) = Fixed(t) /\ comes_and_goes(u) = comes_and_goes(t)
      /\ wide_is_up(u) = wide_is_up(t) /\ \A f : in_mode(u, f) = in_mode(t, f)
  BY <1>1, FixedKept
<1>3. asked_for(u) = asked_for(t)
  BY <1>1 DEF SameShown, asked_for, converts, is_on
<1>4. title(u, u.ic) = title(t, t.ic)
  BY <1>1 DEF SameShown, title, is_on
<1>5. t.ic # NULL => small(u) = small(t)
  BY <1>1, <1>2 DEF SameShown, small
<1>6. (asked_for(u) /\ ~small(u)) = (asked_for(t) /\ ~small(t))
  BY <1>1, <1>3, <1>5 DEF asked_for
<1>7. (u.ic # NULL /\ u.IC[u.ic].style = "Root") = (t.ic # NULL /\ t.IC[t.ic].style = "Root")
  BY <1>1 DEF SameShown
<1>8. Seen(t) => Seen(u)
  BY <1>1, <1>2, <1>3, <1>4, <1>6, <1>7 DEF Seen, SameFixed
<1> QED BY <1>1, <1>2, <1>3, <1>8 DEF Told

\* A window shows a request of an IC when it is the menu of that request.
LEMMA AskedMenu ==
    ASSUME NEW t, Base(t), NEW i \in IcId, NEW r \in wins(t)
    PROVE  asked_by(t, i, r) <=> i \in ICID /\ MenuOf(t, r, i)
<1>1. t.IC[i] \in ICRec /\ t.IC[i].gwin \in Seq(Request)
  BY DEF Base, Screen, IcId, ICRec
<1>2. ASSUME i \in ICID, MenuOf(t, r, i)
      PROVE  asked_by(t, i, r)
  <2>1. Len(t.IC[i].gwin) = 1 /\ t.IC[i].gwin[1].window = t.win[r].window
    BY <1>2 DEF MenuOf
  <2>2. 1 \in DOMAIN t.IC[i].gwin
    BY <1>1, <2>1
  <2> QED BY <2>1, <2>2 DEF asked_by, Range
<1>3. ASSUME asked_by(t, i, r)
      PROVE  i \in ICID /\ MenuOf(t, r, i)
  <2>1. PICK k \in DOMAIN t.IC[i].gwin : t.IC[i].gwin[k].window = t.win[r].window
    BY <1>3 DEF asked_by, Range
  <2>2. t.IC[i].gwin # <<>>
    BY <1>1, <2>1
  <2>3. i \in ICID
    BY <2>2 DEF Base, ICs, IcId
  <2>4. PICK q \in wins(t) : MenuOf(t, q, i)
    BY <2>2, <2>3 DEF Base, Own
  <2>5. k = 1
    BY <1>1, <2>1, <2>4 DEF MenuOf
  <2>6. q = r
    BY <2>1, <2>4, <2>5 DEF MenuOf, Base, Heap
  <2> QED BY <2>3, <2>4, <2>6
<1> QED BY <1>2, <1>3

\* A window of nobody but a main window.
LEMMA Owners ==
    ASSUME NEW t, Base(t), NEW r \in wins(t)
    PROVE  /\ t.win[r].imid = NULL => r \in {t.mainwin, t.mainwin2}
           /\ t.win[r].imid # NULL =>
                  /\ t.win[r].imid \in ICID
                  /\ SpotOf(t, r, t.win[r].imid) \/ MenuOf(t, r, t.win[r].imid)
           /\ r \in {t.mainwin, t.mainwin2} => t.win[r].imid = NULL
<1>1. NULL \notin ICID /\ r # NULL
  BY ListsIn DEF ICID, NULL, Base
<1>2. \/ MainOf(t, r, "main", t.mainwin)
      \/ MainOf(t, r, "main2", t.mainwin2)
      \/ \E i \in ICID : SpotOf(t, r, i) \/ MenuOf(t, r, i)
  BY DEF Base, Own
<1>3. r = t.mainwin => t.win[r].kind = "main"
  BY <1>1 DEF Base, Own
<1>4. r = t.mainwin2 => t.win[r].kind = "main2"
  BY <1>1 DEF Base, Own
<1> QED BY <1>1, <1>2, <1>3, <1>4 DEF MainOf, SpotOf, MenuOf

\* The window that an IC says is its candidate window.
LEMMA SpotFound ==
    ASSUME NEW t, Base(t), NEW i \in ICID
    PROVE  /\ gui_search_win(t, t.IC[i].overspot_win) # NULL =>
                  /\ gui_search_win(t, t.IC[i].overspot_win) \in wins(t)
                  /\ SpotOf(t, gui_search_win(t, t.IC[i].overspot_win), i)
           /\ \A r \in wins(t) : SpotOf(t, r, i) =>
                  gui_search_win(t, t.IC[i].overspot_win) = r
           /\ gui_search_win(t, t.IC[i].overspot_win) = NULL => t.IC[i].overspot_win = NULL
<1> DEFINE x == t.IC[i].overspot_win
           w == gui_search_win(t, x)
<1>1. /\ w \in wins(t) \cup {NULL} /\ (w # NULL => t.win[w].window = x)
      /\ \A r \in wins(t) : t.win[r].window = x => w = r
  BY WindowFound DEF Base
<1>2. NULL \notin wins(t)
  BY ListsIn DEF Base
<1>3. \A r \in wins(t) : SpotOf(t, r, i) => w = r
  BY <1>1 DEF SpotOf
<1>4. w = NULL => x = NULL
  BY <1>2, <1>3 DEF Base, Own
<1>5. w # NULL => x # NULL
  <2>1. \A r \in wins(t) : t.win[r].window # NULL
    BY DEF Base, Heap, NULL
  <2> QED BY <1>1, <2>1
<1>6. w # NULL => w \in wins(t) /\ SpotOf(t, w, i)
  BY <1>1, <1>3, <1>5 DEF Base, Own
<1> QED BY <1>3, <1>4, <1>6

-----------------------------------------------------------------------------
(***************************************************************************)
(* The update, part by part.                                               *)
(***************************************************************************)
\* The fields that a new window changes.
Making == {"win", "winlist", "free_win", "xid", "xwin", "fonts"}

\* A step that keeps the windows there are and what every IC is.
LEMMA OwnersKept ==
    ASSUME NEW t, NEW u, Base(t), u \in Screen, wins(t) \subseteq wins(u),
           \A q \in wins(t) : u.win[q].window = t.win[q].window /\ u.win[q].kind = t.win[q].kind
                              /\ u.win[q].imid = t.win[q].imid /\ u.win[q].data = t.win[q].data,
           u.IC = t.IC
    PROVE  /\ \A q \in wins(t), i \in ICID : /\ SpotOf(u, q, i) <=> SpotOf(t, q, i)
                                             /\ MenuOf(u, q, i) <=> MenuOf(t, q, i)
           /\ \A q \in wins(t) : \A k, m : MainOf(u, q, k, m) <=> MainOf(t, q, k, m)
           /\ u.ic = t.ic /\ u.icp = t.icp => ICs(u)
<1> QED BY DEF SpotOf, MenuOf, MainOf, Base, ICs

-----------------------------------------------------------------------------
\* An IC of the root style has a wide window to show its input in.
Served(t, m) ==
    /\ Base(m) /\ Fixed(m) /\ Agree(t, m, Making \cup {"mainwin"})
    /\ wins(t) \subseteq wins(m) /\ \A q \in wins(t) : m.win[q] = t.win[q]
    /\ \A q \in wins(m) \ wins(t) : m.win[q].imid = NULL
    /\ "IM" \in t.winchange \/ Told(m)
    /\ t.IC[t.ic].style = "Root" => m.mainwin # NULL

\* The update makes the wide window for an IC of the root style.
LEMMA RootServed ==
    ASSUME NEW t, Base(t), t.ic # NULL, Fixed(t), "IM" \in t.winchange \/ Told(t)
    PROVE  Served(t, with_mainwin(t))
<1>1. CASE ~(t.IC[t.ic].style = "Root" /\ t.mainwin = NULL)
  <2>1. with_mainwin(t) = t
    BY <1>1 DEF with_mainwin
  <2> QED BY <1>1, <2>1 DEF Served, Agree
<1>2. CASE t.IC[t.ic].style = "Root" /\ t.mainwin = NULL
  <2> DEFINE r  == gui_create_fontset(t.fonts, DefaultFont)
             n  == new_window(gui_new_win(t), "main", NULL, NULL, r)
             up == ~in_mode(t, "HIDE") /\ ~in_mode(t, "MAINWIN2")
             m  == [gui_winmap_change(n.mem, n.rec, up) EXCEPT !.mainwin = n.rec]
             w  == n.rec
  <2>1. with_mainwin(t) = m
    BY <1>2 DEF with_mainwin, xcin_mainwin_init, new_main
  <2>2. up = FALSE /\ t.mainwin2 # NULL
    BY <1>2 DEF Fixed
  <2>3. Made(t, n.mem, n.rec, "main", NULL, NULL)
    <3>1. Gives(r, fonts_of(t), asked_of(t)) /\ r.font # NoFont
      BY FirstFont DEF Base
    <3> HIDE DEF r
    <3> QED BY <3>1, WindowMade DEF Base, NULL
  <2> HIDE DEF n
  <2>4. MainMade(t, m, w, "main", up) /\ m.mainwin = w /\ m.mainwin2 = t.mainwin2
    <3> HIDE DEF up
    <3>1. up \in BOOLEAN
      BY DEF up
    <3>2. t \in Screen /\ Heap(t) /\ "main" \in {"main", "main2"}
      BY DEF Base
    <3> DEFINE v == gui_winmap_change(n.mem, w, up)
               x == as_main(v, w)
    <3>3. MainReady(t, v, w, "main", up)
      <4> HIDE DEF w
      <4>1. Made(t, n.mem, w, "main", NULL, NULL)
        BY <2>3 DEF w
      <4> QED BY <3>1, <3>2, <4>1, MainMapped
    <3>4. m = x
      BY DEF as_main
    <3> HIDE DEF m, v, w
    <3>5. MainMade(t, x, w, "main", up) /\ x.mainwin = w /\ x.mainwin2 = t.mainwin2
      BY <3>1, <3>2, <3>3, MainSet
    <3> HIDE DEF x
    <3> QED BY <3>4, <3>5
  <2> HIDE DEF m, w, up
  <2>5. /\ m \in Screen /\ Heap(m) /\ w \notin wins(t) /\ wins(m) = wins(t) \cup {w}
        /\ Agree(t, m, Making \cup {"mainwin"}) /\ \A q \in wins(t) : m.win[q] = t.win[q]
        /\ m.win[w].kind = "main" /\ m.win[w].imid = NULL /\ ~m.win[w].map
    <3>1. Agree(t, m, Making \cup {"mainwin", "mainwin2"})
      BY <2>4 DEF MainMade, Added, Making
    <3>2. Agree(t, m, Making \cup {"mainwin"})
      BY <2>4, <3>1 DEF Agree, Fields, Making
    <3> QED BY <2>2, <2>4, <3>2 DEF MainMade, Added
  <2>6. /\ m.IC = t.IC /\ m.ic = t.ic /\ m.icp = t.icp /\ m.mode = t.mode
        /\ m.drawn = t.drawn /\ m.unseen = t.unseen
    BY <2>5 DEF Agree, Fields, Making
  <2>7. t \in Screen /\ w # NULL
    BY <2>5, ListsIn DEF Base
  <2>8. /\ \A q \in wins(t), i \in ICID : /\ SpotOf(m, q, i) <=> SpotOf(t, q, i)
                                          /\ MenuOf(m, q, i) <=> MenuOf(t, q, i)
        /\ \A q \in wins(t) : \A k, x : MainOf(m, q, k, x) <=> MainOf(t, q, k, x)
        /\ ICs(m)
    BY <2>5, <2>6, OwnersKept
  <2>9. Own(m)
    <3>1. \A q \in wins(m) : \/ MainOf(m, q, "main", m.mainwin)
                             \/ MainOf(m, q, "main2", m.mainwin2)
                             \/ \E i \in ICID : SpotOf(m, q, i) \/ MenuOf(m, q, i)
      <4> SUFFICES ASSUME NEW q \in wins(m)
                   PROVE  \/ MainOf(m, q, "main", m.mainwin)
                          \/ MainOf(m, q, "main2", m.mainwin2)
                          \/ \E i \in ICID : SpotOf(m, q, i) \/ MenuOf(m, q, i)
        OBVIOUS
      <4>1. CASE q = w
        BY <2>4, <2>5, <4>1 DEF MainOf
      <4>2. CASE q # w
        <5>1. q \in wins(t) /\ q # t.mainwin
          BY <1>2, <2>5, <2>7, <4>2, ListsIn DEF Base
        <5>2. \/ MainOf(t, q, "main2", t.mainwin2)
              \/ \E i \in ICID : SpotOf(t, q, i) \/ MenuOf(t, q, i)
          BY <5>1 DEF Base, Own, MainOf
        <5> QED BY <2>4, <2>8, <5>1, <5>2
      <4> QED BY <4>1, <4>2
    <3>2. /\ m.mainwin # NULL => m.mainwin \in wins(m) /\ m.win[m.mainwin].kind = "main"
          /\ m.mainwin2 # NULL => m.mainwin2 \in wins(m) /\ m.win[m.mainwin2].kind = "main2"
      BY <2>4, <2>5 DEF Base, Own
    <3>3. \A i \in ICID : m.IC[i].overspot_win # NULL => \E q \in wins(m) : SpotOf(m, q, i)
      BY <2>5, <2>6, <2>8 DEF Base, Own
    <3>4. \A i \in ICID : m.IC[i].gwin # <<>> =>
              "CINPUT" \in m.IC[i].inp_state /\ \E q \in wins(m) : MenuOf(m, q, i)
      BY <2>5, <2>6, <2>8 DEF Base, Own
    <3> QED BY <3>1, <3>2, <3>3, <3>4 DEF Own
  <2>10. t.mainwin2 \in wins(t)
    BY <2>2 DEF Base, Own
  <2>11. Fixed(m)
    <3>1. m.win[t.mainwin2] = t.win[t.mainwin2]
      BY <2>5, <2>10
    <3>2. comes_and_goes(m) /\ \A f : in_mode(m, f) = in_mode(t, f)
      BY <1>2, <2>6 DEF in_mode, comes_and_goes, Fixed
    <3>3. ~wide_is_up(m)
      BY <2>4, <2>5 DEF wide_is_up
    <3> QED BY <1>2, <2>4, <2>7, <3>1, <3>2, <3>3 DEF Fixed, mapped
  <2>12. "IM" \in t.winchange \/ Told(m)
    <3>1. ASSUME Told(t) PROVE Told(m)
      <4>1. t.unseen
        BY <1>2, <3>1 DEF Told, Seen
      <4>2. ~asked_for(t)
        BY <3>1, <4>1 DEF Told
      <4>3. ~asked_for(m)
        BY <2>6, <4>2 DEF asked_for, converts, is_on
      <4> QED BY <2>6, <4>1, <4>3 DEF Told
    <3> QED BY <3>1
  <2>13. Base(m)
    BY <2>5, <2>8, <2>9 DEF Base
  <2>14. Served(t, m)
    BY <2>4, <2>5, <2>7, <2>11, <2>12, <2>13 DEF Served
  <2> QED BY <2>1, <2>14
<1> QED BY <1>1, <1>2

-----------------------------------------------------------------------------
\* Nothing of the main windows changes when only windows of ICs are drawn.
LEMMA ShownKept ==
    ASSUME NEW t, Base(t), NEW u, NEW W, Drawn(t, u, {"IC", "fonts", "win"}, W),
           \A r \in wins(t) : t.win[r].imid = NULL => u.win[r].map = t.win[r].map
    PROVE  SameShown(t, u) /\ Base(u) /\ u.winchange = t.winchange
<1>1. Drawn(t, u, Redrawn, W)
  <2>1. {"IC", "fonts", "win"} \subseteq Redrawn
    BY DEF Redrawn
  <2> QED BY <2>1, DrawnMore
<1>2. u.drawn = t.drawn /\ u.unseen = t.unseen /\ u.winchange = t.winchange
  BY DEF Drawn, Agree, Fields
<1>3. /\ u.ic = t.ic /\ u.mode = t.mode /\ u.mainwin = t.mainwin /\ u.mainwin2 = t.mainwin2
      /\ t.ic \in IcId
  BY <1>1, DrawnFields DEF Base, Screen, IcId
<1>4. /\ u.IC[t.ic].style = t.IC[t.ic].style /\ u.IC[t.ic].inp_state = t.IC[t.ic].inp_state
      /\ u.IC[t.ic].inp_num = t.IC[t.ic].inp_num
  BY <1>1, <1>3, DrawnFields
<1>5. /\ t.mainwin # NULL => u.win[t.mainwin].map = t.win[t.mainwin].map
      /\ t.mainwin2 # NULL => u.win[t.mainwin2].map = t.win[t.mainwin2].map
  BY Owners DEF Base, Own
<1>6. Base(u)
  BY <1>1, DrawnOwn DEF Base, Drawn
<1> QED BY <1>2, <1>3, <1>4, <1>5, <1>6 DEF SameShown, SameFixed, mapped

\* The menus of the IC that was left are hidden, and those of the current IC
\* shown while it takes keys.
MenusUp(t) == \A r \in wins(t) : mapped(t, r) /\ t.win[r].kind = "menusel" =>
    /\ t.IC[t.win[r].imid].focus \/ t.win[r].imid \in t.left
    /\ t.win[r].imid = t.ic => inputs(t, t.ic)

\* update_gui_request().
LEMMA RequestsShown ==
    ASSUME NEW t, Base(t), t.ic # NULL, UpBefore(t)
    PROVE  /\ Drawn(t, update_gui_request(t), {"win"}, wins(t))
           /\ \A r \in wins(t) : t.win[r].kind # "menusel" =>
                  update_gui_request(t).win[r].map = t.win[r].map
           /\ MenusUp(update_gui_request(t))
<1> DEFINE t1 == IF left_focus(t) THEN windraw(t, t.icp, FALSE) ELSE t
           on == is_on(t, t.ic, "XIMFOCUS")
           u  == windraw(t1, t.ic, on)
<1>1. update_gui_request(t) = u
  BY DEF update_gui_request
<1>2. t \in Screen /\ Heap(t) /\ t.ic \in IcId /\ t.icp \in IcId
  BY DEF Base, Screen, IcId
<1>3. Drawn(t, t1, {"win"}, wins(t))
      /\ \A r \in wins(t) : t1.win[r].map
             = IF left_focus(t) /\ asked_by(t, t.icp, r) THEN FALSE ELSE t.win[r].map
  <2>1. CASE left_focus(t)
    BY <1>2, <2>1, MenusMapped
  <2>2. CASE ~left_focus(t)
    BY <1>2, <2>2, DrawnNot
  <2> QED BY <2>1, <2>2
<1>4. on \in BOOLEAN
  BY DEF is_on
<1> HIDE DEF t1, on
<1>5. t1 \in Screen /\ Heap(t1) /\ wins(t1) = wins(t)
  BY <1>3 DEF Drawn
<1>6. Drawn(t1, u, {"win"}, wins(t))
      /\ \A r \in wins(t) : u.win[r].map = IF asked_by(t1, t.ic, r) THEN on ELSE t1.win[r].map
  BY <1>2, <1>4, <1>5, MenusMapped
<1> HIDE DEF u
<1>7. Drawn(t, u, {"win"}, wins(t))
  <2>1. Drawn(t, u, {"win"} \cup {"win"}, wins(t) \cup wins(t))
    BY <1>3, <1>6, DrawnTwice
  <2> QED BY <2>1
<1>8. \A r \in wins(t), i \in IcId : asked_by(t1, i, r) <=> asked_by(t, i, r)
  <2>1. Drawn(t, t1, Redrawn, wins(t))
    <3>1. {"win"} \subseteq Redrawn
      BY DEF Redrawn
    <3> QED BY <1>3, <3>1, DrawnMore
  <2> QED BY <2>1, DrawnFields DEF asked_by
<1>9. \A r \in wins(t), i \in IcId : asked_by(t, i, r) <=> i \in ICID /\ MenuOf(t, r, i)
  BY AskedMenu
<1>10. \A r \in wins(t) : t.win[r].kind # "menusel" => u.win[r].map = t.win[r].map
  <2> SUFFICES ASSUME NEW r \in wins(t), t.win[r].kind # "menusel"
               PROVE  u.win[r].map = t.win[r].map
    OBVIOUS
  <2>1. \A i \in IcId : ~asked_by(t, i, r)
    BY <1>9 DEF MenuOf
  <2> QED BY <1>2, <1>3, <1>6, <1>8, <2>1
<1>11. MenusUp(u)
  <2> SUFFICES ASSUME NEW r \in wins(t), mapped(u, r), u.win[r].kind = "menusel"
               PROVE  /\ u.IC[u.win[r].imid].focus \/ u.win[r].imid \in u.left
                      /\ u.win[r].imid = u.ic => inputs(u, u.ic)
    BY <1>7 DEF MenusUp, Drawn
  <2> DEFINE i == t.win[r].imid
  <2>0. Drawn(t, u, Redrawn, wins(t))
    <3>1. {"win"} \subseteq Redrawn
      BY DEF Redrawn
    <3> QED BY <1>7, <3>1, DrawnMore
  <2>1. /\ u.win[r].imid = i /\ t.win[r].kind = "menusel" /\ u.left = t.left /\ u.ic = t.ic
        /\ \A j \in IcId : u.IC[j].focus = t.IC[j].focus
        /\ inputs(u, t.ic) = inputs(t, t.ic)
    BY <1>2, <2>0, DrawnFields, DrawnAsked
  <2>2. i \in ICID /\ MenuOf(t, r, i) /\ i \in IcId /\ i # NULL
    <3>1. i # NULL => i \in ICID /\ (SpotOf(t, r, i) \/ MenuOf(t, r, i))
      BY Owners
    <3>2. i = NULL => r \in {t.mainwin, t.mainwin2} /\ r # NULL
      BY <1>2, Owners, ListsIn
    <3>3. i # NULL
      BY <2>1, <3>2 DEF Base, Own
    <3>4. ~SpotOf(t, r, i)
      BY <2>1 DEF SpotOf
    <3> QED BY <3>1, <3>3, <3>4 DEF IcId
  <2>3. \A j \in IcId : asked_by(t, j, r) <=> j = i
    BY <1>9, <2>2 DEF MenuOf
  <2>4. CASE i = t.ic
    <3>1. on
      BY <1>2, <1>6, <1>8, <2>3, <2>4 DEF mapped
    <3>2. "XIMFOCUS" \in t.IC[i].inp_state
      BY <2>4, <3>1 DEF on, is_on
    <3>3. t.IC[i].focus /\ inputs(t, t.ic)
      BY <2>2, <2>4, <3>2 DEF Base, ICs, inputs, is_on
    <3> QED BY <2>1, <2>2, <3>3
  <2>5. CASE i # t.ic
    <3>1. t1.win[r].map
      BY <1>2, <1>6, <1>8, <2>3, <2>5 DEF mapped
    <3>2. ~(left_focus(t) /\ asked_by(t, t.icp, r)) /\ t.win[r].map
      BY <1>3, <3>1
    <3>3. ~(i = t.icp /\ left_focus(t))
      BY <1>2, <2>3, <3>2
    <3>4. t.IC[i].focus \/ i \in t.left
      BY <2>2, <3>2, <3>3 DEF UpBefore, mapped
    <3> QED BY <2>1, <2>2, <2>5, <3>4
  <2> QED BY <2>4, <2>5
<1> QED BY <1>1, <1>7, <1>10, <1>11

\* IC i has got its candidate window, of the record w.
SpotNew(t, u, w, i) ==
    /\ u \in Screen /\ Heap(u) /\ w \notin wins(t) /\ wins(u) = wins(t) \cup {w}
    /\ Agree(t, u, Making \cup {"IC"})
    /\ \A q \in wins(t) : Alike(t.win[q], u.win[q], {"font", "asked"})
    /\ \A j \in IcId : Akin(t.IC[j], u.IC[j], {"font_update", "overspot_win"})
    /\ \A j \in IcId \ {i} : u.IC[j].overspot_win = t.IC[j].overspot_win
    /\ u.IC[i].overspot_win = u.win[w].window
    /\ u.win[w].kind = "overspot" /\ u.win[w].imid = i /\ u.win[w].data = i
    /\ u.win[w].map => inputs(t, i)

\* gui_overspot_init(), and that the window belongs to its IC.
LEMMA SpotMade ==
    ASSUME NEW t \in Screen, Heap(t), NEW i \in ICID
    PROVE  \E w : SpotNew(t, gui_overspot_init(t, i), w, i)
<1> DEFINE r == update_IC_fontset(t.fonts, user_font(t, i))
           n == new_window(gui_new_win(t), "overspot", i, i, r)
           a == n.mem
           w == n.rec
           b == gui_overspot_draw(a, w)
           x == a.win[w].window
           z == [b.IC[i] EXCEPT !.overspot_win = x]
           u == [b EXCEPT !.IC[i] = z]
<1>1. gui_overspot_init(t, i) = u
  <2>1. gui_overspot_init(t, i) = [b EXCEPT !.IC[i].overspot_win = x]
    BY DEF gui_overspot_init
  <2> HIDE DEF b, x
  <2> QED BY <2>1
<1>2. i \in IcId /\ i \in Nat /\ t.IC[i] \in ICRec
  BY WinAssumption DEF IcId, ICID, Screen
<1>3. Made(t, a, w, "overspot", i, i)
  <2>1. user_font(t, i) \in FontName \cup {NoName}
    BY <1>2 DEF user_font, ICRec
  <2>2. FontsSound(t.fonts, fonts_of(t), asked_of(t))
    BY DEF Heap
  <2>3. Gives(r, fonts_of(t), asked_of(t)) /\ r.font # NoFont
    BY <2>1, <2>2, UpdatingGives
  <2> HIDE DEF r
  <2> QED BY <1>2, <2>3, WindowMade DEF IcId
<1> HIDE DEF n, a, w
<1>4. /\ a \in Screen /\ Heap(a) /\ w \in wins(a) /\ a.win[w].data = i /\ x = t.xid + 1
      /\ a.win[w].kind = "overspot" /\ a.win[w].imid = i
      /\ w \notin wins(t) /\ wins(a) = wins(t) \cup {w}
      /\ Agree(t, a, Making) /\ \A q \in wins(t) : a.win[q] = t.win[q]
  BY <1>3 DEF Made, Making
<1>5. Drawn(a, b, {"IC", "fonts", "win"}, {w}) /\ (b.win[w].map => inputs(a, i))
  BY <1>2, <1>4, SpotDrawn
<1> HIDE DEF b, x
<1>6. Drawn(a, b, Redrawn, {w})
  <2>1. {"IC", "fonts", "win"} \subseteq Redrawn
    BY DEF Redrawn
  <2> QED BY <1>5, <2>1, DrawnMore
<1>7. /\ b.win[w].kind = "overspot" /\ b.win[w].imid = i /\ b.win[w].data = i
      /\ b.win[w].window = x
  BY <1>4, <1>6, DrawnFields DEF x
<1>8. b \in Screen /\ Heap(b) /\ wins(b) = wins(a) /\ b.IC[i] \in ICRec
  BY <1>2, <1>5 DEF Drawn, Screen, IcId
<1>9. z \in ICRec /\ z.overspot_win = x /\ Akin(b.IC[i], z, {"overspot_win"})
  <2>1. x \in Nat
    BY <1>4 DEF Screen
  <2>2. z \in ICRec
    BY <1>8, <2>1 DEF ICRec
  <2> QED BY <1>8, <2>2 DEF ICRec, Akin, ICFields
<1> HIDE DEF z
<1>10. /\ u \in Screen /\ Agree(b, u, {"IC"}) /\ u.IC[i] = z
       /\ \A j \in IcId \ {i} : u.IC[j] = b.IC[j]
  BY <1>2, <1>8, <1>9, ICWritten DEF IcId
<1> HIDE DEF u
<1>11. u.win = b.win
  BY <1>10 DEF Agree, Fields
<1>12. Heap(u) /\ wins(u) = wins(b)
  <2>1. \A q \in DOMAIN b.win : Alike(b.win[q], u.win[q], {"map", "kind", "imid", "data"})
    BY <1>11 DEF Alike
  <2>2. Agree(b, u, Fields \ {"winlist", "free_win", "fonts", "xwin", "xid"})
    BY <1>10 DEF Agree, Fields
  <2> QED BY <1>8, <1>10, <1>11, <2>1, <2>2, HeapKept
<1>13. Agree(t, u, Making \cup {"IC"})
  BY <1>4, <1>5, <1>10 DEF Drawn, Agree, Making
<1>14. \A q \in wins(t) : Alike(t.win[q], u.win[q], {"font", "asked"})
  <2>1. \A q \in wins(a) : Alike(a.win[q], b.win[q], {"map", "font", "asked"})
        /\ (q # w => b.win[q].map = a.win[q].map)
    BY <1>5 DEF Drawn
  <2>2. \A q \in wins(t) : q # w /\ q \in wins(a) /\ a.win[q] = t.win[q]
    BY <1>4
  <2> QED BY <1>11, <2>1, <2>2 DEF Alike
<1>15. a.IC = t.IC /\ \A j \in IcId : Akin(t.IC[j], b.IC[j], {"font_update"})
  <2>1. a.IC = t.IC
    BY <1>4 DEF Agree, Fields, Making
  <2> QED BY <1>5, <2>1 DEF Drawn
<1>16. \A j \in IcId : Akin(t.IC[j], u.IC[j], {"font_update", "overspot_win"})
  BY <1>9, <1>10, <1>15 DEF Akin
<1>17. \A j \in IcId \ {i} : u.IC[j].overspot_win = t.IC[j].overspot_win
  BY <1>10, <1>15 DEF Akin, ICFields
<1>18. inputs(a, i) = inputs(t, i)
  BY <1>15 DEF inputs, is_on
<1>19. SpotNew(t, u, w, i)
  BY <1>4, <1>5, <1>7, <1>8, <1>9, <1>10, <1>11, <1>12, <1>13, <1>14, <1>16, <1>17, <1>18 DEF SpotNew
<1> QED BY <1>1, <1>19

LEMMA SpotOwned ==
    ASSUME NEW t, Base(t), NEW i \in ICID, t.IC[i].live, t.IC[i].style = "OverSpot",
           t.IC[i].overspot_win = NULL, NEW u, NEW w, SpotNew(t, u, w, i)
    PROVE  Base(u) /\ SameShown(t, u) /\ u.winchange = t.winchange /\ SpotOf(u, w, i)
<1>1. /\ u \in Screen /\ Heap(u) /\ w \notin wins(t) /\ wins(u) = wins(t) \cup {w}
      /\ Agree(t, u, Making \cup {"IC"})
  BY DEF SpotNew
<1>2. /\ u.ic = t.ic /\ u.icp = t.icp /\ u.mode = t.mode /\ u.mainwin = t.mainwin
      /\ u.mainwin2 = t.mainwin2 /\ u.drawn = t.drawn /\ u.unseen = t.unseen
      /\ u.winchange = t.winchange
  BY <1>1 DEF Agree, Fields, Making
<1>3. \A j \in IcId : /\ u.IC[j].live = t.IC[j].live /\ u.IC[j].style = t.IC[j].style
                      /\ u.IC[j].focus = t.IC[j].focus /\ u.IC[j].inp_state = t.IC[j].inp_state
                      /\ u.IC[j].inp_num = t.IC[j].inp_num /\ u.IC[j].gwin = t.IC[j].gwin
                      /\ (j # i => u.IC[j].overspot_win = t.IC[j].overspot_win)
  BY DEF SpotNew, Akin, ICFields
<1>4. \A q \in wins(t) : /\ u.win[q].window = t.win[q].window /\ u.win[q].kind = t.win[q].kind
                         /\ u.win[q].imid = t.win[q].imid /\ u.win[q].data = t.win[q].data
                         /\ u.win[q].map = t.win[q].map
  BY DEF SpotNew, Alike, WinFields
<1>5. ICID \subseteq IcId /\ NULL \in IcId /\ t.ic \in IcId /\ t.icp \in IcId /\ t \in Screen
  BY DEF IcId, Base, Screen
<1>6. SpotOf(u, w, i)
  BY <1>3, <1>5 DEF SpotNew, SpotOf
<1>7. \A q \in wins(t) : t.win[q].window # NULL
  BY DEF Base, Heap, NULL
<1>8. \A q \in wins(t), j \in ICID : MenuOf(u, q, j) <=> MenuOf(t, q, j)
  BY <1>3, <1>4, <1>5 DEF MenuOf
<1>9. \A q \in wins(t), j \in ICID : SpotOf(t, q, j) => SpotOf(u, q, j)
  <2> SUFFICES ASSUME NEW q \in wins(t), NEW j \in ICID, SpotOf(t, q, j)
               PROVE  SpotOf(u, q, j)
    OBVIOUS
  <2>1. j # i
    BY <1>7 DEF SpotOf
  <2> QED BY <1>3, <1>4, <1>5, <2>1 DEF SpotOf
<1>10. \A q \in wins(t) : \A k, m : MainOf(t, q, k, m) => MainOf(u, q, k, m)
  BY <1>4 DEF MainOf
<1>11. Own(u)
  <2>1. \A q \in wins(u) : \/ MainOf(u, q, "main", u.mainwin)
                           \/ MainOf(u, q, "main2", u.mainwin2)
                           \/ \E j \in ICID : SpotOf(u, q, j) \/ MenuOf(u, q, j)
    BY <1>1, <1>2, <1>6, <1>8, <1>9, <1>10 DEF Base, Own
  <2>2. /\ u.mainwin # NULL => u.mainwin \in wins(u) /\ u.win[u.mainwin].kind = "main"
        /\ u.mainwin2 # NULL => u.mainwin2 \in wins(u) /\ u.win[u.mainwin2].kind = "main2"
    BY <1>1, <1>2, <1>4 DEF Base, Own
  <2>3. \A j \in ICID : u.IC[j].overspot_win # NULL => \E q \in wins(u) : SpotOf(u, q, j)
    <3> SUFFICES ASSUME NEW j \in ICID, u.IC[j].overspot_win # NULL
                 PROVE  \E q \in wins(u) : SpotOf(u, q, j)
      OBVIOUS
    <3>1. CASE j = i
      BY <1>1, <1>6, <3>1
    <3>2. CASE j # i
      <4>1. t.IC[j].overspot_win # NULL
        BY <1>3, <1>5, <3>2
      <4>2. PICK q \in wins(t) : SpotOf(t, q, j)
        BY <4>1 DEF Base, Own
      <4> QED BY <1>1, <1>9, <4>2
    <3> QED BY <3>1, <3>2
  <2>4. \A j \in ICID : u.IC[j].gwin # <<>> =>
            "CINPUT" \in u.IC[j].inp_state /\ \E q \in wins(u) : MenuOf(u, q, j)
    <3> SUFFICES ASSUME NEW j \in ICID, u.IC[j].gwin # <<>>
                 PROVE  "CINPUT" \in u.IC[j].inp_state /\ \E q \in wins(u) : MenuOf(u, q, j)
      OBVIOUS
    <3>1. t.IC[j].gwin # <<>> /\ u.IC[j].inp_state = t.IC[j].inp_state
      BY <1>3, <1>5
    <3>2. "CINPUT" \in t.IC[j].inp_state /\ \E q \in wins(t) : MenuOf(t, q, j)
      BY <3>1 DEF Base, Own
    <3> QED BY <1>1, <1>8, <3>1, <3>2
  <2> QED BY <2>1, <2>2, <2>3, <2>4 DEF Own
<1>12. ICs(u)
  <2>1. /\ u.ic # NULL => u.IC[u.ic].live
        /\ u.icp # NULL => u.IC[u.icp].live
        /\ ~u.IC[NULL].live
    BY <1>2, <1>3, <1>5 DEF Base, ICs
  <2>2. \A j \in IcId : ~u.IC[j].live => /\ u.IC[j].overspot_win = NULL /\ u.IC[j].gwin = <<>>
                                         /\ ~u.IC[j].focus /\ u.IC[j].inp_state = {}
    BY <1>3, <1>5 DEF Base, ICs
  <2>3. /\ \A j \in IcId : "XIMFOCUS" \in u.IC[j].inp_state =>
                               "CINPUT" \in u.IC[j].inp_state /\ u.IC[j].focus
        /\ \A j \in IcId : "2BFOCUS" \in u.IC[j].inp_state =>
                               "2BYTES" \in u.IC[j].inp_state /\ u.IC[j].focus
    BY <1>3 DEF Base, ICs
  <2> QED BY <2>1, <2>2, <2>3 DEF ICs
<1>13. SameShown(t, u)
  <2>1. /\ t.mainwin # NULL => u.win[t.mainwin].map = t.win[t.mainwin].map
        /\ t.mainwin2 # NULL => u.win[t.mainwin2].map = t.win[t.mainwin2].map
    BY <1>4 DEF Base, Own
  <2> QED BY <1>2, <1>3, <1>5, <2>1 DEF SameShown, SameFixed, mapped
<1> QED BY <1>1, <1>2, <1>6, <1>11, <1>12, <1>13 DEF Base

\* The windows of ICs that are up belong to those that may have them up.
Lit(t) == \A r \in wins(t) : mapped(t, r) /\ t.win[r].imid # NULL =>
    t.IC[t.win[r].imid].focus \/ t.win[r].imid \in t.left

\* Two steps that change no main window.
LEMMA SameShownTwice ==
    ASSUME NEW t, NEW u, NEW v, SameShown(t, u), SameShown(u, v)
    PROVE  SameShown(t, v)
<1> QED BY DEF SameShown, SameFixed, mapped

\* Drawing the windows of W leaves the others where they are.
LEMMA UpKept ==
    ASSUME NEW t, Base(t), Up(t), NEW u, NEW W, Drawn(t, u, Redrawn, W),
           \A r \in W : r \in wins(t) => t.win[r].imid = NULL
    PROVE  Up(u)
<1> SUFFICES ASSUME NEW r \in wins(u), mapped(u, r), u.win[r].imid # NULL
             PROVE  /\ u.IC[u.win[r].imid].focus \/ u.win[r].imid \in u.left
                    /\ u.win[r].imid = u.ic => inputs(u, u.ic)
  BY DEF Up
<1>1. r \in wins(t) /\ u.win[r].imid = t.win[r].imid /\ u.ic = t.ic /\ u.left = t.left
      /\ \A i \in IcId : u.IC[i].focus = t.IC[i].focus
  <2>1. wins(u) = wins(t)
    BY DEF Drawn
  <2> QED BY <2>1, DrawnFields
<1>2. r \notin W
  BY <1>1
<1>3. mapped(t, r)
  BY <1>1, <1>2 DEF Drawn, mapped
<1>4. t.win[r].imid \in ICID
  BY <1>1, Owners
<1>5. t.win[r].imid \in IcId /\ t.ic \in IcId /\ t \in Screen
  BY <1>4 DEF IcId, Base, Screen
<1>6. inputs(u, t.ic) = inputs(t, t.ic)
  BY <1>5, DrawnAsked
<1> QED BY <1>1, <1>3, <1>5, <1>6 DEF Up

-----------------------------------------------------------------------------
\* The candidate window of the IC that was left is hidden.
Left(t, u) ==
    /\ Drawn(t, u, {"win"}, wins(t)) /\ Lit(u)
    /\ \A r \in wins(t) : t.win[r].imid = NULL \/ t.win[r].kind = "menusel" =>
           u.win[r].map = t.win[r].map

\* The first half of update_gui_overspot().
LEMMA CandidateLeft ==
    ASSUME NEW t, Base(t), t.ic # NULL, UpBefore(t), MenusUp(t)
    PROVE  Left(t, candidates_left(t))
<1> DEFINE old  == gui_search_win(t, t.IC[t.icp].overspot_win)
           goes == left_focus(t) /\ t.IC[t.icp].style = "OverSpot" /\ old # NULL
           u    == candidates_left(t)
<1>1. u = IF goes THEN gui_winmap_change(t, old, FALSE) ELSE t
  BY DEF candidates_left
<1>2. t \in Screen /\ Heap(t)
  BY DEF Base
<1>3. left_focus(t) => t.icp \in ICID
  BY <1>2 DEF left_focus, Screen
<1>4. goes => old \in wins(t) /\ SpotOf(t, old, t.icp)
  BY <1>3, SpotFound
<1>5. left_focus(t) => \A r \in wins(t) : SpotOf(t, r, t.icp) => goes /\ r = old
  <2> SUFFICES ASSUME left_focus(t), NEW r \in wins(t), SpotOf(t, r, t.icp)
               PROVE  goes /\ r = old
    OBVIOUS
  <2>1. old = r
    BY <1>3, SpotFound
  <2>2. r # NULL
    BY <1>2, ListsIn
  <2> QED BY <2>1, <2>2 DEF SpotOf
<1>6. Drawn(t, u, {"win"}, wins(t)) /\ (goes => ~u.win[old].map)
      /\ \A r \in wins(t) : ~(goes /\ r = old) => u.win[r].map = t.win[r].map
  <2>1. CASE goes
    <3> HIDE DEF old
    <3>1. Drawn(t, u, {"win"}, {old}) /\ ~u.win[old].map
      BY <1>1, <1>2, <1>4, <2>1, WindowMapped
    <3>2. {old} \subseteq wins(t) /\ {"win"} \subseteq {"win"}
      BY <1>4, <2>1
    <3> HIDE DEF u
    <3>3. Drawn(t, u, {"win"}, wins(t))
      BY <3>1, <3>2, DrawnMore
    <3>4. \A r \in wins(t) \ {old} : u.win[r].map = t.win[r].map
      BY <3>1 DEF Drawn
    <3> HIDE DEF goes
    <3> QED BY <2>1, <3>1, <3>3, <3>4
  <2>2. CASE ~goes
    <3>1. u = t
      BY <1>1, <2>2
    <3> HIDE DEF u, goes
    <3> QED BY <1>2, <2>2, <3>1, DrawnNot
  <2> QED BY <2>1, <2>2
<1> HIDE DEF u, old, goes
<1>7. Lit(u)
  <2> SUFFICES ASSUME NEW r \in wins(u), mapped(u, r), u.win[r].imid # NULL
               PROVE  u.IC[u.win[r].imid].focus \/ u.win[r].imid \in u.left
    BY DEF Lit
  <2>1. Drawn(t, u, Redrawn, wins(t))
    <3>1. {"win"} \subseteq Redrawn
      BY DEF Redrawn
    <3> QED BY <1>6, <3>1, DrawnMore
  <2>2. r \in wins(t)
    BY <1>6 DEF Drawn
  <2>3. u.win[r].imid = t.win[r].imid /\ u.left = t.left
        /\ \A i \in IcId : u.IC[i].focus = t.IC[i].focus
    BY <2>1, <2>2, DrawnFields
  <2>4. t.win[r].imid \in ICID
        /\ (SpotOf(t, r, t.win[r].imid) \/ MenuOf(t, r, t.win[r].imid))
    BY <2>2, <2>3, Owners
  <2>5. mapped(t, r) /\ ~(goes /\ r = old)
    BY <1>6, <2>2 DEF mapped
  <2>6. t.IC[t.win[r].imid].focus \/ t.win[r].imid \in t.left
    <3>1. CASE MenuOf(t, r, t.win[r].imid)
      BY <2>2, <2>5, <3>1 DEF MenusUp, MenuOf
    <3>2. CASE SpotOf(t, r, t.win[r].imid)
      BY <1>5, <2>2, <2>3, <2>5, <3>2 DEF UpBefore
    <3> QED BY <2>4, <3>1, <3>2
  <2>7. t.win[r].imid \in IcId
    BY <2>4 DEF IcId
  <2> QED BY <2>3, <2>6, <2>7
<1>8. \A r \in wins(t) : t.win[r].imid = NULL \/ t.win[r].kind = "menusel" => ~(goes /\ r = old)
  <2>1. goes => t.win[old].imid # NULL /\ t.win[old].kind # "menusel"
    <3>1. goes => t.icp # NULL
      BY DEF goes, left_focus
    <3>2. goes => t.win[old].imid = t.icp /\ t.win[old].kind = "overspot"
      BY <1>4 DEF SpotOf
    <3> QED BY <3>1, <3>2
  <2> SUFFICES ASSUME NEW r \in wins(t), t.win[r].imid = NULL \/ t.win[r].kind = "menusel",
                      goes, r = old
               PROVE  FALSE
    OBVIOUS
  <2> QED BY <2>1
<1> QED BY <1>6, <1>7, <1>8 DEF Left, u

\* The windows of the current IC are shown anew, and no main window changes.
Shows(t, u) == Base(u) /\ Up(u) /\ SameShown(t, u) /\ u.winchange = t.winchange

\* The second half.
LEMMA CandidateDrawn ==
    ASSUME NEW t, Base(t), t.ic # NULL, Lit(t), MenusUp(t), NEW own,
           own # NULL => own \in wins(t) /\ SpotOf(t, own, t.ic),
           own = NULL => t.IC[t.ic].overspot_win = NULL
    PROVE  Shows(t, candidates_drawn(t, own))
<1> DEFINE i == t.ic
           v == candidates_drawn(t, own)
<1>1. v = IF t.IC[i].style # "OverSpot" THEN t
          ELSE IF own # NULL THEN draw(t, own) ELSE gui_overspot_init(t, i)
  BY DEF candidates_drawn
<1>2. t \in Screen /\ Heap(t) /\ Own(t) /\ i \in ICID /\ i \in IcId /\ t.IC[i].live
  BY DEF Base, Screen, IcId, ICs
<1>3. \A r \in wins(t) : mapped(t, r) /\ t.win[r].imid # NULL =>
          /\ t.win[r].imid \in ICID
          /\ t.IC[t.win[r].imid].focus \/ t.win[r].imid \in t.left
          /\ t.win[r].imid = i => SpotOf(t, r, i) \/ inputs(t, i)
  <2> SUFFICES ASSUME NEW r \in wins(t), mapped(t, r), t.win[r].imid # NULL
               PROVE  /\ t.win[r].imid \in ICID
                      /\ t.IC[t.win[r].imid].focus \/ t.win[r].imid \in t.left
                      /\ t.win[r].imid = i => SpotOf(t, r, i) \/ inputs(t, i)
    OBVIOUS
  <2>1. t.win[r].imid \in ICID
        /\ (SpotOf(t, r, t.win[r].imid) \/ MenuOf(t, r, t.win[r].imid))
    BY Owners
  <2>2. t.win[r].imid = i => SpotOf(t, r, i) \/ inputs(t, i)
    BY <2>1 DEF MenuOf, MenusUp
  <2> QED BY <2>1, <2>2 DEF Lit
<1>4. inputs(t, i) => t.IC[i].focus
  BY <1>2 DEF inputs, is_on, Base, ICs
<1> HIDE DEF v
<1>5. CASE t.IC[i].style # "OverSpot"
  <2>1. v = t
    BY <1>1, <1>5
  <2>2. \A r \in wins(t) : ~SpotOf(t, r, i)
    BY <1>5 DEF SpotOf
  <2>3. Up(t)
    BY <1>3, <2>2 DEF Up
  <2> QED BY <2>1, <2>3 DEF Shows, SameShown, SameFixed, v
<1>6. CASE t.IC[i].style = "OverSpot" /\ own # NULL
  <2>1. own \in wins(t) /\ t.win[own].kind = "overspot" /\ t.win[own].data = i
        /\ t.win[own].imid = i
    BY <1>6 DEF SpotOf
  <2>2. v = gui_overspot_draw(t, own)
    BY <1>1, <1>6, <2>1 DEF draw
  <2>3. Drawn(t, v, {"IC", "fonts", "win"}, {own}) /\ (v.win[own].map => inputs(t, i))
    BY <1>2, <2>1, <2>2, SpotDrawn
  <2>4. \A r \in wins(t) \ {own} : v.win[r].map = t.win[r].map
    BY <2>3 DEF Drawn
  <2>5. \A r \in wins(t) : t.win[r].imid = NULL => v.win[r].map = t.win[r].map
    BY <2>1, <2>4
  <2>6. SameShown(t, v) /\ Base(v) /\ v.winchange = t.winchange
    BY <2>3, <2>5, ShownKept
  <2>7. Drawn(t, v, Redrawn, {own})
    <3>1. {"IC", "fonts", "win"} \subseteq Redrawn
      BY DEF Redrawn
    <3> QED BY <2>3, <3>1, DrawnMore
  <2>8. inputs(v, i) = inputs(t, i) /\ v.ic = i
    BY <1>2, <2>7, DrawnAsked
  <2>9. Up(v)
    <3> SUFFICES ASSUME NEW r \in wins(v), mapped(v, r), v.win[r].imid # NULL
                 PROVE  /\ v.IC[v.win[r].imid].focus \/ v.win[r].imid \in v.left
                        /\ v.win[r].imid = i => inputs(t, i)
      BY <2>8 DEF Up
    <3>1. r \in wins(t)
      BY <2>3 DEF Drawn
    <3>2. v.win[r].imid = t.win[r].imid /\ v.left = t.left
          /\ \A j \in IcId : v.IC[j].focus = t.IC[j].focus
      BY <2>7, <3>1, DrawnFields
    <3>3. CASE r = own
      <4>1. inputs(t, i)
        BY <2>3, <3>3 DEF mapped
      <4>2. t.IC[i].focus
        BY <1>4, <4>1
      <4> QED BY <1>2, <2>1, <3>2, <3>3, <4>1, <4>2
    <3>4. CASE r # own
      <4>1. mapped(t, r)
        BY <2>4, <3>1, <3>4 DEF mapped
      <4>2. ~SpotOf(t, r, i)
        <5>1. SpotOf(t, own, i)
          BY <1>6
        <5> QED BY <1>2, <2>1, <3>1, <3>4, <5>1, SpotFound
      <4>3. t.win[r].imid \in IcId
        BY <1>3, <3>1, <3>2, <4>1 DEF IcId
      <4> QED BY <1>3, <3>1, <3>2, <4>1, <4>2, <4>3
    <3> QED BY <3>3, <3>4
  <2> QED BY <2>6, <2>9 DEF Shows, v
<1>7. CASE t.IC[i].style = "OverSpot" /\ own = NULL
  <2>1. v = gui_overspot_init(t, i)
    BY <1>1, <1>7
  <2>2. t.IC[i].overspot_win = NULL
    BY <1>7
  <2>3. PICK w : SpotNew(t, v, w, i)
    BY <1>2, <2>1, SpotMade
  <2>4. Base(v) /\ SameShown(t, v) /\ v.winchange = t.winchange /\ SpotOf(v, w, i)
    BY <1>2, <1>7, <2>2, <2>3, SpotOwned
  <2>5. v.ic = i /\ v.left = t.left
    BY <2>3 DEF SpotNew, Agree, Fields, Making
  <2>6. \A j \in IcId : v.IC[j].focus = t.IC[j].focus /\ v.IC[j].inp_state = t.IC[j].inp_state
    BY <2>3 DEF SpotNew, Akin, ICFields
  <2>7. inputs(v, i) = inputs(t, i)
    BY <1>2, <2>6 DEF inputs, is_on
  <2>8. Up(v)
    <3> SUFFICES ASSUME NEW r \in wins(v), mapped(v, r), v.win[r].imid # NULL
                 PROVE  /\ v.IC[v.win[r].imid].focus \/ v.win[r].imid \in v.left
                        /\ v.win[r].imid = i => inputs(t, i)
      BY <2>5, <2>7 DEF Up
    <3>1. CASE r = w
      <4>1. inputs(t, i) /\ v.win[r].imid = i
        BY <2>3, <3>1 DEF mapped, SpotNew
      <4>2. t.IC[i].focus
        BY <1>4, <4>1
      <4> QED BY <1>2, <2>6, <4>1, <4>2
    <3>2. CASE r # w
      <4>1. r \in wins(t)
        BY <2>3, <3>2 DEF SpotNew
      <4>2. v.win[r].imid = t.win[r].imid /\ mapped(t, r)
        BY <2>3, <4>1 DEF SpotNew, Alike, WinFields, mapped
      <4>3. ~SpotOf(t, r, i)
        <5>1. t.win[r].window # NULL
          BY <4>1 DEF Base, Heap, NULL
        <5> QED BY <2>2, <5>1 DEF SpotOf
      <4>4. t.win[r].imid \in IcId
        BY <1>3, <4>1, <4>2 DEF IcId
      <4> QED BY <1>3, <2>5, <2>6, <4>1, <4>2, <4>3, <4>4
    <3> QED BY <3>1, <3>2
  <2> QED BY <2>4, <2>8 DEF Shows, v
<1> QED BY <1>5, <1>6, <1>7

\* gui_overspot.c updates the two candidate windows that a message may be about.
LEMMA OverspotUpdated ==
    ASSUME NEW t, Base(t), t.ic # NULL, UpBefore(t), MenusUp(t)
    PROVE  Shows(t, update_gui_overspot(t))
<1> DEFINE own == gui_search_win(t, t.IC[t.ic].overspot_win)
           u   == candidates_left(t)
<1>1. update_gui_overspot(t) = candidates_drawn(u, own)
  BY DEF update_gui_overspot
<1>2. Left(t, u)
  BY CandidateLeft
<1>3. t.ic \in ICID /\ t.ic \in IcId /\ t \in Screen
  BY DEF Base, Screen, IcId
<1>4. /\ own # NULL => own \in wins(t) /\ SpotOf(t, own, t.ic)
      /\ own = NULL => t.IC[t.ic].overspot_win = NULL
  BY <1>3, SpotFound
<1> HIDE DEF own, u
<1>5. Drawn(t, u, {"win"}, wins(t)) /\ Lit(u)
      /\ \A r \in wins(t) : t.win[r].imid = NULL \/ t.win[r].kind = "menusel" =>
             u.win[r].map = t.win[r].map
  BY <1>2 DEF Left
<1>6. Drawn(t, u, {"IC", "fonts", "win"}, wins(t)) /\ Drawn(t, u, Redrawn, wins(t))
  <2>1. {"win"} \subseteq {"IC", "fonts", "win"} /\ {"win"} \subseteq Redrawn
    BY DEF Redrawn
  <2> QED BY <1>5, <2>1, DrawnMore
<1>7. SameShown(t, u) /\ Base(u) /\ u.winchange = t.winchange
  BY <1>5, <1>6, ShownKept
<1>8. /\ u.ic = t.ic /\ u.left = t.left /\ wins(u) = wins(t)
      /\ \A r \in wins(t) : u.win[r].window = t.win[r].window /\ u.win[r].kind = t.win[r].kind
                            /\ u.win[r].imid = t.win[r].imid /\ u.win[r].data = t.win[r].data
      /\ \A i \in IcId : /\ u.IC[i].live = t.IC[i].live /\ u.IC[i].style = t.IC[i].style
                         /\ u.IC[i].focus = t.IC[i].focus
                         /\ u.IC[i].overspot_win = t.IC[i].overspot_win
  BY <1>5, <1>6, DrawnFields DEF Drawn
<1>9. inputs(u, t.ic) = inputs(t, t.ic)
  BY <1>3, <1>6, DrawnAsked
<1>10. MenusUp(u)
  <2> SUFFICES ASSUME NEW r \in wins(u), mapped(u, r), u.win[r].kind = "menusel"
               PROVE  /\ u.IC[u.win[r].imid].focus \/ u.win[r].imid \in u.left
                      /\ u.win[r].imid = u.ic => inputs(u, u.ic)
    BY DEF MenusUp
  <2>1. r \in wins(t) /\ mapped(t, r) /\ t.win[r].kind = "menusel"
    BY <1>5, <1>8 DEF mapped
  <2>2. t.win[r].imid \in IcId
    <3>1. t.win[r].imid # NULL => t.win[r].imid \in ICID
      BY <2>1, Owners
    <3> QED BY <3>1 DEF IcId
  <2> QED BY <1>8, <1>9, <2>1, <2>2 DEF MenusUp
<1>11. /\ own # NULL => own \in wins(u) /\ SpotOf(u, own, u.ic)
       /\ own = NULL => u.IC[u.ic].overspot_win = NULL
  BY <1>3, <1>4, <1>8 DEF SpotOf
<1>12. Shows(u, candidates_drawn(u, own))
  BY <1>5, <1>7, <1>8, <1>10, <1>11, CandidateDrawn
<1> QED BY <1>1, <1>7, <1>12, SameShownTwice DEF Shows

\* The windows are as they should be after, and before, an update.
Good(t) == Base(t) /\ Up(t) /\ Fixed(t) /\ Told(t)

Ready(t) == Base(t) /\ UpBefore(t) /\ Fixed(t) /\ ("IM" \in t.winchange \/ Told(t))

\* All windows but the main ones are as they should be.
Mains(t) ==
    /\ Base(t) /\ Up(t) /\ Fixed(t) /\ ("IM" \in t.winchange \/ Told(t))
    /\ t.ic # NULL /\ t.IC[t.ic].style = "Root" => t.mainwin # NULL

uptodate(t) == [t EXCEPT !.IC[t.ic].font_update = FALSE]

\* The update of the windows of the current IC.
LEMMA CurrentDrawn ==
    ASSUME NEW t, Ready(t)
    PROVE  Mains(current_drawn(t))
<1>1. Base(t) /\ UpBefore(t) /\ Fixed(t) /\ ("IM" \in t.winchange \/ Told(t))
  BY DEF Ready
<1>2. CASE t.ic = NULL
  <2>1. Up(t)
    BY <1>1, <1>2 DEF Up, UpBefore
  <2> QED BY <1>1, <1>2, <2>1 DEF Mains, current_drawn
<1>3. CASE t.ic # NULL
  <2> DEFINE m == with_mainwin(t)
             a == update_gui_request(m)
             b == update_gui_overspot(a)
  <2>1. current_drawn(t) = [b EXCEPT !.IC[t.ic].font_update = FALSE]
    BY <1>3 DEF current_drawn
  <2>2. Served(t, m)
    BY <1>1, <1>3, RootServed
  <2> HIDE DEF m
  <2>3. /\ Base(m) /\ Fixed(m) /\ m.ic = t.ic /\ m.icp = t.icp /\ m.winchange = t.winchange
        /\ m.IC = t.IC /\ m.left = t.left /\ ("IM" \in t.winchange \/ Told(m))
        /\ (t.IC[t.ic].style = "Root" => m.mainwin # NULL)
    BY <2>2 DEF Served, Agree, Fields, Making
  <2>4. UpBefore(m)
    <3> SUFFICES ASSUME NEW r \in wins(m), mapped(m, r), m.win[r].imid # NULL
                 PROVE  \/ m.IC[m.win[r].imid].focus
                        \/ m.win[r].imid \in m.left
                        \/ m.ic # NULL /\ m.win[r].imid = m.icp /\ left_focus(m)
      BY DEF UpBefore
    <3>1. r \in wins(t) /\ m.win[r] = t.win[r]
      BY <2>2 DEF Served
    <3> QED BY <1>1, <2>3, <3>1 DEF UpBefore, mapped, left_focus
  <2>5. /\ Drawn(m, a, {"win"}, wins(m)) /\ MenusUp(a)
        /\ \A r \in wins(m) : m.win[r].kind # "menusel" => a.win[r].map = m.win[r].map
    BY <1>3, <2>3, <2>4, RequestsShown
  <2> HIDE DEF a
  <2>6. Drawn(m, a, {"IC", "fonts", "win"}, wins(m)) /\ Drawn(m, a, Redrawn, wins(m))
    <3>1. {"win"} \subseteq {"IC", "fonts", "win"} /\ {"win"} \subseteq Redrawn
      BY DEF Redrawn
    <3> QED BY <2>5, <3>1, DrawnMore
  <2>7. \A r \in wins(m) : m.win[r].imid = NULL => a.win[r].map = m.win[r].map
    <3>1. \A r \in wins(m) : m.win[r].imid = NULL => m.win[r].kind # "menusel"
      <4>1. m \in Screen /\ Heap(m)
        BY <2>3 DEF Base
      <4> QED BY <2>3, <4>1, Owners, ListsIn DEF Base, Own
    <3> QED BY <2>5, <3>1
  <2>8. SameShown(m, a) /\ Base(a) /\ a.winchange = m.winchange
    BY <2>3, <2>6, <2>7, ShownKept
  <2>9. wins(a) = wins(m) /\ a.ic = m.ic /\ a.icp = m.icp /\ a.left = m.left
        /\ (\A r \in wins(m) : a.win[r].imid = m.win[r].imid /\ a.win[r].kind = m.win[r].kind)
        /\ (\A i \in IcId : a.IC[i].focus = m.IC[i].focus)
    BY <2>6, DrawnFields DEF Drawn
  <2>10. UpBefore(a)
    <3> SUFFICES ASSUME NEW r \in wins(a), mapped(a, r), a.win[r].imid # NULL
                 PROVE  \/ a.IC[a.win[r].imid].focus
                        \/ a.win[r].imid \in a.left
                        \/ a.ic # NULL /\ a.win[r].imid = a.icp /\ left_focus(a)
      BY DEF UpBefore
    <3>1. CASE a.win[r].kind = "menusel"
      BY <2>5, <3>1 DEF MenusUp
    <3>2. CASE a.win[r].kind # "menusel"
      <4>1. r \in wins(m) /\ mapped(m, r) /\ a.win[r].imid = m.win[r].imid
        BY <2>5, <2>9, <3>2 DEF mapped
      <4>2. m.win[r].imid \in IcId
        BY <2>3, <4>1, Owners DEF IcId
      <4>3. left_focus(a) = left_focus(m)
        BY <2>8, <2>9 DEF left_focus
      <4> QED BY <2>4, <2>9, <4>1, <4>2, <4>3 DEF UpBefore
    <3> QED BY <3>1, <3>2
  <2>11. Shows(a, b)
    BY <1>3, <2>3, <2>5, <2>8, <2>9, <2>10, OverspotUpdated
  <2> HIDE DEF b
  <2>12. /\ Base(b) /\ Up(b) /\ SameShown(m, b) /\ b.winchange = t.winchange /\ b.ic = t.ic
         /\ b.mainwin = m.mainwin /\ b.IC[t.ic].style = t.IC[t.ic].style
    <3>1. SameShown(m, b)
      BY <2>8, <2>11, SameShownTwice DEF Shows
    <3> QED BY <1>3, <2>3, <2>8, <2>11, <3>1 DEF Shows, SameShown, SameFixed
  <2>13. current_drawn(t) = uptodate(b)
    BY <2>1, <2>12 DEF uptodate
  <2> DEFINE c == uptodate(b)
  <2>14. Drawn(b, c, {"IC"}, {})
    <3>1. b \in Screen /\ Heap(b) /\ b.ic \in IcId
      BY <2>12 DEF Base, Screen, IcId
    <3> QED BY <3>1, FontUpdated DEF uptodate
  <2> HIDE DEF c
  <2>15. Drawn(b, c, {"IC", "fonts", "win"}, {}) /\ Drawn(b, c, Redrawn, {})
    <3>1. {"IC"} \subseteq {"IC", "fonts", "win"} /\ {"IC"} \subseteq Redrawn /\ {} \subseteq {}
      BY DEF Redrawn
    <3> QED BY <2>14, <3>1, DrawnMore
  <2>16. SameShown(b, c) /\ Base(c) /\ c.winchange = b.winchange
    <3>1. \A r \in wins(b) : b.win[r].imid = NULL => c.win[r].map = b.win[r].map
      BY <2>15 DEF Drawn
    <3> QED BY <2>12, <2>15, <3>1, ShownKept
  <2>17. Up(c)
    BY <2>12, <2>15, UpKept
  <2>18. SameShown(m, c)
    BY <2>12, <2>16, SameShownTwice
  <2>19. Fixed(c) /\ (Told(m) => Told(c))
    BY <2>3, <2>18, ToldKept
  <2>20. c.ic = t.ic /\ c.mainwin = m.mainwin /\ c.IC[t.ic].style = t.IC[t.ic].style
    BY <1>3, <2>12, <2>16 DEF SameShown, SameFixed
  <2>21. Mains(c)
    BY <2>3, <2>12, <2>16, <2>17, <2>19, <2>20 DEF Mains
  <2> QED BY <2>13, <2>21 DEF c
<1> QED BY <1>2, <1>3

\* u is t with the wide window drawn, and v is u with the small one.
Wide(t, u) ==
    /\ Drawn(t, u, {"win", "drawn"}, {t.mainwin} \ {NULL})
    /\ t.mainwin # NULL =>
           /\ u.win[t.mainwin].map
                = IF comes_and_goes(t) THEN asked_for(t) /\ ~small(t) ELSE t.win[t.mainwin].map
           /\ u.win[t.mainwin].map => u.drawn["main"] = title(t, t.ic)

Small(t, v) ==
    /\ Drawn(t, v, {"win", "drawn"}, {t.mainwin2} \ {NULL})
    /\ v.drawn["main"] = t.drawn["main"]
    /\ t.mainwin2 # NULL =>
           /\ in_mode(t, "WINONLY") => v = t
           /\ ~in_mode(t, "WINONLY") =>
                /\ v.win[t.mainwin2].map
                     = ~((~asked_for(t) /\ in_mode(t, "HIDE")) \/ wide_is_up(t))
                /\ v.win[t.mainwin2].map => v.drawn["main2"] = title(t, t.ic)

seen(t)    == [t EXCEPT !.unseen = FALSE]
settled(t) == [t EXCEPT !.winchange = {}]

\* Each main window is drawn in its turn, ...
LEMMA WideDrawn ==
    ASSUME NEW t, Base(t)
    PROVE  Wide(t, IF t.mainwin = NULL THEN t ELSE draw(t, t.mainwin))
<1>1. t \in Screen /\ Heap(t)
  BY DEF Base
<1>2. CASE t.mainwin = NULL
  <2>1. Drawn(t, t, {"win", "drawn"}, {t.mainwin} \ {NULL})
    BY <1>1, DrawnNot
  <2> QED BY <1>2, <2>1 DEF Wide
<1>3. CASE t.mainwin # NULL
  <2>1. t.mainwin \in wins(t) /\ t.win[t.mainwin].kind = "main"
    BY <1>3 DEF Base, Own
  <2>2. draw(t, t.mainwin) = xcin_mainwin_draw(t, t.mainwin)
    BY <2>1 DEF draw
  <2>3. {t.mainwin} \ {NULL} = {t.mainwin}
    BY <1>3
  <2> QED BY <1>1, <1>3, <2>1, <2>2, <2>3, MainDrawn DEF Wide
<1> QED BY <1>2, <1>3

LEMMA SmallDrawn ==
    ASSUME NEW t, Base(t), NEW w, w = t.mainwin2
    PROVE  Small(t, IF w = NULL THEN t ELSE draw(t, w))
<1>1. t \in Screen /\ Heap(t)
  BY DEF Base
<1>2. CASE t.mainwin2 = NULL
  <2>1. Drawn(t, t, {"win", "drawn"}, {t.mainwin2} \ {NULL})
    BY <1>1, DrawnNot
  <2> QED BY <1>2, <2>1 DEF Small
<1>3. CASE t.mainwin2 # NULL
  <2>1. t.mainwin2 \in wins(t) /\ t.win[t.mainwin2].kind = "main2"
    BY <1>3 DEF Base, Own
  <2>2. draw(t, t.mainwin2) = xcin_mainwin2_draw(t, t.mainwin2)
    BY <2>1 DEF draw
  <2>3. {t.mainwin2} \ {NULL} = {t.mainwin2}
    BY <1>3
  <2> QED BY <1>1, <1>3, <2>1, <2>2, <2>3, Main2Drawn DEF Small
<1> QED BY <1>2, <1>3

\* ... and both are as they should be.
LEMMA MainsDrawn ==
    ASSUME NEW t, Mains(t)
    PROVE  Good(mains_drawn(t))
<1>1. Base(t) /\ Up(t) /\ Fixed(t) /\ t \in Screen /\ Heap(t)
  BY DEF Mains, Base
<1>2. CASE "IM" \notin t.winchange
  BY <1>2 DEF Mains, mains_drawn, Good
<1>3. CASE "IM" \in t.winchange
  <2> DEFINE u == IF t.mainwin = NULL THEN t ELSE draw(t, t.mainwin)
             v == IF t.mainwin2 = NULL THEN u ELSE draw(u, t.mainwin2)
             z == seen(v)
  <2>1. mains_drawn(t) = z
    BY <1>3 DEF mains_drawn, seen
  <2>2. Wide(t, u)
    BY <1>1, WideDrawn
  <2> HIDE DEF u
  <2>3. Drawn(t, u, {"win", "drawn"}, {t.mainwin} \ {NULL})
        /\ Drawn(t, u, Redrawn, {t.mainwin} \ {NULL})
    <3>1. {"win", "drawn"} \subseteq Redrawn
      BY DEF Redrawn
    <3>2. Drawn(t, u, {"win", "drawn"}, {t.mainwin} \ {NULL})
      BY <2>2 DEF Wide
    <3> QED BY <3>1, <3>2, DrawnMore
  <2>4. u.mainwin = t.mainwin /\ u.mainwin2 = t.mainwin2 /\ u.ic = t.ic /\ u.mode = t.mode
    BY <2>3, DrawnFields
  <2>5. Base(u)
    BY <1>1, <2>3, DrawnOwn DEF Base, Drawn
  <2>6. Small(u, v)
    BY <2>4, <2>5, SmallDrawn
  <2> HIDE DEF v
  <2>7. Drawn(u, v, {"win", "drawn"}, {u.mainwin2} \ {NULL})
    BY <2>6 DEF Small
  <2>8. v \in Screen /\ Heap(v)
    BY <2>7 DEF Drawn
  <2>9. Drawn(v, z, {"unseen"}, {})
    <3>1. z \in Screen
      BY <2>8 DEF seen, Screen
    <3>2. Agree(v, z, {"unseen"}) /\ z.IC = v.IC
      BY <2>8 DEF seen, Screen, Agree, Fields
    <3>3. Agree(v, z, {"IC", "drawn", "winchange", "unseen"})
      BY <3>2 DEF Agree
    <3>4. \A i \in IcId : Akin(v.IC[i], z.IC[i], {"font_update"})
      BY <3>2 DEF Akin
    <3> HIDE DEF z
    <3> QED BY <2>8, <3>1, <3>2, <3>3, <3>4, DrawnElsewhere
  <2>10. ~z.unseen
    BY <2>8 DEF seen, Screen
  <2> HIDE DEF z
  <2>11. Drawn(t, z, Redrawn, {t.mainwin, t.mainwin2} \ {NULL})
    <3>1. Drawn(t, v, {"win", "drawn"} \cup {"win", "drawn"},
                ({t.mainwin} \ {NULL}) \cup ({u.mainwin2} \ {NULL}))
      BY <2>3, <2>7, DrawnTwice
    <3>2. Drawn(t, z, ({"win", "drawn"} \cup {"win", "drawn"}) \cup {"unseen"},
                (({t.mainwin} \ {NULL}) \cup ({u.mainwin2} \ {NULL})) \cup {})
      BY <2>9, <3>1, DrawnTwice
    <3>3. ({"win", "drawn"} \cup {"win", "drawn"}) \cup {"unseen"} \subseteq Redrawn
      BY DEF Redrawn
    <3>4. (({t.mainwin} \ {NULL}) \cup ({u.mainwin2} \ {NULL})) \cup {}
          \subseteq {t.mainwin, t.mainwin2} \ {NULL}
      BY <2>4
    <3> QED BY <3>2, <3>3, <3>4, DrawnMore
  <2>12. Base(z)
    BY <1>1, <2>11, DrawnOwn DEF Base, Drawn
  <2>13. Up(z)
    <3>1. \A r \in {t.mainwin, t.mainwin2} \ {NULL} : r \in wins(t) => t.win[r].imid = NULL
      BY <1>1, Owners
    <3> QED BY <1>1, <2>11, <3>1, UpKept
  <2>14. /\ z.ic = t.ic /\ z.mainwin = t.mainwin /\ z.mainwin2 = t.mainwin2
         /\ asked_for(z) = asked_for(t) /\ small(z) = small(t)
         /\ comes_and_goes(z) = comes_and_goes(t)
         /\ \A f : in_mode(z, f) = in_mode(t, f)
    BY <1>1, <2>11, DrawnFields, DrawnAsked
  <2>15. t.ic \in IcId
    BY <1>1 DEF Screen, IcId
  <2>16. title(z, z.ic) = title(t, t.ic) /\ z.IC[t.ic].style = t.IC[t.ic].style
    BY <1>1, <2>11, <2>14, <2>15, DrawnFields, DrawnAsked
  <2>17. /\ asked_for(u) = asked_for(t) /\ title(u, u.ic) = title(t, t.ic)
         /\ \A f : in_mode(u, f) = in_mode(t, f)
    BY <1>1, <2>3, <2>4, <2>15, DrawnAsked
  <2>18. /\ z.drawn = v.drawn
         /\ t.mainwin # NULL => z.win[t.mainwin].map = v.win[t.mainwin].map
         /\ t.mainwin2 # NULL => z.win[t.mainwin2].map = v.win[t.mainwin2].map
    <3>1. \A r \in wins(v) : z.win[r].map = v.win[r].map
      BY <2>9 DEF Drawn
    <3>2. wins(v) = wins(t)
      BY <2>3, <2>7 DEF Drawn
    <3>3. z.drawn = v.drawn
      BY <2>9 DEF Drawn, Agree, Fields
    <3> QED BY <1>1, <3>1, <3>2, <3>3 DEF Base, Own
  <2>19. /\ t.mainwin # NULL => t.mainwin \in wins(t) /\ t.win[t.mainwin].kind = "main"
         /\ t.mainwin2 # NULL => t.mainwin2 \in wins(t) /\ t.win[t.mainwin2].kind = "main2"
    BY <1>1 DEF Base, Own
  <2>20. t.mainwin # NULL => v.win[t.mainwin].map = u.win[t.mainwin].map
    <3>1. t.mainwin # NULL => t.mainwin # t.mainwin2
      BY <2>19
    <3>2. \A r \in wins(u) \ ({u.mainwin2} \ {NULL}) : v.win[r].map = u.win[r].map
      BY <2>7 DEF Drawn
    <3>3. wins(u) = wins(t)
      BY <2>3 DEF Drawn
    <3> QED BY <2>4, <2>19, <3>1, <3>2, <3>3
  <2>21. t.mainwin # NULL =>
             /\ mapped(z, t.mainwin)
                  = IF comes_and_goes(t) THEN asked_for(t) /\ ~small(t) ELSE mapped(t, t.mainwin)
             /\ mapped(z, t.mainwin) => z.drawn["main"] = title(t, t.ic)
    BY <2>2, <2>6, <2>18, <2>20 DEF Wide, Small, mapped
  <2>22. wide_is_up(z) = wide_is_up(u)
    BY <2>4, <2>14, <2>18, <2>20 DEF wide_is_up
  <2>23. t.mainwin2 # NULL /\ ~in_mode(t, "WINONLY") =>
             /\ mapped(z, t.mainwin2)
                  = ~((~asked_for(t) /\ in_mode(t, "HIDE")) \/ wide_is_up(z))
             /\ mapped(z, t.mainwin2) => z.drawn["main2"] = title(t, t.ic)
    BY <2>4, <2>6, <2>17, <2>18, <2>22 DEF Small, mapped
  <2>24. t.mainwin2 # NULL /\ in_mode(t, "WINONLY") => ~mapped(z, t.mainwin2)
    <3> SUFFICES ASSUME t.mainwin2 # NULL, in_mode(t, "WINONLY")
                 PROVE  ~mapped(z, t.mainwin2)
      OBVIOUS
    <3>1. v = u
      BY <2>4, <2>6, <2>17 DEF Small
    <3>2. u.win[t.mainwin2].map = t.win[t.mainwin2].map
      <4>1. t.mainwin2 \notin {t.mainwin} \ {NULL}
        BY <2>19
      <4> QED BY <2>3, <2>19, <4>1 DEF Drawn
    <3> QED BY <1>1, <2>18, <3>1, <3>2 DEF Fixed, mapped
  <2>25. Fixed(z)
    <3>1. z.mainwin = NULL => in_mode(z, "MAINWIN2")
      BY <1>1, <2>14 DEF Fixed
    <3>2. z.mainwin2 # NULL <=> in_mode(z, "MAINWIN2")
      BY <1>1, <2>14 DEF Fixed
    <3>3. z.mainwin # NULL /\ ~comes_and_goes(z) => mapped(z, z.mainwin)
      BY <1>1, <2>14, <2>21 DEF Fixed
    <3>4. z.mainwin2 # NULL /\ in_mode(z, "WINONLY") => ~mapped(z, z.mainwin2)
      BY <2>14, <2>24
    <3>5. ~(wide_is_up(z) /\ z.mainwin2 # NULL /\ mapped(z, z.mainwin2))
      BY <2>14, <2>23, <3>4
    <3> QED BY <3>1, <3>2, <3>3, <3>4, <3>5 DEF Fixed
  <2>26. Seen(z)
    <3>1. z.ic # NULL /\ z.IC[z.ic].style = "Root" => z.mainwin # NULL
      BY <2>14, <2>16 DEF Mains
    <3>2. z.mainwin # NULL /\ comes_and_goes(z)
              => mapped(z, z.mainwin) = (asked_for(z) /\ ~small(z))
      BY <2>14, <2>21
    <3>3. z.mainwin2 # NULL /\ ~in_mode(z, "WINONLY")
              => mapped(z, z.mainwin2) = ~((~asked_for(z) /\ in_mode(z, "HIDE")) \/ wide_is_up(z))
      BY <2>14, <2>23
    <3>4. z.mainwin # NULL /\ mapped(z, z.mainwin) => z.drawn["main"] = title(z, z.ic)
      BY <2>14, <2>16, <2>21
    <3>5. z.mainwin2 # NULL /\ mapped(z, z.mainwin2) => z.drawn["main2"] = title(z, z.ic)
      BY <2>14, <2>16, <2>23, <2>24
    <3> QED BY <3>1, <3>2, <3>3, <3>4, <3>5 DEF Seen
  <2>27. Good(z)
    BY <2>10, <2>12, <2>13, <2>25, <2>26 DEF Good, Told
  <2> QED BY <2>1, <2>27
<1> QED BY <1>2, <1>3

\* The update is over.
LEMMA Settled ==
    ASSUME NEW t, Good(t)
    PROVE  Good(settled(t))
<1> DEFINE u == settled(t)
<1>1. t \in Screen /\ Heap(t)
  BY DEF Good, Base
<1>2. u \in Screen /\ Agree(t, u, {"winchange"}) /\ u.IC = t.IC
  BY <1>1 DEF settled, Screen, Agree, Fields
<1>3. Drawn(t, u, {"winchange"}, {})
  <2>1. Agree(t, u, {"IC", "drawn", "winchange", "unseen"})
    BY <1>2 DEF Agree
  <2>2. \A i \in IcId : Akin(t.IC[i], u.IC[i], {"font_update"})
    BY <1>2 DEF Akin
  <2> HIDE DEF u
  <2> QED BY <1>1, <1>2, <2>1, <2>2, DrawnElsewhere
<1> HIDE DEF u
<1>4. Drawn(t, u, Redrawn, {})
  <2>1. {"winchange"} \subseteq Redrawn /\ {} \subseteq {}
    BY DEF Redrawn
  <2> QED BY <1>3, <2>1, DrawnMore
<1>5. Base(u)
  BY <1>4, DrawnOwn DEF Good, Base, Drawn
<1>6. Up(u)
  BY <1>4, UpKept DEF Good
<1>7. SameShown(t, u)
  <2>1. /\ u.mode = t.mode /\ u.mainwin = t.mainwin /\ u.mainwin2 = t.mainwin2
        /\ u.drawn = t.drawn /\ u.unseen = t.unseen /\ u.ic = t.ic /\ u.win = t.win
    BY <1>2 DEF Agree, Fields
  <2> QED BY <1>2, <2>1 DEF SameShown, SameFixed, mapped
<1>8. Fixed(u) /\ Told(u)
  BY <1>7, ToldKept DEF Good
<1> QED BY <1>5, <1>6, <1>8 DEF Good, u

\* An update makes good what the handler of a message has left undone.
LEMMA Updated ==
    ASSUME NEW t, Ready(t)
    PROVE  Good(gui_update_winlist(t))
<1>1. Mains(current_drawn(t))
  BY CurrentDrawn
<1>2. Good(mains_drawn(current_drawn(t)))
  BY <1>1, MainsDrawn
<1>3. Good(settled(mains_drawn(current_drawn(t))))
  BY <1>2, Settled
<1> QED BY <1>3 DEF settled, gui_update_winlist

-----------------------------------------------------------------------------
(***************************************************************************)
(* The handlers: the focus, the modes, the input methods, the requests.    *)
(***************************************************************************)
\* What an IC is set to changes, and none of its windows; or an IC is made.
Settings == {"base_font", "font_update", "focus", "inp_state", "inp_num", "typed"}

Retuned(t, u) ==
    /\ u \in Screen /\ Agree(t, u, {"IC", "ic", "icp", "left", "winchange", "unseen"})
    /\ \A j \in ICID : \/ /\ Akin(t.IC[j], u.IC[j], Settings)
                          /\ t.IC[j].gwin # <<>> /\ "CINPUT" \in t.IC[j].inp_state
                                 => "CINPUT" \in u.IC[j].inp_state
                       \/ /\ ~t.IC[j].live /\ u.IC[j].overspot_win = NULL
                          /\ u.IC[j].gwin = <<>>
    /\ ICs(u)

\* Such a handler leaves the windows and the lists as they are.
LEMMA RetunedBase ==
    ASSUME NEW t, Base(t), NEW u, Retuned(t, u)
    PROVE  /\ Base(u) /\ wins(u) = wins(t) /\ u.win = t.win /\ SameFixed(t, u)
           /\ u.drawn = t.drawn
           /\ Fixed(t) => Fixed(u)
<1>1. /\ u.win = t.win /\ u.winlist = t.winlist /\ u.free_win = t.free_win
      /\ u.mainwin = t.mainwin /\ u.mainwin2 = t.mainwin2 /\ u.mode = t.mode
      /\ u.drawn = t.drawn
  BY DEF Retuned, Agree, Fields
<1>2. Heap(u) /\ wins(u) = wins(t)
  <2>1. \A r \in DOMAIN t.win : Alike(t.win[r], u.win[r], {"map", "kind", "imid", "data"})
    BY <1>1 DEF Alike
  <2>2. Agree(t, u, Fields \ {"winlist", "free_win", "fonts", "xwin", "xid"})
    BY DEF Retuned, Agree, Fields
  <2> QED BY <1>1, <2>1, <2>2, HeapKept DEF Base, Retuned
<1>3. \A j \in ICID : t.IC[j].live =>
          /\ u.IC[j].live /\ u.IC[j].style = t.IC[j].style
          /\ u.IC[j].overspot_win = t.IC[j].overspot_win /\ u.IC[j].gwin = t.IC[j].gwin
          /\ t.IC[j].gwin # <<>> /\ "CINPUT" \in t.IC[j].inp_state
                 => "CINPUT" \in u.IC[j].inp_state
  BY DEF Retuned, Akin, ICFields, Settings
<1>4. \A j \in ICID : ~t.IC[j].live => u.IC[j].overspot_win = NULL /\ u.IC[j].gwin = <<>>
  <2> SUFFICES ASSUME NEW j \in ICID, ~t.IC[j].live
               PROVE  u.IC[j].overspot_win = NULL /\ u.IC[j].gwin = <<>>
    OBVIOUS
  <2>1. t.IC[j].overspot_win = NULL /\ t.IC[j].gwin = <<>>
    BY DEF Base, ICs, IcId
  <2>2. Akin(t.IC[j], u.IC[j], Settings) =>
            u.IC[j].overspot_win = t.IC[j].overspot_win /\ u.IC[j].gwin = t.IC[j].gwin
    BY DEF Akin, ICFields, Settings
  <2> QED BY <2>1, <2>2 DEF Retuned
<1>5. \A q \in wins(t), j \in ICID : /\ SpotOf(t, q, j) => SpotOf(u, q, j)
                                     /\ MenuOf(t, q, j) => MenuOf(u, q, j)
  BY <1>1, <1>3 DEF SpotOf, MenuOf
<1>6. \A q, k, m : MainOf(t, q, k, m) => MainOf(u, q, k, m)
  BY <1>1 DEF MainOf
<1>7. Own(u)
  <2>1. \A r \in wins(u) : \/ MainOf(u, r, "main", u.mainwin)
                           \/ MainOf(u, r, "main2", u.mainwin2)
                           \/ \E i \in ICID : SpotOf(u, r, i) \/ MenuOf(u, r, i)
    BY <1>1, <1>2, <1>5, <1>6 DEF Base, Own
  <2>2. /\ u.mainwin # NULL => u.mainwin \in wins(u) /\ u.win[u.mainwin].kind = "main"
        /\ u.mainwin2 # NULL => u.mainwin2 \in wins(u) /\ u.win[u.mainwin2].kind = "main2"
    BY <1>1, <1>2 DEF Base, Own
  <2>3. \A i \in ICID : u.IC[i].overspot_win # NULL => \E r \in wins(u) : SpotOf(u, r, i)
    <3> SUFFICES ASSUME NEW i \in ICID, u.IC[i].overspot_win # NULL
                 PROVE  \E r \in wins(u) : SpotOf(u, r, i)
      OBVIOUS
    <3>1. t.IC[i].overspot_win # NULL
      BY <1>3, <1>4
    <3>2. PICK r \in wins(t) : SpotOf(t, r, i)
      BY <3>1 DEF Base, Own
    <3> QED BY <1>2, <1>5, <3>2
  <2>4. \A i \in ICID : u.IC[i].gwin # <<>> =>
            "CINPUT" \in u.IC[i].inp_state /\ \E r \in wins(u) : MenuOf(u, r, i)
    <3> SUFFICES ASSUME NEW i \in ICID, u.IC[i].gwin # <<>>
                 PROVE  "CINPUT" \in u.IC[i].inp_state /\ \E r \in wins(u) : MenuOf(u, r, i)
      OBVIOUS
    <3>1. t.IC[i].live /\ t.IC[i].gwin # <<>>
      BY <1>3, <1>4
    <3>2. "CINPUT" \in t.IC[i].inp_state /\ \E r \in wins(t) : MenuOf(t, r, i)
      BY <3>1 DEF Base, Own
    <3> QED BY <1>2, <1>3, <1>5, <3>1, <3>2
  <2> QED BY <2>1, <2>2, <2>3, <2>4 DEF Own
<1>8. SameFixed(t, u)
  BY <1>1 DEF SameFixed, mapped
<1>9. Fixed(u) = Fixed(t)
  BY <1>8, FixedKept
<1> QED BY <1>1, <1>2, <1>7, <1>8, <1>9 DEF Base, Retuned

\* A handler that leaves every window up that was, and who has the focus.
LEMMA StillUp ==
    ASSUME NEW t, Base(t), Lit(t), NEW u, Retuned(t, u),
           \A j \in ICID : t.IC[j].live /\ (t.IC[j].focus \/ j \in t.left) =>
               u.IC[j].focus \/ j \in u.left \/ (u.ic # NULL /\ j = u.icp /\ left_focus(u))
    PROVE  UpBefore(u)
<1> SUFFICES ASSUME NEW r \in wins(u), mapped(u, r), u.win[r].imid # NULL
             PROVE  \/ u.IC[u.win[r].imid].focus
                    \/ u.win[r].imid \in u.left
                    \/ u.ic # NULL /\ u.win[r].imid = u.icp /\ left_focus(u)
  BY DEF UpBefore
<1>1. Base(t) /\ r \in wins(t) /\ mapped(t, r) /\ u.win = t.win
  BY RetunedBase DEF mapped
<1>2. t.win[r].imid \in ICID /\ t.IC[t.win[r].imid].live
  BY <1>1, Owners DEF SpotOf, MenuOf
<1>3. t.IC[t.win[r].imid].focus \/ t.win[r].imid \in t.left
  BY <1>1 DEF Lit
<1> QED BY <1>1, <1>2, <1>3

\* Good is more than is needed before an update.
LEMMA UpLit ==
    ASSUME NEW t, Up(t)
    PROVE  Lit(t)
<1> QED BY DEF Up, Lit

LEMMA GoodReady ==
    ASSUME NEW t, Good(t)
    PROVE  Ready(t)
<1> QED BY DEF Good, Ready, Up, UpBefore

\* Where the input goes is noted, and that the windows must follow.
now_at(t, i, L)  == [[t EXCEPT !.ic = i] EXCEPT !.left = L]
last_at(t, i, L) == [[t EXCEPT !.icp = i] EXCEPT !.left = L]

\* The fields that set_focus and unset_focus write.
LEMMA NowAt ==
    ASSUME NEW t \in Screen, NEW i \in IcId, NEW L \in SUBSET ICID
    PROVE  /\ now_at(t, i, L) \in Screen /\ Agree(t, now_at(t, i, L), {"ic", "left"})
           /\ now_at(t, i, L).ic = i /\ now_at(t, i, L).left = L
<1> QED BY DEF now_at, Screen, Agree, Fields, IcId

LEMMA LastAt ==
    ASSUME NEW t \in Screen, NEW i \in IcId, NEW L \in SUBSET ICID
    PROVE  /\ last_at(t, i, L) \in Screen /\ Agree(t, last_at(t, i, L), {"icp", "left"})
           /\ last_at(t, i, L).icp = i /\ last_at(t, i, L).left = L
<1> QED BY DEF last_at, Screen, Agree, Fields, IcId

\* The windows to be updated are noted.
LEMMA Flagged ==
    ASSUME NEW t \in Screen, NEW W \in SUBSET {"IM", "FOCUS"}
    PROVE  /\ changed(t, W) \in Screen /\ Agree(t, changed(t, W), {"winchange"})
           /\ changed(t, W).winchange = t.winchange \cup W
<1>1. t.winchange \cup W \in SUBSET {"IM", "FOCUS"}
  BY DEF Screen
<1> QED BY <1>1 DEF Screen, Agree, Fields, changed

\* A handler that is about one IC.
LEMMA OneRetuned ==
    ASSUME NEW t, Base(t), NEW i \in ICID, t.IC[i].live, NEW h \in Screen,
           Agree(t, h, {"IC", "ic", "icp", "left", "winchange", "unseen"}),
           \A j \in IcId \ {i} : h.IC[j] = t.IC[j],
           Akin(t.IC[i], h.IC[i], Settings),
           t.IC[i].gwin # <<>> /\ "CINPUT" \in t.IC[i].inp_state => "CINPUT" \in h.IC[i].inp_state,
           "XIMFOCUS" \in h.IC[i].inp_state => "CINPUT" \in h.IC[i].inp_state /\ h.IC[i].focus,
           "2BFOCUS" \in h.IC[i].inp_state => "2BYTES" \in h.IC[i].inp_state /\ h.IC[i].focus,
           h.ic \in {t.ic, t.icp, i}, h.icp \in {t.ic, t.icp, i}
    PROVE  Retuned(t, h)
<1>1. ICs(t) /\ NULL \in IcId /\ i \in IcId /\ i # NULL /\ t.ic \in IcId /\ t.icp \in IcId
  BY DEF Base, Screen, IcId, ICID, NULL
<1>2. h.IC[i].live = t.IC[i].live
  BY DEF Akin, ICFields, Settings
<1>3. \A j \in IcId : h.IC[j].live = t.IC[j].live
  BY <1>2
<1>4. /\ h.ic # NULL => h.IC[h.ic].live
      /\ h.icp # NULL => h.IC[h.icp].live
      /\ ~h.IC[NULL].live
  <2>1. (t.ic # NULL => t.IC[t.ic].live) /\ (t.icp # NULL => t.IC[t.icp].live)
        /\ ~t.IC[NULL].live
    BY <1>1 DEF ICs
  <2> QED BY <1>1, <1>3, <2>1
<1>5. \A j \in IcId : ~h.IC[j].live => /\ h.IC[j].overspot_win = NULL
                                       /\ h.IC[j].gwin = <<>>
                                       /\ ~h.IC[j].focus /\ h.IC[j].inp_state = {}
  BY <1>1, <1>2 DEF ICs
<1>6. /\ \A j \in IcId : "XIMFOCUS" \in h.IC[j].inp_state =>
                             "CINPUT" \in h.IC[j].inp_state /\ h.IC[j].focus
      /\ \A j \in IcId : "2BFOCUS" \in h.IC[j].inp_state =>
                             "2BYTES" \in h.IC[j].inp_state /\ h.IC[j].focus
  <2>1. \A j \in IcId : /\ "XIMFOCUS" \in t.IC[j].inp_state =>
                               "CINPUT" \in t.IC[j].inp_state /\ t.IC[j].focus
                        /\ "2BFOCUS" \in t.IC[j].inp_state =>
                               "2BYTES" \in t.IC[j].inp_state /\ t.IC[j].focus
    BY <1>1 DEF ICs
  <2> SUFFICES ASSUME NEW j \in IcId
               PROVE  /\ "XIMFOCUS" \in h.IC[j].inp_state =>
                             "CINPUT" \in h.IC[j].inp_state /\ h.IC[j].focus
                      /\ "2BFOCUS" \in h.IC[j].inp_state =>
                             "2BYTES" \in h.IC[j].inp_state /\ h.IC[j].focus
    OBVIOUS
  <2>2. CASE j = i
    BY <2>2
  <2>3. CASE j # i
    <3>1. h.IC[j] = t.IC[j]
      BY <2>3
    <3> QED BY <2>1, <3>1
  <2> QED BY <2>2, <2>3
<1>7. ICs(h)
  BY <1>4, <1>5, <1>6 DEF ICs
<1>8. \A j \in ICID : /\ Akin(t.IC[j], h.IC[j], Settings)
                      /\ t.IC[j].gwin # <<>> /\ "CINPUT" \in t.IC[j].inp_state
                             => "CINPUT" \in h.IC[j].inp_state
  BY DEF Akin, IcId
<1> QED BY <1>7, <1>8 DEF Retuned

\* set_focus and unset_focus of xim.c.
LEMMA FocusSet ==
    ASSUME NEW t, Good(t), NEW i \in ICID, t.IC[i].live
    PROVE  Ready(set_focus(t, i))
<1> DEFINE on(st) == IF "CINPUT" \in st THEN st \cup {"XIMFOCUS"} ELSE st
           z1 == [t.IC[i] EXCEPT !.focus = TRUE]
           x1 == [t EXCEPT !.IC[i] = z1]
           L  == x1.left \ {i}
           x2 == now_at(x1, i, L)
           z2 == [x2.IC[i] EXCEPT !.inp_state = on(x2.IC[i].inp_state)]
           x3 == [x2 EXCEPT !.IC[i] = z2]
           h  == changed(x3, {"IM", "FOCUS"})
<1>1. Base(t) /\ Lit(t) /\ t \in Screen /\ i \in IcId /\ i # NULL /\ t.IC[i] \in ICRec
  BY UpLit DEF Good, Base, Screen, IcId, ICID, NULL
<1>2. CASE t.IC[i].focus
  BY <1>2, GoodReady DEF set_focus
<1>3. CASE ~t.IC[i].focus
  <2>1. set_focus(t, i) = h
    BY <1>3 DEF set_focus, focus_changes, now_at
  <2>2. z1 \in ICRec /\ Akin(t.IC[i], z1, {"focus"}) /\ z1.focus
    BY <1>1 DEF ICRec, Akin, ICFields
  <2> HIDE DEF z1
  <2>3. /\ x1 \in Screen /\ Agree(t, x1, {"IC"}) /\ x1.IC[i] = z1
        /\ \A j \in IcId \ {i} : x1.IC[j] = t.IC[j]
    BY <1>1, <2>2, ICWritten DEF IcId
  <2> HIDE DEF x1
  <2>4. L \in SUBSET ICID /\ L = t.left \ {i}
    BY <2>3 DEF Screen, Agree, Fields
  <2> HIDE DEF L
  <2>5. /\ x2 \in Screen /\ Agree(x1, x2, {"ic", "left"}) /\ x2.ic = i /\ x2.left = L
    BY <1>1, <2>3, <2>4, NowAt
  <2> HIDE DEF x2
  <2>6. x2.IC = x1.IC
    BY <2>5 DEF Agree, Fields
  <2>7. /\ z2 \in ICRec /\ Akin(x2.IC[i], z2, {"inp_state"})
        /\ z2.inp_state = on(x2.IC[i].inp_state)
    <3>1. on(x2.IC[i].inp_state) \in SUBSET {"CINPUT", "XIMFOCUS", "2BYTES", "2BFOCUS"}
      BY <2>2, <2>3, <2>6 DEF ICRec
    <3> DEFINE st == on(x2.IC[i].inp_state)
    <3> HIDE DEF st
    <3>2. st \in SUBSET {"CINPUT", "XIMFOCUS", "2BYTES", "2BFOCUS"} /\ x2.IC[i] \in ICRec
      BY <2>2, <2>3, <2>6, <3>1 DEF st
    <3>3. z2 = [x2.IC[i] EXCEPT !.inp_state = st]
      BY DEF st
    <3> HIDE DEF z2
    <3>4. z2 \in ICRec /\ Akin(x2.IC[i], z2, {"inp_state"}) /\ z2.inp_state = st
      BY <3>2, <3>3 DEF ICRec, Akin, ICFields
    <3> QED BY <3>4 DEF st
  <2> HIDE DEF z2
  <2>8. /\ x3 \in Screen /\ Agree(x2, x3, {"IC"}) /\ x3.IC[i] = z2
        /\ \A j \in IcId \ {i} : x3.IC[j] = x2.IC[j]
    BY <1>1, <2>5, <2>7, ICWritten DEF IcId
  <2> HIDE DEF x3
  <2>9. h \in Screen /\ Agree(x3, h, {"winchange"}) /\ "IM" \in h.winchange
    <3>1. {"IM", "FOCUS"} \in SUBSET {"IM", "FOCUS"}
      OBVIOUS
    <3> DEFINE W == {"IM", "FOCUS"}
    <3>2. h = changed(x3, W) /\ W \in SUBSET {"IM", "FOCUS"} /\ "IM" \in W
      BY <3>1
    <3> HIDE DEF W, h
    <3> QED BY <2>8, <3>2, Flagged
  <2> HIDE DEF h
  <2>10. /\ h.IC = x3.IC /\ h.ic = i /\ h.icp = t.icp /\ h.left = t.left \ {i}
         /\ Agree(t, h, {"IC", "ic", "icp", "left", "winchange", "unseen"})
    BY <2>3, <2>4, <2>5, <2>8, <2>9 DEF Agree, Fields
  <2>11. /\ \A j \in IcId \ {i} : h.IC[j] = t.IC[j]
         /\ Akin(t.IC[i], h.IC[i], {"focus", "inp_state"}) /\ h.IC[i].focus
         /\ h.IC[i].inp_state = on(t.IC[i].inp_state)
    BY <2>2, <2>3, <2>6, <2>7, <2>8, <2>10 DEF Akin, ICFields
  <2>12. Akin(t.IC[i], h.IC[i], Settings)
    BY <2>11 DEF Akin, Settings
  <2>13. /\ "XIMFOCUS" \in on(t.IC[i].inp_state) => "CINPUT" \in on(t.IC[i].inp_state)
         /\ "2BFOCUS" \in on(t.IC[i].inp_state) => "2BYTES" \in on(t.IC[i].inp_state)
         /\ "CINPUT" \in t.IC[i].inp_state => "CINPUT" \in on(t.IC[i].inp_state)
    BY <1>1 DEF Base, ICs
  <2> HIDE DEF on
  <2>14. Retuned(t, h)
    BY <1>1, <2>9, <2>10, <2>11, <2>12, <2>13, OneRetuned
  <2>15. UpBefore(h)
    <3>1. \A j \in ICID : t.IC[j].live /\ (t.IC[j].focus \/ j \in t.left) =>
              h.IC[j].focus \/ j \in h.left
      BY <2>10, <2>11 DEF IcId
    <3> QED BY <1>1, <2>14, <3>1, StillUp
  <2> QED BY <1>1, <2>1, <2>9, <2>14, <2>15, RetunedBase DEF Ready, Good
<1> QED BY <1>2, <1>3

InpStates == SUBSET {"CINPUT", "XIMFOCUS", "2BYTES", "2BFOCUS"}

\* One field of an IC is set.
LEMMA ICFieldTyped ==
    ASSUME NEW z \in ICRec
    PROVE  /\ \A x \in BOOLEAN : /\ [z EXCEPT !.focus = x] \in ICRec
                                 /\ Akin(z, [z EXCEPT !.focus = x], {"focus"})
                                 /\ [z EXCEPT !.focus = x].focus = x
           /\ \A x \in BOOLEAN : /\ [z EXCEPT !.typed = x] \in ICRec
                                 /\ Akin(z, [z EXCEPT !.typed = x], {"typed"})
           /\ \A x \in BOOLEAN : /\ [z EXCEPT !.font_update = x] \in ICRec
                                 /\ Akin(z, [z EXCEPT !.font_update = x], {"font_update"})
           /\ \A x \in FontName \cup {NoName} :
                  /\ [z EXCEPT !.base_font = x] \in ICRec
                  /\ Akin(z, [z EXCEPT !.base_font = x], {"base_font"})
           /\ \A x \in Im : /\ [z EXCEPT !.inp_num = x] \in ICRec
                            /\ Akin(z, [z EXCEPT !.inp_num = x], {"inp_num"})
           /\ \A x \in InpStates :
                  /\ [z EXCEPT !.inp_state = x] \in ICRec
                  /\ Akin(z, [z EXCEPT !.inp_state = x], {"inp_state"})
                  /\ [z EXCEPT !.inp_state = x].inp_state = x
           /\ \A x \in Seq(Request) :
                  /\ [z EXCEPT !.gwin = x] \in ICRec
                  /\ Akin(z, [z EXCEPT !.gwin = x], {"gwin"})
                  /\ [z EXCEPT !.gwin = x].gwin = x
<1> QED BY DEF ICRec, Akin, ICFields, InpStates

\* unset_focus of xim.c.
LEMMA FocusUnset ==
    ASSUME NEW t, Good(t), NEW i \in ICID, t.IC[i].live
    PROVE  Ready(unset_focus(t, i))
<1> DEFINE z1 == [t.IC[i] EXCEPT !.focus = FALSE]
           x1 == [t EXCEPT !.IC[i] = z1]
           L  == IF t.ic = NULL THEN t.left \cup {i} ELSE t.left
           x2 == last_at(x1, i, L)
           st == x2.IC[i].inp_state \ {"XIMFOCUS", "2BFOCUS"}
           z2 == [x2.IC[i] EXCEPT !.inp_state = st]
           x3 == [x2 EXCEPT !.IC[i] = z2]
           h  == changed(x3, {"IM", "FOCUS"})
<1>1. Base(t) /\ Lit(t) /\ t \in Screen /\ i \in IcId /\ i # NULL /\ t.IC[i] \in ICRec
  BY UpLit DEF Good, Base, Screen, IcId, ICID, NULL
<1>2. CASE ~t.IC[i].focus
  BY <1>2, GoodReady DEF unset_focus
<1>3. CASE t.IC[i].focus
  <2>1. unset_focus(t, i) = h
    BY <1>3 DEF unset_focus, focus_changes, last_at
  <2>2. z1 \in ICRec /\ Akin(t.IC[i], z1, {"focus"}) /\ ~z1.focus
    BY <1>1, ICFieldTyped
  <2> HIDE DEF z1
  <2>3. /\ x1 \in Screen /\ Agree(t, x1, {"IC"}) /\ x1.IC[i] = z1
        /\ \A j \in IcId \ {i} : x1.IC[j] = t.IC[j]
    BY <1>1, <2>2, ICWritten DEF IcId
  <2> HIDE DEF x1
  <2>4. L \in SUBSET ICID /\ t.left \subseteq L /\ (t.ic = NULL => i \in L)
    <3>1. x1.ic = t.ic /\ x1.left = t.left
      BY <2>3 DEF Agree, Fields
    <3>2. t.left \in SUBSET ICID
      BY <1>1 DEF Screen
    <3> QED BY <3>1, <3>2
  <2> HIDE DEF L
  <2>5. /\ x2 \in Screen /\ Agree(x1, x2, {"icp", "left"}) /\ x2.icp = i /\ x2.left = L
    BY <1>1, <2>3, <2>4, LastAt
  <2> HIDE DEF x2
  <2>6. x2.IC = x1.IC
    BY <2>5 DEF Agree, Fields
  <2>7. /\ z2 \in ICRec /\ Akin(x2.IC[i], z2, {"inp_state"}) /\ z2.inp_state = st
        /\ st = t.IC[i].inp_state \ {"XIMFOCUS", "2BFOCUS"}
    <3>1. st \in InpStates /\ x2.IC[i] \in ICRec
      BY <2>2, <2>3, <2>6 DEF ICRec, InpStates
    <3>2. x2.IC[i].inp_state = t.IC[i].inp_state
      BY <2>2, <2>3, <2>6 DEF Akin, ICFields
    <3> HIDE DEF st
    <3>3. z2 \in ICRec /\ Akin(x2.IC[i], z2, {"inp_state"}) /\ z2.inp_state = st
      BY <3>1, ICFieldTyped
    <3> QED BY <3>2, <3>3 DEF st
  <2> HIDE DEF z2, st
  <2>8. /\ x3 \in Screen /\ Agree(x2, x3, {"IC"}) /\ x3.IC[i] = z2
        /\ \A j \in IcId \ {i} : x3.IC[j] = x2.IC[j]
    BY <1>1, <2>5, <2>7, ICWritten DEF IcId
  <2> HIDE DEF x3
  <2>9. h \in Screen /\ Agree(x3, h, {"winchange"}) /\ "IM" \in h.winchange
        /\ "FOCUS" \in h.winchange
    <3> DEFINE W == {"IM", "FOCUS"}
    <3>1. h = changed(x3, W) /\ W \in SUBSET {"IM", "FOCUS"} /\ "IM" \in W /\ "FOCUS" \in W
      OBVIOUS
    <3> HIDE DEF W, h
    <3> QED BY <2>8, <3>1, Flagged
  <2> HIDE DEF h
  <2>10. /\ h.IC = x3.IC /\ h.ic = t.ic /\ h.icp = i /\ h.left = L
         /\ Agree(t, h, {"IC", "ic", "icp", "left", "winchange", "unseen"})
    BY <2>3, <2>5, <2>8, <2>9 DEF Agree, Fields
  <2>11. /\ \A j \in IcId \ {i} : h.IC[j] = t.IC[j]
         /\ Akin(t.IC[i], h.IC[i], {"focus", "inp_state"})
         /\ h.IC[i].inp_state = st
    BY <2>2, <2>3, <2>6, <2>7, <2>8, <2>10 DEF Akin, ICFields
  <2>12. Akin(t.IC[i], h.IC[i], Settings)
    BY <2>11 DEF Akin, Settings
  <2>13. "XIMFOCUS" \notin st /\ "2BFOCUS" \notin st
         /\ ("CINPUT" \in t.IC[i].inp_state => "CINPUT" \in st)
    BY <2>7
  <2>14. Retuned(t, h)
    BY <1>1, <2>9, <2>10, <2>11, <2>12, <2>13, OneRetuned
  <2>15. UpBefore(h)
    <3>1. left_focus(h)
      BY <1>1, <2>9, <2>10 DEF left_focus
    <3>2. \A j \in ICID : t.IC[j].live /\ (t.IC[j].focus \/ j \in t.left) =>
              h.IC[j].focus \/ j \in h.left \/ (h.ic # NULL /\ j = h.icp /\ left_focus(h))
      BY <2>4, <2>10, <2>11, <3>1 DEF IcId
    <3> QED BY <1>1, <2>14, <3>2, StillUp
  <2> QED BY <1>1, <2>1, <2>9, <2>14, <2>15, RetunedBase DEF Ready, Good
<1> QED BY <1>2, <1>3

\* u is t with IC i set to something else.
Tuned(t, u, i) ==
    /\ u \in Screen /\ Agree(t, u, {"IC", "ic", "icp", "left", "winchange", "unseen"})
    /\ \A j \in IcId \ {i} : u.IC[j] = t.IC[j]
    /\ Akin(t.IC[i], u.IC[i], Settings)

\* Two settings of one IC.
LEMMA TunedTwice ==
    ASSUME NEW t, NEW u, NEW v, NEW i, Tuned(t, u, i), Tuned(u, v, i)
    PROVE  Tuned(t, v, i)
<1> QED BY DEF Tuned, Agree, Akin

\* Every window is drawn anew when the input method of an IC may have changed.
LEMMA TunedReady ==
    ASSUME NEW t, Base(t), Lit(t), Fixed(t), NEW i \in ICID, t.IC[i].live,
           NEW h, Tuned(t, h, i),
           t.IC[i].gwin # <<>> /\ "CINPUT" \in t.IC[i].inp_state => "CINPUT" \in h.IC[i].inp_state,
           "XIMFOCUS" \in h.IC[i].inp_state => "CINPUT" \in h.IC[i].inp_state /\ h.IC[i].focus,
           "2BFOCUS" \in h.IC[i].inp_state => "2BYTES" \in h.IC[i].inp_state /\ h.IC[i].focus,
           h.ic \in {t.ic, t.icp, i}, h.icp \in {t.ic, t.icp, i},
           t.left \ {i} \subseteq h.left, h.IC[i].focus \/ (~t.IC[i].focus /\ i \notin t.left \ h.left)
    PROVE  Base(h) /\ UpBefore(h) /\ Fixed(h) /\ SameFixed(t, h) /\ h.drawn = t.drawn
<1>1. h \in Screen /\ Agree(t, h, {"IC", "ic", "icp", "left", "winchange", "unseen"})
      /\ (\A j \in IcId \ {i} : h.IC[j] = t.IC[j]) /\ Akin(t.IC[i], h.IC[i], Settings)
  BY DEF Tuned
<1>2. Retuned(t, h)
  BY <1>1, OneRetuned
<1>3. \A j \in ICID : t.IC[j].live /\ (t.IC[j].focus \/ j \in t.left) =>
          h.IC[j].focus \/ j \in h.left
  <2> SUFFICES ASSUME NEW j \in ICID, t.IC[j].focus \/ j \in t.left
               PROVE  h.IC[j].focus \/ j \in h.left
    OBVIOUS
  <2>1. CASE j = i
    BY <2>1
  <2>2. CASE j # i
    BY <1>1, <2>2 DEF IcId
  <2> QED BY <2>1, <2>2
<1>4. UpBefore(h)
  BY <1>2, <1>3, StillUp
<1> QED BY <1>2, <1>4, RetunedBase

\* inp_state is one of the things a handler sets.
in_state(t, i, st) == [t EXCEPT !.IC[i] = [t.IC[i] EXCEPT !.inp_state = st]]

\* The modes of an IC are set, and the titles to be drawn.
LEMMA StateSet ==
    ASSUME NEW t \in Screen, NEW i \in ICID, NEW st \in InpStates
    PROVE  /\ Tuned(t, in_state(t, i, st), i) /\ in_state(t, i, st).IC[i].inp_state = st
           /\ in_state(t, i, st).IC[i].focus = t.IC[i].focus
           /\ Agree(t, in_state(t, i, st), {"IC"})
<1> DEFINE z == [t.IC[i] EXCEPT !.inp_state = st]
           u == [t EXCEPT !.IC[i] = z]
<1>1. in_state(t, i, st) = u
  BY DEF in_state
<1>2. t.IC[i] \in ICRec /\ i \in IcId
  BY DEF Screen, IcId
<1>3. z \in ICRec /\ Akin(t.IC[i], z, {"inp_state"}) /\ z.inp_state = st
  BY <1>2, ICFieldTyped
<1> HIDE DEF z
<1>4. u \in Screen /\ Agree(t, u, {"IC"}) /\ u.IC[i] = z /\ \A j \in IcId \ {i} : u.IC[j] = t.IC[j]
  BY <1>2, <1>3, ICWritten DEF IcId
<1> HIDE DEF u
<1>5. Agree(t, u, {"IC", "ic", "icp", "left", "winchange", "unseen"})
  BY <1>4 DEF Agree
<1>6. Akin(t.IC[i], u.IC[i], Settings) /\ u.IC[i].focus = t.IC[i].focus
  BY <1>3, <1>4 DEF Akin, ICFields, Settings
<1> QED BY <1>1, <1>3, <1>4, <1>5, <1>6 DEF Tuned

LEMMA ImFlagged ==
    ASSUME NEW t \in Screen, NEW i \in ICID
    PROVE  /\ Tuned(t, changed(t, {"IM"}), i) /\ "IM" \in changed(t, {"IM"}).winchange
           /\ Agree(t, changed(t, {"IM"}), {"winchange"})
<1> DEFINE W == {"IM"}
           h == changed(t, W)
<1>1. W \in SUBSET {"IM", "FOCUS"} /\ "IM" \in W
  OBVIOUS
<1> HIDE DEF W
<1>2. h \in Screen /\ Agree(t, h, {"winchange"}) /\ "IM" \in h.winchange
  BY <1>1, Flagged
<1> HIDE DEF h
<1>3. Tuned(t, h, i)
  BY <1>2 DEF Tuned, Agree, Akin, Fields
<1> QED BY <1>2, <1>3 DEF h, W

\* A key that turns the two-byte mode on or off.
LEMMA Toggled ==
    ASSUME NEW t \in Screen, NEW i \in ICID
    PROVE  /\ Tuned(t, toggle_2bytes(t, i), i) /\ "IM" \in toggle_2bytes(t, i).winchange
           /\ Agree(t, toggle_2bytes(t, i), {"IC", "winchange"})
           /\ toggle_2bytes(t, i).IC[i].focus = t.IC[i].focus
           /\ toggle_2bytes(t, i).IC[i].inp_state =
                  IF "2BYTES" \in t.IC[i].inp_state THEN t.IC[i].inp_state \ wide
                  ELSE t.IC[i].inp_state \cup wide
<1> DEFINE st == IF "2BYTES" \in t.IC[i].inp_state THEN t.IC[i].inp_state \ wide
                 ELSE t.IC[i].inp_state \cup wide
           u  == in_state(t, i, st)
           h  == changed(u, {"IM"})
<1>1. toggle_2bytes(t, i) = h
  BY DEF toggle_2bytes, in_state
<1>2. st \in InpStates
  <2>1. t.IC[i].inp_state \in InpStates
    BY DEF Screen, ICRec, InpStates
  <2> QED BY <2>1 DEF InpStates, wide
<1> HIDE DEF st
<1>3. Tuned(t, u, i) /\ u.IC[i].inp_state = st /\ u.IC[i].focus = t.IC[i].focus
      /\ Agree(t, u, {"IC"})
  BY <1>2, StateSet
<1> HIDE DEF u
<1>4. u \in Screen
  BY <1>3 DEF Tuned
<1>5. Tuned(u, h, i) /\ "IM" \in h.winchange /\ Agree(u, h, {"winchange"})
  BY <1>4, ImFlagged
<1> HIDE DEF h
<1>6. h.IC = u.IC /\ Agree(t, h, {"IC", "winchange"})
  BY <1>3, <1>5 DEF Agree, Fields
<1> QED BY <1>1, <1>3, <1>5, <1>6, TunedTwice DEF st

\* The windows of the requests of an IMC, of which there is at most one.
freed(t, i, k) ==
    IF k <= Len(t.IC[i].gwin) THEN free_child(t, t.IC[i].gwin[k].window) ELSE t

\* free_requests() with one request.
LEMMA RequestsFreed ==
    ASSUME MaxReq = 1, NEW t, NEW i
    PROVE  free_requests(t, i) = freed(t, i, 1)
<1> DEFINE sq == [k \in 1 .. MaxReq |-> k]
           Body(f) == [S \in SUBSET DOMAIN sq |->
                          IF S = {} THEN t
                          ELSE freed(f[S \ {Max(S)}], i, sq[Max(S)])]
           F  == [S \in SUBSET DOMAIN sq |-> IF S = {} THEN t ELSE freed(t, i, 1)]
           it == CHOOSE f : f = Body(f)
<1>1. free_requests(t, i) = it[DOMAIN sq]
  BY DEF free_requests, FoldLeft, MapThenFoldSet, freed
<1>2. DOMAIN sq = {1} /\ sq[1] = 1 /\ SUBSET DOMAIN sq = {{}, {1}}
  OBVIOUS
<1>3. Max({1}) = 1
  BY DEF Max
<1> HIDE DEF sq
<1>4. F = Body(F)
  <2>1. \A S \in SUBSET DOMAIN sq : F[S] = Body(F)[S]
    <3> SUFFICES ASSUME NEW S \in SUBSET DOMAIN sq
                 PROVE  F[S] = Body(F)[S]
      OBVIOUS
    <3>1. CASE S = {}
      BY <3>1
    <3>2. CASE S = {1}
      <4>1. S \ {Max(S)} = {} /\ sq[Max(S)] = 1
        BY <1>2, <1>3, <3>2
      <4>2. F[{}] = t
        OBVIOUS
      <4> QED BY <3>2, <4>1, <4>2
    <3> QED BY <1>2, <3>1, <3>2
  <2>2. F = [S \in SUBSET DOMAIN sq |-> F[S]]
    OBVIOUS
  <2>3. Body(F) = [S \in SUBSET DOMAIN sq |-> Body(F)[S]]
    OBVIOUS
  <2> HIDE DEF F, Body
  <2> QED BY <2>1, <2>2, <2>3
<1>5. it = Body(it)
  <2> HIDE DEF F, Body
  <2> QED BY <1>4
<1>6. it[{1}] = freed(it[{}], i, 1) /\ it[{}] = t
  <2> HIDE DEF it
  <2>1. it[{}] = Body(it)[{}] /\ it[{1}] = Body(it)[{1}]
    BY <1>5
  <2>2. Body(it)[{}] = t
    OBVIOUS
  <2>3. Body(it)[{1}] = freed(it[{1} \ {Max({1})}], i, sq[Max({1})])
    BY <1>2
  <2>4. {1} \ {Max({1})} = {} /\ sq[Max({1})] = 1
    BY <1>2, <1>3
  <2> QED BY <2>1, <2>2, <2>3, <2>4
<1> QED BY <1>1, <1>2, <1>6

-----------------------------------------------------------------------------
\* A step that writes no window leaves the windows as they are.
LEMMA HeapSame ==
    ASSUME NEW t \in Screen, Heap(t), NEW u \in Screen,
           Agree(t, u, {"IC", "ic", "icp", "left", "winchange", "unseen", "mode", "drawn",
                        "mainwin", "mainwin2"})
    PROVE  Heap(u) /\ wins(u) = wins(t) /\ u.win = t.win
<1>1. u.win = t.win
  BY DEF Agree, Fields
<1>2. \A r \in DOMAIN t.win : Alike(t.win[r], u.win[r], {"map", "kind", "imid", "data"})
  BY <1>1 DEF Alike
<1>3. Agree(t, u, Fields \ {"winlist", "free_win", "fonts", "xwin", "xid"})
  BY DEF Agree, Fields
<1> QED BY <1>1, <1>2, <1>3, HeapKept

\* The input method of IC i is off: its menu is gone, and no other window.
Ended(t, u, i) ==
    /\ u \in Screen /\ Heap(u) /\ wins(u) = {r \in wins(t) : ~MenuOf(t, r, i)}
    /\ Agree(t, u, {"win", "winlist", "free_win", "fonts", "xwin", "IC"})
    /\ \A q \in wins(u) : Alike(t.win[q], u.win[q], {"next"})
    /\ \A j \in IcId \ {i} : u.IC[j] = t.IC[j]
    /\ Akin(t.IC[i], u.IC[i], {"gwin", "typed"}) /\ u.IC[i].gwin = <<>>

\* call_xim_end().
LEMMA XimEnded ==
    ASSUME MaxReq = 1, NEW t, Base(t), NEW i \in ICID
    PROVE  Ended(t, call_xim_end(t, i), i)
<1>1. t \in Screen /\ Heap(t) /\ t.IC[i] \in ICRec /\ i \in IcId /\ t.IC[i].gwin \in Seq(Request)
  BY DEF Base, Screen, IcId, ICRec
<1>2. ASSUME t.IC[i].gwin = <<>>
      PROVE  wins(t) = {r \in wins(t) : ~MenuOf(t, r, i)}
  <2>1. Len(t.IC[i].gwin) # 1
    BY <1>2
  <2> QED BY <2>1 DEF MenuOf
<1>3. CASE "CINPUT" \notin t.IC[i].inp_state
  <2>1. t.IC[i].gwin = <<>>
    BY <1>3 DEF Base, Own
  <2>2. call_xim_end(t, i) = t
    BY <1>3 DEF call_xim_end, is_on
  <2> QED BY <1>1, <1>2, <2>1, <2>2 DEF Ended, Agree, Alike, Akin
<1>4. CASE "CINPUT" \in t.IC[i].inp_state
  <2> DEFINE x  == freed(t, i, 1)
             z1 == [x.IC[i] EXCEPT !.gwin = <<>>]
             x1 == [x EXCEPT !.IC[i] = z1]
             z2 == [x1.IC[i] EXCEPT !.typed = FALSE]
             u  == [x1 EXCEPT !.IC[i] = z2]
  <2>1. call_xim_end(t, i) = u
    <3>1. free_requests(t, i) = x
      BY RequestsFreed
    <3>2. call_xim_end(t, i) = [x EXCEPT !.IC[i].gwin = <<>>, !.IC[i].typed = FALSE]
      BY <1>4, <3>1 DEF call_xim_end, is_on
    <3> HIDE DEF x
    <3> QED BY <3>2
  <2>2. /\ x \in Screen /\ Heap(x) /\ wins(x) = {r \in wins(t) : ~MenuOf(t, r, i)}
        /\ Agree(t, x, {"win", "winlist", "free_win", "fonts", "xwin", "IC"})
        /\ \A q \in wins(x) : Alike(t.win[q], x.win[q], {"next"})
        /\ \A j \in IcId \ {i} : x.IC[j] = t.IC[j]
        /\ Akin(t.IC[i], x.IC[i], {"gwin", "typed"})
    <3>1. CASE t.IC[i].gwin = <<>>
      <4>1. x = t
        BY <1>1, <3>1 DEF freed
      <4> QED BY <1>1, <1>2, <3>1, <4>1 DEF Agree, Alike, Akin
    <3>2. CASE t.IC[i].gwin # <<>>
      <4>1. PICK r \in wins(t) : MenuOf(t, r, i)
        BY <3>2 DEF Base, Own
      <4>2. Len(t.IC[i].gwin) = 1 /\ t.IC[i].gwin[1].window = t.win[r].window
            /\ t.win[r].kind = "menusel" /\ t.win[r].imid = i /\ t.win[r].data = 1
            /\ t.IC[i].live
        BY <4>1 DEF MenuOf
      <4>3. x = free_child(t, t.win[r].window)
        BY <4>2 DEF freed
      <4> HIDE DEF x
      <4>4. Removed(t, x, r) /\ x.IC = IF t.IC[i].gwin[1].callback THEN unasked(t, i) ELSE t.IC
        BY <1>1, <4>2, <4>3, MenuFreed
      <4>5. \A q \in wins(t) : MenuOf(t, q, i) <=> q = r
        BY <4>1 DEF MenuOf, Base, Heap
      <4>6. wins(x) = {q \in wins(t) : ~MenuOf(t, q, i)}
        BY <4>4, <4>5 DEF Removed
      <4>7. (\A j \in IcId \ {i} : x.IC[j] = t.IC[j]) /\ Akin(t.IC[i], x.IC[i], {"gwin", "typed"})
        <5>1. CASE x.IC = t.IC
          BY <5>1 DEF Akin
        <5>2. CASE x.IC = unasked(t, i)
          <6> DEFINE z == [t.IC[i] EXCEPT !.gwin = <<>>]
          <6>1. x.IC = [t.IC EXCEPT ![i] = z]
            BY <5>2 DEF unasked
          <6>2. Akin(t.IC[i], z, {"gwin", "typed"})
            BY <1>1 DEF Akin, ICFields, ICRec
          <6> HIDE DEF z
          <6>3. t.IC \in [IcId -> ICRec]
            BY <1>1 DEF Screen, IcId
          <6> QED BY <1>1, <6>1, <6>2, <6>3
        <5> QED BY <4>4, <5>1, <5>2
      <4> QED BY <4>4, <4>6, <4>7 DEF Removed
    <3> QED BY <3>1, <3>2
  <2> HIDE DEF x
  <2>3. z1 \in ICRec /\ Akin(x.IC[i], z1, {"gwin"}) /\ z1.gwin = <<>>
    <3>1. x.IC[i] \in ICRec /\ <<>> \in Seq(Request)
      BY <1>1, <2>2 DEF Screen, IcId
    <3> QED BY <3>1, ICFieldTyped
  <2> HIDE DEF z1
  <2>4. x1 \in Screen /\ Agree(x, x1, {"IC"}) /\ x1.IC[i] = z1
        /\ \A j \in IcId \ {i} : x1.IC[j] = x.IC[j]
    BY <1>1, <2>2, <2>3, ICWritten DEF IcId
  <2> HIDE DEF x1
  <2>5. z2 \in ICRec /\ Akin(x1.IC[i], z2, {"typed"})
    BY <2>3, <2>4, ICFieldTyped
  <2> HIDE DEF z2
  <2>6. u \in Screen /\ Agree(x1, u, {"IC"}) /\ u.IC[i] = z2
        /\ \A j \in IcId \ {i} : u.IC[j] = x1.IC[j]
    BY <1>1, <2>4, <2>5, ICWritten DEF IcId
  <2> HIDE DEF u
  <2>7. Agree(x, u, {"IC"})
    BY <2>4, <2>6 DEF Agree
  <2>8. Heap(u) /\ wins(u) = wins(x) /\ u.win = x.win
    <3>1. Agree(x, u, {"IC", "ic", "icp", "left", "winchange", "unseen", "mode", "drawn",
                       "mainwin", "mainwin2"})
      BY <2>7 DEF Agree
    <3> QED BY <2>2, <2>6, <3>1, HeapSame
  <2>9. Akin(t.IC[i], u.IC[i], {"gwin", "typed"}) /\ u.IC[i].gwin = <<>>
    BY <2>2, <2>3, <2>4, <2>5, <2>6 DEF Akin, ICFields
  <2>10. Agree(t, u, {"win", "winlist", "free_win", "fonts", "xwin", "IC"})
    BY <2>2, <2>7 DEF Agree
  <2>11. Ended(t, u, i)
    BY <2>2, <2>4, <2>6, <2>8, <2>9, <2>10 DEF Ended
  <2> QED BY <2>1, <2>11
<1> QED BY <1>3, <1>4

\* The other windows are as they were.
LEMMA EndedKeeps ==
    ASSUME NEW t, Base(t), NEW i \in ICID, NEW u, Ended(t, u, i)
    PROVE  /\ Base(u) /\ SameFixed(t, u) /\ (Lit(t) => Lit(u)) /\ (Fixed(t) => Fixed(u))
           /\ u.ic = t.ic /\ u.icp = t.icp /\ u.left = t.left /\ u.winchange = t.winchange
           /\ u.drawn = t.drawn /\ u.unseen = t.unseen
<1>1. /\ u \in Screen /\ Heap(u) /\ wins(u) = {r \in wins(t) : ~MenuOf(t, r, i)}
      /\ \A j \in IcId \ {i} : u.IC[j] = t.IC[j]
      /\ u.IC[i].gwin = <<>>
  BY DEF Ended
<1>2. /\ u.ic = t.ic /\ u.icp = t.icp /\ u.left = t.left /\ u.winchange = t.winchange
      /\ u.drawn = t.drawn /\ u.unseen = t.unseen /\ u.mode = t.mode
      /\ u.mainwin = t.mainwin /\ u.mainwin2 = t.mainwin2
  BY DEF Ended, Agree, Fields
<1>3. \A j \in IcId : /\ u.IC[j].live = t.IC[j].live /\ u.IC[j].style = t.IC[j].style
                      /\ u.IC[j].focus = t.IC[j].focus /\ u.IC[j].inp_state = t.IC[j].inp_state
                      /\ u.IC[j].overspot_win = t.IC[j].overspot_win
                      /\ (j # i => u.IC[j].gwin = t.IC[j].gwin)
  BY DEF Ended, Akin, ICFields
<1>4. \A q \in wins(u) : /\ q \in wins(t) /\ u.win[q].window = t.win[q].window
                         /\ u.win[q].kind = t.win[q].kind /\ u.win[q].imid = t.win[q].imid
                         /\ u.win[q].data = t.win[q].data /\ u.win[q].map = t.win[q].map
  BY <1>1 DEF Ended, Alike, WinFields
<1>5. ICID \subseteq IcId /\ NULL \in IcId /\ t.ic \in IcId /\ t.icp \in IcId
  BY DEF IcId, Base, Screen
<1>6. \A q \in wins(u), j \in ICID : SpotOf(t, q, j) => SpotOf(u, q, j)
  BY <1>3, <1>4, <1>5 DEF SpotOf
<1>7. \A q \in wins(u), j \in ICID : MenuOf(t, q, j) => j # i /\ MenuOf(u, q, j)
  <2> SUFFICES ASSUME NEW q \in wins(u), NEW j \in ICID, MenuOf(t, q, j)
               PROVE  j # i /\ MenuOf(u, q, j)
    OBVIOUS
  <2>1. j # i
    BY <1>1
  <2> QED BY <1>3, <1>4, <1>5, <2>1 DEF MenuOf
<1>8. \A q \in wins(u) : \A k, m : MainOf(t, q, k, m) => MainOf(u, q, k, m)
  BY <1>4 DEF MainOf
<1>9. Own(u)
  <2>1. \A r \in wins(u) : \/ MainOf(u, r, "main", u.mainwin)
                           \/ MainOf(u, r, "main2", u.mainwin2)
                           \/ \E j \in ICID : SpotOf(u, r, j) \/ MenuOf(u, r, j)
    BY <1>2, <1>4, <1>6, <1>7, <1>8 DEF Base, Own
  <2>2. /\ u.mainwin # NULL => u.mainwin \in wins(u) /\ u.win[u.mainwin].kind = "main"
        /\ u.mainwin2 # NULL => u.mainwin2 \in wins(u) /\ u.win[u.mainwin2].kind = "main2"
    <3>1. /\ t.mainwin # NULL => t.mainwin \in wins(t) /\ t.win[t.mainwin].kind = "main"
          /\ t.mainwin2 # NULL => t.mainwin2 \in wins(t) /\ t.win[t.mainwin2].kind = "main2"
      BY DEF Base, Own
    <3>2. \A r \in wins(t) : MenuOf(t, r, i) => t.win[r].kind = "menusel"
      BY DEF MenuOf
    <3> QED BY <1>1, <1>2, <1>4, <3>1, <3>2
  <2>3. \A j \in ICID : u.IC[j].overspot_win # NULL => \E r \in wins(u) : SpotOf(u, r, j)
    <3> SUFFICES ASSUME NEW j \in ICID, u.IC[j].overspot_win # NULL
                 PROVE  \E r \in wins(u) : SpotOf(u, r, j)
      OBVIOUS
    <3>1. PICK r \in wins(t) : SpotOf(t, r, j)
      BY <1>3, <1>5 DEF Base, Own
    <3>2. r \in wins(u)
      BY <1>1, <3>1 DEF SpotOf, MenuOf
    <3> QED BY <1>6, <3>1, <3>2
  <2>4. \A j \in ICID : u.IC[j].gwin # <<>> =>
            "CINPUT" \in u.IC[j].inp_state /\ \E r \in wins(u) : MenuOf(u, r, j)
    <3> SUFFICES ASSUME NEW j \in ICID, u.IC[j].gwin # <<>>
                 PROVE  "CINPUT" \in u.IC[j].inp_state /\ \E r \in wins(u) : MenuOf(u, r, j)
      OBVIOUS
    <3>1. j # i /\ t.IC[j].gwin # <<>>
      BY <1>1, <1>3, <1>5
    <3>2. "CINPUT" \in t.IC[j].inp_state /\ \E r \in wins(t) : MenuOf(t, r, j)
      BY <3>1 DEF Base, Own
    <3>3. PICK r \in wins(t) : MenuOf(t, r, j)
      BY <3>2
    <3>4. r \in wins(u)
      BY <1>1, <3>1, <3>3 DEF MenuOf
    <3> QED BY <1>3, <1>5, <1>7, <3>2, <3>3, <3>4
  <2> QED BY <2>1, <2>2, <2>3, <2>4 DEF Own
<1>10. ICs(u)
  <2>1. /\ u.ic # NULL => u.IC[u.ic].live
        /\ u.icp # NULL => u.IC[u.icp].live
        /\ ~u.IC[NULL].live
    BY <1>2, <1>3, <1>5 DEF Base, ICs
  <2>2. \A j \in IcId : ~u.IC[j].live => /\ u.IC[j].overspot_win = NULL /\ u.IC[j].gwin = <<>>
                                         /\ ~u.IC[j].focus /\ u.IC[j].inp_state = {}
    BY <1>1, <1>3, <1>5 DEF Base, ICs
  <2>3. /\ \A j \in IcId : "XIMFOCUS" \in u.IC[j].inp_state =>
                               "CINPUT" \in u.IC[j].inp_state /\ u.IC[j].focus
        /\ \A j \in IcId : "2BFOCUS" \in u.IC[j].inp_state =>
                               "2BYTES" \in u.IC[j].inp_state /\ u.IC[j].focus
    BY <1>3 DEF Base, ICs
  <2> QED BY <2>1, <2>2, <2>3 DEF ICs
<1>11. SameFixed(t, u)
  <2>1. /\ t.mainwin # NULL => u.win[t.mainwin].map = t.win[t.mainwin].map
        /\ t.mainwin2 # NULL => u.win[t.mainwin2].map = t.win[t.mainwin2].map
    BY <1>2, <1>4, <1>9 DEF Own
  <2> QED BY <1>2, <2>1 DEF SameFixed, mapped
<1>12. Lit(t) => Lit(u)
  <2> SUFFICES ASSUME Lit(t), NEW r \in wins(u), mapped(u, r), u.win[r].imid # NULL
               PROVE  u.IC[u.win[r].imid].focus \/ u.win[r].imid \in u.left
    BY DEF Lit
  <2>1. r \in wins(t) /\ mapped(t, r) /\ u.win[r].imid = t.win[r].imid
    BY <1>4 DEF mapped
  <2>2. t.win[r].imid \in IcId
    BY <1>5, <2>1, Owners
  <2> QED BY <1>2, <1>3, <2>1, <2>2 DEF Lit
<1>13. Fixed(t) => Fixed(u)
  BY <1>11, FixedKept
<1> QED BY <1>1, <1>2, <1>9, <1>10, <1>11, <1>12, <1>13 DEF Base

-----------------------------------------------------------------------------
\* change_IM of fkey.c and gen-inp.
turned_on(t, i, n) ==
    in_state([t EXCEPT !.IC[i] = [t.IC[i] EXCEPT !.inp_num = n]], i,
             t.IC[i].inp_state \cup {"CINPUT", "XIMFOCUS"})

\* The new input method is on.
LEMMA TurnedOn ==
    ASSUME NEW t \in Screen, NEW i \in ICID, NEW n \in Im
    PROVE  /\ Tuned(t, turned_on(t, i, n), i) /\ Agree(t, turned_on(t, i, n), {"IC"})
           /\ turned_on(t, i, n).IC[i].focus = t.IC[i].focus
           /\ turned_on(t, i, n).IC[i].inp_state = t.IC[i].inp_state \cup {"CINPUT", "XIMFOCUS"}
<1> DEFINE z  == [t.IC[i] EXCEPT !.inp_num = n]
           x  == [t EXCEPT !.IC[i] = z]
           st == t.IC[i].inp_state \cup {"CINPUT", "XIMFOCUS"}
           h  == in_state(x, i, st)
<1>1. turned_on(t, i, n) = h
  BY DEF turned_on
<1>2. t.IC[i] \in ICRec /\ i \in IcId
  BY DEF Screen, IcId
<1>3. st \in InpStates
  BY <1>2 DEF ICRec, InpStates
<1> HIDE DEF st
<1>4. z \in ICRec /\ Akin(t.IC[i], z, {"inp_num"})
  BY <1>2, ICFieldTyped
<1> HIDE DEF z
<1>5. x \in Screen /\ Agree(t, x, {"IC"}) /\ x.IC[i] = z /\ \A j \in IcId \ {i} : x.IC[j] = t.IC[j]
  BY <1>2, <1>4, ICWritten DEF IcId
<1> HIDE DEF x
<1>6. Tuned(t, x, i) /\ x.IC[i].focus = t.IC[i].focus
  <2>1. Agree(t, x, {"IC", "ic", "icp", "left", "winchange", "unseen"})
    BY <1>5 DEF Agree
  <2>2. Akin(t.IC[i], x.IC[i], Settings) /\ x.IC[i].focus = t.IC[i].focus
    BY <1>4, <1>5 DEF Akin, ICFields, Settings
  <2> QED BY <1>5, <2>1, <2>2 DEF Tuned
<1>7. Tuned(x, h, i) /\ h.IC[i].inp_state = st /\ h.IC[i].focus = x.IC[i].focus
      /\ Agree(x, h, {"IC"})
  BY <1>3, <1>5, StateSet
<1> HIDE DEF h
<1>8. Agree(t, h, {"IC"})
  BY <1>5, <1>7 DEF Agree
<1> QED BY <1>1, <1>6, <1>7, <1>8, TunedTwice DEF st

\* Any handler that has redrawn what a change of input methods may change.
ImReady(h) == Base(h) /\ UpBefore(h) /\ Fixed(h) /\ "IM" \in h.winchange

\* The input method of the IC that has the focus is changed, or turned off.
LEMMA ImChanged ==
    ASSUME MaxReq = 1, NEW t, Base(t), Lit(t), Fixed(t), NEW i \in ICID, t.IC[i].live,
           t.IC[i].focus, NEW n, n = English \/ n \in Im
    PROVE  ImReady(change_IM(t, i, n))
<1> DEFINE ends == is_on(t, i, "CINPUT") /\ n # t.IC[i].inp_num
           e    == IF ends THEN call_xim_end(t, i) ELSE t
           st   == IF ends THEN e.IC[i].inp_state \ {"CINPUT", "XIMFOCUS"}
                   ELSE e.IC[i].inp_state
           x    == IF ends THEN in_state(e, i, st) ELSE e
           y    == IF n = English THEN x ELSE turned_on(x, i, n)
           h    == changed(y, {"IM"})
<1>1. change_IM(t, i, n) = h
  <2>1. \A u : [u EXCEPT !.IC[i].inp_num = n, !.IC[i].inp_state = @ \cup {"CINPUT", "XIMFOCUS"}]
               = turned_on(u, i, n)
    BY DEF turned_on, in_state
  <2> DEFINE old == IF ends
                    THEN [call_xim_end(t, i) EXCEPT
                              !.IC[i].inp_state = @ \ {"CINPUT", "XIMFOCUS"}]
                    ELSE t
  <2>2. old = x
    <3>1. CASE ends
      <4>1. e = call_xim_end(t, i)
        BY <3>1
      <4>2. x = in_state(e, i, e.IC[i].inp_state \ {"CINPUT", "XIMFOCUS"})
        BY <3>1
      <4> HIDE DEF x
      <4>3. old = [e EXCEPT !.IC[i].inp_state = @ \ {"CINPUT", "XIMFOCUS"}]
        BY <3>1
      <4> HIDE DEF e, old
      <4> QED BY <4>2, <4>3 DEF in_state
    <3>2. CASE ~ends
      BY <3>2
    <3> QED BY <3>1, <3>2
  <2>3. change_IM(t, i, n)
        = changed(IF n = English THEN old
                  ELSE [old EXCEPT !.IC[i].inp_num = n,
                                   !.IC[i].inp_state = @ \cup {"CINPUT", "XIMFOCUS"}], {"IM"})
    BY DEF change_IM
  <2> HIDE DEF old, x
  <2> QED BY <2>1, <2>2, <2>3
<1>2. t \in Screen /\ i \in IcId /\ i # NULL
  BY DEF Base, IcId, ICID, NULL
<1>3. /\ Base(e) /\ Lit(e) /\ Fixed(e) /\ e.IC[i].live /\ e.IC[i].focus
      /\ e.ic = t.ic /\ e.icp = t.icp /\ e.left = t.left
      /\ (ends => e.IC[i].gwin = <<>>)
  <2>1. CASE ends
    <3>1. e = call_xim_end(t, i)
      BY <2>1
    <3> HIDE DEF e
    <3>2. Ended(t, e, i)
      BY <3>1, XimEnded
    <3>3. e.IC[i].live /\ e.IC[i].focus /\ e.IC[i].gwin = <<>>
      BY <3>2 DEF Ended, Akin, ICFields
    <3> QED BY <3>2, <3>3, EndedKeeps
  <2>2. CASE ~ends
    BY <2>2
  <2> QED BY <2>1, <2>2
<1> HIDE DEF e, ends
<1>4. e \in Screen /\ e.IC[i] \in ICRec
  BY <1>2, <1>3 DEF Base, Screen, IcId
<1>5. st \in InpStates /\ (~ends => ("CINPUT" \in e.IC[i].inp_state => "CINPUT" \in st))
      /\ ("XIMFOCUS" \in st => "CINPUT" \in st) /\ ("2BFOCUS" \in st => "2BYTES" \in st)
  <2>1. e.IC[i].inp_state \in InpStates
    BY <1>4 DEF ICRec, InpStates
  <2>2. /\ "XIMFOCUS" \in e.IC[i].inp_state => "CINPUT" \in e.IC[i].inp_state
        /\ "2BFOCUS" \in e.IC[i].inp_state => "2BYTES" \in e.IC[i].inp_state
    BY <1>2, <1>3 DEF Base, ICs
  <2> QED BY <2>1, <2>2 DEF InpStates
<1>6. Tuned(e, x, i) /\ Agree(e, x, {"IC"}) /\ x.IC[i].inp_state = st
      /\ x.IC[i].focus = e.IC[i].focus
  <2>1. CASE ends
    <3>1. x = in_state(e, i, st)
      BY <2>1
    <3> HIDE DEF x, st
    <3> QED BY <1>4, <1>5, <3>1, StateSet
  <2>2. CASE ~ends
    <3>1. x = e /\ st = e.IC[i].inp_state
      BY <2>2
    <3> QED BY <1>4, <3>1 DEF Tuned, Agree, Akin
  <2> QED BY <2>1, <2>2
<1> HIDE DEF x, st
<1>7. /\ Tuned(e, y, i) /\ Agree(e, y, {"IC"}) /\ y.IC[i].focus = e.IC[i].focus
      /\ st \subseteq y.IC[i].inp_state
      /\ y.IC[i].inp_state = st \/ y.IC[i].inp_state = st \cup {"CINPUT", "XIMFOCUS"}
  <2>1. CASE n = English
    <3>1. y = x
      BY <2>1
    <3> QED BY <1>6, <3>1
  <2>2. CASE n # English
    <3>1. y = turned_on(x, i, n) /\ n \in Im
      BY <2>2
    <3> HIDE DEF y
    <3>2. x \in Screen
      BY <1>6 DEF Tuned
    <3>3. Tuned(x, y, i) /\ Agree(x, y, {"IC"}) /\ y.IC[i].focus = x.IC[i].focus
          /\ y.IC[i].inp_state = x.IC[i].inp_state \cup {"CINPUT", "XIMFOCUS"}
      BY <3>1, <3>2, TurnedOn
    <3>4. Agree(e, y, {"IC"})
      BY <1>6, <3>3 DEF Agree
    <3> QED BY <1>6, <3>3, <3>4, TunedTwice
  <2> QED BY <2>1, <2>2
<1> HIDE DEF y
<1>8. y \in Screen
  BY <1>7 DEF Tuned
<1>9. Tuned(y, h, i) /\ "IM" \in h.winchange /\ Agree(y, h, {"winchange"})
  BY <1>8, ImFlagged
<1> HIDE DEF h
<1>10. Tuned(e, h, i) /\ h.IC = y.IC /\ h.ic = e.ic /\ h.icp = e.icp /\ h.left = e.left
  BY <1>7, <1>9, TunedTwice DEF Agree, Fields
<1>11. /\ e.IC[i].gwin # <<>> /\ "CINPUT" \in e.IC[i].inp_state => "CINPUT" \in h.IC[i].inp_state
       /\ "XIMFOCUS" \in h.IC[i].inp_state => "CINPUT" \in h.IC[i].inp_state /\ h.IC[i].focus
       /\ "2BFOCUS" \in h.IC[i].inp_state => "2BYTES" \in h.IC[i].inp_state /\ h.IC[i].focus
       /\ h.IC[i].focus
  <2>1. h.IC[i].focus
    BY <1>3, <1>7, <1>10
  <2>2. h.IC[i].inp_state = st \/ h.IC[i].inp_state = st \cup {"CINPUT", "XIMFOCUS"}
    BY <1>7, <1>10
  <2>3. e.IC[i].gwin # <<>> /\ "CINPUT" \in e.IC[i].inp_state => "CINPUT" \in st
    <3>1. CASE ends
      BY <1>3, <3>1
    <3>2. CASE ~ends
      BY <1>5, <3>2
    <3> QED BY <3>1, <3>2
  <2> QED BY <1>5, <2>1, <2>2, <2>3
<1>12. Base(h) /\ UpBefore(h) /\ Fixed(h)
  BY <1>3, <1>10, <1>11, TunedReady
<1> QED BY <1>1, <1>9, <1>12 DEF ImReady

\* The IC of a trigger key becomes the current one.
Turned(t, b, i) ==
    /\ Tuned(t, b, i) /\ Agree(t, b, {"IC", "ic", "icp", "left"})
    /\ b.ic = i /\ b.icp = t.ic /\ b.left = t.left \ {i} /\ b.IC[i].focus
    /\ b.IC[i].inp_state = t.IC[i].inp_state

come(t, i) == [[t EXCEPT !.icp = t.ic] EXCEPT !.ic = i]
stay(t, L) == [t EXCEPT !.left = L]

\* The first assignments of the trigger handler, and what they leave.
LEMMA BaseTriggered ==
    ASSUME NEW t \in Screen, NEW i \in ICID
    PROVE  Turned(t, trigger_base(t, i), i)
<1> DEFINE x1 == come(t, i)
           z  == [x1.IC[i] EXCEPT !.focus = TRUE]
           x2 == [x1 EXCEPT !.IC[i] = z]
           L  == t.left \ {i}
           b  == stay(x2, L)
<1>1. trigger_base(t, i) = b
  BY DEF trigger_base, come, stay
<1>2. i \in IcId /\ t.ic \in IcId /\ t.IC[i] \in ICRec /\ L \in SUBSET ICID
  BY DEF IcId, Screen
<1>3. /\ x1 \in Screen /\ Agree(t, x1, {"ic", "icp"}) /\ x1.ic = i /\ x1.icp = t.ic
  BY <1>2 DEF come, Screen, Agree, Fields, IcId
<1> HIDE DEF x1, L
<1>4. x1.IC = t.IC
  BY <1>3 DEF Agree, Fields
<1>5. z \in ICRec /\ Akin(t.IC[i], z, {"focus"}) /\ z.focus
  BY <1>2, <1>4, ICFieldTyped
<1> HIDE DEF z
<1>6. /\ x2 \in Screen /\ Agree(x1, x2, {"IC"}) /\ x2.IC[i] = z
      /\ \A j \in IcId \ {i} : x2.IC[j] = x1.IC[j]
  BY <1>2, <1>3, <1>5, ICWritten DEF IcId
<1> HIDE DEF x2
<1>7. b \in Screen /\ Agree(x2, b, {"left"}) /\ b.left = L
  BY <1>2, <1>6 DEF stay, Screen, Agree, Fields
<1> HIDE DEF b
<1>8. /\ Agree(t, b, {"IC", "ic", "icp", "left"}) /\ b.IC = x2.IC /\ b.ic = i /\ b.icp = t.ic
      /\ Agree(t, b, {"IC", "ic", "icp", "left", "winchange", "unseen"})
  BY <1>3, <1>6, <1>7 DEF Agree, Fields
<1>9. Akin(t.IC[i], b.IC[i], Settings) /\ b.IC[i].inp_state = t.IC[i].inp_state
      /\ b.IC[i].focus
  BY <1>5, <1>6, <1>8 DEF Akin, ICFields, Settings
<1>10. Tuned(t, b, i)
  BY <1>4, <1>6, <1>7, <1>8, <1>9 DEF Tuned
<1> QED BY <1>1, <1>7, <1>8, <1>9, <1>10 DEF Turned, L

LEMMA BaseKept ==
    ASSUME NEW t, Good(t), NEW i \in ICID, t.IC[i].live, t.IC[i].focus, NEW b, Turned(t, b, i)
    PROVE  /\ Base(b) /\ Lit(b) /\ Fixed(b) /\ SameFixed(t, b)
           /\ b.IC[i].live /\ b.IC[i].focus /\ b.drawn = t.drawn /\ b.unseen = t.unseen
<1>1. Base(t) /\ Lit(t) /\ Fixed(t) /\ i \in IcId
  BY UpLit DEF Good, IcId
<1>2. Tuned(t, b, i) /\ Agree(t, b, {"IC", "ic", "icp", "left"})
      /\ b.ic = i /\ b.icp = t.ic /\ b.left = t.left \ {i} /\ b.IC[i].focus
      /\ b.IC[i].inp_state = t.IC[i].inp_state
  BY DEF Turned
<1>3. /\ "XIMFOCUS" \in t.IC[i].inp_state => "CINPUT" \in t.IC[i].inp_state
      /\ "2BFOCUS" \in t.IC[i].inp_state => "2BYTES" \in t.IC[i].inp_state
  BY <1>1 DEF Base, ICs
<1>4. Base(b) /\ Fixed(b) /\ SameFixed(t, b) /\ b.drawn = t.drawn
  BY <1>1, <1>2, <1>3, TunedReady
<1>5. b.unseen = t.unseen
  BY <1>2 DEF Agree, Fields
<1>6. Akin(t.IC[i], b.IC[i], Settings) /\ b.IC[i].live
      /\ \A j \in IcId \ {i} : b.IC[j] = t.IC[j]
  BY <1>2 DEF Tuned, Akin, ICFields, Settings
<1>7. Lit(b)
  <2> SUFFICES ASSUME NEW r \in wins(b), mapped(b, r), b.win[r].imid # NULL
               PROVE  b.IC[b.win[r].imid].focus \/ b.win[r].imid \in b.left
    BY DEF Lit
  <2>1. wins(b) = wins(t) /\ b.win = t.win
    <3>1. Agree(t, b, {"IC", "ic", "icp", "left", "winchange", "unseen", "mode", "drawn",
                       "mainwin", "mainwin2"})
      BY <1>2 DEF Agree
    <3> QED BY <1>1, <1>4, <3>1, HeapSame DEF Base
  <2>2. t.win[r].imid \in IcId /\ mapped(t, r)
    BY <1>1, <2>1, Owners DEF IcId, mapped
  <2>3. t.IC[t.win[r].imid].focus \/ t.win[r].imid \in t.left
    BY <1>1, <2>1, <2>2 DEF Lit
  <2> QED BY <1>2, <1>6, <2>1, <2>2, <2>3
<1> QED BY <1>2, <1>4, <1>5, <1>6, <1>7

\* A phrase key leaves the main windows for another IC, or for none.
LEMMA PhraseSent ==
    ASSUME NEW t, Good(t), NEW i \in ICID, t.IC[i].live, t.IC[i].focus, ~converts(t, i)
    PROVE  Ready(phrase(trigger_base(t, i)))
<1> DEFINE b == trigger_base(t, i)
           h == phrase(b)
<1>1. Turned(t, b, i)
  BY BaseTriggered DEF Good, Base
<1> HIDE DEF b
<1>2. /\ Base(b) /\ Lit(b) /\ Fixed(b) /\ SameFixed(t, b)
      /\ b.IC[i].live /\ b.IC[i].focus /\ b.drawn = t.drawn /\ b.unseen = t.unseen
  BY <1>1, BaseKept
<1>3. b.ic = i /\ b.icp = t.ic /\ i # NULL /\ i \in IcId /\ b \in Screen
  BY <1>1, <1>2 DEF Turned, ICID, NULL, IcId, Base
<1>4. h \in Screen /\ Agree(b, h, {"unseen"}) /\ h.unseen = (b.unseen \/ b.ic # b.icp)
  BY <1>3 DEF phrase, Screen, Agree, Fields
<1> HIDE DEF h
<1>5. h.IC = b.IC /\ h.ic = i /\ h.icp = t.ic /\ h.left = b.left
      /\ Agree(b, h, {"IC", "ic", "icp", "left", "winchange", "unseen"})
  BY <1>3, <1>4 DEF Agree, Fields
<1>6. Tuned(b, h, i)
  BY <1>4, <1>5 DEF Tuned, Akin
<1>7. /\ "XIMFOCUS" \in b.IC[i].inp_state => "CINPUT" \in b.IC[i].inp_state
      /\ "2BFOCUS" \in b.IC[i].inp_state => "2BYTES" \in b.IC[i].inp_state
  BY <1>2, <1>3 DEF Base, ICs
<1>8. Base(h) /\ UpBefore(h) /\ Fixed(h) /\ SameFixed(b, h) /\ h.drawn = b.drawn
  BY <1>2, <1>3, <1>5, <1>6, <1>7, TunedReady
<1>9. ~converts(h, i)
  BY <1>1, <1>5 DEF converts, is_on, Turned
<1>10. ~asked_for(h)
  BY <1>5, <1>9 DEF asked_for
<1>11. ASSUME ~h.unseen
       PROVE  Seen(h)
  <2>1. ~t.unseen /\ t.ic = i
    BY <1>2, <1>3, <1>4, <1>11
  <2>3. SameFixed(t, h)
    BY <1>2, <1>8 DEF SameFixed, mapped
  <2>4. Akin(t.IC[i], h.IC[i], Settings) /\ h.IC[i].style = t.IC[i].style
        /\ h.IC[i].inp_state = t.IC[i].inp_state
    BY <1>1, <1>5 DEF Turned, Tuned, Akin, ICFields, Settings
  <2>5. Seen(t)
    BY <2>1 DEF Good, Told
  <2>6. /\ comes_and_goes(h) = comes_and_goes(t)
        /\ wide_is_up(h) = wide_is_up(t) /\ \A f : in_mode(h, f) = in_mode(t, f)
    BY <2>3, FixedKept
  <2>7. ~asked_for(t)
    BY <2>1 DEF asked_for
  <2>8. title(h, h.ic) = title(t, t.ic)
    <3>1. "XIMFOCUS" \notin t.IC[i].inp_state
      <4>1. "CINPUT" \notin t.IC[i].inp_state
        BY DEF converts, is_on
      <4> QED BY <1>3, <4>1 DEF Good, Base, ICs
    <3> QED BY <1>5, <2>1, <2>4, <3>1 DEF title, is_on
  <2> QED BY <1>2, <1>3, <1>5, <1>8, <1>10, <2>1, <2>3, <2>4, <2>5, <2>6, <2>7, <2>8
          DEF Seen, SameFixed
<1>12. Told(h)
  BY <1>10, <1>11 DEF Told
<1> QED BY <1>8, <1>12 DEF Ready, h, b

\* What a window may be up for before an update is more than after it.
LEMMA LitBefore ==
    ASSUME NEW t, Lit(t)
    PROVE  UpBefore(t)
<1> QED BY DEF Lit, UpBefore

im_only(t) == [t EXCEPT !.winchange = {"IM"}]

\* A key for the two-byte mode, by itself or by a trigger.
LEMMA ToggledReady ==
    ASSUME NEW t, Base(t), Lit(t), Fixed(t), NEW i \in ICID, t.IC[i].live, t.IC[i].focus
    PROVE  ImReady(toggle_2bytes(t, i)) /\ ImReady(im_only(toggle_2bytes(t, i)))
<1> DEFINE h == toggle_2bytes(t, i)
           m == im_only(h)
<1>1. t \in Screen /\ i \in IcId
  BY DEF Base, IcId
<1>2. /\ Tuned(t, h, i) /\ "IM" \in h.winchange /\ Agree(t, h, {"IC", "winchange"})
      /\ h.IC[i].focus = t.IC[i].focus
      /\ h.IC[i].inp_state = IF "2BYTES" \in t.IC[i].inp_state THEN t.IC[i].inp_state \ wide
                             ELSE t.IC[i].inp_state \cup wide
  BY <1>1, Toggled
<1> HIDE DEF h
<1>3. /\ "XIMFOCUS" \in t.IC[i].inp_state => "CINPUT" \in t.IC[i].inp_state
      /\ "2BFOCUS" \in t.IC[i].inp_state => "2BYTES" \in t.IC[i].inp_state
  BY <1>1 DEF Base, ICs
<1>4. /\ "CINPUT" \in t.IC[i].inp_state => "CINPUT" \in h.IC[i].inp_state
      /\ "XIMFOCUS" \in h.IC[i].inp_state => "CINPUT" \in h.IC[i].inp_state
      /\ "2BFOCUS" \in h.IC[i].inp_state => "2BYTES" \in h.IC[i].inp_state
  BY <1>2, <1>3 DEF wide
<1>5. h \in Screen
  BY <1>2 DEF Tuned
<1>6. m \in Screen /\ Agree(h, m, {"winchange"}) /\ m.winchange = {"IM"}
  BY <1>5 DEF im_only, Screen, Agree, Fields
<1> HIDE DEF m
<1>7. Tuned(t, m, i) /\ m.IC = h.IC
  BY <1>2, <1>6 DEF Tuned, Agree, Fields
<1>8. /\ h.ic = t.ic /\ h.icp = t.icp /\ h.left = t.left
      /\ m.ic = t.ic /\ m.icp = t.icp /\ m.left = t.left
  BY <1>2, <1>6 DEF Agree, Fields
<1>9. Base(h) /\ UpBefore(h) /\ Fixed(h)
  BY <1>2, <1>4, <1>8, TunedReady
<1>10. Base(m) /\ UpBefore(m) /\ Fixed(m)
  BY <1>2, <1>4, <1>7, <1>8, TunedReady
<1> QED BY <1>2, <1>6, <1>9, <1>10 DEF ImReady, h, m

\* A key of the input method that only changes what is typed.
LEMMA KeyTyped ==
    ASSUME NEW t, Base(t), Lit(t), Fixed(t), NEW i \in ICID, t.IC[i].live, t.IC[i].focus,
           "IM" \in t.winchange
    PROVE  ImReady([t EXCEPT !.IC[i].typed = ~@])
<1> DEFINE x == ~t.IC[i].typed
           z == [t.IC[i] EXCEPT !.typed = x]
           h == [t EXCEPT !.IC[i] = z]
<1>1. t \in Screen /\ i \in IcId /\ t.IC[i] \in ICRec /\ x \in BOOLEAN
  BY DEF Base, IcId, Screen
<1>2. [t EXCEPT !.IC[i].typed = ~@] = h
  OBVIOUS
<1> HIDE DEF x
<1>3. z \in ICRec /\ Akin(t.IC[i], z, {"typed"})
  BY <1>1, ICFieldTyped
<1> HIDE DEF z
<1>4. h \in Screen /\ Agree(t, h, {"IC"}) /\ h.IC[i] = z /\ \A j \in IcId \ {i} : h.IC[j] = t.IC[j]
  BY <1>1, <1>3, ICWritten DEF IcId
<1> HIDE DEF h
<1>5. Tuned(t, h, i)
  BY <1>3, <1>4 DEF Tuned, Agree, Akin, Settings
<1>6. /\ h.ic = t.ic /\ h.icp = t.icp /\ h.left = t.left /\ h.winchange = t.winchange
      /\ h.IC[i].focus = t.IC[i].focus /\ h.IC[i].inp_state = t.IC[i].inp_state
  BY <1>3, <1>4 DEF Agree, Fields, Akin, ICFields
<1>7. /\ "XIMFOCUS" \in t.IC[i].inp_state => "CINPUT" \in t.IC[i].inp_state
      /\ "2BFOCUS" \in t.IC[i].inp_state => "2BYTES" \in t.IC[i].inp_state
  BY <1>1 DEF Base, ICs
<1>8. Base(h) /\ UpBefore(h) /\ Fixed(h)
  BY <1>5, <1>6, <1>7, TunedReady
<1> QED BY <1>2, <1>6, <1>8 DEF ImReady

-----------------------------------------------------------------------------
\* IC i has got a menu, of the record w.
MenuNew(t, u, w, i) ==
    /\ u \in Screen /\ Heap(u) /\ w \notin wins(t) /\ wins(u) = wins(t) \cup {w}
    /\ Agree(t, u, Making \cup {"IC"}) /\ \A q \in wins(t) : u.win[q] = t.win[q]
    /\ u.win[w].kind = "menusel" /\ u.win[w].imid = i /\ u.win[w].data = 1
    /\ \A j \in IcId \ {i} : u.IC[j] = t.IC[j]
    /\ Akin(t.IC[i], u.IC[i], {"gwin"})
    /\ Len(u.IC[i].gwin) = 1 /\ u.IC[i].gwin[1].window = u.win[w].window

\* The menu belongs to the request of its IC.
LEMMA MenuOwned ==
    ASSUME NEW t, Base(t), NEW i \in ICID, t.IC[i].live, t.IC[i].gwin = <<>>,
           "CINPUT" \in t.IC[i].inp_state, t.IC[i].focus, NEW u, NEW w, MenuNew(t, u, w, i)
    PROVE  /\ Base(u) /\ SameFixed(t, u) /\ u.winchange = t.winchange
           /\ (Lit(t) => Lit(u)) /\ (Fixed(t) => Fixed(u))
<1>1. /\ u \in Screen /\ Heap(u) /\ w \notin wins(t) /\ wins(u) = wins(t) \cup {w}
      /\ Agree(t, u, Making \cup {"IC"}) /\ \A q \in wins(t) : u.win[q] = t.win[q]
  BY DEF MenuNew
<1>2. /\ u.ic = t.ic /\ u.icp = t.icp /\ u.mode = t.mode /\ u.mainwin = t.mainwin
      /\ u.mainwin2 = t.mainwin2 /\ u.left = t.left /\ u.winchange = t.winchange
  BY <1>1 DEF Agree, Fields, Making
<1>3. \A j \in IcId : /\ u.IC[j].live = t.IC[j].live /\ u.IC[j].style = t.IC[j].style
                      /\ u.IC[j].focus = t.IC[j].focus /\ u.IC[j].inp_state = t.IC[j].inp_state
                      /\ u.IC[j].overspot_win = t.IC[j].overspot_win
                      /\ (j # i => u.IC[j].gwin = t.IC[j].gwin)
  BY DEF MenuNew, Akin, ICFields
<1>5. ICID \subseteq IcId /\ NULL \in IcId /\ t.ic \in IcId /\ t.icp \in IcId /\ i # NULL
  BY DEF IcId, Base, Screen, ICID, NULL
<1>6. MenuOf(u, w, i)
  BY <1>3, <1>5 DEF MenuNew, MenuOf
<1>7. \A q \in wins(t), j \in ICID : SpotOf(t, q, j) => SpotOf(u, q, j)
  BY <1>1, <1>3, <1>5 DEF SpotOf
<1>8. \A q \in wins(t), j \in ICID : MenuOf(t, q, j) => MenuOf(u, q, j)
  <2> SUFFICES ASSUME NEW q \in wins(t), NEW j \in ICID, MenuOf(t, q, j)
               PROVE  MenuOf(u, q, j)
    OBVIOUS
  <2>1. j # i
    <3>1. Len(t.IC[i].gwin) # 1
      OBVIOUS
    <3> QED BY <3>1 DEF MenuOf
  <2> QED BY <1>1, <1>3, <1>5, <2>1 DEF MenuOf
<1>9. \A q \in wins(t) : \A k, m : MainOf(t, q, k, m) => MainOf(u, q, k, m)
  BY <1>1 DEF MainOf
<1>10. Own(u)
  <2>1. \A q \in wins(u) : \/ MainOf(u, q, "main", u.mainwin)
                           \/ MainOf(u, q, "main2", u.mainwin2)
                           \/ \E j \in ICID : SpotOf(u, q, j) \/ MenuOf(u, q, j)
    BY <1>1, <1>2, <1>6, <1>7, <1>8, <1>9 DEF Base, Own
  <2>2. /\ u.mainwin # NULL => u.mainwin \in wins(u) /\ u.win[u.mainwin].kind = "main"
        /\ u.mainwin2 # NULL => u.mainwin2 \in wins(u) /\ u.win[u.mainwin2].kind = "main2"
    BY <1>1, <1>2 DEF Base, Own
  <2>3. \A j \in ICID : u.IC[j].overspot_win # NULL => \E q \in wins(u) : SpotOf(u, q, j)
    <3> SUFFICES ASSUME NEW j \in ICID, u.IC[j].overspot_win # NULL
                 PROVE  \E q \in wins(u) : SpotOf(u, q, j)
      OBVIOUS
    <3>1. PICK q \in wins(t) : SpotOf(t, q, j)
      BY <1>3, <1>5 DEF Base, Own
    <3> QED BY <1>1, <1>7, <3>1
  <2>4. \A j \in ICID : u.IC[j].gwin # <<>> =>
            "CINPUT" \in u.IC[j].inp_state /\ \E q \in wins(u) : MenuOf(u, q, j)
    <3> SUFFICES ASSUME NEW j \in ICID, u.IC[j].gwin # <<>>
                 PROVE  "CINPUT" \in u.IC[j].inp_state /\ \E q \in wins(u) : MenuOf(u, q, j)
      OBVIOUS
    <3>1. CASE j = i
      BY <1>1, <1>3, <1>5, <1>6, <3>1
    <3>2. CASE j # i
      <4>1. t.IC[j].gwin # <<>>
        BY <1>3, <1>5, <3>2
      <4>2. "CINPUT" \in t.IC[j].inp_state /\ \E q \in wins(t) : MenuOf(t, q, j)
        BY <4>1 DEF Base, Own
      <4> QED BY <1>1, <1>3, <1>5, <1>8, <4>2
    <3> QED BY <3>1, <3>2
  <2> QED BY <2>1, <2>2, <2>3, <2>4 DEF Own
<1>11. ICs(u)
  <2>1. /\ u.ic # NULL => u.IC[u.ic].live
        /\ u.icp # NULL => u.IC[u.icp].live
        /\ ~u.IC[NULL].live
    BY <1>2, <1>3, <1>5 DEF Base, ICs
  <2>2. \A j \in IcId : ~u.IC[j].live => /\ u.IC[j].overspot_win = NULL /\ u.IC[j].gwin = <<>>
                                         /\ ~u.IC[j].focus /\ u.IC[j].inp_state = {}
    BY <1>3, <1>5 DEF Base, ICs
  <2>3. /\ \A j \in IcId : "XIMFOCUS" \in u.IC[j].inp_state =>
                               "CINPUT" \in u.IC[j].inp_state /\ u.IC[j].focus
        /\ \A j \in IcId : "2BFOCUS" \in u.IC[j].inp_state =>
                               "2BYTES" \in u.IC[j].inp_state /\ u.IC[j].focus
    BY <1>3 DEF Base, ICs
  <2> QED BY <2>1, <2>2, <2>3 DEF ICs
<1>12. SameFixed(t, u)
  BY <1>1, <1>2 DEF Base, Own, SameFixed, mapped
<1>13. Lit(t) => Lit(u)
  <2> SUFFICES ASSUME Lit(t), NEW r \in wins(u), mapped(u, r), u.win[r].imid # NULL
               PROVE  u.IC[u.win[r].imid].focus \/ u.win[r].imid \in u.left
    BY DEF Lit
  <2>1. CASE r = w
    BY <1>3, <1>5, <2>1 DEF MenuNew
  <2>2. CASE r # w
    <3>1. r \in wins(t) /\ u.win[r] = t.win[r]
      BY <1>1, <2>2
    <3>2. t.win[r].imid \in IcId
      BY <1>5, <3>1, Owners
    <3> QED BY <1>2, <1>3, <3>1, <3>2 DEF Lit, mapped
  <2> QED BY <2>1, <2>2
<1> QED BY <1>1, <1>2, <1>10, <1>11, <1>12, <1>13, FixedKept DEF Base

\* The requests of an IMC are none or one.
LEMMA OneRequest ==
    /\ Max({0}) = 0 /\ Min({1}) = 1
    /\ \A g \in Request : /\ Append(<<>>, g) \in Seq(Request)
                          /\ Len(Append(<<>>, g)) = 1 /\ Append(<<>>, g)[1] = g
    /\ \A G \in Seq(Request) : Len(G) = 1 => RemoveAt(G, 1) = <<>>
<1>1. Max({0}) = 0
  BY DEF Max
<1>2. Min({1}) = 1
  BY DEF Min
<1>3. \A g \in Request : /\ Append(<<>>, g) \in Seq(Request)
                         /\ Len(Append(<<>>, g)) = 1 /\ Append(<<>>, g)[1] = g
  <2> SUFFICES ASSUME NEW g \in Request
               PROVE  /\ Append(<<>>, g) \in Seq(Request)
                      /\ Len(Append(<<>>, g)) = 1 /\ Append(<<>>, g)[1] = g
    OBVIOUS
  <2>1. <<>> \in Seq(Request) /\ Len(<<>>) = 0
    OBVIOUS
  <2> QED BY <2>1
<1>4. ASSUME NEW G \in Seq(Request), Len(G) = 1
      PROVE  RemoveAt(G, 1) = <<>>
  <2>1. RemoveAt(G, 1) = SubSeq(G, 1, 0) \o SubSeq(G, 2, 1)
    BY <1>4 DEF RemoveAt
  <2>2. SubSeq(G, 1, 0) = <<>> /\ SubSeq(G, 2, 1) = <<>>
    BY <1>4
  <2> QED BY <2>1, <2>2
<1> QED BY <1>1, <1>2, <1>3, <1>4

\* A request of IC i gets its menu window, which comes up at once.
new_menu(t, i) ==
    new_window(gui_new_win(t), "menusel", i, 1, gui_create_fontset(t.fonts, DefaultFont))

\* greq_register().
LEMMA MenuRegistered ==
    ASSUME MaxReq = 1, NEW t, Base(t), NEW i \in ICID, t.IC[i].gwin = <<>>,
           NEW callback \in BOOLEAN
    PROVE  \E w : MenuNew(t, greq_register(t, i, callback), w, i)
<1> DEFINE n == new_menu(t, i)
           a == n.mem
           w == n.rec
           b == gui_winmap_change(a, w, TRUE)
           reqid == 1 + Max({r.reqid : r \in Range(t.IC[i].gwin)} \cup {0})
           g == [reqid |-> reqid, window |-> b.win[w].window, callback |-> callback]
           G == Append(b.IC[i].gwin, g)
           z == [b.IC[i] EXCEPT !.gwin = G]
           u == [b EXCEPT !.IC[i] = z]
<1>1. t \in Screen /\ Heap(t) /\ i \in IcId /\ i \in Nat
  BY WinAssumption DEF Base, IcId, ICID
<1>2. Len(t.IC[i].gwin) = 0
  OBVIOUS
<1>3. greq_register(t, i, callback) = u
  <2>1. gui_menusel_init(t, i, 1) = [n EXCEPT !.mem = b]
    BY DEF gui_menusel_init, new_menu
  <2>2. [n EXCEPT !.mem = b].mem = b /\ [n EXCEPT !.mem = b].rec = w
    BY DEF new_menu, new_window
  <2>3. greq_register(t, i, callback)
          = [b EXCEPT !.IC[i].gwin = Append(@, [reqid |-> reqid, window |-> b.win[w].window,
                                                callback |-> callback])]
    <3>1. ~(Len(t.IC[i].gwin) >= MaxReq) /\ Len(t.IC[i].gwin) + 1 = 1
      BY <1>2
    <3> HIDE DEF n, b, w
    <3> QED BY <2>1, <2>2, <3>1 DEF greq_register
  <2> HIDE DEF b, w, reqid
  <2> QED BY <2>3
<1>4. Made(t, a, w, "menusel", i, 1)
  <2>1. Gives(gui_create_fontset(t.fonts, DefaultFont), fonts_of(t), asked_of(t))
        /\ gui_create_fontset(t.fonts, DefaultFont).font # NoFont
    BY <1>1, FirstFont
  <2> QED BY <1>1, <2>1, WindowMade DEF IcId, new_menu
<1> HIDE DEF n, a, w
<1>5. /\ a \in Screen /\ Heap(a) /\ w \in wins(a) /\ a.win[w].data = 1
      /\ a.win[w].kind = "menusel" /\ a.win[w].imid = i /\ a.win[w].window = t.xid + 1
      /\ w \notin wins(t) /\ wins(a) = wins(t) \cup {w}
      /\ Agree(t, a, Making) /\ \A q \in wins(t) : a.win[q] = t.win[q]
  BY <1>4 DEF Made, Making
<1>6. Drawn(a, b, {"win"}, {w})
  BY <1>5, WindowMapped
<1>7. \A q \in wins(t) : b.win[q] = a.win[q]
  <2>1. b = a \/ b = [a EXCEPT !.win[w].map = TRUE]
    BY DEF gui_winmap_change
  <2>2. a.win \in Seq(WinRec)
    BY <1>5 DEF Screen
  <2>3. \A q : q # w => [a EXCEPT !.win[w].map = TRUE].win[q] = a.win[q]
    BY <2>2, <1>5
  <2> HIDE DEF b
  <2> QED BY <2>1, <2>3, <1>5
<1> HIDE DEF b
<1>8. b \in Screen /\ Heap(b) /\ wins(b) = wins(a) /\ Agree(a, b, {"win"})
      /\ Alike(a.win[w], b.win[w], {"map", "font", "asked"})
  BY <1>5, <1>6 DEF Drawn
<1>9. b.IC = t.IC /\ b.IC[i] \in ICRec
  BY <1>1, <1>5, <1>8 DEF Agree, Fields, Making, Screen, IcId
<1>10. reqid \in Nat
  <2> DEFINE ids == {r.reqid : r \in Range(t.IC[i].gwin)} \cup {0}
  <2>1. Range(t.IC[i].gwin) = {}
    BY DEF Range
  <2>2. ids = {0}
    BY <2>1
  <2>3. reqid = 1 + Max(ids)
    OBVIOUS
  <2> HIDE DEF ids, reqid
  <2>4. Max({0}) = 0
    BY OneRequest
  <2>5. Max(ids) = 0
    BY <2>2, <2>4
  <2> QED BY <2>3, <2>5
<1> HIDE DEF reqid
<1>11. /\ b.win[w].kind = "menusel" /\ b.win[w].imid = i /\ b.win[w].data = 1
       /\ b.win[w].window = t.xid + 1 /\ t.xid + 1 \in Nat
  <2>1. t.xid + 1 \in Nat
    BY <1>1 DEF Screen
  <2>2. \A f \in {"kind", "imid", "data", "window"} : b.win[w][f] = a.win[w][f]
    BY <1>8 DEF Alike, WinFields
  <2> QED BY <1>5, <2>1, <2>2
<1>12. g \in Request /\ g.window = b.win[w].window
  BY <1>10, <1>11 DEF Request
<1> HIDE DEF g
<1>13. G \in Seq(Request) /\ Len(G) = 1 /\ G[1] = g
  <2>1. G = Append(<<>>, g)
    BY <1>9
  <2> HIDE DEF G
  <2> QED BY <1>12, <2>1, OneRequest
<1> HIDE DEF G
<1>14. z \in ICRec /\ Akin(b.IC[i], z, {"gwin"}) /\ z.gwin = G
  BY <1>9, <1>13, ICFieldTyped
<1> HIDE DEF z
<1>15. /\ u \in Screen /\ Agree(b, u, {"IC"}) /\ u.IC[i] = z
       /\ \A j \in IcId \ {i} : u.IC[j] = b.IC[j]
  BY <1>1, <1>8, <1>14, ICWritten DEF IcId
<1> HIDE DEF u
<1>16. Heap(u) /\ wins(u) = wins(b) /\ u.win = b.win
  <2>1. Agree(b, u, {"IC", "ic", "icp", "left", "winchange", "unseen", "mode", "drawn",
                     "mainwin", "mainwin2"})
    BY <1>15 DEF Agree
  <2> QED BY <1>8, <1>15, <2>1, HeapSame
<1>17. Agree(t, u, Making \cup {"IC"})
  BY <1>5, <1>8, <1>15 DEF Agree, Making
<1>18. MenuNew(t, u, w, i)
  BY <1>5, <1>7, <1>8, <1>9, <1>11, <1>12, <1>13, <1>14, <1>15, <1>16, <1>17 DEF MenuNew
<1> QED BY <1>3, <1>18

LEMMA RequestRegistered ==
    ASSUME MaxReq = 1, NEW t, Base(t), Lit(t), Fixed(t), NEW i \in ICID, t.IC[i].live,
           t.IC[i].focus, "CINPUT" \in t.IC[i].inp_state, "IM" \in t.winchange,
           NEW callback \in BOOLEAN
    PROVE  ImReady(greq_register(t, i, callback))
<1>1. CASE t.IC[i].gwin = <<>>
  <2>1. PICK w : MenuNew(t, greq_register(t, i, callback), w, i)
    BY <1>1, MenuRegistered
  <2> DEFINE u == greq_register(t, i, callback)
  <2> HIDE DEF u
  <2>2. MenuNew(t, u, w, i)
    BY <2>1 DEF u
  <2>3. Base(u) /\ Lit(u) /\ Fixed(u) /\ u.winchange = t.winchange
    BY <1>1, <2>2, MenuOwned
  <2>4. ImReady(u)
    BY <2>3, LitBefore DEF ImReady
  <2> QED BY <2>4 DEF u
<1>2. CASE t.IC[i].gwin # <<>>
  <2>1. Len(t.IC[i].gwin) = 1
    <3>1. PICK r \in wins(t) : MenuOf(t, r, i)
      BY <1>2 DEF Base, Own
    <3> QED BY <3>1 DEF MenuOf
  <2>2. greq_register(t, i, callback) = t
    BY <2>1 DEF greq_register
  <2> QED BY <2>2, LitBefore DEF ImReady
<1> QED BY <1>1, <1>2

-----------------------------------------------------------------------------
\* The only request of IC i, and the IC once its callback is taken away.
uncalled(t, i) == [t EXCEPT !.IC[i].gwin[1].callback = FALSE]

\* greq_unregister().
LEMMA RequestUnregistered ==
    ASSUME MaxReq = 1, NEW t, Base(t), NEW i \in ICID, NEW g \in Range(t.IC[i].gwin)
    PROVE  Ended(t, greq_unregister(t, i, g.reqid), i)
<1>1. t \in Screen /\ Heap(t) /\ t.IC[i] \in ICRec /\ i \in IcId /\ t.IC[i].gwin \in Seq(Request)
  BY DEF Base, Screen, IcId, ICRec
<1>2. t.IC[i].gwin # <<>>
  BY DEF Range
<1>3. PICK r \in wins(t) : MenuOf(t, r, i)
  BY <1>2 DEF Base, Own
<1>4. Len(t.IC[i].gwin) = 1 /\ t.IC[i].gwin[1].window = t.win[r].window
      /\ t.win[r].kind = "menusel" /\ t.win[r].imid = i /\ t.win[r].data = 1 /\ t.IC[i].live
  BY <1>3 DEF MenuOf
<1>5. DOMAIN t.IC[i].gwin = {1} /\ g = t.IC[i].gwin[1]
  BY <1>1, <1>4 DEF Range
<1> DEFINE q  == [t.IC[i].gwin[1] EXCEPT !.callback = FALSE]
           G  == [t.IC[i].gwin EXCEPT ![1] = q]
           z1 == [t.IC[i] EXCEPT !.gwin = G]
           x1 == [t EXCEPT !.IC[i] = z1]
           x2 == free_child(x1, t.win[r].window)
           z2 == [x2.IC[i] EXCEPT !.gwin = RemoveAt(x2.IC[i].gwin, 1)]
           u  == [x2 EXCEPT !.IC[i] = z2]
<1>6. greq_unregister(t, i, g.reqid) = u
  <2>1. {k \in DOMAIN t.IC[i].gwin : t.IC[i].gwin[k].reqid = g.reqid} = {1}
    BY <1>5
  <2>2. Min({1}) = 1
    BY OneRequest
  <2>3. greq_unregister(t, i, g.reqid)
          = greq_unregister_internal(free_child(uncalled(t, i), t.IC[i].gwin[1].window), i, 1)
    BY <2>1, <2>2 DEF greq_unregister, uncalled
  <2>4. uncalled(t, i) = x1
    BY DEF uncalled
  <2>5. greq_unregister(t, i, g.reqid) = greq_unregister_internal(x2, i, 1)
    BY <1>4, <2>3, <2>4
  <2> HIDE DEF x2
  <2> QED BY <2>5 DEF greq_unregister_internal
<1>7. q \in Request /\ q.window = t.IC[i].gwin[1].window /\ q.callback = FALSE
  <2>1. t.IC[i].gwin[1] \in Request
    BY <1>1, <1>4
  <2> QED BY <2>1 DEF Request
<1> HIDE DEF q
<1>8. G \in Seq(Request) /\ Len(G) = 1 /\ G[1] = q
  BY <1>1, <1>4, <1>7
<1> HIDE DEF G
<1>9. z1 \in ICRec /\ Akin(t.IC[i], z1, {"gwin"}) /\ z1.gwin = G
  BY <1>1, <1>8, ICFieldTyped
<1> HIDE DEF z1
<1>10. x1 \in Screen /\ Agree(t, x1, {"IC"}) /\ x1.IC[i] = z1
       /\ \A j \in IcId \ {i} : x1.IC[j] = t.IC[j]
  BY <1>1, <1>9, ICWritten DEF IcId
<1> HIDE DEF x1
<1>11. Heap(x1) /\ wins(x1) = wins(t) /\ x1.win = t.win
  <2>1. Agree(t, x1, {"IC", "ic", "icp", "left", "winchange", "unseen", "mode", "drawn",
                      "mainwin", "mainwin2"})
    BY <1>10 DEF Agree
  <2> QED BY <1>1, <1>10, <2>1, HeapSame
<1>12. Removed(x1, x2, r) /\ x2.IC = x1.IC
  <2>1. x1.IC[i].live /\ Len(x1.IC[i].gwin) = 1 /\ ~x1.IC[i].gwin[1].callback
        /\ x1.win[r].window = t.win[r].window
    BY <1>4, <1>7, <1>8, <1>9, <1>10, <1>11 DEF Akin, ICFields
  <2>2. /\ Removed(x1, free_child(x1, x1.win[r].window), r)
        /\ free_child(x1, x1.win[r].window).IC
             = IF x1.IC[i].gwin[1].callback THEN unasked(x1, i) ELSE x1.IC
    BY <1>4, <1>10, <1>11, <2>1, MenuFreed
  <2> QED BY <2>1, <2>2
<1> HIDE DEF x2
<1>13. x2 \in Screen /\ Heap(x2) /\ wins(x2) = wins(t) \ {r}
       /\ Agree(x1, x2, {"win", "winlist", "free_win", "fonts", "xwin", "IC"})
       /\ \A w \in wins(x2) : Alike(t.win[w], x2.win[w], {"next"})
  BY <1>11, <1>12 DEF Removed
<1>14. RemoveAt(x2.IC[i].gwin, 1) = <<>>
  <2>1. x2.IC[i].gwin = G
    BY <1>9, <1>10, <1>12
  <2> QED BY <1>8, <2>1, OneRequest
<1>15. z2 \in ICRec /\ Akin(x2.IC[i], z2, {"gwin"}) /\ z2.gwin = <<>>
  <2>1. x2.IC[i] \in ICRec /\ <<>> \in Seq(Request)
    BY <1>9, <1>10, <1>12
  <2> QED BY <1>14, <2>1, ICFieldTyped
<1> HIDE DEF z2
<1>16. u \in Screen /\ Agree(x2, u, {"IC"}) /\ u.IC[i] = z2
       /\ \A j \in IcId \ {i} : u.IC[j] = x2.IC[j]
  BY <1>1, <1>13, <1>15, ICWritten DEF IcId
<1> HIDE DEF u
<1>17. Heap(u) /\ wins(u) = wins(x2) /\ u.win = x2.win
  <2>1. Agree(x2, u, {"IC", "ic", "icp", "left", "winchange", "unseen", "mode", "drawn",
                      "mainwin", "mainwin2"})
    BY <1>16 DEF Agree
  <2> QED BY <1>13, <1>16, <2>1, HeapSame
<1>18. wins(u) = {w \in wins(t) : ~MenuOf(t, w, i)}
  <2>1. \A w \in wins(t) : MenuOf(t, w, i) <=> w = r
    BY <1>3 DEF MenuOf, Base, Heap
  <2> QED BY <1>13, <1>17, <2>1
<1>19. Agree(t, u, {"win", "winlist", "free_win", "fonts", "xwin", "IC"})
  BY <1>10, <1>13, <1>16 DEF Agree
<1>20. Akin(t.IC[i], u.IC[i], {"gwin", "typed"}) /\ u.IC[i].gwin = <<>>
       /\ \A j \in IcId \ {i} : u.IC[j] = t.IC[j]
  BY <1>9, <1>10, <1>12, <1>15, <1>16 DEF Akin
<1>21. \A w \in wins(u) : Alike(t.win[w], u.win[w], {"next"})
  BY <1>13, <1>17
<1>22. Ended(t, u, i)
  BY <1>16, <1>17, <1>18, <1>19, <1>20, <1>21 DEF Ended
<1> QED BY <1>6, <1>22

-----------------------------------------------------------------------------
(***************************************************************************)
(* ICs come and go.                                                        *)
(***************************************************************************)
\* A handler that changes nothing of what is shown.
LEMMA RetunedGood ==
    ASSUME NEW t, Good(t), NEW u, Retuned(t, u), SameShown(t, u), u.left = t.left,
           u.icp = t.icp, \A j \in ICID : t.IC[j].live => u.IC[j].focus = t.IC[j].focus
    PROVE  Good(u)
<1>1. Base(t) /\ Up(t) /\ Fixed(t) /\ Told(t)
  BY DEF Good
<1>2. Base(u) /\ Fixed(u) /\ wins(u) = wins(t) /\ u.win = t.win
  BY <1>1, RetunedBase
<1>3. Told(u)
  BY <1>1, ToldKept
<1>4. Up(u)
  <2> SUFFICES ASSUME NEW r \in wins(u), mapped(u, r), u.win[r].imid # NULL
               PROVE  /\ u.IC[u.win[r].imid].focus \/ u.win[r].imid \in u.left
                      /\ u.win[r].imid = u.ic => inputs(u, u.ic)
    BY DEF Up
  <2>1. r \in wins(t) /\ mapped(t, r) /\ u.win[r] = t.win[r]
    BY <1>2 DEF mapped
  <2>2. t.win[r].imid \in ICID /\ t.IC[t.win[r].imid].live
    BY <1>1, <2>1, Owners DEF SpotOf, MenuOf
  <2>3. /\ t.IC[t.win[r].imid].focus \/ t.win[r].imid \in t.left
        /\ t.win[r].imid = t.ic => inputs(t, t.ic)
    BY <1>1, <2>1 DEF Up
  <2>4. u.ic = t.ic /\ (t.ic # NULL => inputs(u, t.ic) = inputs(t, t.ic))
    BY DEF SameShown, inputs, is_on
  <2> QED BY <2>1, <2>2, <2>3, <2>4
<1> QED BY <1>2, <1>3, <1>4 DEF Good

\* The client asks for another font.
LEMMA FontSet ==
    ASSUME NEW t, Good(t), NEW i \in ICID, t.IC[i].live, NEW f \in FontName \cup {NoName}
    PROVE  Good(ic_set_font(t, i, f))
<1>1. CASE f = NoName \/ t.IC[i].base_font = f
  BY <1>1 DEF ic_set_font
<1>2. CASE ~(f = NoName \/ t.IC[i].base_font = f)
  <2> DEFINE z1 == [t.IC[i] EXCEPT !.base_font = f]
             z2 == [z1 EXCEPT !.font_update = TRUE]
             u  == [t EXCEPT !.IC[i] = z2]
  <2>1. ic_set_font(t, i, f) = u
    BY <1>2 DEF ic_set_font
  <2>2. t \in Screen /\ Base(t) /\ Fixed(t) /\ i \in IcId /\ t.IC[i] \in ICRec /\ ICs(t)
    BY DEF Good, Base, IcId, Screen
  <2>3. z1 \in ICRec /\ Akin(t.IC[i], z1, {"base_font"})
    BY <2>2, ICFieldTyped
  <2> HIDE DEF z1
  <2>4. z2 \in ICRec /\ Akin(z1, z2, {"font_update"})
    BY <2>3, ICFieldTyped
  <2> HIDE DEF z2
  <2>5. u \in Screen /\ Agree(t, u, {"IC"}) /\ u.IC[i] = z2
        /\ \A j \in IcId \ {i} : u.IC[j] = t.IC[j]
    BY <2>2, <2>4, ICWritten DEF IcId
  <2> HIDE DEF u
  <2>6. Akin(t.IC[i], u.IC[i], {"base_font", "font_update"})
    BY <2>3, <2>4, <2>5 DEF Akin
  <2>7. /\ u.IC[i].style = t.IC[i].style /\ u.IC[i].inp_state = t.IC[i].inp_state
        /\ u.IC[i].inp_num = t.IC[i].inp_num /\ u.IC[i].focus = t.IC[i].focus
    BY <2>6 DEF Akin, ICFields
  <2>8. /\ u.ic = t.ic /\ u.icp = t.icp /\ u.left = t.left /\ u.drawn = t.drawn
        /\ u.unseen = t.unseen
    BY <2>5 DEF Agree, Fields
  <2>9. Retuned(t, u)
    <3>1. Agree(t, u, {"IC", "ic", "icp", "left", "winchange", "unseen"})
      BY <2>5 DEF Agree
    <3>2. Akin(t.IC[i], u.IC[i], Settings)
      BY <2>6 DEF Akin, Settings
    <3>3. /\ "XIMFOCUS" \in u.IC[i].inp_state => "CINPUT" \in u.IC[i].inp_state /\ u.IC[i].focus
          /\ "2BFOCUS" \in u.IC[i].inp_state => "2BYTES" \in u.IC[i].inp_state /\ u.IC[i].focus
      BY <2>2, <2>7 DEF ICs
    <3> QED BY <2>2, <2>5, <2>7, <2>8, <3>1, <3>2, <3>3, OneRetuned
  <2>10. SameShown(t, u)
    <3>1. SameFixed(t, u)
      BY <2>2, <2>9, RetunedBase
    <3>2. t.ic \in IcId
      BY <2>2 DEF Screen, IcId
    <3> QED BY <2>5, <2>7, <2>8, <3>1, <3>2 DEF SameShown
  <2>11. \A j \in ICID : u.IC[j].focus = t.IC[j].focus
    BY <2>5, <2>7 DEF IcId
  <2>12. Good(u)
    BY <2>8, <2>9, <2>10, <2>11, RetunedGood
  <2> QED BY <2>1, <2>12
<1> QED BY <1>1, <1>2

-----------------------------------------------------------------------------
\* The record of an IC that is not there is one.
LEMMA NoICTyped ==
    /\ NoIC \in ICRec /\ ~NoIC.live /\ NoIC.overspot_win = NULL /\ NoIC.gwin = <<>>
    /\ ~NoIC.focus /\ NoIC.inp_state = {}
    /\ \A style \in {"Root", "OverSpot"} :
           LET z == [NoIC EXCEPT !.live = TRUE, !.style = style]
           IN  z \in ICRec /\ z.live /\ z.overspot_win = NULL /\ z.gwin = <<>> /\ z.inp_state = {}
<1>1. NoIC.inp_num \in Im /\ <<>> \in Seq(Request)
  BY DEF Im
<1>2. NoIC \in ICRec /\ ~NoIC.live /\ NoIC.overspot_win = NULL /\ NoIC.gwin = <<>>
      /\ ~NoIC.focus /\ NoIC.inp_state = {}
  <2> DEFINE n == NoIC.inp_num
  <2>1. NoIC = [live |-> FALSE, style |-> "Root", base_font |-> NoName, font_update |-> FALSE,
                focus |-> FALSE, inp_state |-> {}, inp_num |-> n,
                typed |-> FALSE, overspot_win |-> NULL, gwin |-> <<>>]
    BY DEF NoIC
  <2>2. n \in Im
    BY <1>1
  <2> HIDE DEF n
  <2> QED BY <1>1, <2>1, <2>2 DEF ICRec, NULL
<1> QED BY <1>2 DEF ICRec

\* ic_create().
LEMMA ICMade ==
    ASSUME NEW t, Good(t), NEW i \in ICID, ~t.IC[i].live, NEW style \in {"Root", "OverSpot"},
           NEW f \in FontName \cup {NoName}
    PROVE  Good(ic_create(t, i, style, f))
<1> DEFINE z == [NoIC EXCEPT !.live = TRUE, !.style = style]
           u == [t EXCEPT !.IC[i] = z]
<1>1. ic_create(t, i, style, f) = ic_set_font(u, i, f)
  BY DEF ic_create
<1>2. t \in Screen /\ Base(t) /\ Fixed(t) /\ i \in IcId /\ ICs(t) /\ i # NULL
  BY DEF Good, Base, IcId, Screen, ICID, NULL
<1>3. z \in ICRec /\ z.live /\ z.overspot_win = NULL /\ z.gwin = <<>> /\ z.inp_state = {}
  BY NoICTyped
<1> HIDE DEF z
<1>4. u \in Screen /\ Agree(t, u, {"IC"}) /\ u.IC[i] = z
      /\ \A j \in IcId \ {i} : u.IC[j] = t.IC[j]
  BY <1>2, <1>3, ICWritten DEF IcId
<1> HIDE DEF u
<1>5. /\ u.ic = t.ic /\ u.icp = t.icp /\ u.left = t.left /\ u.drawn = t.drawn
      /\ u.unseen = t.unseen
  BY <1>4 DEF Agree, Fields
<1>6. t.ic \in IcId \ {i} /\ t.icp \in IcId \ {i} /\ NULL \in IcId \ {i}
  BY <1>2 DEF Screen, IcId, ICs
<1>7. ICs(u)
  <2>1. \A j \in IcId : ~u.IC[j].live => j # i
    BY <1>3, <1>4
  <2>2. \A j \in IcId : ~u.IC[j].live => /\ u.IC[j].overspot_win = NULL
                                         /\ u.IC[j].gwin = <<>>
                                         /\ ~u.IC[j].focus /\ u.IC[j].inp_state = {}
    BY <1>2, <1>4, <2>1 DEF ICs
  <2>3. /\ u.ic # NULL => u.IC[u.ic].live
        /\ u.icp # NULL => u.IC[u.icp].live
        /\ ~u.IC[NULL].live
    BY <1>2, <1>4, <1>5, <1>6 DEF ICs
  <2>4. /\ \A j \in IcId : "XIMFOCUS" \in u.IC[j].inp_state =>
                               "CINPUT" \in u.IC[j].inp_state /\ u.IC[j].focus
        /\ \A j \in IcId : "2BFOCUS" \in u.IC[j].inp_state =>
                               "2BYTES" \in u.IC[j].inp_state /\ u.IC[j].focus
    BY <1>2, <1>3, <1>4 DEF ICs
  <2> QED BY <2>2, <2>3, <2>4 DEF ICs
<1>8. Retuned(t, u)
  <2>1. Agree(t, u, {"IC", "ic", "icp", "left", "winchange", "unseen"})
    BY <1>4 DEF Agree
  <2>2. \A j \in ICID \ {i} : u.IC[j] = t.IC[j]
    BY <1>4 DEF IcId
  <2> QED BY <1>3, <1>4, <1>7, <2>1, <2>2 DEF Retuned, Akin
<1>9. SameShown(t, u)
  <2>1. SameFixed(t, u)
    BY <1>2, <1>8, RetunedBase
  <2> QED BY <1>4, <1>5, <1>6, <2>1 DEF SameShown
<1>10. \A j \in ICID : t.IC[j].live => u.IC[j].focus = t.IC[j].focus
  BY <1>4 DEF IcId
<1>11. Good(u)
  BY <1>5, <1>8, <1>9, <1>10, RetunedGood
<1>12. u.IC[i].live
  BY <1>3, <1>4
<1> QED BY <1>1, <1>11, <1>12, FontSet

\* The windows are to be drawn anew.
LEMMA FlaggedBase ==
    ASSUME NEW t, Base(t)
    PROVE  /\ Base(changed(t, {"IM"})) /\ SameFixed(t, changed(t, {"IM"}))
           /\ (Lit(t) => Lit(changed(t, {"IM"}))) /\ (Fixed(t) => Fixed(changed(t, {"IM"})))
           /\ "IM" \in changed(t, {"IM"}).winchange
           /\ Agree(t, changed(t, {"IM"}), {"winchange"})
           /\ wins(changed(t, {"IM"})) = wins(t)
<1> DEFINE W == {"IM"}
           u == changed(t, W)
<1>1. W \in SUBSET {"IM", "FOCUS"} /\ "IM" \in W
  OBVIOUS
<1> HIDE DEF W
<1>2. u \in Screen /\ Agree(t, u, {"winchange"}) /\ u.winchange = t.winchange \cup W
  BY <1>1, Flagged DEF Base
<1> HIDE DEF u
<1>3. u.IC = t.IC /\ u.ic = t.ic /\ u.icp = t.icp /\ u.left = t.left
      /\ Agree(t, u, {"IC", "ic", "icp", "left", "winchange", "unseen"})
  BY <1>2 DEF Agree, Fields
<1>4. ICs(u)
  BY <1>3 DEF Base, ICs
<1>5. Retuned(t, u)
  BY <1>2, <1>3, <1>4 DEF Retuned, Akin
<1>6. Base(u) /\ wins(u) = wins(t) /\ u.win = t.win /\ SameFixed(t, u)
      /\ (Fixed(t) => Fixed(u))
  BY <1>5, RetunedBase
<1>7. Lit(t) => Lit(u)
  BY <1>3, <1>6 DEF Lit, mapped
<1>8. "IM" \in u.winchange
  BY <1>1, <1>2
<1> QED BY <1>2, <1>6, <1>7, <1>8 DEF u, W

\* IC i has no candidate window any more.
Erased(t, u, i) ==
    /\ u \in Screen /\ Heap(u) /\ wins(u) = {r \in wins(t) : ~SpotOf(t, r, i)}
    /\ Agree(t, u, {"win", "winlist", "free_win", "fonts", "xwin"})
    /\ \A q \in wins(u) : Alike(t.win[q], u.win[q], {"next"})

\* The candidate window is freed, ...
LEMMA SpotErased ==
    ASSUME NEW t, Base(t), NEW i \in ICID
    PROVE  Erased(t, free_overspot(t, i), i)
<1>1. t \in Screen /\ Heap(t)
  BY DEF Base
<1>2. CASE t.IC[i].overspot_win = NULL
  <2>1. free_overspot(t, i) = t
    BY <1>2 DEF free_overspot
  <2>2. \A r \in wins(t) : ~SpotOf(t, r, i)
    <3> SUFFICES ASSUME NEW r \in wins(t), SpotOf(t, r, i)
                 PROVE  FALSE
      OBVIOUS
    <3>1. t.win[r].window = 0
      BY <1>2 DEF SpotOf, NULL
    <3>2. t.win[r].window \in 1 .. t.xid /\ t.xid \in Nat
      BY <1>1 DEF Heap, Screen
    <3> QED BY <3>1, <3>2
  <2>3. wins(t) = {r \in wins(t) : ~SpotOf(t, r, i)}
    BY <2>2
  <2> QED BY <1>1, <2>1, <2>3 DEF Erased, Agree, Alike
<1>3. CASE t.IC[i].overspot_win # NULL
  <2>1. PICK r \in wins(t) : SpotOf(t, r, i)
    BY <1>3 DEF Base, Own
  <2> DEFINE u == free_child(t, t.win[r].window)
  <2>2. free_overspot(t, i) = u
    BY <1>3, <2>1 DEF free_overspot, SpotOf
  <2>3. t.win[r].kind # "menusel"
    BY <2>1 DEF SpotOf
  <2>4. Removed(t, u, r) /\ u.IC = t.IC
    BY <1>1, <2>3, SpotFreed
  <2> HIDE DEF u
  <2>5. \A q \in wins(t) : SpotOf(t, q, i) <=> q = r
    BY <1>1, <2>1 DEF SpotOf, Heap
  <2>6. wins(u) = {q \in wins(t) : ~SpotOf(t, q, i)}
    BY <2>4, <2>5 DEF Removed
  <2>7. Agree(t, u, {"win", "winlist", "free_win", "fonts", "xwin"})
    BY <2>4 DEF Removed, Agree
  <2>8. Erased(t, u, i)
    BY <2>4, <2>6, <2>7 DEF Removed, Erased
  <2> QED BY <2>2, <2>8
<1> QED BY <1>2, <1>3

-----------------------------------------------------------------------------
\* IC i is not there any more, and is no longer the current or the last one.
without_ic(t, i) ==
    [[[t EXCEPT !.ic  = IF t.ic = i THEN NULL ELSE t.ic]
         EXCEPT !.icp = IF t.icp = i THEN NULL ELSE t.icp] EXCEPT !.left = t.left \ {i}]

Gone(t, u, i) ==
    /\ u \in Screen /\ Heap(u) /\ wins(u) = {r \in wins(t) : ~SpotOf(t, r, i)}
    /\ Agree(t, u, {"win", "winlist", "free_win", "fonts", "xwin", "IC", "ic", "icp", "left"})
    /\ \A q \in wins(u) : Alike(t.win[q], u.win[q], {"next"})
    /\ u.IC[i] = NoIC /\ \A j \in IcId \ {i} : u.IC[j] = t.IC[j]
    /\ u.ic = (IF t.ic = i THEN NULL ELSE t.ic)
    /\ u.icp = (IF t.icp = i THEN NULL ELSE t.icp)
    /\ u.left = t.left \ {i}

\* ... then the IC, ...
LEMMA ICGone ==
    ASSUME NEW t, Base(t), NEW i \in ICID, NEW c, Erased(t, c, i)
    PROVE  Gone(t, without_ic([c EXCEPT !.IC[i] = NoIC], i), i)
<1> DEFINE x == [c EXCEPT !.IC[i] = NoIC]
           u == without_ic(x, i)
<1>1. c \in Screen /\ Heap(c) /\ wins(c) = {r \in wins(t) : ~SpotOf(t, r, i)}
      /\ Agree(t, c, {"win", "winlist", "free_win", "fonts", "xwin"})
      /\ (\A q \in wins(c) : Alike(t.win[q], c.win[q], {"next"}))
      /\ i \in ICID \cup {NULL} /\ NoIC \in ICRec
  BY NoICTyped DEF Erased
<1>2. x \in Screen /\ Agree(c, x, {"IC"}) /\ x.IC[i] = NoIC
      /\ \A j \in IcId \ {i} : x.IC[j] = c.IC[j]
  BY <1>1, ICWritten DEF IcId
<1> HIDE DEF x
<1>3. x.ic \in IcId /\ x.icp \in IcId /\ x.left \in SUBSET ICID
  BY <1>2 DEF Screen, IcId
<1> DEFINE p == IF x.ic = i THEN NULL ELSE x.ic
           q == IF x.icp = i THEN NULL ELSE x.icp
           L == x.left \ {i}
<1>4. p \in ICID \cup {NULL} /\ q \in ICID \cup {NULL} /\ L \in SUBSET ICID
      /\ u = [[[x EXCEPT !.ic = p] EXCEPT !.icp = q] EXCEPT !.left = L]
  BY <1>3 DEF IcId, without_ic
<1>5. x.ic = t.ic /\ x.icp = t.icp /\ x.left = t.left
  BY <1>1, <1>2 DEF Agree, Fields
<1>6. p = (IF t.ic = i THEN NULL ELSE t.ic) /\ q = (IF t.icp = i THEN NULL ELSE t.icp)
      /\ L = t.left \ {i}
  BY <1>5
<1> HIDE DEF p, q, L, u
<1>7. u \in Screen /\ Agree(x, u, {"ic", "icp", "left"}) /\ u.ic = p /\ u.icp = q /\ u.left = L
  BY <1>2, <1>4 DEF Screen, Agree, Fields
<1>8. Heap(u) /\ wins(u) = wins(c) /\ u.win = c.win
  <2>1. Agree(c, u, {"IC", "ic", "icp", "left", "winchange", "unseen", "mode", "drawn",
                     "mainwin", "mainwin2"})
    BY <1>2, <1>7 DEF Agree
  <2> QED BY <1>1, <1>7, <2>1, HeapSame
<1>9. u.IC = x.IC /\ c.IC = t.IC
  BY <1>1, <1>7 DEF Agree, Fields
<1>10. Agree(t, u, {"win", "winlist", "free_win", "fonts", "xwin", "IC", "ic", "icp", "left"})
  BY <1>1, <1>2, <1>7 DEF Agree
<1> QED BY <1>1, <1>2, <1>6, <1>7, <1>8, <1>9, <1>10 DEF Gone, u, x

\* ... and what is left is as it was.
LEMMA GoneKeeps ==
    ASSUME NEW t, Base(t), NEW i \in ICID, t.IC[i].gwin = <<>>, NEW u, Gone(t, u, i)
    PROVE  /\ Base(u) /\ SameFixed(t, u) /\ (Lit(t) => Lit(u)) /\ (Fixed(t) => Fixed(u))
           /\ u.winchange = t.winchange
<1>1. /\ u \in Screen /\ Heap(u) /\ wins(u) = {r \in wins(t) : ~SpotOf(t, r, i)}
      /\ u.IC[i] = NoIC /\ \A j \in IcId \ {i} : u.IC[j] = t.IC[j]
      /\ u.ic = (IF t.ic = i THEN NULL ELSE t.ic)
      /\ u.icp = (IF t.icp = i THEN NULL ELSE t.icp) /\ u.left = t.left \ {i}
  BY DEF Gone
<1>2. /\ u.mode = t.mode /\ u.winchange = t.winchange
      /\ u.mainwin = t.mainwin /\ u.mainwin2 = t.mainwin2
  BY DEF Gone, Agree, Fields
<1>3. \A q \in wins(u) : /\ q \in wins(t) /\ u.win[q].window = t.win[q].window
                         /\ u.win[q].kind = t.win[q].kind /\ u.win[q].imid = t.win[q].imid
                         /\ u.win[q].data = t.win[q].data /\ u.win[q].map = t.win[q].map
  BY <1>1 DEF Gone, Alike, WinFields
<1>4. ICID \subseteq IcId /\ NULL \in IcId /\ t.ic \in IcId /\ t.icp \in IcId /\ i # NULL
  BY DEF IcId, Base, Screen, ICID, NULL
<1>5. /\ ~u.IC[i].live /\ u.IC[i].overspot_win = NULL /\ u.IC[i].gwin = <<>>
      /\ ~u.IC[i].focus /\ u.IC[i].inp_state = {}
  BY <1>1, NoICTyped
<1>6. \A q \in wins(u), j \in ICID : SpotOf(t, q, j) => j # i /\ SpotOf(u, q, j)
  <2> SUFFICES ASSUME NEW q \in wins(u), NEW j \in ICID, SpotOf(t, q, j)
               PROVE  j # i /\ SpotOf(u, q, j)
    OBVIOUS
  <2>1. j # i
    BY <1>1
  <2>2. u.IC[j] = t.IC[j]
    BY <1>1, <1>4, <2>1
  <2> QED BY <1>3, <2>1, <2>2 DEF SpotOf
<1>7. \A q \in wins(u), j \in ICID : MenuOf(t, q, j) => j # i /\ MenuOf(u, q, j)
  <2> SUFFICES ASSUME NEW q \in wins(u), NEW j \in ICID, MenuOf(t, q, j)
               PROVE  j # i /\ MenuOf(u, q, j)
    OBVIOUS
  <2>1. j # i
    <3>1. Len(t.IC[i].gwin) # 1
      OBVIOUS
    <3> QED BY <3>1 DEF MenuOf
  <2>2. u.IC[j] = t.IC[j]
    BY <1>1, <1>4, <2>1
  <2> QED BY <1>3, <2>1, <2>2 DEF MenuOf
<1>8. \A q \in wins(u) : \A k, m : MainOf(t, q, k, m) => MainOf(u, q, k, m)
  BY <1>3 DEF MainOf
<1>9. Own(u)
  <2>1. \A r \in wins(u) : \/ MainOf(u, r, "main", u.mainwin)
                           \/ MainOf(u, r, "main2", u.mainwin2)
                           \/ \E j \in ICID : SpotOf(u, r, j) \/ MenuOf(u, r, j)
    BY <1>2, <1>3, <1>6, <1>7, <1>8 DEF Base, Own
  <2>2. /\ u.mainwin # NULL => u.mainwin \in wins(u) /\ u.win[u.mainwin].kind = "main"
        /\ u.mainwin2 # NULL => u.mainwin2 \in wins(u) /\ u.win[u.mainwin2].kind = "main2"
    <3>1. /\ t.mainwin # NULL => t.mainwin \in wins(t) /\ t.win[t.mainwin].kind = "main"
          /\ t.mainwin2 # NULL => t.mainwin2 \in wins(t) /\ t.win[t.mainwin2].kind = "main2"
      BY DEF Base, Own
    <3>2. \A r \in wins(t) : SpotOf(t, r, i) => t.win[r].kind = "overspot"
      BY DEF SpotOf
    <3> QED BY <1>1, <1>2, <1>3, <3>1, <3>2
  <2>3. \A j \in ICID : u.IC[j].overspot_win # NULL => \E r \in wins(u) : SpotOf(u, r, j)
    <3> SUFFICES ASSUME NEW j \in ICID, u.IC[j].overspot_win # NULL
                 PROVE  \E r \in wins(u) : SpotOf(u, r, j)
      OBVIOUS
    <3>1. j # i /\ t.IC[j].overspot_win # NULL
      BY <1>1, <1>4, <1>5
    <3>2. PICK r \in wins(t) : SpotOf(t, r, j)
      BY <3>1 DEF Base, Own
    <3>3. r \in wins(u)
      BY <1>1, <3>1, <3>2 DEF SpotOf
    <3> QED BY <1>6, <3>2, <3>3
  <2>4. \A j \in ICID : u.IC[j].gwin # <<>> =>
            "CINPUT" \in u.IC[j].inp_state /\ \E r \in wins(u) : MenuOf(u, r, j)
    <3> SUFFICES ASSUME NEW j \in ICID, u.IC[j].gwin # <<>>
                 PROVE  "CINPUT" \in u.IC[j].inp_state /\ \E r \in wins(u) : MenuOf(u, r, j)
      OBVIOUS
    <3>1. j # i /\ u.IC[j] = t.IC[j] /\ t.IC[j].gwin # <<>>
      BY <1>1, <1>4, <1>5
    <3>2. "CINPUT" \in t.IC[j].inp_state /\ \E r \in wins(t) : MenuOf(t, r, j)
      BY <3>1 DEF Base, Own
    <3>3. PICK r \in wins(t) : MenuOf(t, r, j)
      BY <3>2
    <3>4. r \in wins(u)
      BY <1>1, <3>3 DEF MenuOf, SpotOf
    <3> QED BY <1>7, <3>1, <3>2, <3>3, <3>4
  <2> QED BY <2>1, <2>2, <2>3, <2>4 DEF Own
<1>10. ICs(u)
  <2>1. /\ u.ic # NULL => u.IC[u.ic].live
        /\ u.icp # NULL => u.IC[u.icp].live
        /\ ~u.IC[NULL].live
    BY <1>1, <1>4 DEF Base, ICs
  <2>2. \A j \in IcId : ~u.IC[j].live => /\ u.IC[j].overspot_win = NULL /\ u.IC[j].gwin = <<>>
                                         /\ ~u.IC[j].focus /\ u.IC[j].inp_state = {}
    BY <1>1, <1>5 DEF Base, ICs
  <2>3. /\ \A j \in IcId : "XIMFOCUS" \in u.IC[j].inp_state =>
                               "CINPUT" \in u.IC[j].inp_state /\ u.IC[j].focus
        /\ \A j \in IcId : "2BFOCUS" \in u.IC[j].inp_state =>
                               "2BYTES" \in u.IC[j].inp_state /\ u.IC[j].focus
    BY <1>1, <1>5 DEF Base, ICs
  <2> QED BY <2>1, <2>2, <2>3 DEF ICs
<1>11. SameFixed(t, u)
  <2>1. /\ t.mainwin # NULL => u.win[t.mainwin].map = t.win[t.mainwin].map
        /\ t.mainwin2 # NULL => u.win[t.mainwin2].map = t.win[t.mainwin2].map
    BY <1>2, <1>3, <1>9 DEF Own
  <2> QED BY <1>2, <2>1 DEF SameFixed, mapped
<1>12. Lit(t) => Lit(u)
  <2> SUFFICES ASSUME Lit(t), NEW r \in wins(u), mapped(u, r), u.win[r].imid # NULL
               PROVE  u.IC[u.win[r].imid].focus \/ u.win[r].imid \in u.left
    BY DEF Lit
  <2>1. r \in wins(t) /\ mapped(t, r) /\ u.win[r].imid = t.win[r].imid
    BY <1>3 DEF mapped
  <2>2. t.win[r].imid \in ICID /\ t.win[r].imid # i
    <3>1. t.win[r].imid \in ICID
          /\ (SpotOf(t, r, t.win[r].imid) \/ MenuOf(t, r, t.win[r].imid))
      BY <2>1, Owners
    <3> QED BY <1>6, <1>7, <3>1
  <2> QED BY <1>1, <1>4, <2>1, <2>2 DEF Lit
<1>13. Fixed(t) => Fixed(u)
  BY <1>11, FixedKept
<1> QED BY <1>1, <1>2, <1>9, <1>10, <1>11, <1>12, <1>13 DEF Base

\* An IC is destroyed, whether it has the focus or not.
LEMMA ICDeleted ==
    ASSUME MaxReq = 1, NEW t, Base(t), Lit(t), Fixed(t), NEW i \in ICID
    PROVE  /\ Base(delete_IC(t, i)) /\ Lit(delete_IC(t, i)) /\ Fixed(delete_IC(t, i))
           /\ "IM" \in delete_IC(t, i).winchange
<1> DEFINE a == call_xim_end(t, i)
           b == changed(a, {"IM"})
           c == free_overspot(b, i)
           u == without_ic([c EXCEPT !.IC[i] = NoIC], i)
<1>1. delete_IC(t, i) = u
  <2>1. delete_IC(t, i) = [c EXCEPT !.IC[i] = NoIC, !.ic  = IF @ = i THEN NULL ELSE @,
                                    !.icp = IF @ = i THEN NULL ELSE @, !.left = @ \ {i}]
    BY DEF delete_IC
  <2> HIDE DEF c
  <2> QED BY <2>1 DEF without_ic
<1>2. Ended(t, a, i)
  BY XimEnded
<1> HIDE DEF a
<1>3. Base(a) /\ Lit(a) /\ Fixed(a) /\ a.IC[i].gwin = <<>>
  BY <1>2, EndedKeeps DEF Ended
<1>4. Base(b) /\ Lit(b) /\ Fixed(b) /\ "IM" \in b.winchange /\ Agree(a, b, {"winchange"})
  BY <1>3, FlaggedBase
<1> HIDE DEF b
<1>5. b.IC[i].gwin = <<>>
  BY <1>3, <1>4 DEF Agree, Fields
<1>6. Erased(b, c, i)
  BY <1>4, SpotErased
<1> HIDE DEF c
<1>7. Gone(b, u, i)
  BY <1>4, <1>6, ICGone
<1> HIDE DEF u
<1>8. Base(u) /\ Lit(u) /\ Fixed(u) /\ u.winchange = b.winchange
  BY <1>4, <1>5, <1>7, GoneKeeps
<1> QED BY <1>1, <1>4, <1>8

-----------------------------------------------------------------------------
(***************************************************************************)
(* The ICs of a client are destroyed one after the other.  deletions is    *)
(* the function that the fold over a set of them is defined by: it exists, *)
(* for the sets of any number of ICs, and it ends in a sound state.        *)
(***************************************************************************)
one_of(S) == CHOOSE i \in S : TRUE

Deletion(t, I, f) ==
    [S \in SUBSET I |-> IF S = {} THEN t ELSE delete_IC(f[S \ {one_of(S)}], one_of(S))]

deletions(t, I) == CHOOSE f : f = Deletion(t, I, f)

\* The fold, by its definition.
LEMMA DeletionsFold ==
    ASSUME NEW t, NEW I
    PROVE  FoldSet(LAMBDA i, u : delete_IC(u, i), t, I) = deletions(t, I)[I]
BY DEF FoldSet, MapThenFoldSet, deletions, Deletion, one_of

\* A set of ICs is finite, and smaller without one of them.
LEMMA SetOfICs ==
    ASSUME NEW S \in SUBSET ICID
    PROVE  /\ Cardinality(S) \in Nat
           /\ S = {} <=> Cardinality(S) = 0
           /\ S # {} => /\ one_of(S) \in S
                        /\ Cardinality(S \ {one_of(S)}) = Cardinality(S) - 1
<1>1. IsFiniteSet(ICID)
  BY WinAssumption, FS_Interval DEF ICID
<1>2. IsFiniteSet(S)
  BY <1>1, FS_Subset
<1>3. S # {} => one_of(S) \in S
  BY DEF one_of
<1>4. \A x \in S : Cardinality(S \ {x}) = Cardinality(S) - 1
  BY <1>2, FS_RemoveElement
<1> QED BY <1>2, <1>3, <1>4, FS_CardinalityType, FS_EmptySet

\* f is as the fold wants it for the sets of up to n ICs.
Upto(t, I, f, n) ==
    \A S \in SUBSET I : Cardinality(S) <= n => Deletion(t, I, f)[S] = f[S]

\* Each step of the recursion serves the sets of one more IC, ...
LEMMA OneMore ==
    ASSUME NEW t, NEW I \in SUBSET ICID, NEW f, NEW n \in Nat, Upto(t, I, f, n)
    PROVE  Upto(t, I, Deletion(t, I, f), n + 1)
<1> DEFINE g == Deletion(t, I, f)
<1> SUFFICES ASSUME NEW S \in SUBSET I, Cardinality(S) <= n + 1
             PROVE  Deletion(t, I, g)[S] = g[S]
  BY DEF Upto
<1>1. S \in SUBSET ICID
  OBVIOUS
<1>2. CASE S = {}
  BY <1>2 DEF Deletion
<1>3. CASE S # {}
  <2> DEFINE x == one_of(S)
  <2>1. Cardinality(S \ {x}) <= n /\ S \ {x} \in SUBSET I
    BY <1>1, <1>3, SetOfICs
  <2>2. g[S \ {x}] = f[S \ {x}]
    BY <2>1 DEF Upto
  <2>3. g[S] = delete_IC(f[S \ {x}], x)
    BY <1>3 DEF Deletion
  <2> HIDE DEF g
  <2>4. Deletion(t, I, g)[S] = delete_IC(g[S \ {x}], x)
    BY <1>3 DEF Deletion
  <2> QED BY <2>2, <2>3, <2>4
<1> QED BY <1>2, <1>3

\* ... so there is a function for every size.
LEMMA UptoAny ==
    ASSUME NEW t, NEW I \in SUBSET ICID, NEW n \in Nat
    PROVE  \E f : Upto(t, I, f, n)
<1> DEFINE bad == {k \in Nat : ~\E f : Upto(t, I, f, k)}
<1> SUFFICES ASSUME bad # {}
             PROVE  FALSE
  OBVIOUS
<1>1. PICK k \in bad : \A j \in bad : k <= j
  <2>1. bad \in SUBSET Nat
    OBVIOUS
  <2> HIDE DEF bad
  <2> QED BY <2>1, LeastOf
<1>2. Upto(t, I, [S \in SUBSET I |-> t], 0)
  <2> SUFFICES ASSUME NEW S \in SUBSET I, Cardinality(S) <= 0
               PROVE  Deletion(t, I, [X \in SUBSET I |-> t])[S] = [X \in SUBSET I |-> t][S]
    BY DEF Upto
  <2>1. S \in SUBSET ICID
    OBVIOUS
  <2>2. S = {}
    <3>1. Cardinality(S) \in Nat /\ (S = {} <=> Cardinality(S) = 0)
      BY <2>1, SetOfICs
    <3> QED BY <3>1
  <2> QED BY <2>2 DEF Deletion
<1>3. k # 0
  BY <1>1, <1>2
<1>4. k - 1 \in Nat /\ k - 1 \notin bad
  BY <1>1, <1>3
<1>5. PICK f : Upto(t, I, f, k - 1)
  BY <1>4
<1>6. Upto(t, I, Deletion(t, I, f), (k - 1) + 1)
  BY <1>4, <1>5, OneMore
<1>7. (k - 1) + 1 = k
  BY <1>1
<1> QED BY <1>1, <1>6, <1>7

\* The function exists.
LEMMA DeletionsDefined ==
    ASSUME NEW t, NEW I \in SUBSET ICID
    PROVE  deletions(t, I) = Deletion(t, I, deletions(t, I))
<1>1. Cardinality(I) \in Nat
  BY SetOfICs
<1>2. PICK f : Upto(t, I, f, Cardinality(I))
  BY <1>1, UptoAny
<1> DEFINE g == Deletion(t, I, f)
<1>3. \A S \in SUBSET I : g[S] = f[S]
  <2> SUFFICES ASSUME NEW S \in SUBSET I
               PROVE  g[S] = f[S]
    OBVIOUS
  <2>1. IsFiniteSet(I)
    <3>1. IsFiniteSet(ICID)
      BY WinAssumption, FS_Interval DEF ICID
    <3> QED BY <3>1, FS_Subset
  <2>2. Cardinality(S) <= Cardinality(I)
    BY <2>1, FS_Subset
  <2> QED BY <1>2, <2>2 DEF Upto
<1>4. \A S \in SUBSET I : Deletion(t, I, g)[S] = g[S]
  <2> SUFFICES ASSUME NEW S \in SUBSET I
               PROVE  Deletion(t, I, g)[S] = g[S]
    OBVIOUS
  <2>1. g[S] = IF S = {} THEN t ELSE delete_IC(f[S \ {one_of(S)}], one_of(S))
    BY DEF Deletion
  <2>2. g[S \ {one_of(S)}] = f[S \ {one_of(S)}]
    <3>1. S \ {one_of(S)} \in SUBSET I
      OBVIOUS
    <3> QED BY <1>3, <3>1
  <2> HIDE DEF g
  <2>3. Deletion(t, I, g)[S]
          = IF S = {} THEN t ELSE delete_IC(g[S \ {one_of(S)}], one_of(S))
    BY DEF Deletion
  <2> QED BY <2>1, <2>2, <2>3
<1>5. g = [S \in SUBSET I |-> g[S]]
  BY DEF Deletion
<1>6. Deletion(t, I, g) = [S \in SUBSET I |-> Deletion(t, I, g)[S]]
  <2> HIDE DEF g
  <2> QED BY DEF Deletion
<1> HIDE DEF g
<1>7. g = Deletion(t, I, g)
  BY <1>4, <1>5, <1>6
<1> QED BY <1>7 DEF deletions

\* The state between two deletions.
Thinned(t) == Base(t) /\ Lit(t) /\ Fixed(t)

\* Each deletion leaves the windows that are left as they should be.
LEMMA DeletionsSound ==
    ASSUME MaxReq = 1, NEW t, Thinned(t), NEW I \in SUBSET ICID
    PROVE  \A S \in SUBSET I : Thinned(deletions(t, I)[S])
<1> DEFINE it == deletions(t, I)
           bad == {k \in Nat : \E S \in SUBSET I : Cardinality(S) = k /\ ~Thinned(it[S])}
<1> HIDE DEF it
<1>1. \A S \in SUBSET I : S \in SUBSET ICID /\ Cardinality(S) \in Nat
  BY SetOfICs
<1>2. \A S \in SUBSET I :
          it[S] = IF S = {} THEN t ELSE delete_IC(it[S \ {one_of(S)}], one_of(S))
  <2>1. it = Deletion(t, I, it)
    BY DeletionsDefined DEF it
  <2>2. \A S \in SUBSET I : Deletion(t, I, it)[S]
            = IF S = {} THEN t ELSE delete_IC(it[S \ {one_of(S)}], one_of(S))
    BY DEF Deletion
  <2> QED BY <2>1, <2>2
<1>3. ASSUME bad # {}
      PROVE  FALSE
  <2>1. PICK k \in bad : \A j \in bad : k <= j
    <3>1. bad \in SUBSET Nat
      OBVIOUS
    <3> HIDE DEF bad
    <3> QED BY <1>3, <3>1, LeastOf
  <2>2. PICK S \in SUBSET I : Cardinality(S) = k /\ ~Thinned(it[S])
    BY <2>1
  <2>3. S # {}
    BY <1>2, <2>2
  <2> DEFINE x == one_of(S)
  <2>4. x \in S /\ Cardinality(S \ {x}) = k - 1 /\ k - 1 \in Nat /\ S \ {x} \in SUBSET I
    <3>1. S \in SUBSET ICID /\ Cardinality(S) # 0
      BY <1>1, <2>3, SetOfICs
    <3> QED BY <2>1, <2>2, <2>3, <3>1, SetOfICs
  <2>5. k - 1 \notin bad
    BY <2>1, <2>4
  <2>6. Thinned(it[S \ {x}])
    BY <2>4, <2>5
  <2>7. it[S] = delete_IC(it[S \ {x}], x)
    BY <1>2, <2>3
  <2>8. x \in ICID
    BY <2>4
  <2> HIDE DEF x
  <2>9. Thinned(delete_IC(it[S \ {x}], x))
    BY <2>6, <2>8, ICDeleted DEF Thinned
  <2> QED BY <2>2, <2>7, <2>9
<1>4. \A S \in SUBSET I : Thinned(it[S])
  BY <1>1, <1>3
<1> QED BY <1>4 DEF it

\* XIM_DESTROY_IC, a sweep and XIM_CLOSE.
LEMMA ICsDeleted ==
    ASSUME MaxReq = 1, NEW t, Good(t), NEW I \in SUBSET ICID, I # {}
    PROVE  Ready(FoldSet(LAMBDA i, u : delete_IC(u, i), t, I))
<1> DEFINE it == deletions(t, I)
           x  == one_of(I)
           b  == it[I \ {x}]
<1>1. Thinned(t)
  BY UpLit DEF Good, Thinned
<1>2. x \in I /\ x \in ICID /\ I \ {x} \in SUBSET I
  BY DEF one_of
<1>3. Thinned(b)
  BY <1>1, <1>2, DeletionsSound
<1>4. it[I] = delete_IC(b, x)
  <2> HIDE DEF it
  <2>1. it = Deletion(t, I, it)
    BY DeletionsDefined DEF it
  <2>2. Deletion(t, I, it)[I] = delete_IC(it[I \ {one_of(I)}], one_of(I))
    BY DEF Deletion
  <2> QED BY <2>1, <2>2
<1>5. FoldSet(LAMBDA i, u : delete_IC(u, i), t, I) = it[I]
  BY DeletionsFold
<1> HIDE DEF it, x, b
<1> DEFINE h == delete_IC(b, x)
<1>6. Base(h) /\ Lit(h) /\ Fixed(h) /\ "IM" \in h.winchange
  BY <1>2, <1>3, ICDeleted DEF Thinned
<1> HIDE DEF h
<1>7. Ready(h)
  BY <1>6, LitBefore DEF Ready
<1> QED BY <1>4, <1>5, <1>7 DEF h

-----------------------------------------------------------------------------
(***************************************************************************)
(* An exposed window is drawn between the messages.                        *)
(***************************************************************************)
\* A candidate window that comes up is that of an IC with the focus.
LEMMA SpotExposed ==
    ASSUME NEW t, Good(t), NEW w \in wins(t), t.win[w].kind = "overspot"
    PROVE  Good(gui_overspot_draw(t, w))
<1> DEFINE u == gui_overspot_draw(t, w)
           i == t.win[w].imid
<1>1. t \in Screen /\ Heap(t) /\ Base(t) /\ ICs(t)
  BY DEF Good, Base
<1>2. /\ i \in ICID /\ SpotOf(t, w, i) /\ i # NULL /\ i \in IcId
      /\ \A r \in wins(t) : t.win[r].imid = NULL => r # w
  <2>1. \/ MainOf(t, w, "main", t.mainwin) \/ MainOf(t, w, "main2", t.mainwin2)
        \/ \E j \in ICID : SpotOf(t, w, j) \/ MenuOf(t, w, j)
    BY <1>1 DEF Base, Own
  <2>2. \E j \in ICID : SpotOf(t, w, j)
    BY <2>1 DEF MainOf, MenuOf
  <2> QED BY <2>2 DEF SpotOf, ICID, NULL, IcId
<1>3. t.win[w].data = i
  BY <1>2 DEF SpotOf
<1>4. /\ Drawn(t, u, {"IC", "fonts", "win"}, {w})
      /\ u.win[w].map => inputs(t, i)
  BY <1>1, <1>2, <1>3, SpotDrawn
<1> HIDE DEF u, i
<1>5. Drawn(t, u, Redrawn, {w})
  <2>1. {"IC", "fonts", "win"} \subseteq Redrawn
    BY DEF Redrawn
  <2> QED BY <1>4, <2>1, DrawnMore
<1>6. \A r \in wins(t) \ {w} : u.win[r].map = t.win[r].map
  BY <1>4 DEF Drawn
<1>7. SameShown(t, u) /\ Base(u)
  BY <1>1, <1>2, <1>4, <1>6, ShownKept
<1>8. Fixed(u) /\ Told(u)
  BY <1>7, ToldKept DEF Good
<1>9. /\ wins(u) = wins(t) /\ u.ic = t.ic /\ u.left = t.left
      /\ \A r \in wins(t) : u.win[r].imid = t.win[r].imid
      /\ \A j \in IcId : u.IC[j].focus = t.IC[j].focus /\ inputs(u, j) = inputs(t, j)
  <2>1. wins(u) = wins(t)
    BY <1>5 DEF Drawn
  <2>2. /\ u.ic = t.ic /\ u.left = t.left
        /\ \A r \in wins(t) : u.win[r].imid = t.win[r].imid
        /\ \A j \in IcId : u.IC[j].focus = t.IC[j].focus
    BY <1>5, DrawnFields
  <2>3. \A j \in IcId : inputs(u, j) = inputs(t, j)
    BY <1>1, <1>5, DrawnAsked
  <2> QED BY <2>1, <2>2, <2>3
<1>10. Up(u)
  <2> SUFFICES ASSUME NEW r \in wins(u), mapped(u, r), u.win[r].imid # NULL
               PROVE  /\ u.IC[u.win[r].imid].focus \/ u.win[r].imid \in u.left
                      /\ u.win[r].imid = u.ic => inputs(u, u.ic)
    BY DEF Up
  <2>1. u.win[r].imid = t.win[r].imid /\ t.win[r].imid \in IcId
    BY <1>1, <1>9, Owners DEF IcId
  <2>2. CASE r = w
    <3>1. inputs(t, i) /\ u.win[r].imid = i
      BY <1>4, <2>1, <2>2 DEF mapped, i
    <3>2. t.IC[i].focus
      BY <1>1, <1>2, <3>1 DEF inputs, is_on, ICs
    <3> QED BY <1>2, <1>9, <3>1, <3>2
  <2>3. CASE r # w
    <3>1. mapped(t, r)
      BY <1>6, <1>9, <2>3 DEF mapped
    <3>2. /\ t.IC[t.win[r].imid].focus \/ t.win[r].imid \in t.left
          /\ t.win[r].imid = t.ic => inputs(t, t.ic)
      BY <1>9, <2>1, <3>1 DEF Good, Up
    <3> QED BY <1>9, <2>1, <3>2
  <2> QED BY <2>2, <2>3
<1> QED BY <1>7, <1>8, <1>10 DEF Good, u

\* A main window that is exposed is as it should be already.
LEMMA WideExposed ==
    ASSUME NEW t, Good(t), NEW w \in wins(t), w = t.mainwin, t.win[w].kind = "main"
    PROVE  Good(xcin_mainwin_draw(t, w))
<1> DEFINE u == xcin_mainwin_draw(t, w)
<1>1. t \in Screen /\ Heap(t) /\ Base(t) /\ Up(t) /\ Fixed(t) /\ Told(t)
  BY DEF Good, Base
<1>2. w # NULL /\ t.win[w].imid = NULL
  BY <1>1, ListsIn, Owners
<1>3. /\ Drawn(t, u, {"win", "drawn"}, {w})
      /\ u.win[w].map = IF comes_and_goes(t) THEN asked_for(t) /\ ~small(t) ELSE t.win[w].map
      /\ u.win[w].map => u.drawn["main"] = title(t, t.ic)
      /\ u.drawn["main2"] = t.drawn["main2"]
  BY <1>1, MainDrawn
<1> HIDE DEF u
<1>4. Drawn(t, u, Redrawn, {w})
  <2>1. {"win", "drawn"} \subseteq Redrawn
    BY DEF Redrawn
  <2> QED BY <1>3, <2>1, DrawnMore
<1>5. Base(u) /\ Up(u)
  <2>1. u \in Screen /\ Heap(u) /\ Own(u) /\ ICs(u)
    BY <1>1, <1>4, DrawnOwn DEF Base, Drawn
  <2> QED BY <1>1, <1>2, <1>4, <2>1, UpKept DEF Base
<1>6. /\ u.ic = t.ic /\ u.unseen = t.unseen /\ u.mainwin = t.mainwin /\ u.mainwin2 = t.mainwin2
      /\ u.IC = t.IC
  BY <1>3 DEF Drawn, Agree, Fields
<1>7. /\ asked_for(u) = asked_for(t) /\ small(u) = small(t)
      /\ (\A f : in_mode(u, f) = in_mode(t, f)) /\ comes_and_goes(u) = comes_and_goes(t)
      /\ \A j \in IcId : title(u, j) = title(t, j)
  BY <1>1, <1>4, DrawnAsked
<1>8. t.ic \in IcId
  BY <1>1 DEF Screen, IcId
<1>9. t.mainwin2 # NULL => mapped(u, t.mainwin2) = mapped(t, t.mainwin2)
  <2>1. t.mainwin2 # NULL => t.mainwin2 \in wins(t) /\ t.win[t.mainwin2].kind = "main2"
    BY <1>1 DEF Base, Own
  <2>2. \A r \in wins(t) \ {w} : u.win[r].map = t.win[r].map
    BY <1>3 DEF Drawn
  <2> QED BY <2>1, <2>2 DEF mapped
<1>10. mapped(u, w) => mapped(t, w)
  BY <1>1, <1>2, <1>3 DEF Told, Seen, mapped
<1>11. ~t.unseen => mapped(u, w) = mapped(t, w)
  BY <1>1, <1>2, <1>3 DEF Told, Seen, mapped
<1>12. Fixed(u)
  BY <1>1, <1>2, <1>3, <1>6, <1>7, <1>9, <1>10 DEF Fixed, wide_is_up, mapped
<1>13. ASSUME ~t.unseen
       PROVE  Seen(u)
  <2>1. Seen(t) /\ mapped(u, w) = mapped(t, w)
    BY <1>1, <1>11, <1>13 DEF Told
  <2>2. wide_is_up(u) = wide_is_up(t)
    BY <1>6, <2>1 DEF wide_is_up, mapped
  <2>3. title(u, u.ic) = title(t, t.ic)
    BY <1>6, <1>7, <1>8
  <2> QED BY <1>2, <1>3, <1>6, <1>7, <1>9, <2>1, <2>2, <2>3 DEF Seen, mapped
<1>14. Told(u)
  BY <1>1, <1>6, <1>7, <1>13 DEF Told
<1> QED BY <1>5, <1>12, <1>14 DEF Good, u

\* The small one, and any window.
LEMMA SmallExposed ==
    ASSUME NEW t, Good(t), NEW w \in wins(t), w = t.mainwin2, t.win[w].kind = "main2"
    PROVE  Good(xcin_mainwin2_draw(t, w))
<1> DEFINE u == xcin_mainwin2_draw(t, w)
<1>1. t \in Screen /\ Heap(t) /\ Base(t) /\ Up(t) /\ Fixed(t) /\ Told(t)
  BY DEF Good, Base
<1>2. w # NULL /\ t.win[w].imid = NULL
  BY <1>1, ListsIn, Owners
<1>3. /\ Drawn(t, u, {"win", "drawn"}, {w})
      /\ in_mode(t, "WINONLY") => u = t
      /\ ~in_mode(t, "WINONLY") =>
            /\ u.win[w].map = ~((~asked_for(t) /\ in_mode(t, "HIDE")) \/ wide_is_up(t))
            /\ u.win[w].map => u.drawn["main2"] = title(t, t.ic)
      /\ u.drawn["main"] = t.drawn["main"]
  BY <1>1, Main2Drawn
<1> HIDE DEF u
<1>4. CASE in_mode(t, "WINONLY")
  BY <1>3, <1>4 DEF u
<1>5. CASE ~in_mode(t, "WINONLY")
  <2>1. Drawn(t, u, Redrawn, {w})
    <3>1. {"win", "drawn"} \subseteq Redrawn
      BY DEF Redrawn
    <3> QED BY <1>3, <3>1, DrawnMore
  <2>2. Base(u) /\ Up(u)
    <3>1. u \in Screen /\ Heap(u) /\ Own(u) /\ ICs(u)
      BY <1>1, <2>1, DrawnOwn DEF Base, Drawn
    <3> QED BY <1>1, <1>2, <2>1, <3>1, UpKept DEF Base
  <2>3. /\ u.ic = t.ic /\ u.unseen = t.unseen /\ u.mainwin = t.mainwin
        /\ u.mainwin2 = t.mainwin2 /\ u.IC = t.IC
    BY <1>3 DEF Drawn, Agree, Fields
  <2>4. /\ asked_for(u) = asked_for(t) /\ small(u) = small(t)
        /\ (\A f : in_mode(u, f) = in_mode(t, f)) /\ comes_and_goes(u) = comes_and_goes(t)
        /\ \A j \in IcId : title(u, j) = title(t, j)
    BY <1>1, <2>1, DrawnAsked
  <2>5. t.ic \in IcId
    BY <1>1 DEF Screen, IcId
  <2>6. t.mainwin # NULL => mapped(u, t.mainwin) = mapped(t, t.mainwin)
    <3>1. t.mainwin # NULL => t.mainwin \in wins(t) /\ t.win[t.mainwin].kind = "main"
      BY <1>1 DEF Base, Own
    <3>2. \A r \in wins(t) \ {w} : u.win[r].map = t.win[r].map
      BY <1>3 DEF Drawn
    <3> QED BY <3>1, <3>2 DEF mapped
  <2>7. wide_is_up(u) = wide_is_up(t)
    BY <2>3, <2>6 DEF wide_is_up, mapped
  <2>8. mapped(u, w) = ~((~asked_for(t) /\ in_mode(t, "HIDE")) \/ wide_is_up(t))
        /\ (mapped(u, w) => u.drawn["main2"] = title(t, t.ic))
    BY <1>3, <1>5 DEF mapped
  <2>9. Fixed(u)
    BY <1>1, <1>2, <1>5, <2>3, <2>4, <2>6, <2>7, <2>8 DEF Fixed
  <2>10. ASSUME ~t.unseen
         PROVE  Seen(u)
    <3>1. Seen(t)
      BY <1>1, <2>10 DEF Told
    <3>2. title(u, u.ic) = title(t, t.ic)
      BY <2>3, <2>4, <2>5
    <3> QED BY <1>2, <1>3, <2>3, <2>4, <2>6, <2>7, <2>8, <3>1, <3>2 DEF Seen
  <2>11. Told(u)
    BY <1>1, <2>3, <2>4, <2>10 DEF Told
  <2> QED BY <2>2, <2>9, <2>11 DEF Good, u
<1> QED BY <1>4, <1>5

LEMMA Exposed ==
    ASSUME NEW t, Good(t), NEW w \in wins(t)
    PROVE  Good(draw(t, w))
<1>1. \/ MainOf(t, w, "main", t.mainwin) \/ MainOf(t, w, "main2", t.mainwin2)
      \/ \E j \in ICID : SpotOf(t, w, j) \/ MenuOf(t, w, j)
  BY DEF Good, Base, Own
<1>2. CASE MainOf(t, w, "main", t.mainwin)
  <2>1. w = t.mainwin /\ t.win[w].kind = "main"
    BY <1>2 DEF MainOf
  <2>2. Good(xcin_mainwin_draw(t, w))
    BY <2>1, WideExposed
  <2> QED BY <2>1, <2>2 DEF draw
<1>3. CASE MainOf(t, w, "main2", t.mainwin2)
  <2>1. w = t.mainwin2 /\ t.win[w].kind = "main2"
    BY <1>3 DEF MainOf
  <2>2. Good(xcin_mainwin2_draw(t, w))
    BY <2>1, SmallExposed
  <2> QED BY <2>1, <2>2 DEF draw
<1>4. CASE \E j \in ICID : SpotOf(t, w, j)
  <2>1. t.win[w].kind = "overspot"
    BY <1>4 DEF SpotOf
  <2>2. Good(gui_overspot_draw(t, w))
    BY <2>1, SpotExposed
  <2> QED BY <2>1, <2>2 DEF draw
<1>5. CASE \E j \in ICID : MenuOf(t, w, j)
  <2>1. t.win[w].kind = "menusel"
    BY <1>5 DEF MenuOf
  <2> QED BY <2>1 DEF draw
<1> QED BY <1>1, <1>2, <1>3, <1>4, <1>5

-----------------------------------------------------------------------------
(***************************************************************************)
(* xcin starts with one main window.                                       *)
(***************************************************************************)
StartMode == SUBSET {"HIDE", "MAINWIN2", "WINONLY", "USRFONTSET"}

\* The memory before it has any window.
blank(mode) ==
    [IC |-> [i \in ICID \cup {NULL} |-> NoIC], ic |-> NULL, icp |-> NULL,
     mode |-> mode, winchange |-> {"IM"}, fonts |-> NoFonts,
     win |-> <<>>, winlist |-> NULL, free_win |-> NULL, mainwin |-> NULL,
     mainwin2 |-> NULL, xwin |-> {}, xid |-> 0, unseen |-> FALSE, left |-> {},
     drawn |-> [k \in {"main", "main2"} |-> NoTitle]]

\* It has none.
LEMMA BlankSound ==
    ASSUME NEW mode \in StartMode
    PROVE  blank(mode) \in Screen /\ Heap(blank(mode)) /\ wins(blank(mode)) = {}
<1> DEFINE t == blank(mode)
           I == [i \in ICID \cup {NULL} |-> NoIC]
           D == [k \in {"main", "main2"} |-> NoTitle]
<1>1. I \in [ICID \cup {NULL} -> ICRec]
  BY NoICTyped
<1>2. D \in [{"main", "main2"} -> [im : Im, wide : BOOLEAN]]
  BY DEF NoTitle, Im
<1>3. NoFonts \in FontMemory
  BY DEF NoFonts, FontMemory, NoFont, NULL
<1>4. t = [IC |-> I, ic |-> NULL, icp |-> NULL,
           mode |-> mode, winchange |-> {"IM"}, fonts |-> NoFonts,
           win |-> <<>>, winlist |-> NULL, free_win |-> NULL, mainwin |-> NULL,
           mainwin2 |-> NULL, xwin |-> {}, xid |-> 0, unseen |-> FALSE, left |-> {},
           drawn |-> D]
  BY DEF blank
<1>5. mode \in SUBSET Flag
  BY DEF StartMode, Flag
<1> HIDE DEF I, D, t
<1>6. t \in Screen
  BY <1>1, <1>2, <1>3, <1>4, <1>5 DEF Screen, NULL
<1>7. IsList(t.win, t.winlist, {}) /\ IsList(t.win, t.free_win, {})
  BY <1>4, ListEmpty
<1> DEFINE H == [r \in {} |-> t.win[r].font]
           A == [r \in {} |-> t.win[r].asked]
<1>8. DOMAIN H = {} /\ DOMAIN A = {}
  OBVIOUS
<1> HIDE DEF H, A
<1>9. FontsSound(NoFonts, H, A)
  <2>1. HeldFonts(NoFonts, H, A)
    BY <1>8, FS_EmptySet DEF HeldFonts
  <2>2. ListsOfFonts(NoFonts, {}, {})
    BY ListEmpty DEF ListsOfFonts, NoFonts, NoFont
  <2>3. CountedFonts(NoFonts, {}, {}, H)
    BY DEF CountedFonts
  <2>4. \A c \in DOMAIN NoFonts.cell : NoFonts.cell[c].prev = NoFont
    BY DEF NoFonts
  <2> QED BY <1>3, <2>1, <2>2, <2>3, <2>4 DEF FontsSound
<1>10. /\ \A r \in {} : ~t.win[r].exit /\ t.win[r].window \in 1 .. t.xid
       /\ \A q, r \in {} : t.win[q].window = t.win[r].window => q = r
       /\ {} \cap {} = {}
  OBVIOUS
<1>11. t.xwin = {t.win[r].window : r \in {}} /\ t.fonts = NoFonts
  BY <1>4
<1>12. FontsSound(t.fonts, [r \in {} |-> t.win[r].font], [r \in {} |-> t.win[r].asked])
  BY <1>9, <1>11 DEF H, A
<1>13. Heap(t) /\ wins(t) = {}
  BY <1>6, <1>7, <1>10, <1>11, <1>12, HeapMade
<1> QED BY <1>6, <1>13 DEF t

\* What the first window is.
Opened(t, m, w, kind) ==
    /\ m.win[w].kind = kind /\ m.win[w].imid = NULL /\ wins(m) = {w} /\ w # NULL
    /\ m \in Screen /\ Heap(m)
    /\ Agree(t, m, Making \cup {"mainwin", "mainwin2"})

First(t, m, w, wide_one, small_one, kind, up) ==
    /\ Opened(t, m, w, kind) /\ m.mainwin = wide_one /\ m.mainwin2 = small_one
    /\ mapped(m, w) = up

\* The first window is one of the two.
LEMMA FirstMain ==
    ASSUME NEW mode \in StartMode, NEW kind \in {"main", "main2"}, NEW up \in BOOLEAN,
           NEW n, n = new_main(blank(mode), kind), NEW v, v = gui_winmap_change(n.mem, n.rec, up)
    PROVE  /\ First(blank(mode), as_main(v, n.rec), n.rec, n.rec, NULL, kind, up)
           /\ First(blank(mode), as_main2(v, n.rec), n.rec, NULL, n.rec, kind, up)
<1> DEFINE t == blank(mode)
           r == gui_create_fontset(t.fonts, DefaultFont)
           a == as_main(v, n.rec)
           b == as_main2(v, n.rec)
           w == n.rec
<1>1. t \in Screen /\ Heap(t) /\ wins(t) = {}
  BY BlankSound
<1>2. t.mainwin = NULL /\ t.mainwin2 = NULL
  BY DEF blank
<1>3. n = new_window(gui_new_win(t), kind, NULL, NULL, r)
  BY DEF new_main
<1> HIDE DEF t
<1>4. Made(t, n.mem, w, kind, NULL, NULL)
  <2>1. Gives(r, fonts_of(t), asked_of(t)) /\ r.font # NoFont
    BY <1>1, FirstFont
  <2> HIDE DEF r
  <2>2. NULL \in ICID \cup {NULL} /\ NULL \in Nat /\ kind \in {"main", "main2", "overspot", "menusel"}
    BY DEF NULL
  <2> QED BY <1>1, <1>3, <2>1, <2>2, WindowMade
<1> HIDE DEF r
<1>5. MainReady(t, v, w, kind, up)
  BY <1>1, <1>4, MainMapped
<1>6. /\ MainMade(t, a, w, kind, up) /\ a.mainwin = w /\ a.mainwin2 = t.mainwin2
      /\ MainMade(t, b, w, kind, up) /\ b.mainwin2 = w /\ b.mainwin = t.mainwin
  BY <1>1, <1>5, MainSet
<1> HIDE DEF a, b, w
<1>7. \A m : MainMade(t, m, w, kind, up) => Opened(t, m, w, kind) /\ mapped(m, w) = up
  <2> SUFFICES ASSUME NEW m, MainMade(t, m, w, kind, up)
               PROVE  Opened(t, m, w, kind) /\ mapped(m, w) = up
    OBVIOUS
  <2>1. m \in Screen /\ Heap(m) /\ wins(m) = {w}
    BY <1>1 DEF MainMade, Added
  <2>2. w # NULL
    BY <2>1, ListsIn
  <2>3. Agree(t, m, Making \cup {"mainwin", "mainwin2"})
    BY DEF MainMade, Added, Agree, Making
  <2> QED BY <2>1, <2>2, <2>3 DEF MainMade, Opened, mapped
<1> QED BY <1>2, <1>6, <1>7 DEF a, b, t, w, First

\* Nobody has the focus yet.
LEMMA OpenedBase ==
    ASSUME NEW mode \in StartMode, NEW m, NEW w, NEW kind, Opened(blank(mode), m, w, kind),
           \/ kind = "main" /\ m.mainwin = w /\ m.mainwin2 = NULL
           \/ kind = "main2" /\ m.mainwin2 = w /\ m.mainwin = NULL
    PROVE  /\ Base(m) /\ Up(m) /\ m.mode = mode /\ m.ic = NULL /\ ~m.unseen
           /\ ~asked_for(m) /\ m.drawn["main"] = title(m, m.ic) /\ m.drawn["main2"] = title(m, m.ic)
<1> DEFINE t == blank(mode)
<1>1. /\ m.IC = t.IC /\ m.ic = t.ic /\ m.icp = t.icp /\ m.mode = t.mode
      /\ m.drawn = t.drawn /\ m.unseen = t.unseen
  BY DEF Opened, Agree, Fields, Making
<1>2. /\ m.IC = [i \in ICID \cup {NULL} |-> NoIC] /\ m.ic = NULL /\ m.icp = NULL
      /\ m.mode = mode /\ ~m.unseen /\ m.drawn = [k \in {"main", "main2"} |-> NoTitle]
  BY <1>1 DEF blank
<1> HIDE DEF t
<1>3. m \in Screen /\ Heap(m) /\ wins(m) = {w} /\ w # NULL
      /\ m.win[w].kind = kind /\ m.win[w].imid = NULL
  BY DEF Opened
<1>4. \A i \in IcId : /\ ~m.IC[i].live /\ m.IC[i].overspot_win = NULL /\ m.IC[i].gwin = <<>>
                      /\ ~m.IC[i].focus /\ m.IC[i].inp_state = {}
  <2>1. \A i \in IcId : m.IC[i] = NoIC
    BY <1>2 DEF IcId
  <2> QED BY <2>1, NoICTyped
<1>5. ICs(m)
  BY <1>2, <1>4 DEF ICs, IcId
<1>6. Own(m)
  <2>1. \A i \in ICID : m.IC[i].overspot_win = NULL /\ m.IC[i].gwin = <<>>
    BY <1>4 DEF IcId
  <2> QED BY <1>3, <2>1 DEF Own, MainOf
<1>7. Up(m)
  BY <1>3 DEF Up
<1>8. ~asked_for(m) /\ m.drawn["main"] = title(m, m.ic) /\ m.drawn["main2"] = title(m, m.ic)
  BY <1>2 DEF asked_for, title
<1> QED BY <1>2, <1>3, <1>5, <1>6, <1>7, <1>8 DEF Base

\* gui_init().
LEMMA Started ==
    ASSUME NEW mode \in StartMode
    PROVE  Good(gui_init(mode))
<1> DEFINE t == blank(mode)
<1>1. gui_init(mode) = IF in_mode(t, "MAINWIN2") THEN xcin_mainwin2_init(t) ELSE xcin_mainwin_init(t)
  BY DEF gui_init, blank
<1>2. \A f : in_mode(t, f) = (f \in mode)
  BY DEF in_mode, blank
<1>3. CASE "MAINWIN2" \in mode
  <2> DEFINE up == ~in_mode(t, "HIDE") /\ ~in_mode(t, "WINONLY") /\ in_mode(t, "MAINWIN2")
             n  == new_main(t, "main2")
             w  == n.rec
             v  == gui_winmap_change(n.mem, w, up)
             m  == as_main2(v, w)
  <2>1. gui_init(mode) = m
    BY <1>1, <1>2, <1>3 DEF xcin_mainwin2_init, as_main2
  <2>2. up \in BOOLEAN /\ "main2" \in {"main", "main2"}
    OBVIOUS
  <2>3. Opened(t, m, w, "main2") /\ m.mainwin2 = w /\ m.mainwin = NULL /\ mapped(m, w) = up
    <3> HIDE DEF up
    <3>1. n = new_main(blank(mode), "main2")
      OBVIOUS
    <3> HIDE DEF n
    <3>2. v = gui_winmap_change(n.mem, n.rec, up) /\ m = as_main2(v, n.rec) /\ w = n.rec
      OBVIOUS
    <3> HIDE DEF v, m, w, t
    <3>3. First(blank(mode), as_main2(v, n.rec), n.rec, NULL, n.rec, "main2", up)
      BY <2>2, <3>1, <3>2, FirstMain
    <3> QED BY <3>2, <3>3 DEF First, t
  <2> HIDE DEF m, w, v, n
  <2>4. /\ Base(m) /\ Up(m) /\ m.mode = mode /\ m.ic = NULL /\ ~m.unseen
        /\ ~asked_for(m) /\ m.drawn["main2"] = title(m, m.ic)
    BY <2>3, OpenedBase
  <2>5. up = ("HIDE" \notin mode /\ "WINONLY" \notin mode)
    BY <1>2, <1>3
  <2> HIDE DEF up
  <2>6. w # NULL
    BY <2>3 DEF Opened
  <2>7. Fixed(m)
    BY <1>3, <2>3, <2>4, <2>5, <2>6 DEF Fixed, in_mode, wide_is_up
  <2>8. Told(m)
    BY <1>3, <2>3, <2>4, <2>5, <2>6 DEF Told, Seen, in_mode, wide_is_up
  <2> QED BY <2>1, <2>4, <2>7, <2>8 DEF Good
<1>4. CASE "MAINWIN2" \notin mode
  <2> DEFINE up == ~in_mode(t, "HIDE") /\ ~in_mode(t, "MAINWIN2")
             n  == new_main(t, "main")
             w  == n.rec
             v  == gui_winmap_change(n.mem, w, up)
             m  == as_main(v, w)
  <2>1. gui_init(mode) = m
    BY <1>1, <1>2, <1>4 DEF xcin_mainwin_init, as_main
  <2>2. up \in BOOLEAN /\ "main" \in {"main", "main2"}
    OBVIOUS
  <2>3. Opened(t, m, w, "main") /\ m.mainwin = w /\ m.mainwin2 = NULL /\ mapped(m, w) = up
    <3> HIDE DEF up
    <3>1. n = new_main(blank(mode), "main")
      OBVIOUS
    <3> HIDE DEF n
    <3>2. v = gui_winmap_change(n.mem, n.rec, up) /\ m = as_main(v, n.rec) /\ w = n.rec
      OBVIOUS
    <3> HIDE DEF v, m, w, t
    <3>3. First(blank(mode), as_main(v, n.rec), n.rec, n.rec, NULL, "main", up)
      BY <2>2, <3>1, <3>2, FirstMain
    <3> QED BY <3>2, <3>3 DEF First, t
  <2> HIDE DEF m, w, v, n
  <2>4. /\ Base(m) /\ Up(m) /\ m.mode = mode /\ m.ic = NULL /\ ~m.unseen
        /\ ~asked_for(m) /\ m.drawn["main"] = title(m, m.ic)
    BY <2>3, OpenedBase
  <2>5. up = ("HIDE" \notin mode)
    BY <1>2, <1>4
  <2> HIDE DEF up
  <2>6. w # NULL
    BY <2>3 DEF Opened
  <2>7. Fixed(m)
    BY <1>4, <2>3, <2>4, <2>5, <2>6 DEF Fixed, in_mode, wide_is_up, comes_and_goes
  <2>8. Told(m)
    BY <1>4, <2>3, <2>4, <2>5, <2>6 DEF Told, Seen, in_mode, wide_is_up, comes_and_goes
  <2> QED BY <2>1, <2>4, <2>7, <2>8 DEF Good
<1> QED BY <1>3, <1>4

-----------------------------------------------------------------------------
(***************************************************************************)
(* The handlers leave the windows ready for the update.                    *)
(***************************************************************************)
LEMMA ReadyIm ==
    ASSUME NEW h, ImReady(h)
    PROVE  Ready(h)
BY DEF ImReady, Ready

\* A trigger key.
LEMMA TriggeredReady ==
    ASSUME MaxReq = 1, NEW t, Good(t), NEW i \in ICID, t.IC[i].live, t.IC[i].focus,
           ~converts(t, i), NEW h \in triggered(trigger_base(t, i), i)
    PROVE  Ready(h)
<1> DEFINE b == trigger_base(t, i)
<1>1. \/ \E n \in Ims : h = change_IM(b, i, n)
      \/ h = im_only(toggle_2bytes(b, i))
      \/ h = phrase(b)
  BY DEF triggered, im_only
<1>2. Ready(phrase(b))
  BY PhraseSent
<1>3. Turned(t, b, i)
  BY BaseTriggered DEF Good, Base
<1> HIDE DEF b
<1>4. Base(b) /\ Lit(b) /\ Fixed(b) /\ b.IC[i].live /\ b.IC[i].focus
  BY <1>3, BaseKept
<1>5. \A n \in Ims : Ready(change_IM(b, i, n))
  BY <1>4, ImChanged, ReadyIm DEF Im
<1>6. Ready(im_only(toggle_2bytes(b, i)))
  BY <1>4, ToggledReady, ReadyIm
<1> QED BY <1>1, <1>2, <1>5, <1>6

\* A functional key of a connected client.
LEMMA FuncKeyReady ==
    ASSUME MaxReq = 1, NEW t, Good(t), NEW i \in ICID, t.IC[i].live, t.IC[i].focus
    PROVE  /\ \A n \in Ims \cup {English} : Ready(change_IM(t, i, n))
           /\ Ready(toggle_2bytes(t, i))
<1>1. Base(t) /\ Lit(t) /\ Fixed(t)
  BY UpLit DEF Good
<1>2. \A n \in Ims \cup {English} : Ready(change_IM(t, i, n))
  BY <1>1, ImChanged, ReadyIm DEF Im
<1>3. Ready(toggle_2bytes(t, i))
  BY <1>1, ToggledReady, ReadyIm
<1> QED BY <1>2, <1>3

\* An input method ends its request.
LEMMA RequestEnds ==
    ASSUME MaxReq = 1, NEW t, Base(t), Lit(t), Fixed(t), NEW i \in ICID, "IM" \in t.winchange,
           NEW g \in Range(t.IC[i].gwin)
    PROVE  Ready(greq_unregister(t, i, g.reqid))
<1> DEFINE u == greq_unregister(t, i, g.reqid)
<1>1. Ended(t, u, i)
  BY RequestUnregistered
<1> HIDE DEF u
<1>2. Base(u) /\ Lit(u) /\ Fixed(u) /\ u.winchange = t.winchange
  BY <1>1, EndedKeeps
<1>3. Ready(u)
  BY <1>2, LitBefore DEF Ready
<1> QED BY <1>3 DEF u

\* Any key of an input method.
LEMMA TypedReady ==
    ASSUME MaxReq = 1, NEW t, Good(t), NEW i \in ICID, t.IC[i].live, t.IC[i].focus,
           "CINPUT" \in t.IC[i].inp_state, NEW h \in typed(changed(t, {"IM"}), i)
    PROVE  Ready(h)
<1> DEFINE b == changed(t, {"IM"})
<1>1. \/ h = [b EXCEPT !.IC[i].typed = ~@]
      \/ \E callback \in BOOLEAN : h = greq_register(b, i, callback)
      \/ \E g \in Range(b.IC[i].gwin) : h = greq_unregister(b, i, g.reqid)
  <2> HIDE DEF b
  <2>1. h \in typed(b, i)
    BY DEF b
  <2> QED BY <2>1 DEF typed
<1>2. Base(t) /\ Lit(t) /\ Fixed(t)
  BY UpLit DEF Good
<1>3. Base(b) /\ Lit(b) /\ Fixed(b) /\ "IM" \in b.winchange /\ Agree(t, b, {"winchange"})
  BY <1>2, FlaggedBase
<1> HIDE DEF b
<1>4. b.IC[i].live /\ b.IC[i].focus /\ "CINPUT" \in b.IC[i].inp_state
  <2>1. b.IC = t.IC
    BY <1>3 DEF Agree, Fields
  <2> QED BY <2>1
<1>5. Ready([b EXCEPT !.IC[i].typed = ~@])
  BY <1>3, <1>4, KeyTyped, ReadyIm
<1>6. \A callback \in BOOLEAN : Ready(greq_register(b, i, callback))
  BY <1>3, <1>4, RequestRegistered, ReadyIm
<1>7. \A g \in Range(b.IC[i].gwin) : Ready(greq_unregister(b, i, g.reqid))
  BY <1>3, RequestEnds
<1> QED BY <1>1, <1>5, <1>6, <1>7

-----------------------------------------------------------------------------
(***************************************************************************)
(* A server that is told to exit goes on to exit.  Its windows may then be *)
(* in any state: of its memory only the mode is told.                      *)
(***************************************************************************)
HasMode(t) == "mode" \in DOMAIN t
Same(t, u) == HasMode(t) => HasMode(u) /\ u.mode = t.mode

\* Two such steps.
LEMMA SameTwice ==
    ASSUME NEW t, NEW u, NEW v, Same(t, u), Same(u, v)
    PROVE  Same(t, v)
BY DEF Same

\* The parts of an update, and then the update.
LEMMA WinMode ==
    ASSUME NEW t, NEW w
    PROVE  /\ \A state : Same(t, gui_winmap_change(t, w, state))
           /\ Same(t, win_draw(t, w))
           /\ Same(t, XCreateWindow(t, w))
           /\ \A r : Same(t, give_font(t, w, r))
           /\ \A i : Same(t, [t EXCEPT !.IC[i].font_update = FALSE])
           /\ \A kind, imid, data : Same(t, [t EXCEPT !.win[w].kind = kind, !.win[w].imid = imid,
                                                      !.win[w].data = data])
<1>1. \A state : Same(t, gui_winmap_change(t, w, state))
  BY DEF gui_winmap_change, Same, HasMode
<1>2. Same(t, win_draw(t, w))
  BY DEF win_draw, Same, HasMode
<1>3. Same(t, XCreateWindow(t, w))
  BY DEF XCreateWindow, Same, HasMode
<1>4. \A r : Same(t, give_font(t, w, r))
  BY DEF give_font, Same, HasMode
<1>5. \A i : Same(t, [t EXCEPT !.IC[i].font_update = FALSE])
  BY DEF Same, HasMode
<1>6. \A kind, imid, data : Same(t, [t EXCEPT !.win[w].kind = kind, !.win[w].imid = imid,
                                              !.win[w].data = data])
  BY DEF Same, HasMode
<1> QED BY <1>1, <1>2, <1>3, <1>4, <1>5, <1>6

\* A window is drawn, or made.
LEMMA DrawMode ==
    ASSUME NEW t, NEW w
    PROVE  Same(t, draw(t, w)) /\ Same(t, gui_overspot_draw(t, w))
<1>0. Same(t, t)
  BY DEF Same
<1>1. Same(t, xcin_mainwin_draw(t, w))
  <2> DEFINE u == gui_winmap_change(t, w, TRUE)
             v == gui_winmap_change(t, w, FALSE)
  <2>1. \/ xcin_mainwin_draw(t, w) = t \/ xcin_mainwin_draw(t, w) = v
        \/ xcin_mainwin_draw(t, w) = win_draw(t, w) \/ xcin_mainwin_draw(t, w) = win_draw(u, w)
    BY DEF xcin_mainwin_draw
  <2>2. Same(t, u) /\ Same(t, v) /\ Same(t, win_draw(t, w))
    BY WinMode
  <2> HIDE DEF u, v
  <2>3. Same(u, win_draw(u, w))
    BY WinMode
  <2> QED BY <1>0, <2>1, <2>2, <2>3, SameTwice
<1>2. Same(t, xcin_mainwin2_draw(t, w))
  <2> DEFINE u == gui_winmap_change(t, w, TRUE)
             v == gui_winmap_change(t, w, FALSE)
  <2>1. \/ xcin_mainwin2_draw(t, w) = t \/ xcin_mainwin2_draw(t, w) = v
        \/ xcin_mainwin2_draw(t, w) = win_draw(u, w)
    BY DEF xcin_mainwin2_draw
  <2>2. Same(t, u) /\ Same(t, v)
    BY WinMode
  <2> HIDE DEF u, v
  <2>3. Same(u, win_draw(u, w))
    BY WinMode
  <2> QED BY <1>0, <2>1, <2>2, <2>3, SameTwice
<1>3. Same(t, gui_overspot_draw(t, w))
  <2> DEFINE i == t.win[w].data
             x == [t EXCEPT !.IC[i].font_update = FALSE]
             r == update_IC_fontset(gui_free_fontset(t.fonts, t.win[w].font), t.IC[i].base_font)
             c == change_font(t, w, i)
  <2>1. c = give_font(x, w, r)
    BY DEF change_font
  <2>2. Same(t, x)
    BY WinMode
  <2> HIDE DEF x, r
  <2>3. Same(x, give_font(x, w, r))
    BY WinMode
  <2>4. Same(t, c)
    BY <2>1, <2>2, <2>3, SameTwice
  <2>5. gui_overspot_draw(t, w) = t \/ \E state : \E b \in {t, c} :
            gui_overspot_draw(t, w) = gui_winmap_change(b, w, state)
    BY DEF gui_overspot_draw
  <2> HIDE DEF c
  <2>6. \A b, state : Same(b, gui_winmap_change(b, w, state))
    BY WinMode
  <2> QED BY <1>0, <2>4, <2>5, <2>6, SameTwice
<1> QED BY <1>0, <1>1, <1>2, <1>3 DEF draw

LEMMA NewMode ==
    ASSUME NEW t, NEW kind, NEW imid, NEW data, NEW r
    PROVE  Same(t, new_window(gui_new_win(t), kind, imid, data, r).mem)
<1> DEFINE n == gui_new_win(t)
           w == n.rec
           x == [n.mem EXCEPT !.win[w].kind = kind, !.win[w].imid = imid, !.win[w].data = data]
           y == give_font(x, w, r)
           z == XCreateWindow(y, w)
<1>1. Same(t, n.mem)
  <2>1. \A u, q : Same(u, new_rec(u, q).mem)
    BY DEF new_rec, Same, HasMode
  <2>2. CASE t.free_win # NULL
    <3> DEFINE u == [t EXCEPT !.free_win = t.win[t.free_win].next]
    <3>1. n = new_rec(u, t.free_win)
      BY <2>2 DEF gui_new_win
    <3>2. Same(t, u)
      BY DEF Same, HasMode
    <3> HIDE DEF u, n
    <3> QED BY <2>1, <3>1, <3>2, SameTwice
  <2>3. CASE t.free_win = NULL
    <3> DEFINE u == [t EXCEPT !.win = Append(t.win, ZeroWin)]
    <3>1. n = new_rec(u, Len(t.win) + 1)
      BY <2>3 DEF gui_new_win
    <3>2. Same(t, u)
      BY DEF Same, HasMode
    <3> HIDE DEF u, n
    <3> QED BY <2>1, <3>1, <3>2, SameTwice
  <2> QED BY <2>2, <2>3
<1>2. new_window(n, kind, imid, data, r).mem = z
  BY DEF new_window
<1> HIDE DEF n, w
<1>3. Same(n.mem, x)
  BY WinMode
<1> HIDE DEF x
<1>4. Same(x, y)
  BY WinMode
<1> HIDE DEF y
<1>5. Same(y, z)
  BY WinMode
<1> HIDE DEF z
<1>6. Same(t, z)
  BY <1>1, <1>3, <1>4, <1>5, SameTwice
<1> QED BY <1>2, <1>6 DEF n

\* gui_update_winlist().
LEMMA UpdateMode ==
    ASSUME NEW t
    PROVE  Same(t, gui_update_winlist(t))
<1>1. \A u : Same(u, with_mainwin(u))
  <2> SUFFICES ASSUME NEW u
               PROVE  Same(u, with_mainwin(u))
    OBVIOUS
  <2> DEFINE r  == gui_create_fontset(u.fonts, DefaultFont)
             n  == new_window(gui_new_win(u), "main", NULL, NULL, r)
             up == ~in_mode(u, "HIDE") /\ ~in_mode(u, "MAINWIN2")
             a  == n.mem
             w  == n.rec
             b  == gui_winmap_change(a, w, up)
             m  == [b EXCEPT !.mainwin = w]
  <2>1. with_mainwin(u) = u \/ with_mainwin(u) = m
    BY DEF with_mainwin, xcin_mainwin_init, new_main
  <2>2. Same(u, a)
    BY NewMode
  <2> HIDE DEF n, up, a, w
  <2>3. Same(a, b)
    BY WinMode
  <2> HIDE DEF b
  <2>4. Same(b, m)
    BY DEF Same, HasMode
  <2> HIDE DEF m
  <2>5. Same(u, m)
    BY <2>2, <2>3, <2>4, SameTwice
  <2> QED BY <2>1, <2>5 DEF Same
<1>2. \A u, i : Same(u, gui_overspot_init(u, i))
  <2> SUFFICES ASSUME NEW u, NEW i
               PROVE  Same(u, gui_overspot_init(u, i))
    OBVIOUS
  <2> DEFINE r == update_IC_fontset(u.fonts, user_font(u, i))
             n == new_window(gui_new_win(u), "overspot", i, i, r)
             a == n.mem
             w == n.rec
             b == gui_overspot_draw(a, w)
             x == a.win[w].window
             m == [b EXCEPT !.IC[i].overspot_win = x]
  <2>1. gui_overspot_init(u, i) = m
    BY DEF gui_overspot_init
  <2>2. Same(u, a)
    BY NewMode
  <2> HIDE DEF n, a, w
  <2>3. Same(a, b)
    BY DrawMode
  <2> HIDE DEF b, x
  <2>4. Same(b, m)
    BY DEF Same, HasMode
  <2> HIDE DEF m
  <2> QED BY <2>1, <2>2, <2>3, <2>4, SameTwice
<1>3. \A u : Same(u, update_gui_request(u))
  <2>1. \A v, i, state : Same(v, windraw(v, i, state))
    BY DEF windraw, Same, HasMode
  <2> SUFFICES ASSUME NEW u
               PROVE  Same(u, update_gui_request(u))
    OBVIOUS
  <2> DEFINE a == IF left_focus(u) THEN windraw(u, u.icp, FALSE) ELSE u
  <2>2. update_gui_request(u) = windraw(a, u.ic, is_on(u, u.ic, "XIMFOCUS"))
    BY DEF update_gui_request
  <2>3. Same(u, a)
    BY <2>1 DEF Same
  <2> HIDE DEF a
  <2> QED BY <2>1, <2>2, <2>3, SameTwice
<1>4. \A u : Same(u, update_gui_overspot(u))
  <2> SUFFICES ASSUME NEW u
               PROVE  Same(u, update_gui_overspot(u))
    OBVIOUS
  <2> DEFINE a   == candidates_left(u)
             own == gui_search_win(u, u.IC[u.ic].overspot_win)
             d   == candidates_drawn(a, own)
  <2>1. update_gui_overspot(u) = d
    BY DEF update_gui_overspot
  <2>2. Same(u, a)
    <3>1. a = u \/ \E w : a = gui_winmap_change(u, w, FALSE)
      BY DEF candidates_left
    <3>2. \A w, state : Same(u, gui_winmap_change(u, w, state))
      BY WinMode
    <3>3. Same(u, u)
      BY DEF Same
    <3> HIDE DEF a
    <3> QED BY <3>1, <3>2, <3>3
  <2> HIDE DEF a, own
  <2>3. d = a \/ d = draw(a, own) \/ d = gui_overspot_init(a, a.ic)
    BY DEF candidates_drawn
  <2>4. Same(a, draw(a, own)) /\ Same(a, gui_overspot_init(a, a.ic))
    BY <1>2, DrawMode
  <2>5. Same(a, a)
    BY DEF Same
  <2> HIDE DEF d
  <2> QED BY <2>1, <2>2, <2>3, <2>4, <2>5, SameTwice
<1>5. \A u : Same(u, current_drawn(u))
  <2> SUFFICES ASSUME NEW u
               PROVE  Same(u, current_drawn(u))
    OBVIOUS
  <2> DEFINE a == with_mainwin(u)
             b == update_gui_request(a)
             c == update_gui_overspot(b)
             i == u.ic
             d == [c EXCEPT !.IC[i].font_update = FALSE]
  <2>1. current_drawn(u) = u \/ current_drawn(u) = d
    BY DEF current_drawn
  <2>2. Same(u, a)
    BY <1>1
  <2> HIDE DEF a, i
  <2>3. Same(a, b)
    BY <1>3
  <2> HIDE DEF b
  <2>4. Same(b, c)
    BY <1>4
  <2> HIDE DEF c
  <2>5. Same(c, d)
    BY DEF Same, HasMode
  <2> HIDE DEF d
  <2>6. Same(u, d)
    BY <2>2, <2>3, <2>4, <2>5, SameTwice
  <2> QED BY <2>1, <2>6 DEF Same
<1>6. \A u : Same(u, mains_drawn(u))
  <2> SUFFICES ASSUME NEW u
               PROVE  Same(u, mains_drawn(u))
    OBVIOUS
  <2> DEFINE a == IF u.mainwin = NULL THEN u ELSE draw(u, u.mainwin)
             w == u.mainwin2
             b == IF w = NULL THEN a ELSE draw(a, w)
             c == [b EXCEPT !.unseen = FALSE]
  <2>1. mains_drawn(u) = u \/ mains_drawn(u) = c
    BY DEF mains_drawn
  <2>2. Same(u, a)
    BY DrawMode DEF Same
  <2> HIDE DEF a, w
  <2>3. Same(a, b)
    BY DrawMode DEF Same
  <2> HIDE DEF b
  <2>4. Same(b, c)
    BY DEF Same, HasMode
  <2> HIDE DEF c
  <2>5. Same(u, c)
    BY <2>2, <2>3, <2>4, SameTwice
  <2> QED BY <2>1, <2>5 DEF Same
<1> DEFINE a == current_drawn(t)
           b == mains_drawn(a)
           c == [b EXCEPT !.winchange = {}]
<1>7. gui_update_winlist(t) = c
  BY DEF gui_update_winlist
<1>8. Same(t, a)
  BY <1>5
<1> HIDE DEF a
<1>9. Same(a, b)
  BY <1>6
<1> HIDE DEF b
<1>10. Same(b, c)
  BY DEF Same, HasMode
<1> HIDE DEF c
<1> QED BY <1>7, <1>8, <1>9, <1>10, SameTwice

-----------------------------------------------------------------------------
\* Freeing a window.
LEMMA UnlinkedMode ==
    ASSUME NEW u, NEW q, NEW p
    PROVE  Same(u, unlinked(u, q, p))
<1> DEFINE n  == u.win[q].next
           s1 == IF p = NULL THEN [u EXCEPT !.winlist = n] ELSE [u EXCEPT !.win[p].next = n]
           f  == u.free_win
           v  == [s1 EXCEPT !.win[q].next = f, !.free_win = q]
<1>1. unlinked(u, q, p) = v
  BY DEF unlinked
<1>2. Same(u, s1)
  BY DEF Same, HasMode
<1> HIDE DEF s1, f
<1>3. Same(s1, v)
  BY DEF Same, HasMode
<1> HIDE DEF v
<1> QED BY <1>1, <1>2, <1>3, SameTwice

\* The window of an IC goes.
LEMMA ChildMode ==
    ASSUME NEW t, NEW w
    PROVE  Same(t, child_content(t, w))
<1>1. Same(t, gui_menusel_destroy(t, w))
  <2> DEFINE i  == t.win[w].imid
             gw == request_of(t, w)
             k  == CHOOSE j \in DOMAIN t.IC[i].gwin : t.IC[i].gwin[j].reqid = gw.reqid
             s1 == IF gw.callback THEN greq_unregister_internal(t, i, k) ELSE t
             X  == s1.xwin \ {t.win[w].window}
             v  == [s1 EXCEPT !.xwin = X]
  <2>1. gui_menusel_destroy(t, w) = t \/ gui_menusel_destroy(t, w) = v
    BY DEF gui_menusel_destroy
  <2> HIDE DEF gw, k
  <2>2. Same(t, s1)
    BY DEF greq_unregister_internal, Same, HasMode
  <2> HIDE DEF s1, X
  <2>3. Same(s1, v)
    BY DEF Same, HasMode
  <2> HIDE DEF v
  <2>4. Same(t, v)
    BY <2>2, <2>3, SameTwice
  <2> QED BY <2>1, <2>4 DEF Same
<1>2. Same(t, plain_destroy(t, w))
  BY DEF plain_destroy, Same, HasMode
<1> QED BY <1>1, <1>2 DEF child_content

LEMMA FreeingMode ==
    ASSUME NEW t, HasMode(t), NEW x
    PROVE  HasMode(free_child(t, x)) /\ free_child(t, x).mode = t.mode
<1> DEFINE w  == gui_search_win(t, x)
           wp == before(t, w)
           c  == child_content(t, w)
           d  == [c EXCEPT !.win[w].exit = TRUE]
<1>2. Same(t, c)
  BY ChildMode
<1>3. free_child(t, x) = t \/ free_child(t, x) = unlinked(t, w, wp)
      \/ free_child(t, x) = unlinked(d, w, wp)
  BY DEF free_child, freewin
<1> HIDE DEF w, wp, c
<1>4. Same(c, d)
  BY DEF Same, HasMode
<1> HIDE DEF d
<1>5. Same(t, d)
  BY <1>2, <1>4, SameTwice
<1>6. Same(t, unlinked(t, w, wp)) /\ Same(t, unlinked(d, w, wp))
  BY <1>5, UnlinkedMode, SameTwice
<1> QED BY <1>3, <1>6 DEF Same

\* A main window that is closed tells xcin to exit.
LEMMA ClosingTold ==
    ASSUME NEW t, HasMode(t)
    PROVE  HasMode(xim_close(t)) /\ "RUN_EXIT" \in xim_close(t).mode
BY DEF xim_close, HasMode

\* gui_freewin() of a main window.
LEMMA MainClosed ==
    ASSUME MaxReq = 1, NEW t, HasMode(t), NEW x
    PROVE  /\ HasMode(gui_freewin(t, x))
           /\ "RUN_EXIT" \in t.mode => "RUN_EXIT" \in gui_freewin(t, x).mode
           /\ \A w : w = gui_search_win(t, x) /\ w # NULL /\ ~t.win[w].exit
                        /\ t.win[w].kind \in {"main", "main2"}
                  => "RUN_EXIT" \in gui_freewin(t, x).mode
<1> DEFINE w  == gui_search_win(t, x)
           wp == before(t, w)
           c  == free_win_content(t, w)
           d  == [c EXCEPT !.win[w].exit = TRUE]
<1>2. HasMode(main_destroy(t, w)) /\ "RUN_EXIT" \in main_destroy(t, w).mode
  <2> DEFINE i == t.ic
             a == free_requests(t, i)
             b == free_overspot(a, i)
  <2>1. main_destroy(t, w) = xim_close(t) \/ main_destroy(t, w) = xim_close(b)
    BY DEF main_destroy
  <2>2. HasMode(a)
    BY RequestsFreed, FreeingMode DEF freed
  <2> HIDE DEF a, i
  <2>3. HasMode(b)
    BY <2>2, FreeingMode DEF free_overspot
  <2> HIDE DEF b
  <2> QED BY <2>1, <2>3, ClosingTold
<1>3. /\ HasMode(c) /\ ("RUN_EXIT" \in t.mode => "RUN_EXIT" \in c.mode)
      /\ t.win[w].kind \in {"main", "main2"} => "RUN_EXIT" \in c.mode
  <2>1. CASE t.win[w].kind \in {"main", "main2"}
    BY <1>2, <2>1 DEF free_win_content
  <2>2. CASE t.win[w].kind \notin {"main", "main2"}
    <3>1. c = child_content(t, w)
      BY <2>2 DEF free_win_content
    <3>2. Same(t, child_content(t, w))
      BY ChildMode
    <3> HIDE DEF c
    <3> QED BY <2>2, <3>1, <3>2 DEF Same
  <2> QED BY <2>1, <2>2
<1>4. /\ w = NULL => gui_freewin(t, x) = t
      /\ w # NULL /\ t.win[w].exit => gui_freewin(t, x) = unlinked(t, w, wp)
      /\ w # NULL /\ ~t.win[w].exit => gui_freewin(t, x) = unlinked(d, w, wp)
  BY DEF gui_freewin, freewin
<1>5. \A q : q = gui_search_win(t, x) => q = w
  OBVIOUS
<1> HIDE DEF w, wp, c
<1>6. Same(c, d)
  BY DEF Same, HasMode
<1> HIDE DEF d
<1>7. Same(t, unlinked(t, w, wp)) /\ Same(d, unlinked(d, w, wp))
  BY UnlinkedMode
<1>8. CASE w = NULL
  BY <1>4, <1>5, <1>8
<1>9. CASE w # NULL /\ t.win[w].exit
  BY <1>4, <1>5, <1>7, <1>9 DEF Same
<1>10. CASE w # NULL /\ ~t.win[w].exit
  BY <1>3, <1>4, <1>5, <1>6, <1>7, <1>10 DEF Same
<1> QED BY <1>8, <1>9, <1>10

-----------------------------------------------------------------------------
(***************************************************************************)
(* The inductive invariant.                                                *)
(***************************************************************************)
Sound(t) == HasMode(t) /\ (in_mode(t, "RUN_EXIT") \/ Good(t))

WindowsInv == Sound(s) /\ start \in Start

\* As long as the windows are as they should be.
LEMMA GoodSound ==
    ASSUME NEW t, Good(t)
    PROVE  Sound(t)
<1>1. t \in Screen
  BY DEF Good, Base
<1>2. HasMode(t)
  BY <1>1 DEF Screen, HasMode
<1> QED BY <1>2 DEF Sound

\* A message is handled, and the windows are updated.
LEMMA HandledSound ==
    ASSUME NEW t, Sound(t), NEW h, ~in_mode(t, "RUN_EXIT") => Ready(h), NEW u,
           u = gui_update_winlist(IF in_mode(t, "RUN_EXIT") THEN t ELSE h)
    PROVE  Sound(u) /\ (in_mode(t, "RUN_EXIT") => in_mode(u, "RUN_EXIT"))
<1>1. CASE in_mode(t, "RUN_EXIT")
  <2>1. u = gui_update_winlist(t) /\ HasMode(t)
    BY <1>1 DEF Sound
  <2>2. HasMode(u) /\ u.mode = t.mode
    BY <2>1, UpdateMode DEF Same
  <2> QED BY <1>1, <2>2 DEF Sound, in_mode
<1>2. CASE ~in_mode(t, "RUN_EXIT")
  <2>1. u = gui_update_winlist(h) /\ Ready(h)
    BY <1>2
  <2>2. Good(u)
    BY <2>1, Updated
  <2> QED BY <1>2, <2>2, GoodSound
<1> QED BY <1>1, <1>2

\* A window is exposed, or closed by the user.
LEMMA ExposedSound ==
    ASSUME NEW t, Sound(t), NEW w \in wins(t)
    PROVE  Sound(draw(t, w))
<1>1. CASE in_mode(t, "RUN_EXIT")
  <2>1. HasMode(draw(t, w)) /\ draw(t, w).mode = t.mode
    BY DrawMode DEF Same, Sound
  <2> QED BY <1>1, <2>1 DEF Sound, in_mode
<1>2. CASE Good(t)
  BY <1>2, Exposed, GoodSound
<1> QED BY <1>1, <1>2 DEF Sound

LEMMA ClosedSound ==
    ASSUME MaxReq = 1, NEW t, Sound(t), NEW w \in {t.mainwin, t.mainwin2} \ {NULL}
    PROVE  Sound(gui_freewin(t, t.win[w].window))
<1> DEFINE x == t.win[w].window
           u == gui_freewin(t, x)
<1>1. HasMode(u) /\ ("RUN_EXIT" \in t.mode => "RUN_EXIT" \in u.mode)
  BY MainClosed DEF Sound
<1>2. CASE in_mode(t, "RUN_EXIT")
  BY <1>1, <1>2 DEF Sound, in_mode
<1>3. CASE Good(t)
  <2>1. w \in wins(t) /\ t.win[w].kind \in {"main", "main2"} /\ t \in Screen /\ Heap(t)
    BY <1>3 DEF Good, Base, Own
  <2>2. gui_search_win(t, x) = w
    BY <2>1, WindowFound
  <2>3. ~t.win[w].exit
    BY <2>1 DEF Heap
  <2>4. "RUN_EXIT" \in u.mode
    BY <2>1, <2>2, <2>3, MainClosed DEF Sound
  <2> QED BY <1>1, <2>4 DEF Sound, in_mode
<1> QED BY <1>2, <1>3 DEF Sound

\* What the settings and the clients may be.
LEMMA StartTyped ==
    ASSUME start \in Start
    PROVE  /\ start.mode \in StartMode /\ start.ics \in ICID
           /\ start.styles \subseteq {"Root", "OverSpot"} /\ start.fonts \subseteq FontName
BY StartAssumption DEF StartMode

\* Each message in turn.
LEMMA LiveICs ==
    ASSUME NEW i \in Live
    PROVE  i \in ICID /\ s.IC[i].live
BY DEF Live

\* XIM_CREATE_IC.
LEMMA CreateSound ==
    ASSUME WindowsInv, CreateIC
    PROVE  WindowsInv'
<1> DEFINE dead == (1 .. start.ics) \ Live
<1>1. PICK style \in start.styles, f \in start.fonts \cup {NoName} :
          dead # {} /\ Handled(ic_create(s, Min(dead), style, f))
  BY DEF CreateIC
<1>2. style \in {"Root", "OverSpot"} /\ f \in FontName \cup {NoName} /\ start.ics \in ICID
  BY StartTyped DEF WindowsInv
<1>3. Min(dead) \in dead
  <2>1. dead \in SUBSET Nat
    OBVIOUS
  <2> HIDE DEF dead
  <2>2. \E n \in dead : \A k \in dead : n <= k
    BY <1>1, <2>1, LeastOf
  <2> QED BY <2>2 DEF Min
<1>4. Min(dead) \in ICID /\ Min(dead) \notin Live
  <2>1. Min(dead) \in 1 .. start.ics /\ Min(dead) \notin Live
    BY <1>3
  <2>2. start.ics \in 1 .. MaxIC /\ MaxIC \in Nat
    BY <1>2, WinAssumption DEF ICID
  <2> HIDE DEF dead
  <2>3. Min(dead) \in 1 .. MaxIC
    BY <2>1, <2>2
  <2> QED BY <2>1, <2>3 DEF ICID
<1> HIDE DEF dead
<1>5. ~s.IC[Min(dead)].live
  BY <1>4 DEF Live
<1> DEFINE h == ic_create(s, Min(dead), style, f)
<1>6. s' = gui_update_winlist(IF in_mode(s, "RUN_EXIT") THEN s ELSE h) /\ start' = start
  BY <1>1 DEF Handled
<1>7. ~in_mode(s, "RUN_EXIT") => Ready(h)
  BY <1>2, <1>4, <1>5, ICMade, GoodReady DEF WindowsInv, Sound
<1> HIDE DEF h
<1>8. Sound(s')
  BY <1>6, <1>7, HandledSound DEF WindowsInv
<1> QED BY <1>6, <1>8 DEF WindowsInv

\* ICs are deleted.
LEMMA DeleteSound ==
    ASSUME MaxReq = 1, WindowsInv, DeleteICs
    PROVE  WindowsInv'
<1>1. PICK I \in (SUBSET Live) \ {{}} : Handled(FoldSet(LAMBDA i, t : delete_IC(t, i), s, I))
  BY DEF DeleteICs
<1> DEFINE h == FoldSet(LAMBDA i, t : delete_IC(t, i), s, I)
<1>2. I \in SUBSET ICID /\ I # {}
  <2>1. Live \subseteq ICID
    BY DEF Live
  <2>2. I \subseteq Live /\ I # {}
    OBVIOUS
  <2> QED BY <2>1, <2>2
<1>3. s' = gui_update_winlist(IF in_mode(s, "RUN_EXIT") THEN s ELSE h) /\ start' = start
  BY <1>1 DEF Handled
<1>4. ~in_mode(s, "RUN_EXIT") => Ready(h)
  BY <1>2, ICsDeleted DEF WindowsInv, Sound
<1> HIDE DEF h
<1>5. Sound(s')
  BY <1>3, <1>4, HandledSound DEF WindowsInv
<1> QED BY <1>3, <1>5 DEF WindowsInv

\* The focus and the font of an IC.
LEMMA FocusSound ==
    ASSUME WindowsInv, NEW i \in Live, SetFocus(i) \/ UnsetFocus(i) \/ SetFont(i)
    PROVE  WindowsInv'
<1>1. i \in ICID /\ s.IC[i].live
  BY LiveICs
<1>2. PICK h \in {set_focus(s, i), unset_focus(s, i)} \cup {ic_set_font(s, i, f) : f \in start.fonts} :
          s' = gui_update_winlist(IF in_mode(s, "RUN_EXIT") THEN s ELSE h) /\ start' = start
  BY DEF SetFocus, UnsetFocus, SetFont, Handled
<1>3. ASSUME ~in_mode(s, "RUN_EXIT")
      PROVE  Ready(h)
  <2>1. Good(s) /\ start.fonts \subseteq FontName
    BY <1>3, StartTyped DEF WindowsInv, Sound
  <2>2. Ready(set_focus(s, i)) /\ Ready(unset_focus(s, i))
    BY <1>1, <2>1, FocusSet, FocusUnset
  <2>3. \A f \in start.fonts : Ready(ic_set_font(s, i, f))
    BY <1>1, <2>1, FontSet, GoodReady
  <2> QED BY <1>2, <2>2, <2>3
<1>4. Sound(s')
  BY <1>2, <1>3, HandledSound DEF WindowsInv
<1> QED BY <1>2, <1>4 DEF WindowsInv

\* The keys.
LEMMA KeySound ==
    ASSUME MaxReq = 1, WindowsInv, NEW i \in Live, Trigger(i) \/ FuncKey(i) \/ Keystroke(i)
    PROVE  WindowsInv'
<1>1. i \in ICID /\ s.IC[i].live
  BY LiveICs
<1>2. CASE Trigger(i)
  <2>1. PICK h \in triggered(trigger_base(s, i), i) :
            s' = gui_update_winlist(IF in_mode(s, "RUN_EXIT") THEN s ELSE h) /\ start' = start
    BY <1>2 DEF Trigger, Handled
  <2>2. ~in_mode(s, "RUN_EXIT") => Ready(h)
    BY <1>1, <1>2, TriggeredReady DEF Trigger, WindowsInv, Sound
  <2>3. Sound(s')
    BY <2>1, <2>2, HandledSound DEF WindowsInv
  <2> QED BY <2>1, <2>3 DEF WindowsInv
<1>3. CASE FuncKey(i)
  <2>1. PICK h \in {change_IM(s, i, n) : n \in Ims \cup {English}} \cup {toggle_2bytes(s, i)} :
            s' = gui_update_winlist(IF in_mode(s, "RUN_EXIT") THEN s ELSE h) /\ start' = start
    BY <1>3 DEF FuncKey, Handled
  <2>2. ~in_mode(s, "RUN_EXIT") => Ready(h)
    BY <1>1, <1>3, FuncKeyReady DEF FuncKey, Connected, WindowsInv, Sound
  <2>3. Sound(s')
    BY <2>1, <2>2, HandledSound DEF WindowsInv
  <2> QED BY <2>1, <2>3 DEF WindowsInv
<1>4. CASE Keystroke(i)
  <2>1. PICK h \in typed(changed(s, {"IM"}), i) :
            s' = gui_update_winlist(IF in_mode(s, "RUN_EXIT") THEN s ELSE h) /\ start' = start
    BY <1>4 DEF Keystroke, Handled
  <2>2. ~in_mode(s, "RUN_EXIT") => Ready(h)
    BY <1>1, <1>4, TypedReady DEF Keystroke, Connected, is_on, WindowsInv, Sound
  <2>3. Sound(s')
    BY <2>1, <2>2, HandledSound DEF WindowsInv
  <2> QED BY <2>1, <2>3 DEF WindowsInv
<1> QED BY <1>2, <1>3, <1>4

\* What is no message of a client.
LEMMA EventSound ==
    ASSUME MaxReq = 1, WindowsInv, SyncReply \/ Expose \/ CloseMain \/ Signal
    PROVE  WindowsInv'
<1>1. CASE SyncReply
  <2> DEFINE u == gui_update_winlist(s)
  <2>1. s' = [u EXCEPT !.mode = @ \cup {"RUN_EXITALL"}] /\ start' = start /\ in_mode(s, "RUN_EXIT")
    BY <1>1 DEF SyncReply
  <2>2. HasMode(u) /\ u.mode = s.mode
    BY UpdateMode DEF WindowsInv, Sound, Same
  <2> HIDE DEF u
  <2>3. HasMode(s') /\ in_mode(s', "RUN_EXIT")
    BY <2>1, <2>2 DEF HasMode, in_mode
  <2> QED BY <2>1, <2>3 DEF WindowsInv, Sound
<1>2. CASE Expose
  <2>1. PICK w \in wins(s) : s' = draw(s, w) /\ start' = start
    BY <1>2 DEF Expose, wins
  <2>2. Sound(s')
    BY <2>1, ExposedSound DEF WindowsInv
  <2> QED BY <2>1, <2>2 DEF WindowsInv
<1>3. CASE CloseMain
  <2>1. PICK w \in {s.mainwin, s.mainwin2} \ {NULL} :
            s' = gui_freewin(s, s.win[w].window) /\ start' = start
    BY <1>3 DEF CloseMain
  <2>2. Sound(s')
    BY <2>1, ClosedSound DEF WindowsInv
  <2> QED BY <2>1, <2>2 DEF WindowsInv
<1>4. CASE Signal
  <2>1. s' = xim_close(s) /\ start' = start
    BY <1>4 DEF Signal
  <2>2. Sound(s')
    BY <2>1, ClosingTold DEF WindowsInv, Sound, in_mode
  <2> QED BY <2>1, <2>2 DEF WindowsInv
<1> QED BY <1>1, <1>2, <1>3, <1>4

\* Every state of the server is one that has its windows as they should be,
\* or one in which xcin is about to exit.
THEOREM WindowsSound == ASSUME MaxReq = 1 PROVE Spec => []WindowsInv
<1>1. Init => WindowsInv
  <2> SUFFICES ASSUME Init
               PROVE  WindowsInv
    OBVIOUS
  <2>1. start \in Start /\ s = gui_init(start.mode)
    BY DEF Init
  <2>2. Good(s)
    BY <2>1, StartTyped, Started
  <2> QED BY <2>1, <2>2, GoodSound DEF WindowsInv
<1>2. WindowsInv /\ [Next]_<<s, start>> => WindowsInv'
  <2> SUFFICES ASSUME WindowsInv, [Next]_<<s, start>>
               PROVE  WindowsInv'
    OBVIOUS
  <2>1. CASE CreateIC
    BY <2>1, CreateSound
  <2>2. CASE DeleteICs
    BY <2>2, DeleteSound
  <2>3. CASE \E i \in Live : SetFocus(i) \/ UnsetFocus(i) \/ SetFont(i)
    BY <2>3, FocusSound
  <2>4. CASE \E i \in Live : Trigger(i) \/ FuncKey(i) \/ Keystroke(i)
    BY <2>4, KeySound
  <2>5. CASE SyncReply \/ Expose \/ CloseMain \/ Signal
    BY <2>5, EventSound
  <2>6. CASE UNCHANGED <<s, start>>
    BY <2>6 DEF WindowsInv
  <2> QED BY <2>1, <2>2, <2>3, <2>4, <2>5, <2>6 DEF Next
<1> QED BY <1>1, <1>2, PTL DEF Spec

-----------------------------------------------------------------------------
(***************************************************************************)
(* What the invariant says of the screen.                                  *)
(***************************************************************************)
LEMMA OpenFonts ==
    ASSUME Good(s)
    PROVE  FontsOpen
<1> SUFFICES ASSUME NEW w \in DOMAIN s.win, Shown(w)
             PROVE  /\ s.win[w].font # NoFont
                    /\ s.fonts.cell[s.win[w].font].open
                    /\ s.fonts.cell[s.win[w].font].basename = s.win[w].asked
  BY DEF FontsOpen
<1> DEFINE H == fonts_of(s)
           A == asked_of(s)
<1>1. w \in wins(s)
  BY DEF Shown, wins
<1>2. s \in Screen /\ FontsSound(s.fonts, H, A)
  BY DEF Good, Base, Heap
<1>3. w \in DOMAIN H /\ H[w] = s.win[w].font /\ A[w] = s.win[w].asked
  BY <1>1 DEF fonts_of, asked_of
<1> HIDE DEF H, A
<1>4. /\ H[w] \in DOMAIN s.fonts.cell /\ s.fonts.cell[H[w]].open
      /\ s.fonts.cell[H[w]].basename = A[w] /\ s.fonts \in FontMemory
  BY <1>2, <1>3 DEF FontsSound, HeldFonts
<1>5. H[w] # NULL
  BY <1>4, CellsAreMemory
<1> QED BY <1>3, <1>4, <1>5 DEF NoFont

\* As many records as X windows.
LEMMA AsManyWindows ==
    ASSUME NEW t \in Screen, Heap(t)
    PROVE  Cardinality(wins(t)) = Cardinality(t.xwin)
<1> DEFINE W == wins(t)
           X == t.xwin
           f == [r \in W |-> t.win[r].window]
<1>1. X = {t.win[r].window : r \in W} /\ \A q, r \in W : t.win[q].window = t.win[r].window => q = r
  BY DEF Heap
<1>2. IsFiniteSet(W)
  <2>1. HeldFonts(t.fonts, fonts_of(t), asked_of(t))
    BY DEF Heap, FontsSound
  <2>2. DOMAIN fonts_of(t) = W
    BY DEF fonts_of
  <2> QED BY <2>1, <2>2 DEF HeldFonts
<1> HIDE DEF W, X
<1>3. f \in Bijection(W, X)
  BY <1>1 DEF Bijection, Injection, Surjection, IsInjective
<1>4. ExistsBijection(W, X)
  BY <1>3 DEF ExistsBijection
<1> HIDE DEF f
<1>5. Cardinality(W) = Cardinality(X)
  BY <1>2, <1>4, FS_Bijection
<1> QED BY <1>5 DEF W, X

\* The list and the records on it.
LEMMA LiveWindows ==
    ASSUME Good(s)
    PROVE  WindowsLive
<1>1. s \in Screen /\ Heap(s) /\ Own(s) /\ Base(s)
  BY DEF Good, Base
<1>2. IsMemory(s.win) /\ IsList(s.win, s.winlist, wins(s)) /\ wins(s) \cap idle(s) = {}
  BY <1>1, RecordsAreMemory DEF Heap
<1>3. walk(s.win, s.winlist)[Len(s.win)] = NULL
  BY <1>2, ListWalked
<1>4. /\ {s.win[r].window : r \in wins(s)} = s.xwin /\ Cardinality(wins(s)) = Cardinality(s.xwin)
      /\ \A r \in wins(s) : ~s.win[r].exit
  BY <1>1, AsManyWindows DEF Heap
<1>5. \A r \in wins(s) : s.win[r].kind = "overspot" =>
          s.IC[s.win[r].data].overspot_win = s.win[r].window
  BY <1>1 DEF Own, MainOf, SpotOf, MenuOf
<1>6. \A r \in wins(s) : s.win[r].kind = "menusel" => request_of(s, r).window = s.win[r].window
  <2> SUFFICES ASSUME NEW r \in wins(s), s.win[r].kind = "menusel"
               PROVE  request_of(s, r).window = s.win[r].window
    OBVIOUS
  <2>1. PICK i \in ICID : MenuOf(s, r, i)
    BY <1>1 DEF Own, MainOf, SpotOf
  <2>2. s.win[r].imid = i /\ s.win[r].data = 1 /\ Len(s.IC[i].gwin) = 1
        /\ s.IC[i].gwin[1].window = s.win[r].window
    BY <2>1 DEF MenuOf
  <2>3. request_of(s, r) = s.IC[i].gwin[1]
    BY <2>2 DEF request_of
  <2> QED BY <2>2, <2>3
<1>7. ASSUME NEW i \in ICID,
             NEW x \in ({s.IC[i].overspot_win} \ {NULL}) \cup {g.window : g \in Range(s.IC[i].gwin)}
      PROVE  gui_search_win(s, x) # NULL
  <2>1. PICK r \in wins(s) : s.win[r].window = x
    <3>1. CASE x = s.IC[i].overspot_win /\ x # NULL
      BY <1>1, <3>1 DEF Own, SpotOf
    <3>2. CASE x \in {g.window : g \in Range(s.IC[i].gwin)}
      <4>1. PICK k \in DOMAIN s.IC[i].gwin : x = s.IC[i].gwin[k].window
        BY <3>2 DEF Range
      <4>2. s.IC[i].gwin # <<>> /\ s.IC[i].gwin \in Seq(Request)
        <5>1. s.IC[i].gwin \in Seq(Request)
          BY <1>1 DEF Screen, ICRec
        <5> QED BY <4>1, <5>1
      <4>3. PICK r \in wins(s) : MenuOf(s, r, i)
        BY <1>1, <4>2 DEF Own
      <4>4. Len(s.IC[i].gwin) = 1 /\ s.IC[i].gwin[1].window = s.win[r].window
        BY <4>3 DEF MenuOf
      <4>5. k = 1
        BY <4>1, <4>2, <4>4
      <4> QED BY <4>1, <4>4, <4>5
    <3> QED BY <3>1, <3>2
  <2>2. gui_search_win(s, x) = r /\ r # NULL
    BY <1>1, <2>1, WindowFound, ListsIn
  <2> QED BY <2>2
<1> QED BY <1>2, <1>3, <1>4, <1>5, <1>6, <1>7 DEF WindowsLive, wins, idle

\* The windows of the ICs.
LEMMA CandidatesOfFocus ==
    ASSUME Good(s)
    PROVE  NoStaleCandidates
<1> SUFFICES ASSUME NEW w \in DOMAIN s.win, Shown(w), s.win[w].map, s.win[w].imid # NULL,
                    s.ic # NULL
             PROVE  /\ s.win[w].imid \in InFocus \cup s.left
                    /\ s.win[w].imid = s.ic => converts(s, s.ic)
  BY DEF NoStaleCandidates
<1>1. w \in wins(s) /\ Base(s) /\ ICs(s) /\ Up(s)
  BY DEF Shown, wins, Good, Base
<1>2. s.win[w].imid \in ICID /\ s.IC[s.win[w].imid].live
  BY <1>1, Owners DEF SpotOf, MenuOf
<1>3. /\ s.IC[s.win[w].imid].focus \/ s.win[w].imid \in s.left
      /\ s.win[w].imid = s.ic => inputs(s, s.ic)
  BY <1>1 DEF Up, mapped
<1>4. s.win[w].imid \in InFocus \cup s.left
  BY <1>2, <1>3 DEF InFocus, Live
<1>5. inputs(s, s.ic) /\ s.ic \in IcId => converts(s, s.ic)
  BY <1>1 DEF ICs, inputs, converts, is_on
<1> QED BY <1>2, <1>3, <1>4, <1>5 DEF IcId

\* The main windows, and their titles.
LEMMA MainsAgree ==
    ASSUME Good(s)
    PROVE  MainWindowsAgree
<1> DEFINE up(w) == w # NULL /\ s.win[w].map
           any   == up(s.mainwin) \/ up(s.mainwin2)
<1>1. Fixed(s) /\ Told(s) /\ s \in Screen
  BY DEF Good, Base
<1>2. ~(up(s.mainwin) /\ up(s.mainwin2))
  BY <1>1 DEF Fixed, wide_is_up, mapped
<1>3. ASSUME any, in_mode(s, "HIDE"), ~s.unseen
      PROVE  asked_for(s)
  <2>1. Seen(s) /\ comes_and_goes(s)
    BY <1>1, <1>3 DEF Told, comes_and_goes
  <2>2. CASE up(s.mainwin)
    BY <2>1, <2>2 DEF Seen, mapped
  <2>3. CASE up(s.mainwin2)
    <3>1. ~in_mode(s, "WINONLY")
      BY <1>1, <2>3 DEF Fixed, mapped
    <3> QED BY <1>3, <2>1, <2>3, <3>1 DEF Seen, mapped
  <2> QED BY <1>3, <2>2, <2>3
<1>4. ASSUME asked_for(s)
      PROVE  IF small(s) THEN up(s.mainwin2) \/ in_mode(s, "WINONLY") ELSE up(s.mainwin)
  <2>1. Seen(s) /\ s.ic # NULL /\ s.ic \in ICID
    BY <1>1, <1>4 DEF Told, asked_for, Screen
  <2>2. CASE small(s)
    <3>1. in_mode(s, "MAINWIN2") /\ s.mainwin2 # NULL /\ comes_and_goes(s)
      BY <1>1, <2>2 DEF small, Fixed, comes_and_goes
    <3>2. ~wide_is_up(s)
      BY <2>1, <2>2, <3>1 DEF Seen, wide_is_up, mapped
    <3> QED BY <1>4, <2>1, <2>2, <3>1, <3>2 DEF Seen, mapped
  <2>3. CASE ~small(s)
    <3>1. s.mainwin # NULL
      <4>1. CASE in_mode(s, "MAINWIN2")
        <5>1. s.IC[s.ic].style = "Root"
          BY <2>3, <4>1 DEF small
        <5> QED BY <2>1, <5>1 DEF Seen
      <4>2. CASE ~in_mode(s, "MAINWIN2")
        BY <1>1, <4>2 DEF Fixed
      <4> QED BY <4>1, <4>2
    <3>2. s.win[s.mainwin].map
      BY <1>1, <1>4, <2>1, <2>3, <3>1 DEF Fixed, Seen, mapped
    <3> QED BY <2>3, <3>1, <3>2
  <2> QED BY <2>2, <2>3
<1> QED BY <1>2, <1>3, <1>4 DEF MainWindowsAgree, small

LEMMA TitlesAgree ==
    ASSUME Good(s)
    PROVE  TitleOfCurrent
<1> SUFFICES ASSUME NEW w \in {s.mainwin, s.mainwin2} \ {NULL}, s.win[w].map, ~s.unseen
             PROVE  s.drawn[s.win[w].kind] = title(s, s.ic)
  BY DEF TitleOfCurrent
<1>1. Own(s) /\ Seen(s)
  BY DEF Good, Base, Told
<1>2. CASE w = s.mainwin
  BY <1>1, <1>2 DEF Own, Seen, mapped
<1>3. CASE w = s.mainwin2
  BY <1>1, <1>3 DEF Own, Seen, mapped
<1> QED BY <1>2, <1>3

\* Until xcin is told to exit ...
LEMMA ClosingOrGood ==
    ASSUME WindowsInv
    PROVE  Closing \/ Good(s)
BY DEF WindowsInv, Sound, Closing

\* Whatever fonts the windows share, change and give back, no fontset is
\* closed or taken for another name under a window that is shown.
THEOREM WindowsKeepTheirFonts == ASSUME MaxReq = 1 PROVE Spec => [](Closing \/ FontsOpen)
<1>1. WindowsInv => Closing \/ FontsOpen
  BY ClosingOrGood, OpenFonts
<1> QED BY <1>1, WindowsSound, PTL

\* The window list stays well formed: every record on it is an X window of its
\* own that is not free for reuse, the ICs and their windows know each other,
\* and no IC knows of a window that is not there.
THEOREM WindowListSound == ASSUME MaxReq = 1 PROVE Spec => [](Closing \/ WindowsLive)
<1>1. WindowsInv => Closing \/ WindowsLive
  BY ClosingOrGood, LiveWindows
<1> QED BY <1>1, WindowsSound, PTL

\* No window of an IC that the user has left stays up.
THEOREM CandidatesFollowFocus == ASSUME MaxReq = 1 PROVE Spec => []NoStaleCandidates
<1>1. WindowsInv => NoStaleCandidates
  <2>1. Closing => NoStaleCandidates
    BY DEF NoStaleCandidates
  <2> QED BY <2>1, ClosingOrGood, CandidatesOfFocus
<1> QED BY <1>1, WindowsSound, PTL

\* The main windows are never up together, and the one that is needed is up.
THEOREM MainWindowNeeded == ASSUME MaxReq = 1 PROVE Spec => []MainWindowsAgree
<1>1. WindowsInv => MainWindowsAgree
  <2>1. Closing => MainWindowsAgree
    BY DEF MainWindowsAgree
  <2> QED BY <2>1, ClosingOrGood, MainsAgree
<1> QED BY <1>1, WindowsSound, PTL

\* A title names the input method and the width of the current IC as they are.
THEOREM TitlesStayTrue == ASSUME MaxReq = 1 PROVE Spec => []TitleOfCurrent
<1>1. WindowsInv => TitleOfCurrent
  <2>1. Closing => TitleOfCurrent
    BY DEF TitleOfCurrent
  <2> QED BY <2>1, ClosingOrGood, TitlesAgree
<1> QED BY <1>1, WindowsSound, PTL
=============================================================================
