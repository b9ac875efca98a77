---------------------------- MODULE Recovery_proofs ----------------------------
(* What holds of the data file of a collection, for any number of blocks,       *)
(* values, workers, operations and crashes: no block is free and in use or part *)
(* of two objects, none is lost unless a crash interrupts an operation, and the *)
(* server that starts again holds what the operations have left.                *)
(*                                                                              *)
(* The proofs follow a layout of the file: a list of blocks for the free list,  *)
(* one for each object, and one for the blocks a delete or an update has yet to *)
(* free.  Every write to the file moves one block between the lists, or none.   *)
EXTENDS Recovery, Members_proofs, FiniteSetTheorems

(* The lists of a layout: of the free blocks, of each object, of the blocks to *)
(* be freed.                                                                   *)
FREE == 0
REST == MaxBlocks + 1
Slots == 0 .. MaxBlocks + 1

Operation == [kind : {"none", "insert", "update", "delete"}, at : Stages,
              worker : 0 .. NumWorkers, id : 0 .. MaxBlocks, val : Values \cup {NoValue},
              page : Nat, tail : 0 .. MaxBlocks, block : 0 .. MaxBlocks, next : 0 .. MaxBlocks]

OpTypes(o) ==
    /\ o \in Operation
    /\ IF o.kind = "none" THEN o = NoOp
       ELSE o.worker \in Workers /\ o.id \in Ids /\ o.val \in Values

FileTypes(f) == f \in Seq(Block_) /\ Len(f) <= MaxBlocks

(* A list of blocks for every slot. *)
Typed(L, n) == L \in [Slots -> Seq(1 .. n)]

(* Each list follows the links. *)
Follows(c, f) == \A i \in 1 .. Len(c) : i < Len(c) => f[c[i]].link = c[i + 1]
Linked(L, f) == \A k \in Slots : Follows(L[k], f)

(* No block is in two places. *)
Apart(L) ==
    \A k, l \in Slots : \A i \in 1 .. Len(L[k]) : \A j \in 1 .. Len(L[l]) :
        L[k][i] = L[l][j] => k = l /\ i = j

(* A block in no list. *)
Loose(L, b) == \A k \in Slots : \A i \in 1 .. Len(L[k]) : L[k][i] # b

Heads(L, h) ==
    /\ h = IF Len(L[FREE]) = 0 THEN 0 ELSE L[FREE][1]
    /\ \A b \in Ids : Len(L[b]) > 0 => L[b][1] = b

Freeing(o) == o.at \in {"zero", "thread", "push", "unlink"}

(* Where the last block of a list leads: nowhere, but for the object that is *)
(* being updated.                                                            *)
EndLink(o, f) ==
    IF o.at = "end_block" THEN Missing
    ELSE IF o.at = "page" /\ o.block = Len(f) + 1 THEN Len(f) + 1 ELSE 0

Ends(L, o, f) ==
    \A k \in Slots : Len(L[k]) > 0 /\ ~(k = o.id /\ Freeing(o)) =>
        f[L[k][Len(L[k])]].link = IF k = o.id THEN EndLink(o, f) ELSE 0

(* The first page of an object is nowhere else, unless it is to be deleted. *)
DeletesFirst(o) == o.kind = "delete" /\ o.at = "zero" /\ o.block = o.id

FirstPages(L, o, f) ==
    \A b \in 1 .. Len(f) : f[b].page[2] = 1 => Len(L[b]) > 0 \/ (DeletesFirst(o) /\ b = o.id)

Holds(L, f, b, v) ==
    /\ Len(L[b]) >= Pages[v]
    /\ \A i \in 1 .. Len(L[b]) : f[L[b][i]].page = IF i <= Pages[v] THEN <<v, i>> ELSE Blank

Contents(L, o, f, s) ==
    \A b \in Ids \ {o.id} : IF s[b] = NoValue THEN Len(L[b]) = 0 ELSE Holds(L, f, b, s[b])

(* The block an operation has taken out of one list and not put in another. *)
InTransit(o) == o.at \in {"clear", "log", "fill", "link", "thread", "push"}

Transit(L, o, f, h) ==
    /\ InTransit(o) =>
          /\ o.block \in 1 .. Len(f)
          /\ Loose(L, o.block)
    /\ o.at \in {"link", "thread"} => f[o.block].link = 0
    /\ o.at = "push" => f[o.block].link = h

Rest(L, o) ==
    /\ o.at \notin {"zero", "thread", "push"} => Len(L[REST]) = 0
    /\ o.at = "zero" => Len(L[REST]) > 0 /\ L[REST][1] = o.block
    /\ o.at \in {"thread", "push"} => o.next = IF Len(L[REST]) = 0 THEN 0 ELSE L[REST][1]

Inserting(L, o, f, s) ==
    o.kind = "insert" =>
        /\ o.at \in {"append", "clear", "log", "fill"}
        /\ Len(L[o.id]) = 0 /\ s[o.id] = NoValue
        /\ IF o.at = "append" THEN o.id = Len(f) + 1 /\ Len(f) + Pages[o.val] <= MaxBlocks
           ELSE o.block = o.id /\ Pages[o.val] = 1

Deleting(L, o) ==
    o.kind = "delete" => o.at \in {"zero", "thread", "push"} /\ Len(L[o.id]) = 0

(* An update has written its first pages; the blocks it lacks fit in the file. *)
Written(c, f, v, n) == \A i \in 1 .. n : f[c[i]].page = <<v, i>>

Updating(L, o, f) ==
    o.kind = "update" =>
        LET size == Len(L[o.id]) IN
        /\ o.at \notin {"none", "append", "log", "fill"}
        /\ size > 0 /\ f[o.id].page[2] = 1
        /\ o.page \in 1 .. Pages[o.val]
        /\ ~Freeing(o) => Len(f) + Pages[o.val] - size <= MaxBlocks
        /\ IF o.at = "page"
           THEN /\ Written(L[o.id], f, o.val, o.page - 1)
                /\ IF o.block = Len(f) + 1 THEN size = o.page - 1
                   ELSE size >= o.page /\ o.block = L[o.id][o.page]
           ELSE /\ size >= o.page /\ o.tail = L[o.id][o.page]
                /\ Written(L[o.id], f, o.val, o.page)
                /\ o.at # "linked" => size = o.page
        /\ o.at = "linked" => o.next = IF size > o.page THEN L[o.id][o.page + 1] ELSE 0
        /\ o.at \in {"clear", "link"} => o.page < Pages[o.val]
        /\ Freeing(o) => o.page = Pages[o.val]

Covers(L, o, f) ==
    \A b \in 1 .. Len(f) :
        \/ InTransit(o) /\ b = o.block
        \/ \E k \in Slots : \E i \in 1 .. Len(L[k]) : L[k][i] = b

(* L is a layout of file f with the first free block h, while operation o is  *)
(* under way and the finished ones have left s; c when no block may be missing.*)
Layout(L, o, f, h, s, c) ==
    /\ OpTypes(o) /\ FileTypes(f) /\ s \in [Ids -> Values \cup {NoValue}]
    /\ Typed(L, Len(f)) /\ Apart(L) /\ Linked(L, f) /\ Heads(L, h) /\ Ends(L, o, f)
    /\ FirstPages(L, o, f) /\ Contents(L, o, f, s)
    /\ Transit(L, o, f, h) /\ Rest(L, o)
    /\ (o.kind = "none" => o.at = "none")
    /\ Inserting(L, o, f, s) /\ Deleting(L, o) /\ Updating(L, o, f)
    /\ c => Covers(L, o, f)

(* The operation under way, or the one that the last stop interrupted. *)
Current == IF status = "up" THEN op ELSE interrupted
Uninterrupted == ToSet(ended) \subseteq {NoOp}

(* What the restart took the interrupted operation to have left is not what the *)
(* file holds when the check did not notice the damage.                          *)
Left(s) == status = "unnoticed" \/ s = stored

LayoutInv == \E L, s : Left(s) /\ Layout(L, Current, file, head, s, Uninterrupted)

(* The last record logged is that of the current operation, or else what it  *)
(* says is what the collection holds.                                        *)
NewestInv ==
    status # "unnoticed" =>
    IF Logged(Current)
    THEN /\ newest \in Record /\ newest.id = Current.id /\ newest.val = Current.val
         /\ newest.flags = DELETE <=> Current.kind = "delete"
    ELSE newest # NoRecord =>
         /\ newest \in Record
         /\ stored[newest.id] = IF newest.flags = DELETE THEN NoValue ELSE newest.val

OtherTypes ==
    /\ journal \in [Workers -> Seq(Record)] /\ since \in [Workers -> 0..MaxTime]
    /\ missing \in [Workers -> BOOLEAN]
    /\ now \in 0..MaxTime /\ newest \in Record \cup {NoRecord}
    /\ has_garbage \in [Workers -> BOOLEAN] /\ reopened \in [Workers -> BOOLEAN]
    /\ drops \in [Workers -> Nat] /\ owes \in [Workers -> BOOLEAN]
    /\ status \in {"up", "down", "refused", "unnoticed"}
    /\ stored \in [Ids -> Values \cup {NoValue}]
    /\ ended \in Seq(Operation) /\ (status # "up" => op = NoOp /\ ended # << >>)

Refusal == status = "refused" => ~CheckAll

RecoveryInv == OtherTypes /\ LayoutInv /\ NewestInv /\ Refusal

-----------------------------------------------------------------------------
(* Chains. *)

(* A list without repetition of the blocks of a file is no longer than the file. *)
LEMMA NoLongerThanFile ==
    ASSUME NEW n \in Nat, NEW c \in Seq(1 .. n),
           \A i, j \in 1 .. Len(c) : c[i] = c[j] => i = j
    PROVE  Len(c) <= n
<1>1. Len(c) \in Nat /\ c \in [1 .. Len(c) -> 1 .. n]
    BY LenProperties
<1>2. c \in Injection(1 .. Len(c), 1 .. n)
    BY <1>1 DEF Injection, IsInjective
<1>3. /\ IsFiniteSet(1 .. n) /\ Cardinality(1 .. n) = n
      /\ Cardinality(1 .. Len(c)) = Len(c)
  <2>1. \A k \in Nat : IsFiniteSet(1 .. k) /\ Cardinality(1 .. k) = IF 1 > k THEN 0 ELSE k - 1 + 1
    BY FS_Interval
  <2>2. \A k \in Nat : (IF 1 > k THEN 0 ELSE k - 1 + 1) = k
    OBVIOUS
  <2> QED
    BY <1>1, <2>1, <2>2
<1> QED
    BY <1>2, <1>3, FS_Injection

(* The function Chain is defined by. *)
Further(s, f) == IF f[Last(s)].link \in DOMAIN f THEN Append(s, f[Last(s)].link) ELSE s

Walks(g, f, b) ==
    g = [n \in 0 .. Len(f) |-> IF n = 0 THEN <<b>> ELSE Further(g[n - 1], f)]

(* A list of blocks that follows the links as far as they lead. *)
Path(c, f) ==
    /\ c \in Seq(1 .. Len(f)) /\ Len(c) > 0
    /\ \A i \in 1 .. Len(c) : i < Len(c) => f[c[i]].link = c[i + 1]
    /\ f[c[Len(c)]].link \notin 1 .. Len(f)
    /\ \A i, j \in 1 .. Len(c) : c[i] = c[j] => i = j

FirstOf(c, k) == SubSeq(c, 1, IF k < Len(c) THEN k ELSE Len(c))

LEMMA FirstOfPath ==
    ASSUME NEW S, NEW c \in Seq(S), Len(c) > 0, NEW k \in Nat \ {0}
    PROVE  /\ FirstOf(c, k) \in Seq(S)
           /\ Len(FirstOf(c, k)) = IF k < Len(c) THEN k ELSE Len(c)
           /\ \A i \in 1 .. Len(FirstOf(c, k)) : FirstOf(c, k)[i] = c[i]
<1> DEFINE m == IF k < Len(c) THEN k ELSE Len(c)
<1>1. Len(c) \in Nat /\ m \in 1 .. Len(c) /\ \A i \in 1 .. m : c[i] \in S
    BY LenProperties, ElementOfSeq
<1>2. /\ SubSeq(c, 1, m) \in Seq(S) /\ Len(SubSeq(c, 1, m)) = m
      /\ \A i \in 1 .. m : SubSeq(c, 1, m)[i] = c[i]
  <2>1. /\ SubSeq(c, 1, m) \in Seq(S)
        /\ Len(SubSeq(c, 1, m)) = IF 1 <= m THEN m - 1 + 1 ELSE 0
        /\ \A i \in 1 .. m - 1 + 1 : SubSeq(c, 1, m)[i] = c[1 + i - 1]
    BY <1>1, SubSeqProperties
  <2> QED
    BY <1>1, <2>1
<1> QED
    BY <1>2 DEF FirstOf

LEMMA FirstIsHead ==
    ASSUME NEW S, NEW c \in Seq(S), Len(c) > 0
    PROVE  FirstOf(c, 1) = <<c[1]>>
<1>1. Len(c) \in Nat \ {0} /\ 1 \in Nat \ {0} /\ c[1] \in S
    BY LenProperties, ElementOfSeq
<1>2. /\ FirstOf(c, 1) \in Seq(S)
      /\ Len(FirstOf(c, 1)) = IF 1 < Len(c) THEN 1 ELSE Len(c)
      /\ \A i \in 1 .. Len(FirstOf(c, 1)) : FirstOf(c, 1)[i] = c[i]
    BY <1>1, FirstOfPath
<1>3. 1 < Len(c) \/ Len(c) = 1
  <2>1. \A n \in Nat \ {0} : 1 < n \/ n = 1
    OBVIOUS
  <2> QED
    BY <1>1, <2>1
<1>4. <<c[1]>> \in Seq(S) /\ Len(<<c[1]>>) = 1 /\ <<c[1]>>[1] = c[1]
    BY <1>1
<1>5. Len(FirstOf(c, 1)) = 1 /\ \A i \in 1 .. 1 : FirstOf(c, 1)[i] = <<c[1]>>[i]
    BY <1>2, <1>3, <1>4
<1> QED
    BY <1>2, <1>4, <1>5, SeqEqual

LEMMA WalkStep ==
    ASSUME NEW f, Len(f) \in Nat, DOMAIN f = 1 .. Len(f), NEW c, Path(c, f),
           NEW k \in Nat \ {0}
    PROVE  FirstOf(c, k + 1) = Further(FirstOf(c, k), f)
<1> DEFINE s == FirstOf(c, k)
           t == FirstOf(c, k + 1)
           B == 1 .. Len(f)
<1>1. /\ c \in Seq(B) /\ Len(c) \in Nat \ {0} /\ \A i \in 1 .. Len(c) : c[i] \in B
      /\ k + 1 \in Nat \ {0}
    BY LenProperties, ElementOfSeq DEF Path
<1>2. /\ s \in Seq(B) /\ Len(s) = IF k < Len(c) THEN k ELSE Len(c)
      /\ \A i \in 1 .. Len(s) : s[i] = c[i]
    BY <1>1, FirstOfPath
<1>3. /\ t \in Seq(B) /\ Len(t) = IF k + 1 < Len(c) THEN k + 1 ELSE Len(c)
      /\ \A i \in 1 .. Len(t) : t[i] = c[i]
    BY <1>1, FirstOfPath
<1> HIDE DEF s, t
<1>4. Last(s) = c[Len(s)]
    BY <1>1, <1>2 DEF Last
<1>5. CASE k < Len(c)
  <2>1. f[Last(s)].link = c[k + 1] /\ c[k + 1] \in B
    BY <1>1, <1>2, <1>4, <1>5 DEF Path
  <2>2. /\ Append(s, c[k + 1]) \in Seq(B) /\ Len(Append(s, c[k + 1])) = k + 1
        /\ \A i \in 1 .. k : Append(s, c[k + 1])[i] = s[i]
        /\ Append(s, c[k + 1])[k + 1] = c[k + 1]
    BY <1>2, <1>5, <2>1, AppendProperties
  <2>3. Len(t) = k + 1 /\ \A i \in 1 .. k + 1 : t[i] = Append(s, c[k + 1])[i]
    <3>1. Len(t) = k + 1 /\ Len(s) = k
      BY <1>1, <1>2, <1>3, <1>5
    <3>2. ASSUME NEW i \in 1 .. k + 1
          PROVE  t[i] = Append(s, c[k + 1])[i]
      <4>1. t[i] = c[i] /\ (i = k + 1 \/ i \in 1 .. k)
        BY <1>3, <3>1
      <4> QED
        BY <1>2, <2>2, <3>1, <4>1
    <3> QED
      BY <3>1, <3>2
  <2>4. t = Append(s, c[k + 1])
    BY <1>3, <2>2, <2>3, SeqEqual
  <2> QED
    BY <2>1, <2>4 DEF s, t, Further
<1>6. CASE ~(k < Len(c))
  <2>1. f[Last(s)].link \notin DOMAIN f
    BY <1>2, <1>4, <1>6 DEF Path
  <2>2. t = s
    BY <1>1, <1>2, <1>3, <1>6, SeqEqual
  <2> QED
    BY <2>1, <2>2 DEF s, t, Further
<1> QED
    BY <1>5, <1>6

LEMMA WalkExists ==
    ASSUME NEW f, Len(f) \in Nat, DOMAIN f = 1 .. Len(f), NEW c, Path(c, f)
    PROVE  \E g : Walks(g, f, c[1])
<1> DEFINE g == [n \in 0 .. Len(f) |-> FirstOf(c, n + 1)]
<1>1. /\ c \in Seq(1 .. Len(f)) /\ Len(c) > 0
    BY DEF Path
<1>2. FirstOf(c, 1) = <<c[1]>>
    BY <1>1, FirstIsHead
<1>3. ASSUME NEW n \in 0 .. Len(f)
      PROVE  g[n] = IF n = 0 THEN <<c[1]>> ELSE Further(g[n - 1], f)
  <2>1. CASE n = 0
    BY <1>2, <2>1
  <2>2. CASE n # 0
    <3>1. n \in Nat \ {0} /\ n - 1 \in 0 .. Len(f) /\ (n - 1) + 1 = n
      BY <2>2
    <3>2. g[n - 1] = FirstOf(c, n) /\ g[n] = FirstOf(c, n + 1)
      BY <3>1
    <3> HIDE DEF g
    <3> QED
      BY <2>2, <3>1, <3>2, WalkStep
  <2> HIDE DEF g
  <2> QED
    BY <2>1, <2>2
<1>4. g = [n \in 0 .. Len(f) |-> g[n]]
    OBVIOUS
<1> HIDE DEF g
<1>5. Walks(g, f, c[1])
    BY <1>3, <1>4 DEF Walks
<1> QED
    BY <1>5

LEMMA UpTo ==
    \A n \in Nat : n \in 0 .. n /\ 0 .. n \in SUBSET Nat /\ n + 1 \in Nat \ {0}
    OBVIOUS

LEMMA WalkIsPath ==
    ASSUME NEW f, Len(f) \in Nat, DOMAIN f = 1 .. Len(f), NEW c, Path(c, f),
           NEW g, Walks(g, f, c[1])
    PROVE  g[Len(f)] = c
<1>1. /\ c \in Seq(1 .. Len(f)) /\ Len(c) \in Nat \ {0} /\ Len(c) <= Len(f)
    BY LenProperties, NoLongerThanFile DEF Path
<1> DEFINE T == {n \in 0 .. Len(f) : g[n] # FirstOf(c, n + 1)}
<1>2. SUFFICES ASSUME T # {} PROVE FALSE
  <2> DEFINE d == FirstOf(c, Len(f) + 1)
  <2>1. g[Len(f)] = d
    <3>1. T = {}
      <4> HIDE DEF T
      <4> QED
        BY <1>2
    <3>2. Len(f) \in 0 .. Len(f)
      BY UpTo
    <3> QED
      BY <3>1, <3>2
  <2>2. /\ d \in Seq(1 .. Len(f)) /\ Len(d) = Len(c)
        /\ \A i \in 1 .. Len(c) : d[i] = c[i]
    <3>1. Len(f) + 1 \in Nat \ {0} /\ ~(Len(f) + 1 < Len(c))
      BY <1>1
    <3> HIDE DEF T
    <3> QED
      BY <1>1, <3>1, FirstOfPath
  <2> HIDE DEF d, T
  <2>3. d = c
    BY <1>1, <2>2, SeqEqual
  <2> QED
    BY <2>1, <2>3
<1>3. PICK n \in T : \A k \in T : n <= k
  <2>1. T \in SUBSET Nat
    <3>1. 0 .. Len(f) \in SUBSET Nat
      BY UpTo
    <3> QED
      BY <3>1
  <2> HIDE DEF T
  <2> QED
    BY <1>2, <2>1, LeastNatural
<1>4. g[n] = IF n = 0 THEN <<c[1]>> ELSE Further(g[n - 1], f)
    BY DEF Walks
<1>5. CASE n = 0
  <2>1. FirstOf(c, n + 1) = <<c[1]>>
    BY <1>1, <1>5, FirstIsHead
  <2> QED
    BY <1>3, <1>4, <1>5, <2>1
<1>6. CASE n # 0
  <2>1. n \in Nat \ {0} /\ n - 1 \in 0 .. Len(f) /\ (n - 1) + 1 = n /\ ~(n <= n - 1)
    BY <1>6
  <2>2. n - 1 \notin T
    <3> HIDE DEF T
    <3> QED
      BY <1>3, <2>1
  <2>3. g[n - 1] = FirstOf(c, n)
    BY <2>1, <2>2
  <2>4. FirstOf(c, n + 1) = Further(FirstOf(c, n), f)
    BY <2>1, WalkStep
  <2>5. g[n] # FirstOf(c, n + 1)
    BY <1>3
  <2> QED
    BY <1>4, <1>6, <2>3, <2>4, <2>5
<1> QED
    BY <1>5, <1>6

LEMMA ChainIsPath ==
    ASSUME Len(file) \in Nat, DOMAIN file = 1 .. Len(file), NEW c, Path(c, file)
    PROVE  Chain(c[1]) = c
<1> DEFINE g == CHOOSE h : Walks(h, file, c[1])
<1>1. Walks(g, file, c[1])
    BY WalkExists
<1>2. Chain(c[1]) = g[Len(file)]
    BY DEF Chain, Walks, Further
<1> QED
    BY <1>1, <1>2, WalkIsPath

-----------------------------------------------------------------------------
(* Files and operations. *)

LEMMA FileFacts ==
    ASSUME NEW f, FileTypes(f)
    PROVE  /\ Len(f) \in Nat /\ Len(f) <= MaxBlocks /\ DOMAIN f = 1 .. Len(f)
           /\ \A b \in 1 .. Len(f) :
                 /\ f[b] \in Block_ /\ f[b].link \in Missing .. MaxBlocks /\ f[b].link \in Int
                 /\ f[b].page \in Page \cup {Blank}
<1>1. Len(f) \in Nat /\ Len(f) <= MaxBlocks /\ DOMAIN f = 1 .. Len(f)
    BY LenProperties DEF FileTypes
<1>2. \A b \in 1 .. Len(f) : f[b] \in Block_
    BY ElementOfSeq DEF FileTypes
<1> QED
    BY <1>1, <1>2 DEF Block_

LEMMA Write ==
    ASSUME NEW f, FileTypes(f), NEW x \in 1 .. Len(f), NEW e \in Block_
    PROVE  /\ FileTypes([f EXCEPT ![x] = e]) /\ Len([f EXCEPT ![x] = e]) = Len(f)
           /\ \A b \in 1 .. Len(f) : [f EXCEPT ![x] = e][b] = IF b = x THEN e ELSE f[b]
    BY ExceptSeq DEF FileTypes

LEMMA WriteLink ==
    ASSUME NEW f, FileTypes(f), NEW x \in 1 .. Len(f), NEW l \in Missing .. MaxBlocks
    PROVE  LET g == [f EXCEPT ![x].link = l] IN
           /\ FileTypes(g) /\ Len(g) = Len(f)
           /\ \A b \in 1 .. Len(f) : /\ g[b].page = f[b].page
                                     /\ g[b].link = IF b = x THEN l ELSE f[b].link
<1> DEFINE e == [f[x] EXCEPT !.link = l]
<1>1. f[x] \in Block_ /\ DOMAIN f = 1 .. Len(f)
    BY FileFacts
<1>2. e \in Block_ /\ e.page = f[x].page /\ e.link = l
    BY <1>1 DEF Block_
<1>3. [f EXCEPT ![x].link = l] = [f EXCEPT ![x] = e]
    BY <1>1
<1> HIDE DEF e
<1> QED
    BY <1>2, <1>3, Write

SetPage(f, x, p) == [f EXCEPT ![x].page = p]

LEMMA WritePageOnly ==
    ASSUME NEW f, FileTypes(f), NEW x \in 1 .. Len(f), NEW p \in Page \cup {Blank}
    PROVE  LET g == SetPage(f, x, p) IN
           /\ FileTypes(g) /\ Len(g) = Len(f)
           /\ \A b \in 1 .. Len(f) : /\ g[b].link = f[b].link
                                     /\ g[b].page = IF b = x THEN p ELSE f[b].page
<1> DEFINE e == [f[x] EXCEPT !.page = p]
<1>1. f[x] \in Block_ /\ DOMAIN f = 1 .. Len(f)
    BY FileFacts
<1>2. e \in Block_ /\ e.link = f[x].link /\ e.page = p
    BY <1>1 DEF Block_
<1>3. SetPage(f, x, p) = [f EXCEPT ![x] = e]
    BY <1>1 DEF SetPage
<1> HIDE DEF e
<1>4. /\ FileTypes([f EXCEPT ![x] = e]) /\ Len([f EXCEPT ![x] = e]) = Len(f)
      /\ \A b \in 1 .. Len(f) : [f EXCEPT ![x] = e][b] = IF b = x THEN e ELSE f[b]
    BY <1>2, Write
<1> DEFINE g == SetPage(f, x, p)
<1>5. /\ FileTypes(g) /\ Len(g) = Len(f)
      /\ \A b \in 1 .. Len(f) : g[b] = IF b = x THEN e ELSE f[b]
    BY <1>3, <1>4
<1> HIDE DEF g
<1>6. /\ FileTypes(g) /\ Len(g) = Len(f)
      /\ \A b \in 1 .. Len(f) : /\ g[b].link = f[b].link
                                /\ g[b].page = IF b = x THEN p ELSE f[b].page
    BY <1>2, <1>5
<1> QED
    BY <1>6 DEF g

(* A block of zeros, and a page of a value. *)
LEMMA PageFacts ==
    /\ EmptyBlock \in Block_ /\ EmptyBlock.page = Blank /\ EmptyBlock.link = 0
    /\ Blank[2] = 0
    /\ \A v \in Values : /\ Pages[v] \in Nat \ {0}
                         /\ \A k \in 1 .. Pages[v] : <<v, k>> \in Page /\ <<v, k>> # Blank
<1>1. Blank \in Page \cup {Blank} /\ 0 \in Missing .. MaxBlocks
    BY JournalAssumption DEF Missing
<1>2. EmptyBlock \in Block_ /\ EmptyBlock.page = Blank /\ EmptyBlock.link = 0
    BY <1>1 DEF EmptyBlock, Block, Block_
<1>3. ASSUME NEW v \in Values
      PROVE  /\ Pages[v] \in Nat \ {0}
             /\ \A k \in 1 .. Pages[v] : <<v, k>> \in Page /\ <<v, k>> # Blank
  <2>1. Pages[v] \in Nat \ {0}
    BY BinFileAssumption
  <2>2. ASSUME NEW k \in 1 .. Pages[v]
        PROVE  <<v, k>> \in Page /\ <<v, k>> # Blank
    BY <2>1, <2>2, BinFileAssumption DEF Page, Blank
  <2> QED
    BY <2>1, <2>2
<1> QED
    BY <1>2, <1>3 DEF Blank

(* What the operation of a layout is about. *)
LEMMA OpFacts ==
    ASSUME NEW o, OpTypes(o)
    PROVE  /\ o.id \in Slots /\ o.id # REST /\ FREE \in Slots /\ REST \in Slots /\ FREE # REST
           /\ o.block \in Int /\ o.next \in Int /\ o.tail \in Int /\ o.page \in Nat
           /\ o.kind # "none" => /\ o.id \in Ids /\ o.id # FREE /\ o.val \in Values
                                 /\ Pages[o.val] \in Nat \ {0} /\ o.worker \in Workers
           /\ o.kind = "none" => o = NoOp /\ o.id = 0 /\ o.at = "none"
    BY PageFacts, JournalAssumption
       DEF OpTypes, Operation, Slots, FREE, REST, Ids, NoOp

LEMMA SlotFacts ==
    /\ FREE \in Slots /\ REST \in Slots /\ FREE # REST
    /\ \A b \in Ids : b \in Slots /\ b # FREE /\ b # REST
    BY JournalAssumption DEF Slots, FREE, REST, Ids

(* A block popped from the front of a list is zeroed. *)
LEMMA LayoutClear ==
    ASSUME NEW L, NEW o, NEW f, NEW h, NEW s, NEW c, Layout(L, o, f, h, s, c), o.at = "clear"
    PROVE  Layout(L, [o EXCEPT !.at = IF o.kind = "insert" THEN "log" ELSE "link"],
                  [f EXCEPT ![o.block] = EmptyBlock], h, s, c)
<1> DEFINE a == IF o.kind = "insert" THEN "log" ELSE "link"
           p == [o EXCEPT !.at = a]
           g == [f EXCEPT ![o.block] = EmptyBlock]
<1>1. /\ OpTypes(o) /\ FileTypes(f) /\ Len(f) \in Nat
      /\ InTransit(o) /\ o.block \in 1 .. Len(f) /\ Loose(L, o.block)
    BY FileFacts DEF Layout, Transit, InTransit
<1>2. /\ FileTypes(g) /\ Len(g) = Len(f)
      /\ \A b \in 1 .. Len(f) : g[b] = IF b = o.block THEN EmptyBlock ELSE f[b]
    BY <1>1, PageFacts, Write
<1>3. /\ OpTypes(p) /\ p.at = a /\ p.kind = o.kind /\ p.id = o.id /\ p.val = o.val
      /\ p.page = o.page /\ p.tail = o.tail /\ p.block = o.block /\ p.next = o.next
    BY <1>1 DEF OpTypes, Operation, Stages, NoOp
<1> HIDE DEF p, g
<1>4. \A k \in Slots : \A i \in 1 .. Len(L[k]) : L[k][i] \in 1 .. Len(f) /\ g[L[k][i]] = f[L[k][i]]
    BY <1>1, <1>2, ElementOfSeq DEF Layout, Typed, Loose
<1>5. Typed(L, Len(g)) /\ Apart(L) /\ Heads(L, h)
    BY <1>2 DEF Layout
<1>6. Linked(L, g)
    BY <1>4 DEF Layout, Linked, Follows
<1>7. Ends(L, p, g)
    BY <1>2, <1>3, <1>4 DEF Layout, Ends, EndLink, Freeing
<1>8. FirstPages(L, p, g)
    BY <1>1, <1>2, <1>3, PageFacts DEF Layout, FirstPages, DeletesFirst
<1>9. Contents(L, p, g, s)
    BY <1>3, <1>4, SlotFacts DEF Layout, Contents, Holds
<1>10. Transit(L, p, g, h) /\ Rest(L, p) /\ (p.kind = "none" => p.at = "none")
    BY <1>1, <1>2, <1>3, PageFacts, OpFacts DEF Layout, Transit, InTransit, Rest
<1>11. Inserting(L, p, g, s) /\ Deleting(L, p)
    BY <1>1, <1>2, <1>3 DEF Layout, Inserting, Deleting
<1>12. Updating(L, p, g)
  <2>1. CASE o.kind # "update"
    BY <1>3, <2>1 DEF Updating
  <2>2. CASE o.kind = "update"
    <3>1. Updating(L, o, f) /\ o.id \in Ids /\ o.id \in Slots /\ Len(L[o.id]) > 0 /\ L[o.id][1] = o.id
      BY <2>2, OpFacts DEF Layout, Updating, Heads
    <3>2. g[o.id] = f[o.id] /\ \A i \in 1 .. Len(L[o.id]) : g[L[o.id][i]] = f[L[o.id][i]]
      <4>1. 1 \in 1 .. Len(L[o.id])
        BY <3>1, LenProperties DEF Layout, Typed
      <4> QED
        BY <1>4, <3>1, <4>1
    <3>3. Len(L[o.id]) \in Nat
      BY <3>1, LenProperties DEF Layout, Typed
    <3>4. Written(L[o.id], f, o.val, o.page) => Written(L[o.id], g, o.val, o.page)
      <4>1. Updating(L, o, f) /\ o.page <= Len(L[o.id])
        BY <1>1, <2>2, <3>1 DEF Updating
      <4>2. \A i \in 1 .. o.page : i \in 1 .. Len(L[o.id])
        BY <1>1, <3>3, <4>1, OpFacts
      <4> QED
        BY <3>2, <4>2 DEF Written
    <3> QED
      BY <1>1, <1>2, <1>3, <2>2, <3>1, <3>2, <3>3, <3>4 DEF Updating, Freeing
  <2> QED
    BY <2>1, <2>2
<1>13. c => Covers(L, p, g)
    BY <1>1, <1>2, <1>3 DEF Layout, Covers, InTransit
<1> QED
    BY <1>2, <1>3, <1>5, <1>6, <1>7, <1>8, <1>9, <1>10, <1>11, <1>12, <1>13 DEF Layout, p, g

(* An operation as it begins. *)
Started(kind, stage, w, id, v, b) ==
    [kind |-> kind, at |-> stage, worker |-> w, id |-> id, val |-> v,
     page |-> 1, tail |-> 0, block |-> b, next |-> 0]

LEMMA StartedFacts ==
    ASSUME NEW kind \in {"insert", "update", "delete"}, NEW stage \in Stages,
           NEW w \in Workers, NEW id \in Ids, NEW v \in Values, NEW b \in 0 .. MaxBlocks
    PROVE  LET p == Started(kind, stage, w, id, v, b) IN
           /\ OpTypes(p) /\ p.kind = kind /\ p.at = stage /\ p.worker = w /\ p.id = id
           /\ p.val = v /\ p.page = 1 /\ p.tail = 0 /\ p.block = b /\ p.next = 0
    BY JournalAssumption DEF OpTypes, Operation, Started, Workers, Ids

(* Between operations. *)
LEMMA Idle ==
    ASSUME NEW L, NEW f, NEW h, NEW s, NEW c, Layout(L, NoOp, f, h, s, c)
    PROVE  /\ NoOp.kind = "none" /\ NoOp.at = "none" /\ NoOp.id = 0 /\ NoOp.id \notin Ids
           /\ ~InTransit(NoOp) /\ ~Freeing(NoOp) /\ ~DeletesFirst(NoOp)
           /\ Len(f) \in Nat /\ FileTypes(f)
           /\ \A k \in Slots : /\ Len(L[k]) \in Nat
                               /\ \A i \in 1 .. Len(L[k]) : L[k][i] \in 1 .. Len(f)
           /\ \A k \in Slots : Len(L[k]) > 0 => f[L[k][Len(L[k])]].link = 0
           /\ Len(L[REST]) = 0
<1>1. /\ NoOp.kind = "none" /\ NoOp.at = "none" /\ NoOp.id = 0 /\ NoOp.id \notin Ids
      /\ ~InTransit(NoOp) /\ ~Freeing(NoOp) /\ ~DeletesFirst(NoOp)
    BY JournalAssumption DEF NoOp, Ids, InTransit, Freeing, DeletesFirst
<1>2. Len(f) \in Nat /\ FileTypes(f)
    BY FileFacts DEF Layout
<1>3. \A k \in Slots : /\ Len(L[k]) \in Nat
                       /\ \A i \in 1 .. Len(L[k]) : L[k][i] \in 1 .. Len(f)
    BY LenProperties, ElementOfSeq DEF Layout, Typed
<1>4. \A k \in Slots : Len(L[k]) > 0 => f[L[k][Len(L[k])]].link = 0
    BY <1>1 DEF Layout, Ends, EndLink
<1>5. Len(L[REST]) = 0
    BY <1>1 DEF Layout, Rest
<1> QED
    BY <1>1, <1>2, <1>3, <1>4, <1>5

LEMMA LayoutBeginAppend ==
    ASSUME NEW L, NEW f, NEW h, NEW s, NEW c, Layout(L, NoOp, f, h, s, c),
           NEW w \in Workers, NEW v \in Values, Len(f) + Pages[v] <= MaxBlocks
    PROVE  Layout(L, Started("insert", "append", w, Len(f) + 1, v, 0), f, h, s, c)
<1> DEFINE id == Len(f) + 1
           p == Started("insert", "append", w, id, v, 0)
<1>1. Len(f) \in Nat /\ Pages[v] \in Nat \ {0} /\ id \in Ids /\ 0 \in 0 .. MaxBlocks
    BY Idle, PageFacts, JournalAssumption DEF Ids
<1>2. /\ OpTypes(p) /\ p.kind = "insert" /\ p.at = "append" /\ p.worker = w /\ p.id = id
      /\ p.val = v /\ p.page = 1 /\ p.tail = 0 /\ p.block = 0 /\ p.next = 0
    BY <1>1, StartedFacts DEF Stages
<1> HIDE DEF p
<1>3. ~InTransit(p) /\ ~Freeing(p) /\ ~DeletesFirst(p)
    BY <1>2 DEF InTransit, Freeing, DeletesFirst
<1>4. Len(L[id]) = 0 /\ id \in Slots
    BY <1>1, Idle, SlotFacts DEF Layout, Heads
<1>5. s[id] = NoValue
  <2>1. s[id] # NoValue => Holds(L, f, id, s[id]) /\ s[id] \in Values
    BY <1>1, Idle DEF Layout, Contents
  <2> QED
    BY <1>4, <2>1, PageFacts DEF Holds
<1>6. Ends(L, p, f)
    BY <1>2, <1>3, <1>4, Idle DEF Ends, EndLink
<1>7. FirstPages(L, p, f) /\ Contents(L, p, f, s)
    BY <1>2, <1>3, Idle DEF Layout, FirstPages, Contents
<1>8. Transit(L, p, f, h) /\ Rest(L, p)
    BY <1>2, <1>3, Idle DEF Layout, Transit, Rest
<1>9. Inserting(L, p, f, s) /\ Deleting(L, p) /\ Updating(L, p, f)
    BY <1>2, <1>4, <1>5 DEF Inserting, Deleting, Updating
<1>10. c => Covers(L, p, f)
    BY <1>3, Idle DEF Layout, Covers
<1> QED
    BY <1>2, <1>6, <1>7, <1>8, <1>9, <1>10 DEF Layout, p

LEMMA LayoutBeginUpdate ==
    ASSUME NEW L, NEW f, NEW h, NEW s, NEW c, Layout(L, NoOp, f, h, s, c),
           NEW w \in Workers, NEW v \in Values, NEW id \in Ids,
           id \in 1 .. Len(f), f[id].page[2] = 1, Len(f) + Pages[v] - Len(L[id]) <= MaxBlocks
    PROVE  Layout(L, Started("update", "page", w, id, v, id), f, h, s, c)
<1> DEFINE p == Started("update", "page", w, id, v, id)
<1>1. Len(f) \in Nat /\ Pages[v] \in Nat \ {0} /\ id \in 0 .. MaxBlocks
    BY Idle, PageFacts, JournalAssumption DEF Ids
<1>2. /\ OpTypes(p) /\ p.kind = "update" /\ p.at = "page" /\ p.worker = w /\ p.id = id
      /\ p.val = v /\ p.page = 1 /\ p.tail = 0 /\ p.block = id /\ p.next = 0
    BY <1>1, StartedFacts DEF Stages
<1> HIDE DEF p
<1>3. ~InTransit(p) /\ ~Freeing(p) /\ ~DeletesFirst(p)
    BY <1>2 DEF InTransit, Freeing, DeletesFirst
<1>4. Len(L[id]) > 0 /\ L[id][1] = id /\ id \in Slots /\ Len(L[id]) \in Nat
    BY <1>1, Idle, SlotFacts DEF Layout, Heads, FirstPages
<1>6. Ends(L, p, f)
    BY <1>1, <1>2, <1>3, Idle DEF Ends, EndLink
<1>7. FirstPages(L, p, f) /\ Contents(L, p, f, s)
    BY <1>2, <1>3, Idle DEF Layout, FirstPages, Contents
<1>8. Transit(L, p, f, h) /\ Rest(L, p)
    BY <1>2, <1>3, Idle DEF Layout, Transit, Rest
<1>9. Inserting(L, p, f, s) /\ Deleting(L, p)
    BY <1>2 DEF Inserting, Deleting
<1>10. Updating(L, p, f)
    BY <1>1, <1>2, <1>3, <1>4 DEF Updating, Written
<1>11. c => Covers(L, p, f)
    BY <1>3, Idle DEF Layout, Covers
<1> QED
    BY <1>2, <1>6, <1>7, <1>8, <1>9, <1>10, <1>11 DEF Layout, p

LEMMA LayoutLog ==
    ASSUME NEW L, NEW o, NEW f, NEW h, NEW s, NEW c, Layout(L, o, f, h, s, c),
           o.kind = "insert", o.at = "log"
    PROVE  Layout(L, [o EXCEPT !.at = "fill"], f, h, s, c)
<1> DEFINE p == [o EXCEPT !.at = "fill"]
<1>1. /\ OpTypes(p) /\ p.at = "fill" /\ p.kind = o.kind /\ p.id = o.id /\ p.val = o.val
      /\ p.page = o.page /\ p.tail = o.tail /\ p.block = o.block /\ p.next = o.next
    BY DEF Layout, OpTypes, Operation, Stages, NoOp
<1> HIDE DEF p
<1>2. /\ InTransit(o) /\ InTransit(p) /\ ~Freeing(o) /\ ~Freeing(p)
      /\ ~DeletesFirst(o) /\ ~DeletesFirst(p) /\ EndLink(p, f) = EndLink(o, f)
    BY <1>1 DEF InTransit, Freeing, DeletesFirst, EndLink
<1>3. Ends(L, p, f) /\ FirstPages(L, p, f) /\ Contents(L, p, f, s)
    BY <1>1, <1>2 DEF Layout, Ends, FirstPages, Contents
<1>4. Transit(L, p, f, h) /\ Rest(L, p)
    BY <1>1, <1>2 DEF Layout, Transit, Rest
<1>5. Inserting(L, p, f, s) /\ Deleting(L, p) /\ Updating(L, p, f)
    BY <1>1 DEF Layout, Inserting, Deleting, Updating
<1>6. c => Covers(L, p, f)
    BY <1>1, <1>2 DEF Layout, Covers
<1> QED
    BY <1>1, <1>3, <1>4, <1>5, <1>6 DEF Layout, p

LEMMA LayoutNextPage ==
    ASSUME NEW L, NEW o, NEW f, NEW h, NEW s, NEW c, Layout(L, o, f, h, s, c),
           o.kind = "update", o.at = "linked", o.page < Pages[o.val], o.next # 0
    PROVE  Layout(L, [o EXCEPT !.at = "page", !.page = @ + 1, !.block = o.next], f, h, s, c)
<1> DEFINE p == [o EXCEPT !.at = "page", !.page = @ + 1, !.block = o.next]
<1>1. /\ OpTypes(p) /\ p.at = "page" /\ p.kind = o.kind /\ p.id = o.id /\ p.val = o.val
      /\ p.page = o.page + 1 /\ p.tail = o.tail /\ p.block = o.next /\ p.next = o.next
  <2>1. o \in Operation /\ o.page + 1 \in Nat /\ "page" \in Stages
    BY DEF Layout, OpTypes, Operation, Stages
  <2>2. p \in Operation
    BY <2>1 DEF Operation
  <2> QED
    BY <2>1, <2>2 DEF Layout, OpTypes, Operation
<1> HIDE DEF p
<1>2. /\ ~InTransit(o) /\ ~InTransit(p) /\ ~Freeing(o) /\ ~Freeing(p)
      /\ ~DeletesFirst(o) /\ ~DeletesFirst(p)
    BY <1>1 DEF InTransit, Freeing, DeletesFirst
<1>3. /\ Updating(L, o, f) /\ o.page \in Nat /\ Pages[o.val] \in Nat /\ o.id \in Slots
      /\ Len(f) \in Nat /\ Len(L[o.id]) \in Nat
      /\ \A i \in 1 .. Len(L[o.id]) : L[o.id][i] \in 1 .. Len(f)
    BY OpFacts, FileFacts, LenProperties, ElementOfSeq DEF Layout, Typed
<1>4. Len(L[o.id]) > o.page /\ o.next = L[o.id][o.page + 1]
    BY <1>3 DEF Updating
<1>5. o.next \in 1 .. Len(f) /\ EndLink(p, f) = 0 /\ EndLink(o, f) = 0
    BY <1>1, <1>3, <1>4 DEF EndLink
<1>6. Ends(L, p, f) /\ FirstPages(L, p, f) /\ Contents(L, p, f, s)
    BY <1>1, <1>2, <1>5 DEF Layout, Ends, FirstPages, Contents
<1>7. Transit(L, p, f, h) /\ Rest(L, p)
    BY <1>1, <1>2 DEF Layout, Transit, Rest
<1>8. Inserting(L, p, f, s) /\ Deleting(L, p)
    BY <1>1 DEF Inserting, Deleting
<1>9. Updating(L, p, f)
  <2>1. /\ o.page \in 1 .. Pages[o.val] /\ Len(L[o.id]) > 0 /\ f[o.id].page[2] = 1
        /\ Len(f) + Pages[o.val] - Len(L[o.id]) <= MaxBlocks
        /\ Written(L[o.id], f, o.val, o.page)
    BY <1>2, <1>3 DEF Updating
  <2>2. p.page - 1 = o.page /\ p.page \in 1 .. Pages[o.val] /\ Len(L[o.id]) >= p.page
    <3>1. p.page = o.page + 1 /\ o.page \in Nat /\ o.page <= Pages[o.val] /\ Len(L[o.id]) > o.page
      BY <1>1, <1>3, <1>4, <2>1
    <3>2. Pages[o.val] \in Nat /\ o.page # Pages[o.val] /\ Len(L[o.id]) \in Nat
      BY <1>3
    <3> QED
      BY <3>1, <3>2
  <2>3. p.block # Len(f) + 1
    BY <1>1, <1>3, <1>5
  <2> QED
    BY <1>1, <1>2, <1>4, <2>1, <2>2, <2>3 DEF Updating
<1>10. c => Covers(L, p, f)
    BY <1>1, <1>2 DEF Layout, Covers
<1> QED
    BY <1>1, <1>6, <1>7, <1>8, <1>9, <1>10 DEF Layout, p

-----------------------------------------------------------------------------
(* Steps that write to the file and move no block. *)

LEMMA ListFacts ==
    ASSUME NEW L, NEW o, NEW f, NEW h, NEW s, NEW c, Layout(L, o, f, h, s, c)
    PROVE  /\ Len(f) \in Nat /\ Len(f) <= MaxBlocks /\ FileTypes(f) /\ OpTypes(o)
           /\ \A k \in Slots : /\ L[k] \in Seq(1 .. Len(f)) /\ Len(L[k]) \in Nat
                               /\ \A i \in 1 .. Len(L[k]) : L[k][i] \in 1 .. Len(f)
           /\ h \in 0 .. Len(f)
<1>1. Len(f) \in Nat /\ Len(f) <= MaxBlocks /\ FileTypes(f) /\ OpTypes(o)
    BY FileFacts DEF Layout
<1>2. \A k \in Slots : /\ L[k] \in Seq(1 .. Len(f)) /\ Len(L[k]) \in Nat
                       /\ \A i \in 1 .. Len(L[k]) : L[k][i] \in 1 .. Len(f)
    BY LenProperties, ElementOfSeq DEF Layout, Typed
<1>3. h \in 0 .. Len(f)
  <2>1. Len(L[FREE]) = 0 => h = 0
    BY DEF Layout, Heads
  <2>2. Len(L[FREE]) # 0 => h = L[FREE][1] /\ 1 \in 1 .. Len(L[FREE])
    BY <1>2, SlotFacts DEF Layout, Heads
  <2> QED
    BY <1>1, <1>2, <2>1, <2>2, SlotFacts
<1> QED
    BY <1>1, <1>2, <1>3

(* The object an update writes to. *)
Updates(L, o, f) ==
    /\ o.id \in Ids /\ o.id \in Slots /\ o.id # FREE /\ o.id # REST
    /\ o.val \in Values /\ Pages[o.val] \in Nat \ {0}
    /\ o.page \in Nat \ {0} /\ o.page <= Pages[o.val]
    /\ Len(L[o.id]) \in Nat \ {0} /\ L[o.id][1] = o.id /\ f[o.id].page[2] = 1
    /\ \A i \in 1 .. Len(L[o.id]) : L[o.id][i] \in 1 .. Len(f)
    /\ Len(f) \in Nat /\ FileTypes(f) /\ o.id \in 1 .. Len(f)

LEMMA UpdateFacts ==
    ASSUME NEW L, NEW o, NEW f, NEW h, NEW s, NEW c, Layout(L, o, f, h, s, c), o.kind = "update"
    PROVE  /\ o.id \in Ids /\ o.id \in Slots /\ o.id # FREE /\ o.id # REST
           /\ o.val \in Values /\ Pages[o.val] \in Nat \ {0}
           /\ o.page \in Nat \ {0} /\ o.page <= Pages[o.val]
           /\ Len(L[o.id]) \in Nat \ {0} /\ L[o.id][1] = o.id /\ f[o.id].page[2] = 1
           /\ \A i \in 1 .. Len(L[o.id]) : L[o.id][i] \in 1 .. Len(f)
           /\ Updating(L, o, f) /\ Updates(L, o, f)
           /\ o.at # "page" => /\ o.page \in 1 .. Len(L[o.id]) /\ o.tail = L[o.id][o.page]
                               /\ o.tail \in 1 .. Len(f)
                               /\ Written(L[o.id], f, o.val, o.page)
<1>1. /\ o.id \in Ids /\ o.id \in Slots /\ o.id # FREE /\ o.id # REST
      /\ o.val \in Values /\ Pages[o.val] \in Nat \ {0} /\ o.page \in Nat
    BY OpFacts, ListFacts
<1>2. Updating(L, o, f) /\ Heads(L, h)
    BY DEF Layout
<1>3. /\ Len(L[o.id]) \in Nat /\ \A i \in 1 .. Len(L[o.id]) : L[o.id][i] \in 1 .. Len(f)
    BY <1>1, ListFacts
<1>4. o.page \in 1 .. Pages[o.val] /\ Len(L[o.id]) > 0 /\ f[o.id].page[2] = 1
    BY <1>2 DEF Updating
<1>5. L[o.id][1] = o.id
    BY <1>1, <1>2, <1>4 DEF Heads
<1>7. Len(f) \in Nat /\ FileTypes(f) /\ 1 \in 1 .. Len(L[o.id])
    BY <1>3, <1>4, ListFacts
<1>8. o.id \in 1 .. Len(f)
    BY <1>3, <1>5, <1>7
<1>6. o.at # "page" => /\ Len(L[o.id]) >= o.page /\ o.tail = L[o.id][o.page]
                       /\ Written(L[o.id], f, o.val, o.page)
    BY <1>2 DEF Updating
<1> QED
    BY <1>1, <1>2, <1>3, <1>4, <1>5, <1>6, <1>7, <1>8 DEF Updates

(* What the other objects hold stays when none of their blocks is written. *)
LEMMA ContentsKept ==
    ASSUME NEW L, NEW M, NEW o, NEW p, NEW f, NEW g, NEW s, Contents(L, o, f, s), p.id = o.id,
           \A b \in Ids \ {o.id} : /\ M[b] = L[b]
                                   /\ \A i \in 1 .. Len(L[b]) : g[L[b][i]].page = f[L[b][i]].page
    PROVE  Contents(M, p, g, s)
<1>1. ASSUME NEW b \in Ids \ {o.id}, NEW v, Holds(L, f, b, v)
      PROVE  Holds(M, g, b, v)
    BY <1>1 DEF Holds
<1> QED
    BY <1>1 DEF Contents

LEMMA WrittenKept ==
    ASSUME NEW c, NEW f, NEW g, NEW v, NEW n \in Nat, Written(c, f, v, n), Len(c) \in Nat, n <= Len(c),
           \A i \in 1 .. Len(c) : g[c[i]].page = f[c[i]].page
    PROVE  Written(c, g, v, n)
<1>1. \A i \in 1 .. n : i \in 1 .. Len(c)
    OBVIOUS
<1> QED
    BY <1>1 DEF Written

LEMMA LayoutEndBlock ==
    ASSUME NEW L, NEW o, NEW f, NEW h, NEW s, NEW c, Layout(L, o, f, h, s, c),
           o.kind = "update", o.at = "end_block"
    PROVE  Layout(L, [o EXCEPT !.at = "linked", !.next = 0], [f EXCEPT ![o.tail].link = 0], h, s, c)
<1> DEFINE p == [o EXCEPT !.at = "linked", !.next = 0]
           g == [f EXCEPT ![o.tail].link = 0]
<1>1. /\ OpTypes(p) /\ p.at = "linked" /\ p.kind = o.kind /\ p.id = o.id /\ p.val = o.val
      /\ p.page = o.page /\ p.tail = o.tail /\ p.block = o.block /\ p.next = 0
  <2>1. o \in Operation /\ 0 \in 0 .. MaxBlocks /\ "linked" \in Stages
    BY JournalAssumption DEF Layout, OpTypes, Stages
  <2>2. p \in Operation
    BY <2>1 DEF Operation
  <2> QED
    BY <2>1, <2>2 DEF Layout, OpTypes, Operation
<1>2. Len(L[o.id]) = o.page /\ o.tail = L[o.id][Len(L[o.id])]
    BY UpdateFacts DEF Updating
<1>3. /\ FileTypes(g) /\ Len(g) = Len(f)
      /\ \A b \in 1 .. Len(f) : /\ g[b].page = f[b].page
                                /\ g[b].link = IF b = o.tail THEN 0 ELSE f[b].link
  <2>1. FileTypes(f) /\ o.tail \in 1 .. Len(f) /\ 0 \in Missing .. MaxBlocks
    BY UpdateFacts, ListFacts, JournalAssumption DEF Missing
  <2> QED
    BY <2>1, WriteLink
<1> HIDE DEF p, g
<1>4. /\ ~InTransit(o) /\ ~InTransit(p) /\ ~Freeing(o) /\ ~Freeing(p)
      /\ ~DeletesFirst(o) /\ ~DeletesFirst(p) /\ EndLink(p, g) = 0
    BY <1>1 DEF InTransit, Freeing, DeletesFirst, EndLink
<1>5. \A l \in Slots : \A i \in 1 .. Len(L[l]) : L[l][i] = o.tail => l = o.id /\ i = Len(L[o.id])
    BY <1>2, UpdateFacts DEF Layout, Apart
<1>6. Linked(L, g)
  <2>1. \A k \in Slots : \A i \in 1 .. Len(L[k]) : i < Len(L[k]) => L[k][i] # o.tail
    BY <1>5, UpdateFacts
  <2> QED
    BY <1>3, <2>1, ListFacts DEF Layout, Linked, Follows
<1>7. Ends(L, p, g)
  <2>1. ASSUME NEW k \in Slots, Len(L[k]) > 0
        PROVE  g[L[k][Len(L[k])]].link = 0
    <3>1. Len(L[k]) \in 1 .. Len(L[k]) /\ L[k][Len(L[k])] \in 1 .. Len(f)
      BY <2>1, ListFacts
    <3>2. CASE k = o.id
      BY <1>2, <1>3, <3>1, <3>2
    <3>3. CASE k # o.id
      BY <1>3, <1>4, <1>5, <2>1, <3>1, <3>3 DEF Layout, Ends
    <3> QED
      BY <3>2, <3>3
  <2> QED
    BY <1>4, <2>1 DEF Ends
<1>8. FirstPages(L, p, g) /\ Contents(L, p, g, s)
  <2>1. FirstPages(L, p, g)
    BY <1>1, <1>3, <1>4 DEF Layout, FirstPages
  <2>2. \A b \in Ids \ {o.id} : \A i \in 1 .. Len(L[b]) : g[L[b][i]].page = f[L[b][i]].page
    BY <1>3, ListFacts, SlotFacts
  <2> QED
    BY <1>1, <2>1, <2>2, ContentsKept DEF Layout
<1>9. Transit(L, p, g, h) /\ Rest(L, p)
    BY <1>1, <1>4 DEF Layout, Transit, Rest
<1>10. Inserting(L, p, g, s) /\ Deleting(L, p)
    BY <1>1 DEF Inserting, Deleting
<1>11. Updating(L, p, g)
  <2>1. Written(L[o.id], g, o.val, o.page)
    <3>1. \A i \in 1 .. Len(L[o.id]) : g[L[o.id][i]].page = f[L[o.id][i]].page
      BY <1>3, UpdateFacts
    <3>2. /\ o.page \in Nat /\ Len(L[o.id]) \in Nat /\ o.page <= Len(L[o.id])
          /\ Written(L[o.id], f, o.val, o.page)
      BY UpdateFacts
    <3> QED
      BY <3>1, <3>2, WrittenKept
  <2>2. g[o.id].page[2] = 1
    BY <1>3, UpdateFacts
  <2> QED
    BY <1>1, <1>2, <1>3, <1>4, <2>1, <2>2, UpdateFacts DEF Updating
<1>12. c => Covers(L, p, g)
    BY <1>3, <1>4 DEF Layout, Covers
<1> QED
    BY <1>1, <1>3, <1>6, <1>7, <1>8, <1>9, <1>10, <1>11, <1>12 DEF Layout, p, g

LEMMA LayoutExtendAtEnd ==
    ASSUME NEW L, NEW o, NEW f, NEW h, NEW s, NEW c, Layout(L, o, f, h, s, c),
           o.kind = "update", o.at = "linked", o.page < Pages[o.val], o.next = 0
    PROVE  Layout(L, [o EXCEPT !.at = "page", !.page = @ + 1, !.block = Len(f) + 1],
                  [f EXCEPT ![o.tail].link = Len(f) + 1], h, s, c)
<1> DEFINE e == Len(f) + 1
           p == [o EXCEPT !.at = "page", !.page = @ + 1, !.block = e]
           g == [f EXCEPT ![o.tail].link = e]
<1>u. Updates(L, o, f)
    BY UpdateFacts
<1>1. /\ Len(L[o.id]) = o.page /\ o.tail = L[o.id][Len(L[o.id])]
      /\ Len(f) + Pages[o.val] - o.page <= MaxBlocks
  <2>1. o.next = IF Len(L[o.id]) > o.page THEN L[o.id][o.page + 1] ELSE 0
    BY UpdateFacts DEF Updating
  <2>2. Len(L[o.id]) > o.page => o.page + 1 \in 1 .. Len(L[o.id])
    BY <1>u DEF Updates
  <2>3. ~(Len(L[o.id]) > o.page)
    BY <1>u, <2>1, <2>2 DEF Updates
  <2>4. Len(L[o.id]) = o.page
    BY <2>3, UpdateFacts
  <2> QED
    BY <2>4, UpdateFacts DEF Updating, Freeing
<1>2. Len(f) \in Nat /\ e \in 0 .. MaxBlocks /\ e \in Missing .. MaxBlocks
  <2>2. Len(f) + 1 <= MaxBlocks
    BY <1>u, <1>1, JournalAssumption DEF Updates
  <2> QED
    BY <1>u, <2>2, JournalAssumption DEF Updates, Missing
<1>3. /\ OpTypes(p) /\ p.at = "page" /\ p.kind = o.kind /\ p.id = o.id /\ p.val = o.val
      /\ p.page = o.page + 1 /\ p.tail = o.tail /\ p.block = e /\ p.next = o.next
  <2>1. o \in Operation /\ o.page + 1 \in Nat /\ "page" \in Stages
    BY DEF Layout, OpTypes, Operation, Stages
  <2>2. p \in Operation
    BY <1>2, <2>1 DEF Operation
  <2> QED
    BY <2>1, <2>2 DEF Layout, OpTypes, Operation
<1>4. /\ FileTypes(g) /\ Len(g) = Len(f)
      /\ \A b \in 1 .. Len(f) : /\ g[b].page = f[b].page
                                /\ g[b].link = IF b = o.tail THEN e ELSE f[b].link
  <2>1. FileTypes(f) /\ o.tail \in 1 .. Len(f)
    BY UpdateFacts, ListFacts
  <2> QED
    BY <1>2, <2>1, WriteLink
<1> HIDE DEF p, g
<1>5. /\ ~InTransit(o) /\ ~InTransit(p) /\ ~Freeing(o) /\ ~Freeing(p)
      /\ ~DeletesFirst(o) /\ ~DeletesFirst(p) /\ EndLink(p, g) = e
    BY <1>3, <1>4 DEF InTransit, Freeing, DeletesFirst, EndLink
<1>6. \A l \in Slots : \A i \in 1 .. Len(L[l]) : L[l][i] = o.tail => l = o.id /\ i = Len(L[o.id])
  <2>1. o.id \in Slots /\ Len(L[o.id]) \in 1 .. Len(L[o.id])
    BY <1>u DEF Updates
  <2> QED
    BY <1>1, <2>1 DEF Layout, Apart
<1>7. Linked(L, g)
  <2>1. \A k \in Slots : \A i \in 1 .. Len(L[k]) : i < Len(L[k]) => L[k][i] # o.tail
    BY <1>u, <1>6 DEF Updates
  <2>2. \A k \in Slots : \A i \in 1 .. Len(L[k]) :
            i < Len(L[k]) => g[L[k][i]].link = f[L[k][i]].link
    BY <1>4, <2>1, ListFacts
  <2> QED
    BY <2>2 DEF Layout, Linked, Follows
<1>8. Ends(L, p, g)
  <2>1. ASSUME NEW k \in Slots, Len(L[k]) > 0
        PROVE  g[L[k][Len(L[k])]].link = IF k = o.id THEN e ELSE 0
    <3>1. Len(L[k]) \in 1 .. Len(L[k]) /\ L[k][Len(L[k])] \in 1 .. Len(f)
      BY <2>1, ListFacts
    <3>2. CASE k = o.id
      BY <1>1, <1>4, <3>1, <3>2
    <3>3. CASE k # o.id
      BY <1>4, <1>5, <1>6, <2>1, <3>1, <3>3 DEF Layout, Ends
    <3> QED
      BY <3>2, <3>3
  <2> QED
    BY <1>3, <1>5, <2>1 DEF Ends
<1>9. FirstPages(L, p, g) /\ Contents(L, p, g, s)
  <2>1. FirstPages(L, p, g)
    BY <1>3, <1>4, <1>5 DEF Layout, FirstPages
  <2>2. \A b \in Ids \ {o.id} : \A i \in 1 .. Len(L[b]) : g[L[b][i]].page = f[L[b][i]].page
    BY <1>4, ListFacts, SlotFacts
  <2> QED
    BY <1>3, <2>1, <2>2, ContentsKept DEF Layout
<1>10. Transit(L, p, g, h) /\ Rest(L, p)
    BY <1>3, <1>5 DEF Layout, Transit, Rest
<1>11. Inserting(L, p, g, s) /\ Deleting(L, p)
    BY <1>3 DEF Inserting, Deleting
<1>12. Updating(L, p, g)
  <2>1. Written(L[o.id], g, o.val, o.page)
    <3>1. \A i \in 1 .. Len(L[o.id]) : g[L[o.id][i]].page = f[L[o.id][i]].page
      BY <1>u, <1>4 DEF Updates
    <3>2. /\ o.page \in Nat /\ Len(L[o.id]) \in Nat /\ o.page <= Len(L[o.id])
          /\ Written(L[o.id], f, o.val, o.page)
      BY UpdateFacts
    <3> QED
      BY <3>1, <3>2, WrittenKept
  <2>2. g[o.id].page[2] = 1
    BY <1>u, <1>4 DEF Updates
  <2>3. p.page - 1 = o.page /\ p.page \in 1 .. Pages[o.val]
    BY <1>u, <1>3 DEF Updates
  <2>4. Len(L[o.id]) > 0 /\ p.block = Len(g) + 1 /\ Len(L[o.id]) = p.page - 1
    BY <1>u, <1>1, <1>3, <1>4, <2>3 DEF Updates
  <2>5. Len(g) + Pages[o.val] - Len(L[o.id]) <= MaxBlocks
    BY <1>1, <1>4
  <2> QED
    BY <1>3, <1>5, <2>1, <2>2, <2>3, <2>4, <2>5 DEF Updating
<1>13. c => Covers(L, p, g)
    BY <1>4, <1>5 DEF Layout, Covers
<1> QED
    BY <1>3, <1>4, <1>7, <1>8, <1>9, <1>10, <1>11, <1>12, <1>13 DEF Layout, p, g

LEMMA LayoutWritePage ==
    ASSUME NEW L, NEW o, NEW f, NEW h, NEW s, NEW c, Layout(L, o, f, h, s, c),
           o.kind = "update", o.at = "page", o.block # Len(f) + 1
    PROVE  Layout(L, [o EXCEPT !.at = "linked", !.tail = o.block, !.next = f[o.block].link],
                  [f EXCEPT ![o.block].page = <<o.val, o.page>>], h, s, c)
<1> DEFINE p == [o EXCEPT !.at = "linked", !.tail = o.block, !.next = f[o.block].link]
           e == <<o.val, o.page>>
           g == [f EXCEPT ![o.block].page = e]
<1>u. Updates(L, o, f)
    BY UpdateFacts
<1>1. /\ o.page \in 1 .. Len(L[o.id]) /\ o.block = L[o.id][o.page] /\ o.block \in 1 .. Len(f)
      /\ Written(L[o.id], f, o.val, o.page - 1)
      /\ Len(f) + Pages[o.val] - Len(L[o.id]) <= MaxBlocks
  <2>1. Len(L[o.id]) >= o.page /\ o.block = L[o.id][o.page]
    BY UpdateFacts DEF Updating
  <2>2. o.page \in 1 .. Len(L[o.id])
    BY <1>u, <2>1 DEF Updates
  <2>3. o.block \in 1 .. Len(f)
    BY <1>u, <2>1, <2>2 DEF Updates
  <2>4. /\ Written(L[o.id], f, o.val, o.page - 1)
        /\ Len(f) + Pages[o.val] - Len(L[o.id]) <= MaxBlocks
    BY UpdateFacts DEF Updating, Freeing
  <2> QED
    BY <2>1, <2>2, <2>3, <2>4
<1>2. /\ e \in Page \cup {Blank} /\ e[2] = o.page
    BY UpdateFacts, PageFacts
<1>3. /\ ~InTransit(o) /\ ~Freeing(o) /\ ~DeletesFirst(o) /\ EndLink(o, f) = 0
    BY DEF InTransit, Freeing, DeletesFirst, EndLink
<1>4. f[o.block].link = IF Len(L[o.id]) > o.page THEN L[o.id][o.page + 1] ELSE 0
  <2>1. CASE Len(L[o.id]) > o.page
    <3>1. Follows(L[o.id], f) /\ o.page < Len(L[o.id])
      BY <1>u, <1>1, <2>1 DEF Layout, Linked, Updates
    <3>2. f[L[o.id][o.page]].link = L[o.id][o.page + 1]
      BY <1>1, <3>1 DEF Follows
    <3> QED
      BY <1>1, <2>1, <3>2
  <2>2. CASE ~(Len(L[o.id]) > o.page)
    <3>1. Len(L[o.id]) = o.page
      BY <1>u, <1>1, <2>2 DEF Updates
    <3>2. f[L[o.id][Len(L[o.id])]].link = 0
      BY <1>u, <1>3 DEF Layout, Ends, Updates
    <3> QED
      BY <1>1, <2>2, <3>1, <3>2
  <2> QED
    BY <2>1, <2>2
<1>5. f[o.block].link \in 0 .. MaxBlocks
  <2>1. Len(L[o.id]) > o.page => o.page + 1 \in 1 .. Len(L[o.id])
    BY <1>u DEF Updates
  <2>2. Len(L[o.id]) > o.page => L[o.id][o.page + 1] \in 1 .. Len(f)
    BY <1>u, <2>1 DEF Updates
  <2>3. Len(f) \in Nat /\ Len(f) <= MaxBlocks /\ MaxBlocks \in Nat
    BY ListFacts, JournalAssumption
  <2>4. f[o.block].link \in 1 .. Len(f) \/ f[o.block].link = 0
    BY <1>4, <2>2
  <2> QED
    BY <2>3, <2>4
<1>6. /\ OpTypes(p) /\ p.at = "linked" /\ p.kind = o.kind /\ p.id = o.id /\ p.val = o.val
      /\ p.page = o.page /\ p.tail = o.block /\ p.block = o.block /\ p.next = f[o.block].link
  <2>1. o \in Operation /\ o.block \in 0 .. MaxBlocks /\ "linked" \in Stages
    BY DEF Layout, OpTypes, Operation, Stages
  <2>2. p \in Operation
    BY <1>5, <2>1 DEF Operation
  <2> QED
    BY <2>1, <2>2 DEF Layout, OpTypes, Operation
<1>7. /\ FileTypes(g) /\ Len(g) = Len(f)
      /\ \A b \in 1 .. Len(f) : /\ g[b].link = f[b].link
                                /\ g[b].page = IF b = o.block THEN e ELSE f[b].page
  <2>1. FileTypes(f) /\ o.block \in 1 .. Len(f) /\ e \in Page \cup {Blank}
    BY <1>1, <1>2, ListFacts
  <2>2. g = SetPage(f, o.block, e)
    BY DEF SetPage
  <2> HIDE DEF e, g
  <2> QED
    BY <2>1, <2>2, WritePageOnly
<1> HIDE DEF p, g, e
<1>8. ~InTransit(p) /\ ~Freeing(p) /\ ~DeletesFirst(p) /\ EndLink(p, g) = 0
    BY <1>6 DEF InTransit, Freeing, DeletesFirst, EndLink
<1>9. \A l \in Slots : \A i \in 1 .. Len(L[l]) : L[l][i] = o.block => l = o.id /\ i = o.page
  <2>1. Apart(L) /\ o.id \in Slots /\ o.block = L[o.id][o.page] /\ o.page \in 1 .. Len(L[o.id])
    BY <1>u, <1>1 DEF Layout, Updates
  <2> QED
    BY <2>1 DEF Apart
<1>10. Linked(L, g)
    BY <1>7, ListFacts DEF Layout, Linked, Follows
<1>11. Ends(L, p, g)
  <2>1. \A k \in Slots : Len(L[k]) > 0 => L[k][Len(L[k])] \in 1 .. Len(f)
    BY ListFacts
  <2> QED
    BY <1>3, <1>6, <1>7, <1>8, <2>1 DEF Layout, Ends
<1>12. FirstPages(L, p, g) /\ Contents(L, p, g, s)
  <2>1. FirstPages(L, p, g)
    <3>1. ASSUME NEW b \in 1 .. Len(f), g[b].page[2] = 1
          PROVE  Len(L[b]) > 0
      <4>1. CASE b = o.block
        <5>1. o.page = 1
          BY <1>2, <1>7, <3>1, <4>1
        <5> QED
          BY <1>1, <4>1, <5>1, UpdateFacts
      <4>2. CASE b # o.block
        BY <1>3, <1>7, <3>1, <4>2 DEF Layout, FirstPages
      <4> QED
        BY <4>1, <4>2
    <3> QED
      BY <1>7, <3>1 DEF FirstPages
  <2>2. \A b \in Ids \ {o.id} : \A i \in 1 .. Len(L[b]) : g[L[b][i]].page = f[L[b][i]].page
    BY <1>7, <1>9, ListFacts, SlotFacts
  <2> QED
    BY <1>6, <2>1, <2>2, ContentsKept DEF Layout
<1>13. Transit(L, p, g, h) /\ Rest(L, p)
    BY <1>6, <1>8 DEF Layout, Transit, Rest
<1>14. Inserting(L, p, g, s) /\ Deleting(L, p)
    BY <1>6 DEF Inserting, Deleting
<1>15. Updating(L, p, g)
  <2>1. Written(L[o.id], g, o.val, o.page)
    <3>1. ASSUME NEW i \in 1 .. o.page
          PROVE  g[L[o.id][i]].page = <<o.val, i>>
      <4>1. i \in 1 .. Len(L[o.id]) /\ L[o.id][i] \in 1 .. Len(f)
        BY <1>1, UpdateFacts
      <4>2. CASE i = o.page
        BY <1>1, <1>7, <4>1, <4>2 DEF e
      <4>3. CASE i # o.page
        <5>1. i \in 1 .. (o.page - 1) /\ L[o.id][i] # o.block
          BY <1>9, <4>1, <4>3, UpdateFacts
        <5> QED
          BY <1>1, <1>7, <4>1, <5>1 DEF Written
      <4> QED
        BY <4>2, <4>3
    <3> QED
      BY <3>1 DEF Written
  <2>2. g[o.id].page[2] = 1
    <3>1. o.id \in 1 .. Len(f) /\ 1 \in 1 .. Len(L[o.id])
      BY <1>u DEF Updates
    <3>2. CASE o.id = o.block
      <4>1. o.page = 1
        BY <1>9, <3>1, <3>2, UpdateFacts
      <4> QED
        BY <1>2, <1>7, <3>1, <3>2, <4>1
    <3>3. CASE o.id # o.block
      BY <1>7, <3>1, <3>3, UpdateFacts
    <3> QED
      BY <3>2, <3>3
  <2> QED
    BY <1>u, <1>1, <1>4, <1>6, <1>7, <1>8, <2>1, <2>2 DEF Updating, Updates
<1>16. c => Covers(L, p, g)
    BY <1>3, <1>7, <1>8 DEF Layout, Covers
<1> QED
    BY <1>6, <1>7, <1>10, <1>11, <1>12, <1>13, <1>14, <1>15, <1>16 DEF Layout, p, g, e

-----------------------------------------------------------------------------
(* Changes of one list. *)

Put(L, k, c) == [L EXCEPT ![k] = c]

LEMMA Positions ==
    \A n \in Nat : \A i \in 1 .. n : i # n => i + 1 \in 1 .. n /\ i < n
    OBVIOUS

LEMMA PutFacts ==
    ASSUME NEW L, NEW n, Typed(L, n), NEW k \in Slots, NEW c \in Seq(1 .. n)
    PROVE  /\ Typed(Put(L, k, c), n) /\ Put(L, k, c)[k] = c
           /\ \A l \in Slots : l # k => Put(L, k, c)[l] = L[l]
    BY DEF Typed, Put

LEMMA PutApart ==
    ASSUME NEW L, NEW n, Typed(L, n), Apart(L), NEW k \in Slots, NEW c \in Seq(1 .. n),
           \A i, j \in 1 .. Len(c) : c[i] = c[j] => i = j,
           \A i \in 1 .. Len(c) : \A l \in Slots : l # k =>
               \A j \in 1 .. Len(L[l]) : L[l][j] # c[i]
    PROVE  Apart(Put(L, k, c))
<1> DEFINE M == Put(L, k, c)
<1>1. M[k] = c /\ \A l \in Slots : l # k => M[l] = L[l]
    BY PutFacts
<1> HIDE DEF M
<1>2. ASSUME NEW a \in Slots, NEW b \in Slots, NEW i \in 1 .. Len(M[a]), NEW j \in 1 .. Len(M[b]),
             M[a][i] = M[b][j]
      PROVE  a = b /\ i = j
  <2>1. CASE a = k /\ b = k
    BY <1>1, <1>2, <2>1
  <2>2. CASE a = k /\ b # k
    BY <1>1, <1>2, <2>2
  <2>3. CASE a # k /\ b = k
    BY <1>1, <1>2, <2>3
  <2>4. CASE a # k /\ b # k
    BY <1>1, <1>2, <2>4 DEF Apart
  <2> QED
    BY <2>1, <2>2, <2>3, <2>4
<1> QED
    BY <1>2 DEF Apart, M

LEMMA Widen ==
    ASSUME NEW L, NEW n \in Nat, NEW m \in Nat, n <= m, Typed(L, n)
    PROVE  Typed(L, m)
<1>1. \A k \in Slots : L[k] \in Seq(1 .. m)
  <2>1. 1 .. n \subseteq 1 .. m
    OBVIOUS
  <2> QED
    BY <2>1, SeqMonotonic DEF Typed
<1> QED
    BY <1>1 DEF Typed

(* M is L with block b at the end of list k. *)
IsAppended(M, L, k, b, n) ==
    /\ Typed(M, n) /\ Apart(M) /\ Len(L[k]) \in Nat /\ Len(M[k]) = Len(L[k]) + 1
    /\ M[k][Len(L[k]) + 1] = b /\ \A i \in 1 .. Len(L[k]) : M[k][i] = L[k][i]
    /\ \A l \in Slots : l # k => M[l] = L[l]

(* A loose block goes to the end of a list. *)
LEMMA AppendedList ==
    ASSUME NEW L, NEW n \in Nat, Typed(L, n), Apart(L), NEW k \in Slots,
           NEW b \in 1 .. n, Loose(L, b)
    PROVE  IsAppended(Put(L, k, Append(L[k], b)), L, k, b, n)
<1> DEFINE c == Append(L[k], b)
<1>1. L[k] \in Seq(1 .. n) /\ Len(L[k]) \in Nat
    BY LenProperties DEF Typed
<1>2. /\ c \in Seq(1 .. n) /\ Len(c) = Len(L[k]) + 1
      /\ c[Len(L[k]) + 1] = b /\ \A i \in 1 .. Len(L[k]) : c[i] = L[k][i]
    BY <1>1, AppendProperties
<1> HIDE DEF c
<1>3. \A i \in 1 .. Len(c) : (i \in 1 .. Len(L[k]) /\ c[i] = L[k][i]) \/ (i = Len(L[k]) + 1 /\ c[i] = b)
  <2>1. \A i \in 1 .. Len(c) : i \in 1 .. Len(L[k]) \/ i = Len(L[k]) + 1
    BY <1>1, <1>2
  <2> QED
    BY <1>2, <2>1
<1>4. \A i, j \in 1 .. Len(c) : c[i] = c[j] => i = j
  <2> SUFFICES ASSUME NEW i \in 1 .. Len(c), NEW j \in 1 .. Len(c), c[i] = c[j]
               PROVE  i = j
    OBVIOUS
  <2>1. CASE i \in 1 .. Len(L[k]) /\ c[i] = L[k][i] /\ j \in 1 .. Len(L[k]) /\ c[j] = L[k][j]
    <3>1. i \in 1 .. Len(L[k]) /\ j \in 1 .. Len(L[k]) /\ L[k][i] = L[k][j]
      BY <2>1, Zenon
    <3>2. \A x, y \in 1 .. Len(L[k]) : L[k][x] = L[k][y] => x = y
      BY DEF Apart
    <3> QED
      BY <3>1, <3>2, Zenon
  <2>2. CASE i \in 1 .. Len(L[k]) /\ c[i] = L[k][i] /\ c[j] = b
    BY <2>2 DEF Loose
  <2>3. CASE j \in 1 .. Len(L[k]) /\ c[j] = L[k][j] /\ c[i] = b
    BY <2>3 DEF Loose
  <2> QED
    BY <1>3, <2>1, <2>2, <2>3
<1>5. \A i \in 1 .. Len(c) : \A l \in Slots : l # k => \A j \in 1 .. Len(L[l]) : L[l][j] # c[i]
  <2> SUFFICES ASSUME NEW i \in 1 .. Len(c), NEW l \in Slots, l # k, NEW j \in 1 .. Len(L[l])
               PROVE  L[l][j] # c[i]
    OBVIOUS
  <2>1. CASE i \in 1 .. Len(L[k]) /\ c[i] = L[k][i]
    BY <2>1 DEF Apart
  <2>2. CASE c[i] = b
    BY <2>2 DEF Loose
  <2> QED
    BY <1>3, <2>1, <2>2
<1> DEFINE M == Put(L, k, c)
<1>6. Apart(M)
    BY <1>2, <1>4, <1>5, PutApart
<1>7. Typed(M, n) /\ M[k] = c /\ \A l \in Slots : l # k => M[l] = L[l]
    BY <1>2, PutFacts
<1> HIDE DEF M
<1>8. IsAppended(M, L, k, b, n)
    BY <1>1, <1>2, <1>6, <1>7 DEF IsAppended
<1> QED
    BY <1>8 DEF M, c

LEMMA LayoutWriteAtEnd ==
    ASSUME NEW L, NEW o, NEW f, NEW h, NEW s, NEW c, Layout(L, o, f, h, s, c),
           o.kind = "update", o.at = "page", o.block = Len(f) + 1
    PROVE  Layout(Put(L, o.id, Append(L[o.id], o.block)),
                  [o EXCEPT !.at = "end_block", !.tail = o.block],
                  Append(f, Block(<<o.val, o.page>>, Missing)), h, s, c)
<1> DEFINE p == [o EXCEPT !.at = "end_block", !.tail = o.block]
           e == Block(<<o.val, o.page>>, Missing)
           g == Append(f, e)
           n == Len(f) + 1
           M == Put(L, o.id, Append(L[o.id], o.block))
<1>u. Updates(L, o, f)
    BY UpdateFacts
<1>1. /\ Len(L[o.id]) = o.page - 1 /\ Written(L[o.id], f, o.val, o.page - 1)
      /\ Len(f) + Pages[o.val] - Len(L[o.id]) <= MaxBlocks /\ o.page # 1
  <2>1. /\ Len(L[o.id]) = o.page - 1 /\ Written(L[o.id], f, o.val, o.page - 1)
        /\ Len(f) + Pages[o.val] - Len(L[o.id]) <= MaxBlocks
    BY UpdateFacts DEF Updating, Freeing
  <2> QED
    BY <1>u, <2>1 DEF Updates
<1>2. n <= MaxBlocks /\ n \in Nat
    BY <1>u, <1>1, JournalAssumption DEF Updates
<1>3. /\ e \in Block_ /\ e.page = <<o.val, o.page>> /\ e.page[2] = o.page /\ e.link = Missing
  <2>1. <<o.val, o.page>> \in Page
    BY <1>u, PageFacts DEF Updates
  <2>2. Missing \in Missing .. MaxBlocks
    BY JournalAssumption DEF Missing
  <2> QED
    BY <2>1, <2>2 DEF Block_, Block
<1>4. /\ OpTypes(p) /\ p.at = "end_block" /\ p.kind = o.kind /\ p.id = o.id /\ p.val = o.val
      /\ p.page = o.page /\ p.tail = o.block /\ p.block = o.block /\ p.next = o.next
  <2>1. o \in Operation /\ o.block \in 0 .. MaxBlocks /\ "end_block" \in Stages
    BY DEF Layout, OpTypes, Operation, Stages
  <2>2. p \in Operation
    BY <2>1 DEF Operation
  <2> QED
    BY <2>1, <2>2 DEF Layout, OpTypes, Operation
<1> HIDE DEF p, e
<1>5. /\ FileTypes(g) /\ Len(g) = n /\ g[n] = e
      /\ \A b \in 1 .. Len(f) : g[b] = f[b]
    BY <1>u, <1>2, <1>3, AppendProperties DEF Updates, FileTypes
<1>6. Typed(L, n) /\ Loose(L, n)
  <2>1. Loose(L, n)
    <3>1. n \notin 1 .. Len(f)
      BY <1>u DEF Updates
    <3> HIDE DEF n
    <3> QED
      BY <3>1, ListFacts DEF Loose
  <2> QED
    BY <1>u, <1>2, <2>1, Widen DEF Layout, Updates
<1>7. /\ Typed(M, n) /\ Apart(M) /\ Len(L[o.id]) \in Nat /\ Len(M[o.id]) = Len(L[o.id]) + 1
      /\ M[o.id][Len(L[o.id]) + 1] = n /\ \A i \in 1 .. Len(L[o.id]) : M[o.id][i] = L[o.id][i]
      /\ \A l \in Slots : l # o.id => M[l] = L[l]
  <2>1. Apart(L) /\ o.id \in Slots /\ n \in 1 .. n /\ n = o.block
    BY <1>u, <1>2 DEF Layout, Updates
  <2> HIDE DEF n
  <2>2. IsAppended(M, L, o.id, n, n)
    BY <1>2, <1>6, <2>1, AppendedList
  <2> HIDE DEF M
  <2> QED
    BY <2>2 DEF IsAppended
<1>v. /\ n = Len(f) + 1 /\ Len(f) \in Nat /\ o.page \in Nat /\ Len(L[o.id]) \in Nat \ {0}
      /\ Pages[o.val] \in Nat /\ Len(M[o.id]) = o.page /\ o.id \in Slots /\ o.id # FREE
      /\ L[o.id][1] = o.id /\ o.block = n
    BY <1>u, <1>1, <1>7 DEF Updates
<1> HIDE DEF g, M, n
<1>8. /\ ~InTransit(o) /\ ~InTransit(p) /\ ~Freeing(o) /\ ~Freeing(p) /\ ~DeletesFirst(o)
      /\ ~DeletesFirst(p) /\ EndLink(p, g) = Missing /\ EndLink(o, f) = n
    BY <1>4 DEF InTransit, Freeing, DeletesFirst, EndLink, n
<1>9. \A l \in Slots : \A i \in 1 .. Len(L[l]) : L[l][i] \in 1 .. Len(f) /\ g[L[l][i]] = f[L[l][i]]
    BY <1>5, ListFacts
<1>10. Heads(M, h)
  <2>1. M[FREE] = L[FREE] /\ Heads(L, h)
    BY <1>7, <1>v, SlotFacts DEF Layout
  <2>2. M[o.id][1] = o.id
    BY <1>7, <1>v
  <2>3. \A b \in Ids : b # o.id => M[b] = L[b]
    BY <1>7, SlotFacts
  <2> QED
    BY <2>1, <2>2, <2>3 DEF Heads
<1>11. Linked(M, g)
  <2>1. ASSUME NEW k \in Slots, k # o.id
        PROVE  Follows(M[k], g)
    <3>1. M[k] = L[k] /\ Follows(L[k], f)
      BY <1>7, <2>1 DEF Layout, Linked
    <3> QED
      BY <1>9, <3>1 DEF Follows
  <2>2. Follows(M[o.id], g)
    <3>1. f[L[o.id][Len(L[o.id])]].link = n
      <4>1. Ends(L, o, f) /\ o.id \in Slots /\ Len(L[o.id]) > 0
        BY <1>u DEF Layout, Updates
      <4> QED
        BY <1>8, <4>1 DEF Ends
    <3>2. ASSUME NEW i \in 1 .. Len(M[o.id]), i < Len(M[o.id])
          PROVE  g[M[o.id][i]].link = M[o.id][i + 1]
      <4>1. i \in 1 .. Len(L[o.id]) /\ M[o.id][i] = L[o.id][i] /\ g[M[o.id][i]] = f[L[o.id][i]]
        <5>1. i \in 1 .. Len(L[o.id])
          BY <1>1, <1>v, <3>2
        <5> QED
          BY <1>7, <1>9, <1>v, <5>1
      <4>2. CASE i = Len(L[o.id])
        BY <1>7, <3>1, <4>1, <4>2
      <4>3. CASE i # Len(L[o.id])
        <5>3. i + 1 \in 1 .. Len(L[o.id]) /\ i < Len(L[o.id])
          BY <1>v, <4>1, <4>3, Positions
        <5>1. i + 1 \in 1 .. Len(L[o.id]) /\ i < Len(L[o.id]) /\ M[o.id][i + 1] = L[o.id][i + 1]
          BY <1>7, <5>3
        <5>2. Follows(L[o.id], f)
          BY <1>v DEF Layout, Linked
        <5> QED
          BY <4>1, <5>1, <5>2 DEF Follows
      <4> QED
        BY <4>2, <4>3
    <3> QED
      BY <3>2 DEF Follows
  <2> QED
    BY <2>1, <2>2 DEF Linked
<1>12. Ends(M, p, g)
  <2>1. ASSUME NEW k \in Slots, Len(M[k]) > 0
        PROVE  g[M[k][Len(M[k])]].link = IF k = o.id THEN Missing ELSE 0
    <3>1. CASE k = o.id
      BY <1>3, <1>5, <1>7, <3>1
    <3>2. CASE k # o.id
      <4>1. Len(L[k]) \in 1 .. Len(L[k])
        BY <1>7, <2>1, <3>2, ListFacts
      <4> QED
        BY <1>7, <1>8, <1>9, <2>1, <3>2, <4>1 DEF Layout, Ends
    <3> QED
      BY <3>1, <3>2
  <2> QED
    BY <1>4, <1>8, <2>1 DEF Ends
<1>13. FirstPages(M, p, g) /\ Contents(M, p, g, s)
  <2>1. FirstPages(M, p, g)
    <3>1. ASSUME NEW b \in 1 .. n, g[b].page[2] = 1
          PROVE  Len(M[b]) > 0
      <4>1. b \in 1 .. Len(f) /\ f[b].page[2] = 1
        <5>1. b # n
          BY <1>1, <1>3, <1>5, <3>1
        <5>2. b \in 1 .. Len(f)
          BY <1>v, <5>1
        <5> QED
          BY <1>5, <3>1, <5>2
      <4>2. Len(L[b]) > 0 /\ b \in Slots
        BY <1>2, <1>8, <3>1, <4>1, JournalAssumption DEF Layout, FirstPages, Slots
      <4> QED
        BY <1>7, <4>2
    <3> QED
      BY <1>5, <3>1 DEF FirstPages
  <2>2. \A b \in Ids \ {o.id} : M[b] = L[b] /\ \A i \in 1 .. Len(L[b]) : g[L[b][i]].page = f[L[b][i]].page
    BY <1>7, <1>9, SlotFacts
  <2> QED
    BY <1>4, <2>1, <2>2, ContentsKept DEF Layout
<1>14. Transit(M, p, g, h) /\ Rest(M, p)
    BY <1>u, <1>4, <1>7, <1>8, SlotFacts DEF Layout, Transit, Rest, Updates
<1>15. Inserting(M, p, g, s) /\ Deleting(M, p)
    BY <1>4 DEF Inserting, Deleting
<1>16. Updating(M, p, g)
  <2>1. Written(M[o.id], g, o.val, o.page)
    <3>1. ASSUME NEW i \in 1 .. o.page
          PROVE  g[M[o.id][i]].page = <<o.val, i>>
      <4>1. CASE i = o.page
        <5>1. Len(L[o.id]) + 1 = o.page
          BY <1>1, <1>v
        <5> QED
          BY <1>3, <1>5, <1>7, <4>1, <5>1
      <4>2. CASE i # o.page
        <5>1. i \in 1 .. (o.page - 1) /\ i \in 1 .. Len(L[o.id])
          BY <1>1, <1>v, <4>2
        <5>2. f[L[o.id][i]].page = <<o.val, i>>
          BY <1>1, <5>1 DEF Written
        <5>3. M[o.id][i] = L[o.id][i] /\ g[L[o.id][i]] = f[L[o.id][i]]
          BY <1>7, <1>9, <1>v, <5>1
        <5> QED
          BY <5>2, <5>3
      <4> QED
        BY <4>1, <4>2
    <3> QED
      BY <3>1 DEF Written
  <2>2. g[o.id].page[2] = 1
    BY <1>u, <1>5 DEF Updates
  <2>3. Len(M[o.id]) = o.page /\ M[o.id][o.page] = n /\ o.block = n
    BY <1>u, <1>1, <1>7 DEF Updates, n
  <2>4. Len(g) + Pages[o.val] - Len(M[o.id]) <= MaxBlocks
    <3>1. /\ Len(f) \in Int /\ Pages[o.val] \in Int /\ o.page \in Int /\ MaxBlocks \in Int
          /\ Len(f) + Pages[o.val] - (o.page - 1) <= MaxBlocks
      BY <1>1, <1>v, JournalAssumption
    <3>2. Len(g) = Len(f) + 1 /\ Len(M[o.id]) = o.page
      BY <1>5, <1>v
    <3> QED
      BY <3>1, <3>2
  <2>5. o.page > 0 /\ o.page \in 1 .. Pages[o.val] /\ o.page >= o.page
    BY <1>u DEF Updates
  <2> QED
    BY <1>4, <1>8, <2>1, <2>2, <2>3, <2>4, <2>5 DEF Updating
<1>17. c => Covers(M, p, g)
  <2>1. ASSUME c, NEW b \in 1 .. n
        PROVE  \E k \in Slots : \E i \in 1 .. Len(M[k]) : M[k][i] = b
    <3>1. CASE b = n
      <4>1. Len(L[o.id]) + 1 \in 1 .. Len(M[o.id]) /\ M[o.id][Len(L[o.id]) + 1] = b
        BY <1>7, <1>v, <3>1
      <4> QED
        BY <1>v, <4>1
    <3>2. CASE b # n
      <4>1. b \in 1 .. Len(f)
        BY <1>v, <3>2
      <4>4. PICK k \in Slots : \E i \in 1 .. Len(L[k]) : L[k][i] = b
        BY <1>8, <2>1, <4>1 DEF Layout, Covers
      <4>2. PICK i \in 1 .. Len(L[k]) : L[k][i] = b
        BY <4>4
      <4>3. i \in 1 .. Len(M[k]) /\ M[k][i] = b
        <5>1. CASE k = o.id
          <6>1. i \in 1 .. Len(L[o.id]) /\ i \in 1 .. Len(L[o.id]) + 1
            BY <1>v, <4>2, <5>1
          <6> QED
            BY <1>7, <4>2, <5>1, <6>1
        <5>2. CASE k # o.id
          BY <1>7, <4>2, <5>2
        <5> QED
          BY <5>1, <5>2
      <4> QED
        BY <4>3
    <3> QED
      BY <3>1, <3>2
  <2> QED
    BY <1>5, <2>1 DEF Covers
<1> QED
    BY <1>4, <1>5, <1>7, <1>10, <1>11, <1>12, <1>13, <1>14, <1>15, <1>16, <1>17
       DEF Layout, p, g, e, M

(* The first block of a list is taken out. *)
LEMMA PoppedList ==
    ASSUME NEW L, NEW n \in Nat, Typed(L, n), Apart(L), NEW k \in Slots, Len(L[k]) > 0
    PROVE  LET M == Put(L, k, Tail(L[k])) IN
           /\ Typed(M, n) /\ Apart(M) /\ Len(L[k]) \in Nat \ {0} /\ Len(M[k]) = Len(L[k]) - 1
           /\ \A i \in 1 .. Len(M[k]) : M[k][i] = L[k][i + 1] /\ i + 1 \in 1 .. Len(L[k])
           /\ \A l \in Slots : l # k => M[l] = L[l]
           /\ Loose(M, L[k][1]) /\ L[k][1] \in 1 .. n
           /\ \A l \in Slots : \A i \in 1 .. Len(L[l]) :
                 L[l][i] = L[k][1] \/ \E j \in 1 .. Len(M[l]) : M[l][j] = L[l][i]
<1> DEFINE c == Tail(L[k])
           M == Put(L, k, c)
<1>1. L[k] \in Seq(1 .. n) /\ Len(L[k]) \in Nat \ {0} /\ L[k] # << >>
    BY LenProperties, EmptySeq DEF Typed
<1>2. /\ c \in Seq(1 .. n) /\ Len(c) = Len(L[k]) - 1
      /\ \A i \in 1 .. Len(c) : c[i] = L[k][i + 1]
    BY <1>1, HeadTailProperties
<1> HIDE DEF c
<1>3. 1 \in 1 .. Len(L[k]) /\ L[k][1] \in 1 .. n
    BY <1>1, ElementOfSeq
<1>4. \A i \in 1 .. Len(c) : i + 1 \in 1 .. Len(L[k]) /\ i + 1 # 1
    BY <1>1, <1>2
<1>5. \A i, j \in 1 .. Len(c) : c[i] = c[j] => i = j
  <2> SUFFICES ASSUME NEW i \in 1 .. Len(c), NEW j \in 1 .. Len(c), c[i] = c[j] PROVE i = j
    OBVIOUS
  <2>1. i + 1 = j + 1
    BY <1>2, <1>4 DEF Apart
  <2> QED
    BY <1>1, <1>2, <2>1
<1>6. \A i \in 1 .. Len(c) : \A l \in Slots : l # k => \A j \in 1 .. Len(L[l]) : L[l][j] # c[i]
    BY <1>2, <1>4 DEF Apart
<1>7. Apart(M)
    BY <1>2, <1>5, <1>6, PutApart
<1>8. Typed(M, n) /\ M[k] = c /\ \A l \in Slots : l # k => M[l] = L[l]
    BY <1>2, PutFacts
<1> HIDE DEF M
<1>9. Loose(M, L[k][1])
  <2> SUFFICES ASSUME NEW l \in Slots, NEW i \in 1 .. Len(M[l]) PROVE M[l][i] # L[k][1]
    BY DEF Loose
  <2>1. CASE l = k
    <3>1. i + 1 \in 1 .. Len(L[k]) /\ i + 1 # 1 /\ M[l][i] = L[k][i + 1]
      BY <1>2, <1>4, <1>8, <2>1
    <3> QED
      BY <1>3, <3>1 DEF Apart
  <2>2. CASE l # k
    BY <1>3, <1>8, <2>2 DEF Apart
  <2> QED
    BY <2>1, <2>2
<1>10. ASSUME NEW l \in Slots, NEW i \in 1 .. Len(L[l]), L[l][i] # L[k][1]
       PROVE  \E j \in 1 .. Len(M[l]) : M[l][j] = L[l][i]
  <2>1. CASE l = k
    <3>1. i - 1 \in 1 .. Len(c) /\ (i - 1) + 1 = i
      <4>1. i # 1
        BY <1>10, <2>1
      <4> QED
        BY <1>1, <1>2, <2>1, <4>1
    <3>2. M[l][i - 1] = L[l][i]
      BY <1>2, <1>8, <2>1, <3>1
    <3> QED
      BY <1>8, <2>1, <3>1, <3>2
  <2>2. CASE l # k
    BY <1>8, <2>2
  <2> QED
    BY <2>1, <2>2
<1> QED
    BY <1>1, <1>2, <1>3, <1>4, <1>7, <1>8, <1>9, <1>10 DEF M, c

(* A loose block goes to the front of a list. *)
LEMMA PushedList ==
    ASSUME NEW L, NEW n \in Nat, Typed(L, n), Apart(L), NEW k \in Slots,
           NEW b \in 1 .. n, Loose(L, b)
    PROVE  LET M == Put(L, k, <<b>> \o L[k]) IN
           /\ Typed(M, n) /\ Apart(M) /\ Len(L[k]) \in Nat /\ Len(M[k]) = Len(L[k]) + 1
           /\ M[k][1] = b /\ \A i \in 1 .. Len(L[k]) : M[k][i + 1] = L[k][i]
           /\ \A i \in 1 .. Len(M[k]) : i = 1 \/ (i - 1 \in 1 .. Len(L[k]) /\ M[k][i] = L[k][i - 1])
           /\ \A l \in Slots : l # k => M[l] = L[l]
<1> DEFINE c == <<b>> \o L[k]
<1>1. L[k] \in Seq(1 .. n) /\ Len(L[k]) \in Nat
    BY LenProperties DEF Typed
<1>2. <<b>> \in Seq(1 .. n) /\ Len(<<b>>) = 1 /\ <<b>>[1] = b
    OBVIOUS
<1>3. /\ c \in Seq(1 .. n) /\ Len(c) = 1 + Len(L[k])
      /\ \A i \in 1 .. 1 + Len(L[k]) : c[i] = IF i <= 1 THEN <<b>>[i] ELSE L[k][i - 1]
    BY <1>1, <1>2, ConcatProperties
<1> HIDE DEF c
<1>4. Len(c) = Len(L[k]) + 1 /\ c[1] = b
  <2>1. 1 \in 1 .. 1 + Len(L[k]) /\ 1 <= 1
    BY <1>1
  <2>2. c[1] = <<b>>[1]
    BY <1>3, <2>1
  <2> QED
    BY <1>1, <1>2, <1>3, <2>2
<1>5. \A i \in 1 .. Len(L[k]) : c[i + 1] = L[k][i]
  <2>1. \A i \in 1 .. Len(L[k]) : /\ i + 1 \in 1 .. 1 + Len(L[k]) /\ ~(i + 1 <= 1)
                                  /\ (i + 1) - 1 = i
    BY <1>1
  <2> QED
    BY <1>3, <2>1
<1>6. \A i \in 1 .. Len(c) : i = 1 \/ (i - 1 \in 1 .. Len(L[k]) /\ c[i] = L[k][i - 1])
  <2>1. \A i \in 1 .. Len(c) : i # 1 => i - 1 \in 1 .. Len(L[k]) /\ ~(i <= 1)
    BY <1>1, <1>4
  <2> QED
    BY <1>3, <1>4, <2>1
<1>7. \A i, j \in 1 .. Len(c) : c[i] = c[j] => i = j
  <2> SUFFICES ASSUME NEW i \in 1 .. Len(c), NEW j \in 1 .. Len(c), c[i] = c[j] PROVE i = j
    OBVIOUS
  <2>1. CASE i = 1 \/ j = 1
    BY <1>4, <1>6, <2>1 DEF Loose
  <2>2. CASE i # 1 /\ j # 1
    <3>2. /\ i - 1 \in 1 .. Len(L[k]) /\ j - 1 \in 1 .. Len(L[k])
          /\ L[k][i - 1] = L[k][j - 1]
      BY <1>6, <2>2
    <3>1. i - 1 = j - 1
      BY <3>2 DEF Apart
    <3> QED
      BY <1>1, <1>4, <3>1
  <2> QED
    BY <2>1, <2>2
<1>8. \A i \in 1 .. Len(c) : \A l \in Slots : l # k => \A j \in 1 .. Len(L[l]) : L[l][j] # c[i]
  <2> SUFFICES ASSUME NEW i \in 1 .. Len(c), NEW l \in Slots, l # k, NEW j \in 1 .. Len(L[l])
               PROVE  L[l][j] # c[i]
    OBVIOUS
  <2>1. CASE i = 1
    BY <1>4, <2>1 DEF Loose
  <2>2. CASE i # 1
    BY <1>6, <2>2 DEF Apart
  <2> QED
    BY <2>1, <2>2
<1>9. Apart(Put(L, k, c))
    BY <1>3, <1>7, <1>8, PutApart
<1>10. /\ Typed(Put(L, k, c), n) /\ Put(L, k, c)[k] = c
       /\ \A l \in Slots : l # k => Put(L, k, c)[l] = L[l]
    BY <1>3, PutFacts
<1> QED
    BY <1>1, <1>4, <1>5, <1>6, <1>9, <1>10 DEF c

(* The block to be freed is led to the first free block. *)
LEMMA LayoutThread ==
    ASSUME NEW L, NEW o, NEW f, NEW h, NEW s, NEW c, Layout(L, o, f, h, s, c), o.at = "thread"
    PROVE  Layout(L, [o EXCEPT !.at = "push"], [f EXCEPT ![o.block].link = h], h, s, c)
<1> DEFINE p == [o EXCEPT !.at = "push"]
           g == [f EXCEPT ![o.block].link = h]
<1>1. /\ OpTypes(o) /\ FileTypes(f) /\ Len(f) \in Nat
      /\ InTransit(o) /\ o.block \in 1 .. Len(f) /\ Loose(L, o.block)
    BY FileFacts DEF Layout, Transit, InTransit
<1>2. /\ FileTypes(g) /\ Len(g) = Len(f)
      /\ \A b \in 1 .. Len(f) : /\ g[b].page = f[b].page
                                /\ g[b].link = IF b = o.block THEN h ELSE f[b].link
  <2>1. h \in Missing .. MaxBlocks
    BY ListFacts, JournalAssumption DEF Missing
  <2> QED
    BY <1>1, <2>1, WriteLink
<1>3. /\ OpTypes(p) /\ p.at = "push" /\ p.kind = o.kind /\ p.id = o.id /\ p.val = o.val
      /\ p.page = o.page /\ p.tail = o.tail /\ p.block = o.block /\ p.next = o.next
    BY <1>1, OpFacts DEF OpTypes, Operation, Stages, NoOp
<1> HIDE DEF p, g
<1>4. \A k \in Slots : \A i \in 1 .. Len(L[k]) :
          /\ L[k][i] \in 1 .. Len(f)
          /\ g[L[k][i]].link = f[L[k][i]].link /\ g[L[k][i]].page = f[L[k][i]].page
    BY <1>2, ListFacts, <1>1 DEF Loose
<1>5. /\ InTransit(p) /\ Freeing(o) /\ Freeing(p) /\ ~DeletesFirst(o) /\ ~DeletesFirst(p)
      /\ EndLink(p, g) = 0 /\ EndLink(o, f) = 0
    BY <1>3 DEF InTransit, Freeing, DeletesFirst, EndLink
<1>6. Linked(L, g)
    BY <1>4 DEF Layout, Linked, Follows
<1>7. Ends(L, p, g)
  <2>1. \A k \in Slots : Len(L[k]) > 0 => Len(L[k]) \in 1 .. Len(L[k])
    BY ListFacts
  <2>2. \A k \in Slots : Len(L[k]) > 0 => g[L[k][Len(L[k])]].link = f[L[k][Len(L[k])]].link
    BY <1>4, <2>1
  <2> QED
    BY <1>3, <1>5, <2>2 DEF Layout, Ends
<1>8. FirstPages(L, p, g)
    BY <1>2, <1>3, <1>5 DEF Layout, FirstPages
<1>9. Contents(L, p, g, s)
  <2>1. \A b \in Ids \ {o.id} : \A i \in 1 .. Len(L[b]) : g[L[b][i]].page = f[L[b][i]].page
    BY <1>4, SlotFacts
  <2> QED
    BY <1>3, <2>1, ContentsKept DEF Layout
<1>10. Transit(L, p, g, h) /\ Rest(L, p) /\ p.kind # "none"
  <2>1. o.kind # "none"
    BY DEF Layout
  <2> QED
    BY <1>1, <1>2, <1>3, <1>5, <2>1 DEF Layout, Transit, Rest
<1>11. Inserting(L, p, g, s) /\ Deleting(L, p)
    BY <1>1, <1>2, <1>3 DEF Layout, Inserting, Deleting
<1>12. Updating(L, p, g)
  <2>1. SUFFICES ASSUME o.kind = "update" PROVE Updating(L, p, g)
    BY <1>3 DEF Updating
  <2>2. Updates(L, o, f) /\ Updating(L, o, f)
    BY <2>1, UpdateFacts
  <2>3. Written(L[o.id], g, o.val, o.page)
    <3>1. /\ o.page \in Nat /\ Len(L[o.id]) \in Nat /\ o.page <= Len(L[o.id])
          /\ Written(L[o.id], f, o.val, o.page)
      BY <2>1, UpdateFacts
    <3>2. \A i \in 1 .. Len(L[o.id]) : g[L[o.id][i]].page = f[L[o.id][i]].page
      BY <1>4, <2>2 DEF Updates
    <3> QED
      BY <3>1, <3>2, WrittenKept
  <2>4. g[o.id].page[2] = 1
    BY <1>2, <2>2 DEF Updates
  <2> QED
    BY <1>2, <1>3, <1>5, <2>1, <2>2, <2>3, <2>4 DEF Updating
<1>13. c => Covers(L, p, g)
    BY <1>1, <1>2, <1>3, <1>5 DEF Layout, Covers
<1> QED
    BY <1>2, <1>3, <1>6, <1>7, <1>8, <1>9, <1>10, <1>11, <1>12, <1>13 DEF Layout, p, g

-----------------------------------------------------------------------------
(* The freeing of blocks. *)

(* The first block to be freed is zeroed. *)
LEMMA LayoutZero ==
    ASSUME NEW L, NEW o, NEW f, NEW h, NEW s, NEW c, Layout(L, o, f, h, s, c), o.at = "zero"
    PROVE  Layout(Put(L, REST, Tail(L[REST])),
                  [o EXCEPT !.at = "thread", !.next = f[o.block].link],
                  [f EXCEPT ![o.block] = EmptyBlock], h, s, c)
<1> DEFINE p == [o EXCEPT !.at = "thread", !.next = f[o.block].link]
           g == [f EXCEPT ![o.block] = EmptyBlock]
           M == Put(L, REST, Tail(L[REST]))
<1>1. /\ OpTypes(o) /\ FileTypes(f) /\ Len(f) \in Nat /\ Len(f) <= MaxBlocks
      /\ Len(L[REST]) > 0 /\ L[REST][1] = o.block /\ REST # FREE /\ REST \in Slots
      /\ Typed(L, Len(f)) /\ Apart(L) /\ Linked(L, f)
    BY ListFacts, SlotFacts DEF Layout, Rest
<1>2. /\ Typed(M, Len(f)) /\ Apart(M) /\ Len(L[REST]) \in Nat \ {0}
      /\ Len(M[REST]) = Len(L[REST]) - 1
      /\ \A i \in 1 .. Len(M[REST]) : M[REST][i] = L[REST][i + 1] /\ i + 1 \in 1 .. Len(L[REST])
      /\ \A l \in Slots : l # REST => M[l] = L[l]
      /\ Loose(M, o.block) /\ o.block \in 1 .. Len(f)
      /\ \A l \in Slots : \A i \in 1 .. Len(L[l]) :
            L[l][i] = o.block \/ \E j \in 1 .. Len(M[l]) : M[l][j] = L[l][i]
  <2> DEFINE x == L[REST][1]
  <2>1. /\ Typed(M, Len(f)) /\ Apart(M) /\ Len(L[REST]) \in Nat \ {0}
        /\ Len(M[REST]) = Len(L[REST]) - 1
        /\ \A i \in 1 .. Len(M[REST]) : M[REST][i] = L[REST][i + 1] /\ i + 1 \in 1 .. Len(L[REST])
        /\ \A l \in Slots : l # REST => M[l] = L[l]
        /\ Loose(M, x) /\ x \in 1 .. Len(f)
        /\ \A l \in Slots : \A i \in 1 .. Len(L[l]) :
              L[l][i] = x \/ \E j \in 1 .. Len(M[l]) : M[l][j] = L[l][i]
    BY <1>1, PoppedList
  <2> HIDE DEF M
  <2> QED
    BY <1>1, <2>1
<1> HIDE DEF M
<1>n. Len(M[REST]) \in Nat /\ Len(L[REST]) = Len(M[REST]) + 1
  <2>1. \A a \in Nat \ {0} : \A b : b = a - 1 => b \in Nat /\ a = b + 1
    OBVIOUS
  <2>2. Len(L[REST]) \in Nat \ {0} /\ Len(M[REST]) = Len(L[REST]) - 1
    BY <1>2
  <2> QED
    BY <2>1, <2>2
<1>3. /\ FileTypes(g) /\ Len(g) = Len(f)
      /\ \A b \in 1 .. Len(f) : g[b] = IF b = o.block THEN EmptyBlock ELSE f[b]
    BY <1>1, <1>2, PageFacts, Write
<1>4. o.id # REST /\ o.kind # "none" /\ o.id \in Ids /\ o.id \in Slots
    BY <1>1, OpFacts DEF Layout
<1>5. f[o.block].link = IF Len(M[REST]) = 0 THEN 0 ELSE M[REST][1]
  <2>1. CASE Len(M[REST]) = 0
    <3>1. Len(L[REST]) = 1
      BY <1>n, <2>1
    <3>2. f[L[REST][Len(L[REST])]].link = 0
      BY <1>1, <1>4 DEF Layout, Ends
    <3> QED
      BY <1>1, <2>1, <3>1, <3>2
  <2>2. CASE Len(M[REST]) # 0
    <3>1. Follows(L[REST], f) /\ 1 \in 1 .. Len(L[REST]) /\ 1 < Len(L[REST]) /\ 1 \in 1 .. Len(M[REST])
      BY <1>1, <1>n, <2>2 DEF Linked
    <3>2. f[L[REST][1]].link = L[REST][1 + 1]
      BY <3>1 DEF Follows
    <3> QED
      BY <1>1, <1>2, <2>2, <3>1, <3>2
  <2> QED
    BY <2>1, <2>2
<1>6. /\ OpTypes(p) /\ p.at = "thread" /\ p.kind = o.kind /\ p.id = o.id /\ p.val = o.val
      /\ p.page = o.page /\ p.tail = o.tail /\ p.block = o.block /\ p.next = f[o.block].link
  <2>1. f[o.block].link \in 0 .. MaxBlocks
    <3>1. Len(M[REST]) # 0 => 1 \in 1 .. Len(M[REST])
      BY <1>n
    <3>2. Len(M[REST]) # 0 => M[REST][1] \in 1 .. Len(f)
      BY <1>1, <1>2, <3>1, ElementOfSeq DEF Typed
    <3> QED
      BY <1>1, <1>5, <3>2, JournalAssumption
  <2>2. o \in Operation /\ "thread" \in Stages
    BY <1>1 DEF OpTypes, Stages
  <2>3. p \in Operation
    BY <2>1, <2>2 DEF Operation
  <2> QED
    BY <1>1, <2>2, <2>3, <1>4 DEF OpTypes, Operation
<1> HIDE DEF p, g
<1>7. \A k \in Slots : \A i \in 1 .. Len(M[k]) :
          /\ M[k][i] \in 1 .. Len(f) /\ Len(M[k]) \in 1 .. Len(M[k])
          /\ g[M[k][i]] = f[M[k][i]]
  <2>1. \A k \in Slots : \A i \in 1 .. Len(M[k]) : M[k][i] \in 1 .. Len(f) /\ Len(M[k]) \in 1 .. Len(M[k])
    BY <1>2, LenProperties, ElementOfSeq DEF Typed
  <2> QED
    BY <1>2, <1>3, <2>1 DEF Loose
<1>8. /\ InTransit(p) /\ Freeing(o) /\ Freeing(p) /\ ~DeletesFirst(p)
      /\ EndLink(p, g) = 0 /\ EndLink(o, f) = 0
    BY <1>6 DEF InTransit, Freeing, DeletesFirst, EndLink
<1>9. Heads(M, h)
    BY <1>1, <1>2, SlotFacts DEF Layout, Heads
<1>10. Linked(M, g)
  <2>1. ASSUME NEW k \in Slots, k # REST
        PROVE  Follows(M[k], g)
    <3>1. M[k] = L[k] /\ Follows(L[k], f)
      BY <1>1, <1>2, <2>1 DEF Linked
    <3> QED
      BY <1>7, <3>1 DEF Follows
  <2>2. Follows(M[REST], g)
    <3>1. ASSUME NEW i \in 1 .. Len(M[REST]), i < Len(M[REST])
          PROVE  g[M[REST][i]].link = M[REST][i + 1]
      <4>1. /\ i + 1 \in 1 .. Len(L[REST]) /\ i + 1 < Len(L[REST]) /\ i + 1 \in 1 .. Len(M[REST])
            /\ M[REST][i] = L[REST][i + 1] /\ M[REST][i + 1] = L[REST][(i + 1) + 1]
        BY <1>2, <3>1
      <4>2. f[L[REST][i + 1]].link = L[REST][(i + 1) + 1]
        BY <1>1, <4>1 DEF Linked, Follows
      <4> QED
        BY <1>1, <1>7, <4>1, <4>2
    <3> QED
      BY <3>1 DEF Follows
  <2> QED
    BY <2>1, <2>2 DEF Linked
<1>11. Ends(M, p, g)
  <2>1. ASSUME NEW k \in Slots, Len(M[k]) > 0, k # o.id
        PROVE  g[M[k][Len(M[k])]].link = 0
    <3>1. Len(M[k]) \in 1 .. Len(M[k])
      BY <1>2, <2>1, LenProperties DEF Typed
    <3>2. M[k][Len(M[k])] = L[k][Len(L[k])] /\ Len(L[k]) > 0
      BY <1>2, <2>1, <3>1
    <3> QED
      BY <1>7, <1>8, <2>1, <3>1, <3>2 DEF Layout, Ends
  <2> QED
    BY <1>6, <1>8, <2>1 DEF Ends
<1>12. FirstPages(M, p, g)
  <2>1. ASSUME NEW b \in 1 .. Len(f), g[b].page[2] = 1
        PROVE  Len(M[b]) > 0
    <3>1. b # o.block /\ f[b].page[2] = 1
      BY <1>3, <2>1, PageFacts
    <3>2. Len(L[b]) > 0
      BY <3>1 DEF Layout, FirstPages, DeletesFirst
    <3>3. b \in Slots /\ b # REST
      BY <1>1, JournalAssumption DEF Slots, REST
    <3> QED
      BY <1>2, <3>2, <3>3
  <2> QED
    BY <1>3, <2>1 DEF FirstPages
<1>13. Contents(M, p, g, s)
  <2>1. \A b \in Ids \ {o.id} : M[b] = L[b] /\ \A i \in 1 .. Len(L[b]) : g[L[b][i]].page = f[L[b][i]].page
    <3>1. \A b \in Ids : b \in Slots /\ M[b] = L[b]
      BY <1>2, SlotFacts
    <3> QED
      BY <1>7, <3>1
  <2> QED
    BY <1>6, <2>1, ContentsKept DEF Layout
<1>14. Transit(M, p, g, h)
    BY <1>2, <1>3, <1>6, <1>8, PageFacts DEF Transit
<1>15. Rest(M, p)
    BY <1>5, <1>6 DEF Rest
<1>16. Inserting(M, p, g, s) /\ Deleting(M, p)
    BY <1>1, <1>2, <1>3, <1>4, <1>6 DEF Layout, Inserting, Deleting
<1>17. Updating(M, p, g)
  <2>1. SUFFICES ASSUME o.kind = "update" PROVE Updating(M, p, g)
    BY <1>6 DEF Updating
  <2>2. Updates(L, o, f) /\ Updating(L, o, f)
    BY <2>1, UpdateFacts
  <2>3. M[o.id] = L[o.id]
    BY <1>2, <1>4
  <2>4. Written(L[o.id], g, o.val, o.page)
    <3>1. /\ o.page \in Nat /\ Len(L[o.id]) \in Nat /\ o.page <= Len(L[o.id])
          /\ Written(L[o.id], f, o.val, o.page)
      BY <2>1, UpdateFacts
    <3>2. \A i \in 1 .. Len(L[o.id]) : g[L[o.id][i]].page = f[L[o.id][i]].page
      BY <1>4, <1>7, <2>3
    <3> QED
      BY <3>1, <3>2, WrittenKept
  <2>5. g[o.id].page[2] = 1
    <3>1. 1 \in 1 .. Len(M[o.id]) /\ M[o.id][1] = o.id
      BY <2>2, <2>3 DEF Updates
    <3>2. g[o.id] = f[o.id]
      BY <1>4, <1>7, <3>1
    <3> QED
      BY <2>2, <3>2 DEF Updates
  <2> QED
    BY <1>3, <1>6, <1>8, <2>1, <2>2, <2>3, <2>4, <2>5 DEF Updating
<1>18. c => Covers(M, p, g)
  <2>1. ASSUME c, NEW b \in 1 .. Len(f), b # o.block
        PROVE  \E k \in Slots : \E i \in 1 .. Len(M[k]) : M[k][i] = b
    <3>1. PICK k \in Slots : \E i \in 1 .. Len(L[k]) : L[k][i] = b
      BY <2>1 DEF Layout, Covers, InTransit
    <3>2. PICK i \in 1 .. Len(L[k]) : L[k][i] = b
      BY <3>1
    <3>3. \E j \in 1 .. Len(M[k]) : M[k][j] = L[k][i]
      BY <1>2, <2>1, <3>2
    <3> QED
      BY <3>2, <3>3
  <2> QED
    BY <1>3, <1>6, <1>8, <2>1 DEF Covers
<1> QED
    BY <1>2, <1>3, <1>4, <1>6, <1>9, <1>10, <1>11, <1>12, <1>13, <1>14, <1>15, <1>16, <1>17, <1>18
       DEF Layout, p, g, M

(* The block goes to the front of the free list. *)
PushedFree(L, b) == Put(L, FREE, <<b>> \o L[FREE])

LEMMA Pushed ==
    ASSUME NEW L, NEW o, NEW f, NEW h, NEW s, NEW c, Layout(L, o, f, h, s, c), o.at = "push"
    PROVE  LET M == PushedFree(L, o.block) IN
           /\ Typed(M, Len(f)) /\ Apart(M) /\ Linked(M, f) /\ Heads(M, o.block)
           /\ \A l \in Slots : l # FREE => M[l] = L[l]
           /\ \A k \in Slots : Len(M[k]) > 0 /\ ~(k = o.id /\ Freeing(o)) => f[M[k][Len(M[k])]].link = 0
           /\ c => \A b \in 1 .. Len(f) : \E k \in Slots : \E i \in 1 .. Len(M[k]) : M[k][i] = b
<1> DEFINE M == PushedFree(L, o.block)
           b == o.block
<1>1. /\ FREE \in Slots /\ Typed(L, Len(f)) /\ Apart(L) /\ Linked(L, f) /\ Heads(L, h) /\ Len(f) \in Nat
      /\ b \in 1 .. Len(f) /\ Loose(L, b) /\ f[b].link = h
    BY SlotFacts, ListFacts DEF Layout, Transit, InTransit
<1>2. /\ Typed(M, Len(f)) /\ Apart(M) /\ Len(L[FREE]) \in Nat /\ Len(M[FREE]) = Len(L[FREE]) + 1
      /\ M[FREE][1] = b /\ \A i \in 1 .. Len(L[FREE]) : M[FREE][i + 1] = L[FREE][i]
      /\ \A i \in 1 .. Len(M[FREE]) : i = 1 \/ (i - 1 \in 1 .. Len(L[FREE]) /\ M[FREE][i] = L[FREE][i - 1])
      /\ \A l \in Slots : l # FREE => M[l] = L[l]
  <2>1. M = Put(L, FREE, <<b>> \o L[FREE])
    BY DEF PushedFree
  <2> HIDE DEF M, b
  <2>2. LET m == Put(L, FREE, <<b>> \o L[FREE]) IN
        /\ Typed(m, Len(f)) /\ Apart(m) /\ Len(L[FREE]) \in Nat /\ Len(m[FREE]) = Len(L[FREE]) + 1
        /\ m[FREE][1] = b /\ \A i \in 1 .. Len(L[FREE]) : m[FREE][i + 1] = L[FREE][i]
        /\ \A i \in 1 .. Len(m[FREE]) : i = 1 \/ (i - 1 \in 1 .. Len(L[FREE]) /\ m[FREE][i] = L[FREE][i - 1])
        /\ \A l \in Slots : l # FREE => m[l] = L[l]
    BY <1>1, PushedList
  <2> QED
    BY <2>1, <2>2
<1> HIDE DEF M, b
<1>3. Linked(M, f)
  <2>1. ASSUME NEW i \in 1 .. Len(M[FREE]), i < Len(M[FREE])
        PROVE  f[M[FREE][i]].link = M[FREE][i + 1]
    <3>1. CASE i = 1
      <4>1. Len(L[FREE]) > 0 /\ 1 \in 1 .. Len(L[FREE])
        BY <1>2, <2>1, <3>1
      <4> QED
        BY <1>1, <1>2, <3>1, <4>1 DEF Heads
    <3>2. CASE i # 1
      <4>1. /\ i - 1 \in 1 .. Len(L[FREE]) /\ M[FREE][i] = L[FREE][i - 1] /\ i - 1 < Len(L[FREE])
            /\ i \in 1 .. Len(L[FREE]) /\ M[FREE][i + 1] = L[FREE][i] /\ (i - 1) + 1 = i
        <5>1. i - 1 \in 1 .. Len(L[FREE]) /\ M[FREE][i] = L[FREE][i - 1]
          BY <1>2, <3>2
        <5>2. /\ i \in Nat /\ i < Len(L[FREE]) + 1 /\ Len(L[FREE]) \in Nat
          BY <1>2, <2>1
        <5>3. i - 1 < Len(L[FREE]) /\ i \in 1 .. Len(L[FREE]) /\ (i - 1) + 1 = i
          BY <5>1, <5>2
        <5> QED
          BY <1>2, <5>1, <5>3
      <4>2. Follows(L[FREE], f)
        BY <1>1 DEF Linked
      <4> QED
        BY <4>1, <4>2 DEF Follows
    <3> QED
      BY <3>1, <3>2
  <2>2. Follows(M[FREE], f)
    BY <2>1 DEF Follows
  <2> QED
    BY <1>1, <1>2, <2>2 DEF Linked
<1>4. Heads(M, b)
    BY <1>1, <1>2, SlotFacts DEF Heads
<1>5. \A k \in Slots : Len(M[k]) > 0 /\ ~(k = o.id /\ Freeing(o)) => f[M[k][Len(M[k])]].link = 0
  <2> SUFFICES ASSUME NEW k \in Slots, Len(M[k]) > 0, ~(k = o.id /\ Freeing(o))
               PROVE  f[M[k][Len(M[k])]].link = 0
    OBVIOUS
  <2>1. \A l \in Slots : Len(L[l]) > 0 /\ ~(l = o.id /\ Freeing(o)) => f[L[l][Len(L[l])]].link = 0
    BY DEF Layout, Ends, EndLink
  <2>2. CASE k # FREE
    BY <1>2, <2>1, <2>2
  <2>3. CASE k = FREE
    <3>1. CASE Len(L[FREE]) = 0
      BY <1>1, <1>2, <2>3, <3>1 DEF Heads
    <3>2. CASE Len(L[FREE]) # 0
      <4>1. Len(L[FREE]) > 0 /\ Len(L[FREE]) \in 1 .. Len(L[FREE])
        BY <1>2, <3>2
      <4>2. M[FREE][Len(M[FREE])] = L[FREE][Len(L[FREE])]
        BY <1>2, <4>1
      <4> QED
        BY <2>1, <2>3, <4>1, <4>2
    <3> QED
      BY <3>1, <3>2
  <2> QED
    BY <2>2, <2>3
<1>6. ASSUME c, NEW x \in 1 .. Len(f)
      PROVE  \E k \in Slots : \E i \in 1 .. Len(M[k]) : M[k][i] = x
  <2>1. CASE x = b
    <3>1. 1 \in 1 .. Len(M[FREE])
      BY <1>2
    <3> QED
      BY <1>1, <1>2, <2>1, <3>1
  <2>2. CASE x # b
    <3>1. PICK k \in Slots : \E i \in 1 .. Len(L[k]) : L[k][i] = x
      BY <1>6, <2>2 DEF Layout, Covers, b
    <3>2. PICK i \in 1 .. Len(L[k]) : L[k][i] = x
      BY <3>1
    <3>3. CASE k # FREE
      BY <1>2, <3>2, <3>3
    <3>4. CASE k = FREE
      <4>1. i + 1 \in 1 .. Len(M[FREE]) /\ M[FREE][i + 1] = x
        BY <1>2, <3>2, <3>4
      <4> QED
        BY <1>1, <4>1
    <3> QED
      BY <3>3, <3>4
  <2> QED
    BY <2>1, <2>2
<1> QED
    BY <1>2, <1>3, <1>4, <1>5, <1>6 DEF M, b

(* What the freeing of a block leaves of an update. *)
LEMMA UpdatingKept ==
    ASSUME NEW L, NEW o, NEW f, NEW h, NEW s, NEW c, Layout(L, o, f, h, s, c), Freeing(o),
           NEW M, M[o.id] = L[o.id], NEW p, Freeing(p), p.kind = o.kind, p.id = o.id,
           p.val = o.val, p.page = o.page, p.tail = o.tail
    PROVE  Updating(M, p, f)
<1>1. o.at \notin {"page", "linked", "clear", "link"} /\ p.at \notin {"page", "linked", "clear", "link", "none", "append", "log", "fill"}
    BY DEF Freeing
<1> QED
    BY <1>1 DEF Layout, Updating

LEMMA LayoutPushNext ==
    ASSUME NEW L, NEW o, NEW f, NEW h, NEW s, NEW c, Layout(L, o, f, h, s, c), o.at = "push",
           o.next # 0
    PROVE  Layout(PushedFree(L, o.block), [o EXCEPT !.at = "zero", !.block = o.next],
                  f, o.block, s, c)
<1> DEFINE p == [o EXCEPT !.at = "zero", !.block = o.next]
           M == PushedFree(L, o.block)
<1>1. /\ OpTypes(o) /\ FileTypes(f) /\ Len(f) \in Nat /\ o.kind # "none" /\ o.id \in Ids
      /\ o.id \in Slots /\ o.id # FREE /\ \A b \in Ids : b \in Slots /\ b # FREE
    BY ListFacts, OpFacts, SlotFacts DEF Layout
<1>2. /\ Typed(M, Len(f)) /\ Apart(M) /\ Linked(M, f) /\ Heads(M, o.block)
      /\ \A l \in Slots : l # FREE => M[l] = L[l]
      /\ \A k \in Slots : Len(M[k]) > 0 /\ ~(k = o.id /\ Freeing(o)) => f[M[k][Len(M[k])]].link = 0
      /\ c => \A b \in 1 .. Len(f) : \E k \in Slots : \E i \in 1 .. Len(M[k]) : M[k][i] = b
    BY Pushed
<1>3. /\ OpTypes(p) /\ p.at = "zero" /\ p.kind = o.kind /\ p.id = o.id /\ p.val = o.val
      /\ p.page = o.page /\ p.tail = o.tail /\ p.block = o.next /\ p.next = o.next
  <2>1. o \in Operation /\ "zero" \in Stages
    BY <1>1 DEF OpTypes, Stages
  <2>2. p \in Operation
    BY <2>1 DEF Operation
  <2> QED
    BY <1>1, <2>1, <2>2 DEF OpTypes, Operation
<1> HIDE DEF p, M
<1>4. Freeing(o) /\ Freeing(p) /\ ~InTransit(p) /\ ~DeletesFirst(o)
    BY <1>3 DEF Freeing, InTransit, DeletesFirst
<1>5. M[REST] = L[REST] /\ Len(L[REST]) > 0 /\ L[REST][1] = o.next
  <2>1. o.next = IF Len(L[REST]) = 0 THEN 0 ELSE L[REST][1]
    BY DEF Layout, Rest
  <2> QED
    BY <1>2, <2>1, SlotFacts, ListFacts
<1>6. Ends(M, p, f)
    BY <1>2, <1>3, <1>4 DEF Ends, EndLink
<1>7. FirstPages(M, p, f)
  <2>1. \A b \in 1 .. Len(f) : b \in Slots /\ b # FREE
    BY <1>1, ListFacts, JournalAssumption DEF Slots, FREE
  <2> QED
    BY <1>2, <1>4, <2>1 DEF Layout, FirstPages
<1>8. Contents(M, p, f, s)
    BY <1>1, <1>2, <1>3, ContentsKept DEF Layout
<1>9. Transit(M, p, f, o.block) /\ Rest(M, p)
    BY <1>3, <1>4, <1>5 DEF Transit, Rest
<1>10. Inserting(M, p, f, s) /\ Deleting(M, p)
    BY <1>1, <1>2, <1>3 DEF Layout, Inserting, Deleting
<1>11. Updating(M, p, f)
    BY <1>1, <1>2, <1>3, <1>4, UpdatingKept
<1>12. c => Covers(M, p, f)
    BY <1>2 DEF Covers
<1> QED
    BY <1>1, <1>2, <1>3, <1>6, <1>7, <1>8, <1>9, <1>10, <1>11, <1>12 DEF Layout, p, M

LEMMA LayoutPushLastOfRest ==
    ASSUME NEW L, NEW o, NEW f, NEW h, NEW s, NEW c, Layout(L, o, f, h, s, c), o.at = "push",
           o.next = 0, o.kind = "update"
    PROVE  Layout(PushedFree(L, o.block), [o EXCEPT !.at = "unlink"], f, o.block, s, c)
<1> DEFINE p == [o EXCEPT !.at = "unlink"]
           M == PushedFree(L, o.block)
<1>1. /\ OpTypes(o) /\ FileTypes(f) /\ Len(f) \in Nat /\ o.id \in Ids
      /\ o.id \in Slots /\ o.id # FREE /\ \A b \in Ids : b \in Slots /\ b # FREE
    BY ListFacts, OpFacts, SlotFacts DEF Layout
<1>2. /\ Typed(M, Len(f)) /\ Apart(M) /\ Linked(M, f) /\ Heads(M, o.block)
      /\ \A l \in Slots : l # FREE => M[l] = L[l]
      /\ \A k \in Slots : Len(M[k]) > 0 /\ ~(k = o.id /\ Freeing(o)) => f[M[k][Len(M[k])]].link = 0
      /\ c => \A b \in 1 .. Len(f) : \E k \in Slots : \E i \in 1 .. Len(M[k]) : M[k][i] = b
    BY Pushed
<1>3. /\ OpTypes(p) /\ p.at = "unlink" /\ p.kind = o.kind /\ p.id = o.id /\ p.val = o.val
      /\ p.page = o.page /\ p.tail = o.tail /\ p.block = o.block /\ p.next = o.next
  <2>1. o \in Operation /\ "unlink" \in Stages
    BY <1>1 DEF OpTypes, Stages
  <2>2. p \in Operation
    BY <2>1 DEF Operation
  <2> QED
    BY <1>1, <2>1, <2>2 DEF OpTypes, Operation
<1> HIDE DEF p, M
<1>4. Freeing(o) /\ Freeing(p) /\ ~InTransit(p) /\ ~DeletesFirst(o)
    BY <1>3 DEF Freeing, InTransit, DeletesFirst
<1>5. M[REST] = L[REST] /\ Len(L[REST]) = 0
  <2>1. /\ o.next = IF Len(L[REST]) = 0 THEN 0 ELSE L[REST][1]
        /\ Len(L[REST]) # 0 => 1 \in 1 .. Len(L[REST])
    BY SlotFacts, ListFacts DEF Layout, Rest
  <2> QED
    BY <1>1, <1>2, <2>1, SlotFacts, ListFacts
<1>6. Ends(M, p, f)
    BY <1>2, <1>3, <1>4 DEF Ends, EndLink
<1>7. FirstPages(M, p, f)
  <2>1. \A b \in 1 .. Len(f) : b \in Slots /\ b # FREE
    BY <1>1, ListFacts, JournalAssumption DEF Slots, FREE
  <2> QED
    BY <1>2, <1>4, <2>1 DEF Layout, FirstPages
<1>8. Contents(M, p, f, s)
    BY <1>1, <1>2, <1>3, ContentsKept DEF Layout
<1>9. Transit(M, p, f, o.block) /\ Rest(M, p)
    BY <1>3, <1>4, <1>5 DEF Transit, Rest
<1>10. Inserting(M, p, f, s) /\ Deleting(M, p)
    BY <1>1, <1>2, <1>3 DEF Layout, Inserting, Deleting
<1>11. Updating(M, p, f)
    BY <1>1, <1>2, <1>3, <1>4, UpdatingKept
<1>12. c => Covers(M, p, f)
    BY <1>2 DEF Covers
<1> QED
    BY <1>1, <1>2, <1>3, <1>6, <1>7, <1>8, <1>9, <1>10, <1>11, <1>12 DEF Layout, p, M

LEMMA NoOpFacts ==
    /\ OpTypes(NoOp) /\ NoOp.kind = "none" /\ NoOp.at = "none" /\ NoOp.id = 0 /\ NoOp.id \notin Ids
    /\ ~InTransit(NoOp) /\ ~Freeing(NoOp) /\ ~DeletesFirst(NoOp)
    /\ \A f : EndLink(NoOp, f) = 0
    /\ \A L : Deleting(L, NoOp) /\ \A f : Updating(L, NoOp, f) /\ \A s : Inserting(L, NoOp, f, s)
    /\ \A L, f, h : Transit(L, NoOp, f, h)
<1>1. OpTypes(NoOp)
    BY JournalAssumption DEF OpTypes, Operation, NoOp, Stages
<1>2. NoOp.kind = "none" /\ NoOp.at = "none" /\ NoOp.id = 0
    BY DEF NoOp
<1> HIDE DEF NoOp
<1> QED
    BY <1>1, <1>2, JournalAssumption
       DEF Ids, InTransit, Freeing, DeletesFirst, EndLink, Deleting, Updating, Inserting, Transit

(* The last block of a deleted object is pushed. *)
LEMMA LayoutPushLastOfObject ==
    ASSUME NEW L, NEW o, NEW f, NEW h, NEW s, NEW c, Layout(L, o, f, h, s, c), o.at = "push",
           o.next = 0, o.kind = "delete"
    PROVE  Layout(PushedFree(L, o.block), NoOp, f, o.block, [s EXCEPT ![o.id] = NoValue], c)
<1> DEFINE M == PushedFree(L, o.block)
           t == [s EXCEPT ![o.id] = NoValue]
<1>1. /\ OpTypes(o) /\ FileTypes(f) /\ Len(f) \in Nat /\ o.id \in Ids
      /\ o.id \in Slots /\ o.id # FREE /\ \A b \in Ids : b \in Slots /\ b # FREE
    BY ListFacts, OpFacts, SlotFacts DEF Layout
<1>2. /\ Typed(M, Len(f)) /\ Apart(M) /\ Linked(M, f) /\ Heads(M, o.block)
      /\ \A l \in Slots : l # FREE => M[l] = L[l]
      /\ \A k \in Slots : Len(M[k]) > 0 /\ ~(k = o.id /\ Freeing(o)) => f[M[k][Len(M[k])]].link = 0
      /\ c => \A b \in 1 .. Len(f) : \E k \in Slots : \E i \in 1 .. Len(M[k]) : M[k][i] = b
    BY Pushed
<1>3. /\ t \in [Ids -> Values \cup {NoValue}] /\ t[o.id] = NoValue
      /\ \A b \in Ids : b # o.id => t[b] = s[b]
    BY <1>1 DEF Layout
<1> HIDE DEF M, t
<1>4. Len(L[o.id]) = 0 /\ M[o.id] = L[o.id] /\ ~DeletesFirst(o)
    BY <1>1, <1>2 DEF Layout, Deleting, DeletesFirst
<1>5. M[REST] = L[REST] /\ Len(L[REST]) = 0
  <2>1. /\ o.next = IF Len(L[REST]) = 0 THEN 0 ELSE L[REST][1]
        /\ Len(L[REST]) # 0 => 1 \in 1 .. Len(L[REST])
    BY SlotFacts, ListFacts DEF Layout, Rest
  <2> QED
    BY <1>1, <1>2, <2>1, SlotFacts, ListFacts
<1>6. Ends(M, NoOp, f)
    BY <1>2, <1>4, NoOpFacts DEF Ends
<1>7. FirstPages(M, NoOp, f)
  <2>1. \A b \in 1 .. Len(f) : b \in Slots /\ b # FREE
    BY <1>1, ListFacts, JournalAssumption DEF Slots, FREE
  <2> QED
    BY <1>2, <1>4, <2>1 DEF Layout, FirstPages
<1>8. Contents(M, NoOp, f, t)
  <2>1. ASSUME NEW b \in Ids
        PROVE  IF t[b] = NoValue THEN Len(M[b]) = 0 ELSE Holds(M, f, b, t[b])
    <3>1. CASE b = o.id
      BY <1>3, <1>4, <3>1
    <3>2. CASE b # o.id
      BY <1>1, <1>2, <1>3, <3>2 DEF Layout, Contents, Holds
    <3> QED
      BY <3>1, <3>2
  <2> QED
    BY <2>1 DEF Contents
<1>9. Rest(M, NoOp)
    BY <1>5, NoOpFacts DEF Rest
<1>10. c => Covers(M, NoOp, f)
    BY <1>2 DEF Covers
<1> QED
    BY <1>1, <1>2, <1>3, <1>6, <1>7, <1>8, <1>9, <1>10, NoOpFacts DEF Layout, M, t

-----------------------------------------------------------------------------
(* A free block is taken. *)

PoppedFree(L) == Put(L, FREE, Tail(L[FREE]))

LEMMA Popped ==
    ASSUME NEW L, NEW o, NEW f, NEW h, NEW s, NEW c, Layout(L, o, f, h, s, c), h # 0,
           ~InTransit(o)
    PROVE  LET M == PoppedFree(L) IN
           /\ h \in 1 .. Len(f) /\ f[h].link \in 0 .. MaxBlocks
           /\ Typed(M, Len(f)) /\ Apart(M) /\ Linked(M, f) /\ Heads(M, f[h].link) /\ Loose(M, h)
           /\ \A l \in Slots : l # FREE => M[l] = L[l]
           /\ \A k \in Slots : Len(M[k]) > 0 /\ ~(k = o.id /\ Freeing(o)) =>
                 f[M[k][Len(M[k])]].link = IF k = o.id THEN EndLink(o, f) ELSE 0
           /\ c => \A b \in 1 .. Len(f) : b = h \/ \E k \in Slots : \E i \in 1 .. Len(M[k]) : M[k][i] = b
<1> DEFINE M == PoppedFree(L)
<1>1. /\ FREE \in Slots /\ Typed(L, Len(f)) /\ Apart(L) /\ Linked(L, f) /\ Heads(L, h) /\ Len(f) \in Nat
      /\ Len(f) <= MaxBlocks
    BY SlotFacts, ListFacts DEF Layout
<1>2. Len(L[FREE]) > 0 /\ L[FREE][1] = h
  <2>1. Len(L[FREE]) \in Nat /\ Len(L[FREE]) # 0 /\ h = L[FREE][1]
    BY <1>1, ListFacts DEF Heads
  <2> QED
    BY <2>1
<1>3. /\ Typed(M, Len(f)) /\ Apart(M) /\ Len(L[FREE]) \in Nat \ {0} /\ Len(M[FREE]) = Len(L[FREE]) - 1
      /\ \A i \in 1 .. Len(M[FREE]) : M[FREE][i] = L[FREE][i + 1] /\ i + 1 \in 1 .. Len(L[FREE])
      /\ \A l \in Slots : l # FREE => M[l] = L[l]
      /\ Loose(M, h) /\ h \in 1 .. Len(f)
      /\ \A l \in Slots : \A i \in 1 .. Len(L[l]) :
            L[l][i] = h \/ \E j \in 1 .. Len(M[l]) : M[l][j] = L[l][i]
  <2> DEFINE x == L[FREE][1]
             m == Put(L, FREE, Tail(L[FREE]))
  <2>1. /\ Typed(m, Len(f)) /\ Apart(m) /\ Len(L[FREE]) \in Nat \ {0} /\ Len(m[FREE]) = Len(L[FREE]) - 1
        /\ \A i \in 1 .. Len(m[FREE]) : m[FREE][i] = L[FREE][i + 1] /\ i + 1 \in 1 .. Len(L[FREE])
        /\ \A l \in Slots : l # FREE => m[l] = L[l]
        /\ Loose(m, x) /\ x \in 1 .. Len(f)
        /\ \A l \in Slots : \A i \in 1 .. Len(L[l]) :
              L[l][i] = x \/ \E j \in 1 .. Len(m[l]) : m[l][j] = L[l][i]
    BY <1>1, <1>2, PoppedList
  <2>2. x = h /\ m = M
    BY <1>2 DEF PoppedFree
  <2> HIDE DEF x, m, M
  <2> QED
    BY <2>1, <2>2
<1> HIDE DEF M
<1>4. Len(M[FREE]) \in Nat /\ Len(L[FREE]) = Len(M[FREE]) + 1
  <2>1. \A a \in Nat \ {0} : \A b : b = a - 1 => b \in Nat /\ a = b + 1
    OBVIOUS
  <2>2. Len(L[FREE]) \in Nat \ {0} /\ Len(M[FREE]) = Len(L[FREE]) - 1
    BY <1>3
  <2> QED
    BY <2>1, <2>2
<1>5. \A k \in Slots : Len(L[k]) > 0 /\ ~(k = o.id /\ Freeing(o)) =>
          f[L[k][Len(L[k])]].link = IF k = o.id THEN EndLink(o, f) ELSE 0
    BY DEF Layout, Ends
<1>6. FREE = o.id => EndLink(o, f) = 0 /\ ~Freeing(o)
    BY OpFacts DEF Layout, EndLink, Freeing
<1>7. f[h].link = IF Len(M[FREE]) = 0 THEN 0 ELSE M[FREE][1]
  <2>1. CASE Len(M[FREE]) = 0
    BY <1>1, <1>2, <1>4, <1>5, <1>6, <2>1
  <2>2. CASE Len(M[FREE]) # 0
    <3>1. Follows(L[FREE], f) /\ 1 \in 1 .. Len(L[FREE]) /\ 1 < Len(L[FREE]) /\ 1 \in 1 .. Len(M[FREE])
      BY <1>1, <1>4, <2>2 DEF Linked
    <3>2. f[L[FREE][1]].link = L[FREE][1 + 1]
      BY <3>1 DEF Follows
    <3> QED
      BY <1>2, <1>3, <2>2, <3>1, <3>2
  <2> QED
    BY <2>1, <2>2
<1>8. f[h].link \in 0 .. MaxBlocks
  <2>1. Len(M[FREE]) # 0 => 1 \in 1 .. Len(M[FREE])
    BY <1>4
  <2>2. Len(M[FREE]) # 0 => M[FREE][1] \in 1 .. Len(f)
    BY <1>1, <1>3, <2>1, ElementOfSeq DEF Typed
  <2> QED
    BY <1>1, <1>7, <2>2, JournalAssumption
<1>9. Linked(M, f)
  <2>1. ASSUME NEW i \in 1 .. Len(M[FREE]), i < Len(M[FREE])
        PROVE  f[M[FREE][i]].link = M[FREE][i + 1]
    <3>1. /\ i + 1 \in 1 .. Len(L[FREE]) /\ i + 1 < Len(L[FREE]) /\ i + 1 \in 1 .. Len(M[FREE])
      BY <1>4, <2>1
    <3>2. f[L[FREE][i + 1]].link = L[FREE][(i + 1) + 1]
      BY <1>1, <3>1 DEF Linked, Follows
    <3> QED
      BY <1>3, <3>1, <3>2
  <2>2. Follows(M[FREE], f)
    BY <2>1 DEF Follows
  <2> QED
    BY <1>1, <1>3, <2>2 DEF Linked
<1>10. Heads(M, f[h].link)
    BY <1>1, <1>3, <1>7, SlotFacts DEF Heads
<1>11. ASSUME NEW k \in Slots, Len(M[k]) > 0, ~(k = o.id /\ Freeing(o))
       PROVE  f[M[k][Len(M[k])]].link = IF k = o.id THEN EndLink(o, f) ELSE 0
  <2>1. CASE k # FREE
    BY <1>3, <1>5, <1>11, <2>1
  <2>2. CASE k = FREE
    <3>1. Len(M[FREE]) \in 1 .. Len(M[FREE]) /\ Len(L[FREE]) > 0
      BY <1>4, <1>11, <2>2
    <3>2. M[FREE][Len(M[FREE])] = L[FREE][Len(L[FREE])]
      BY <1>3, <1>4, <3>1
    <3> QED
      BY <1>5, <1>11, <2>2, <3>1, <3>2
  <2> QED
    BY <2>1, <2>2
<1>12. ASSUME c, NEW b \in 1 .. Len(f), b # h
       PROVE  \E k \in Slots : \E i \in 1 .. Len(M[k]) : M[k][i] = b
  <2>1. PICK k \in Slots : \E i \in 1 .. Len(L[k]) : L[k][i] = b
    BY <1>12 DEF Layout, Covers
  <2>2. PICK i \in 1 .. Len(L[k]) : L[k][i] = b
    BY <2>1
  <2>3. \E j \in 1 .. Len(M[k]) : M[k][j] = L[k][i]
    BY <1>3, <1>12, <2>2
  <2> QED
    BY <2>2, <2>3
<1> QED
    BY <1>3, <1>8, <1>9, <1>10, <1>11, <1>12 DEF M

LEMMA LayoutExtendFromGarbage ==
    ASSUME NEW L, NEW o, NEW f, NEW h, NEW s, NEW c, Layout(L, o, f, h, s, c), h # 0,
           o.kind = "update", o.at = "linked", o.page < Pages[o.val], o.next = 0
    PROVE  Layout(PoppedFree(L), [o EXCEPT !.at = "clear", !.block = h], f, f[h].link, s, c)
<1> DEFINE p == [o EXCEPT !.at = "clear", !.block = h]
           M == PoppedFree(L)
<1>u. Updates(L, o, f) /\ Updating(L, o, f) /\ o.page <= Len(L[o.id])
    BY UpdateFacts
<1>1. /\ OpTypes(o) /\ FileTypes(f) /\ Len(f) \in Nat /\ Len(f) <= MaxBlocks
      /\ \A b \in Ids : b \in Slots /\ b # FREE
    BY ListFacts, SlotFacts
<1>2. /\ ~InTransit(o) /\ ~Freeing(o) /\ ~DeletesFirst(o) /\ EndLink(o, f) = 0
    BY DEF InTransit, Freeing, DeletesFirst, EndLink
<1>3. /\ h \in 1 .. Len(f) /\ f[h].link \in 0 .. MaxBlocks
      /\ Typed(M, Len(f)) /\ Apart(M) /\ Linked(M, f) /\ Heads(M, f[h].link) /\ Loose(M, h)
      /\ \A l \in Slots : l # FREE => M[l] = L[l]
      /\ \A k \in Slots : Len(M[k]) > 0 /\ ~(k = o.id /\ Freeing(o)) =>
            f[M[k][Len(M[k])]].link = IF k = o.id THEN EndLink(o, f) ELSE 0
      /\ c => \A b \in 1 .. Len(f) : b = h \/ \E k \in Slots : \E i \in 1 .. Len(M[k]) : M[k][i] = b
    BY <1>2, Popped
<1>4. /\ OpTypes(p) /\ p.at = "clear" /\ p.kind = o.kind /\ p.id = o.id /\ p.val = o.val
      /\ p.page = o.page /\ p.tail = o.tail /\ p.block = h /\ p.next = o.next
  <2>1. o \in Operation /\ "clear" \in Stages /\ h \in 0 .. MaxBlocks
    BY <1>1, <1>3, JournalAssumption DEF OpTypes, Stages
  <2>2. p \in Operation
    BY <2>1 DEF Operation
  <2> QED
    BY <1>1, <2>1, <2>2 DEF OpTypes, Operation
<1> HIDE DEF p, M
<1>5. InTransit(p) /\ ~Freeing(p) /\ ~DeletesFirst(p) /\ EndLink(p, f) = 0
    BY <1>4 DEF InTransit, Freeing, DeletesFirst, EndLink
<1>6. Ends(M, p, f)
    BY <1>2, <1>3, <1>4, <1>5 DEF Ends
<1>7. FirstPages(M, p, f)
  <2>1. \A b \in 1 .. Len(f) : b \in Slots /\ b # FREE
    BY <1>1, JournalAssumption DEF Slots, FREE
  <2> QED
    BY <1>2, <1>3, <2>1 DEF Layout, FirstPages
<1>8. Contents(M, p, f, s)
    BY <1>1, <1>3, <1>4, ContentsKept DEF Layout
<1>9. Transit(M, p, f, f[h].link)
    BY <1>3, <1>4, <1>5 DEF Transit
<1>10. Rest(M, p)
    BY <1>3, <1>4, SlotFacts DEF Layout, Rest
<1>11. Inserting(M, p, f, s) /\ Deleting(M, p)
    BY <1>4 DEF Inserting, Deleting
<1>12. Updating(M, p, f)
  <2>1. M[o.id] = L[o.id]
    BY <1>u, <1>3 DEF Updates
  <2>2. Len(L[o.id]) = o.page
    <3>1. Len(L[o.id]) > o.page => o.page + 1 \in 1 .. Len(L[o.id])
      BY <1>u DEF Updates
    <3>2. o.next = IF Len(L[o.id]) > o.page THEN L[o.id][o.page + 1] ELSE 0
      BY <1>u DEF Updating
    <3>3. ~(Len(L[o.id]) > o.page)
      BY <1>u, <3>1, <3>2 DEF Updates
    <3> QED
      BY <1>u, <3>3 DEF Updates
  <2> QED
    BY <1>u, <1>2, <1>4, <1>5, <2>1, <2>2 DEF Updating
<1>13. c => Covers(M, p, f)
    BY <1>3, <1>4, <1>5 DEF Covers
<1> QED
    BY <1>1, <1>3, <1>4, <1>6, <1>7, <1>8, <1>9, <1>10, <1>11, <1>12, <1>13 DEF Layout, p, M

LEMMA LayoutInsertInGarbage ==
    ASSUME NEW L, NEW f, NEW h, NEW s, NEW c, Layout(L, NoOp, f, h, s, c), h # 0,
           NEW w \in Workers, NEW v \in Values, Pages[v] = 1
    PROVE  /\ h \in Ids
           /\ Layout(PoppedFree(L), Started("insert", "clear", w, h, v, h), f, f[h].link, s, c)
<1> DEFINE p == Started("insert", "clear", w, h, v, h)
           M == PoppedFree(L)
<1>1. /\ FileTypes(f) /\ Len(f) \in Nat /\ Len(f) <= MaxBlocks
      /\ \A b \in Ids : b \in Slots /\ b # FREE
    BY ListFacts, SlotFacts
<1>2. /\ h \in 1 .. Len(f) /\ f[h].link \in 0 .. MaxBlocks
      /\ Typed(M, Len(f)) /\ Apart(M) /\ Linked(M, f) /\ Heads(M, f[h].link) /\ Loose(M, h)
      /\ \A l \in Slots : l # FREE => M[l] = L[l]
      /\ \A k \in Slots : Len(M[k]) > 0 /\ ~(k = NoOp.id /\ Freeing(NoOp)) =>
            f[M[k][Len(M[k])]].link = IF k = NoOp.id THEN EndLink(NoOp, f) ELSE 0
      /\ c => \A b \in 1 .. Len(f) : b = h \/ \E k \in Slots : \E i \in 1 .. Len(M[k]) : M[k][i] = b
    BY NoOpFacts, Popped
<1>3. h \in Ids /\ h \in 0 .. MaxBlocks /\ h \in Slots /\ h # FREE
    BY <1>1, <1>2, JournalAssumption DEF Ids
<1>4. /\ OpTypes(p) /\ p.kind = "insert" /\ p.at = "clear" /\ p.worker = w /\ p.id = h
      /\ p.val = v /\ p.page = 1 /\ p.tail = 0 /\ p.block = h /\ p.next = 0
    BY <1>3, StartedFacts DEF Stages
<1> HIDE DEF p, M
<1>5. InTransit(p) /\ ~Freeing(p) /\ ~DeletesFirst(p) /\ EndLink(p, f) = 0
    BY <1>4 DEF InTransit, Freeing, DeletesFirst, EndLink
<1>6. Ends(M, p, f)
    BY <1>2, <1>5, NoOpFacts DEF Ends
<1>7. FirstPages(M, p, f)
  <2>1. \A b \in 1 .. Len(f) : b \in Slots /\ b # FREE
    BY <1>1, JournalAssumption DEF Slots, FREE
  <2> QED
    BY <1>2, <2>1, NoOpFacts DEF Layout, FirstPages
<1>8. Contents(M, p, f, s)
    BY <1>1, <1>2, <1>4, NoOpFacts DEF Layout, Contents, Holds
<1>9. Transit(M, p, f, f[h].link)
    BY <1>2, <1>4, <1>5 DEF Transit
<1>10. Rest(M, p)
    BY <1>2, <1>4, SlotFacts, NoOpFacts DEF Layout, Rest
<1>11. Len(L[h]) = 0 /\ M[h] = L[h]
  <2>1. Len(L[FREE]) # 0 /\ L[FREE][1] = h /\ 1 \in 1 .. Len(L[FREE])
    BY SlotFacts, ListFacts DEF Layout, Heads
  <2>2. Len(L[h]) > 0 => L[h][1] = h /\ 1 \in 1 .. Len(L[h])
    BY <1>3, ListFacts DEF Layout, Heads
  <2>3. ~(Len(L[h]) > 0)
    BY <1>3, <2>1, <2>2, SlotFacts DEF Layout, Apart
  <2> QED
    BY <1>2, <1>3, <2>3, ListFacts
<1>12. s[h] = NoValue
  <2>1. s[h] # NoValue => Holds(L, f, h, s[h]) /\ s[h] \in Values
    BY <1>3, NoOpFacts DEF Layout, Contents
  <2> QED
    BY <1>11, <2>1, PageFacts DEF Holds
<1>13. Inserting(M, p, f, s) /\ Deleting(M, p) /\ Updating(M, p, f)
    BY <1>4, <1>11, <1>12 DEF Inserting, Deleting, Updating
<1>14. c => Covers(M, p, f)
    BY <1>2, <1>4, <1>5 DEF Covers
<1> QED
    BY <1>1, <1>2, <1>3, <1>4, <1>6, <1>7, <1>8, <1>9, <1>10, <1>13, <1>14 DEF Layout, p, M
-----------------------------------------------------------------------------
(* The blocks of a list behind the first p of them are to be freed. *)

Split(L, k, p) == Put(Put(L, k, SubSeq(L[k], 1, p)), REST, SubSeq(L[k], p + 1, Len(L[k])))

IsSplit(M, L, k, p, n, f) ==
    /\ Typed(M, n) /\ Apart(M) /\ Linked(M, f)
    /\ Len(M[k]) = p /\ \A i \in 1 .. p : M[k][i] = L[k][i]
    /\ Len(M[REST]) = Len(L[k]) - p
    /\ \A i \in 1 .. Len(M[REST]) : M[REST][i] = L[k][p + i] /\ p + i \in 1 .. Len(L[k])
    /\ \A l \in Slots : l # k /\ l # REST => M[l] = L[l]
    /\ \A l \in Slots : \A i \in 1 .. Len(L[l]) :
          \E m \in Slots : \E j \in 1 .. Len(M[m]) : M[m][j] = L[l][i]

LEMMA SplitList ==
    ASSUME NEW L, NEW n \in Nat, Typed(L, n), Apart(L), NEW k \in Slots, k # REST,
           Len(L[REST]) = 0, NEW p \in 0 .. Len(L[k]), NEW f, Linked(L, f)
    PROVE  IsSplit(Split(L, k, p), L, k, p, n, f)
<1> DEFINE a == SubSeq(L[k], 1, p)
           d == SubSeq(L[k], p + 1, Len(L[k]))
           K == Put(L, k, a)
           M == Put(K, REST, d)
<1>1. /\ L[k] \in Seq(1 .. n) /\ Len(L[k]) \in Nat /\ REST \in Slots /\ p \in Nat
      /\ \A i \in 1 .. Len(L[k]) : L[k][i] \in 1 .. n
    BY SlotFacts, LenProperties, ElementOfSeq DEF Typed
<1>2. /\ a \in Seq(1 .. n) /\ Len(a) = p
      /\ \A i \in 1 .. p : a[i] = L[k][i] /\ i \in 1 .. Len(L[k])
  <2>1. \A i \in 1 .. p : i \in 1 .. Len(L[k]) /\ L[k][i] \in 1 .. n
    BY <1>1
  <2>2. /\ SubSeq(L[k], 1, p) \in Seq(1 .. n)
        /\ Len(SubSeq(L[k], 1, p)) = IF 1 <= p THEN p - 1 + 1 ELSE 0
        /\ \A i \in 1 .. p - 1 + 1 : SubSeq(L[k], 1, p)[i] = L[k][1 + i - 1]
    BY <1>1, <2>1, SubSeqProperties
  <2> QED
    BY <1>1, <2>1, <2>2
<1>3. /\ d \in Seq(1 .. n) /\ Len(d) = Len(L[k]) - p
      /\ \A i \in 1 .. Len(d) : d[i] = L[k][p + i] /\ p + i \in 1 .. Len(L[k]) /\ p + i \notin 1 .. p
  <2>1. \A i \in p + 1 .. Len(L[k]) : L[k][i] \in 1 .. n
    BY <1>1
  <2>2. /\ d \in Seq(1 .. n)
        /\ Len(d) = IF p + 1 <= Len(L[k]) THEN Len(L[k]) - (p + 1) + 1 ELSE 0
        /\ \A i \in 1 .. Len(L[k]) - (p + 1) + 1 : d[i] = L[k][p + 1 + i - 1]
    BY <1>1, <2>1, SubSeqProperties
  <2> HIDE DEF d
  <2>3. Len(d) = Len(L[k]) - p
    BY <1>1, <2>2
  <2>4. \A i \in 1 .. Len(d) : /\ i \in 1 .. Len(L[k]) - (p + 1) + 1 /\ p + 1 + i - 1 = p + i
                               /\ p + i \in 1 .. Len(L[k]) /\ p + i \notin 1 .. p
    BY <1>1, <2>3
  <2> QED
    BY <2>2, <2>3, <2>4
<1> HIDE DEF a, d
<1>4. Typed(K, n) /\ K[k] = a /\ \A l \in Slots : l # k => K[l] = L[l]
    BY <1>1, <1>2, PutFacts
<1>11. \A l, m \in Slots : l # m =>
          \A x \in 1 .. Len(L[l]) : \A y \in 1 .. Len(L[m]) : L[l][x] # L[m][y]
    BY DEF Apart
<1>5. Apart(K)
  <2>1. ASSUME NEW i \in 1 .. Len(a), NEW j \in 1 .. Len(a), a[i] = a[j]
        PROVE  i = j
    <3>1. i \in 1 .. Len(L[k]) /\ j \in 1 .. Len(L[k]) /\ L[k][i] = L[k][j]
      BY <1>2, <2>1
    <3> QED
      BY <3>1 DEF Apart
  <2>2. ASSUME NEW i \in 1 .. Len(a), NEW l \in Slots, l # k, NEW j \in 1 .. Len(L[l])
        PROVE  L[l][j] # a[i]
    <3>1. i \in 1 .. Len(L[k]) /\ a[i] = L[k][i]
      BY <1>2
    <3> QED
      BY <2>2, <3>1 DEF Apart
  <2> QED
    BY <1>1, <1>2, <2>1, <2>2, PutApart
<1> HIDE DEF K
<1>6. /\ Typed(M, n) /\ M[REST] = d /\ M[k] = a
      /\ \A l \in Slots : l # k /\ l # REST => M[l] = L[l]
  <2>1. Typed(M, n) /\ M[REST] = d /\ \A l \in Slots : l # REST => M[l] = K[l]
    BY <1>1, <1>3, <1>4, PutFacts
  <2> QED
    BY <1>4, <2>1
<1>7. Apart(M)
  <2>1. ASSUME NEW i \in 1 .. Len(d), NEW j \in 1 .. Len(d), d[i] = d[j]
        PROVE  i = j
    <3>1. p + i = p + j
      BY <1>3, <2>1 DEF Apart
    <3> QED
      BY <1>1, <1>3, <3>1
  <2>2. ASSUME NEW i \in 1 .. Len(d), NEW l \in Slots, l # REST, NEW j \in 1 .. Len(K[l])
        PROVE  K[l][j] # d[i]
    <3>1. CASE l = k
      <4>1. j \in 1 .. p /\ K[l][j] = L[k][j] /\ j \in 1 .. Len(L[k])
        BY <1>2, <1>4, <3>1
      <4>2. d[i] = L[k][p + i] /\ p + i \in 1 .. Len(L[k]) /\ p + i # j
        BY <1>3, <4>1
      <4> QED
        BY <4>1, <4>2 DEF Apart
    <3>2. CASE l # k
      <4>1. K[l] = L[l] /\ j \in 1 .. Len(L[l])
        BY <1>4, <2>2, <3>2, Zenon
      <4>2. d[i] = L[k][p + i] /\ p + i \in 1 .. Len(L[k])
        BY <1>3, <2>2, Zenon
      <4>3. \A x \in 1 .. Len(L[k]) : L[l][j] # L[k][x]
        BY <1>11, <3>2, <4>1, Zenon
      <4> QED
        BY <4>1, <4>2, <4>3
    <3> QED
      BY <3>1, <3>2
  <2> QED
    BY <1>1, <1>3, <1>4, <1>5, <2>1, <2>2, PutApart
<1> HIDE DEF M
<1>8. Linked(M, f)
  <2>1. ASSUME NEW l \in Slots, l # k, l # REST
        PROVE  Follows(M[l], f)
    BY <1>6, <2>1 DEF Linked
  <2>2. Follows(M[k], f)
    <3>1. ASSUME NEW i \in 1 .. p, i < p
          PROVE  f[a[i]].link = a[i + 1]
      <4>1. i + 1 \in 1 .. p /\ i < Len(L[k]) /\ i \in 1 .. Len(L[k])
        BY <1>1, <3>1
      <4>2. Follows(L[k], f)
        BY DEF Linked
      <4>3. f[L[k][i]].link = L[k][i + 1]
        BY <4>1, <4>2 DEF Follows
      <4> QED
        BY <1>2, <3>1, <4>1, <4>3
    <3> QED
      BY <1>2, <1>6, <3>1 DEF Follows
  <2>3. Follows(M[REST], f)
    <3>1. ASSUME NEW i \in 1 .. Len(d), i < Len(d)
          PROVE  f[d[i]].link = d[i + 1]
      <4>4. \A m, e, j \in Nat : e = m - p /\ j \in 1 .. e /\ j < e =>
                j + 1 \in 1 .. e /\ p + j < m /\ (p + j) + 1 = p + (j + 1)
        BY <1>1
      <4>5. Len(d) \in Nat /\ i \in Nat /\ Len(d) = Len(L[k]) - p
        BY <1>3, LenProperties
      <4>1. i + 1 \in 1 .. Len(d) /\ p + i < Len(L[k]) /\ (p + i) + 1 = p + (i + 1)
        BY <1>1, <3>1, <4>4, <4>5
      <4>2. d[i] = L[k][p + i] /\ p + i \in 1 .. Len(L[k]) /\ d[i + 1] = L[k][(p + i) + 1]
        BY <1>3, <4>1
      <4>3. Follows(L[k], f)
        BY DEF Linked
      <4> QED
        BY <4>1, <4>2, <4>3 DEF Follows
    <3> QED
      BY <1>6, <3>1 DEF Follows
  <2> QED
    BY <2>1, <2>2, <2>3 DEF Linked
<1>9. ASSUME NEW l \in Slots, NEW i \in 1 .. Len(L[l])
      PROVE  \E m \in Slots : \E j \in 1 .. Len(M[m]) : M[m][j] = L[l][i]
  <2>1. CASE l # k
    <3>1. l # REST
      BY <2>1
    <3> QED
      BY <1>6, <2>1, <3>1
  <2>2. CASE l = k /\ i <= p
    <3>1. i \in 1 .. Len(M[k]) /\ M[k][i] = L[l][i]
      BY <1>1, <1>2, <1>6, <2>2
    <3> QED
      BY <3>1
  <2>3. CASE l = k /\ ~(i <= p)
    <3>1. i - p \in 1 .. Len(d) /\ p + (i - p) = i
      BY <1>1, <1>3, <2>3
    <3>2. M[REST][i - p] = L[l][i]
      BY <1>3, <1>6, <2>3, <3>1
    <3> QED
      BY <1>1, <1>6, <3>1, <3>2
  <2> QED
    BY <2>1, <2>2, <2>3
<1>10. IsSplit(M, L, k, p, n, f)
    BY <1>2, <1>3, <1>6, <1>7, <1>8, <1>9 DEF IsSplit
<1> QED
    BY <1>10 DEF Split, M, K, a, d

LEMMA LayoutBeginDelete ==
    ASSUME NEW L, NEW f, NEW h, NEW s, NEW c, Layout(L, NoOp, f, h, s, c),
           NEW w \in Workers, NEW v \in Values, NEW id \in Ids,
           id \in 1 .. Len(f), f[id].page[2] = 1
    PROVE  Layout(Split(L, id, 0), Started("delete", "zero", w, id, v, id), f, h, s, c)
<1> DEFINE p == Started("delete", "zero", w, id, v, id)
           M == Split(L, id, 0)
<1>1. /\ OpTypes(p) /\ p.kind = "delete" /\ p.at = "zero" /\ p.worker = w /\ p.id = id
      /\ p.val = v /\ p.page = 1 /\ p.tail = 0 /\ p.block = id /\ p.next = 0
    BY StartedFacts, JournalAssumption DEF Stages, Ids
<1> HIDE DEF p
<1>2. ~InTransit(p) /\ Freeing(p) /\ DeletesFirst(p)
    BY <1>1 DEF InTransit, Freeing, DeletesFirst
<1>3. /\ Len(L[id]) \in Nat \ {0} /\ L[id][1] = id /\ id \in Slots /\ id # REST /\ id # FREE
      /\ Len(L[REST]) = 0 /\ Len(f) \in Nat
    BY Idle, SlotFacts DEF Layout, Heads, FirstPages
<1>4. /\ Typed(M, Len(f)) /\ Apart(M) /\ Linked(M, f)
      /\ Len(M[id]) = 0 /\ Len(M[REST]) = Len(L[id]) - 0
      /\ \A i \in 1 .. Len(M[REST]) : M[REST][i] = L[id][0 + i] /\ 0 + i \in 1 .. Len(L[id])
      /\ \A l \in Slots : l # id /\ l # REST => M[l] = L[l]
      /\ \A l \in Slots : \A i \in 1 .. Len(L[l]) :
            \E m \in Slots : \E j \in 1 .. Len(M[m]) : M[m][j] = L[l][i]
  <2>1. 0 \in 0 .. Len(L[id]) /\ Typed(L, Len(f)) /\ Apart(L) /\ Linked(L, f)
    BY <1>3 DEF Layout
  <2>2. IsSplit(M, L, id, 0, Len(f), f)
    BY <1>3, <2>1, SplitList
  <2> HIDE DEF M
  <2> QED
    BY <2>2 DEF IsSplit
<1> HIDE DEF M
<1>5. Len(M[REST]) = Len(L[id]) /\ \A i \in 1 .. Len(M[REST]) : M[REST][i] = L[id][i]
    BY <1>3, <1>4
<1>6. Heads(M, h)
    BY <1>3, <1>4, SlotFacts DEF Layout, Heads
<1>7. Ends(M, p, f)
  <2>1. ASSUME NEW k \in Slots, Len(M[k]) > 0, k # id
        PROVE  f[M[k][Len(M[k])]].link = 0
    <3>1. CASE k = REST
      <4>1. Len(M[REST]) \in 1 .. Len(M[REST])
        BY <1>3, <1>5
      <4>2. M[REST][Len(M[REST])] = L[id][Len(L[id])]
        BY <1>5, <4>1
      <4>3. f[L[id][Len(L[id])]].link = 0
        BY <1>3, Idle
      <4> QED
        BY <3>1, <4>2, <4>3
    <3>2. CASE k # REST
      BY <1>4, <2>1, <3>2, Idle
    <3> QED
      BY <3>1, <3>2
  <2> QED
    BY <1>1, <1>2, <2>1 DEF Ends
<1>8. FirstPages(M, p, f)
  <2>1. \A b \in 1 .. Len(f) : b \in Slots /\ b # REST
    BY <1>3, ListFacts, JournalAssumption DEF Slots, REST
  <2> QED
    BY <1>1, <1>2, <1>4, <2>1, Idle DEF Layout, FirstPages
<1>9. Contents(M, p, f, s)
  <2>1. ASSUME NEW b \in Ids \ {id}
        PROVE  IF s[b] = NoValue THEN Len(M[b]) = 0 ELSE Holds(M, f, b, s[b])
    <3>1. M[b] = L[b]
      BY <1>4, SlotFacts
    <3>2. IF s[b] = NoValue THEN Len(L[b]) = 0 ELSE Holds(L, f, b, s[b])
      BY Idle DEF Layout, Contents
    <3> QED
      BY <3>1, <3>2 DEF Holds
  <2> QED
    BY <1>1, <2>1 DEF Contents
<1>10. Transit(M, p, f, h) /\ Rest(M, p)
  <2>1. 1 \in 1 .. Len(M[REST])
    BY <1>3, <1>5
  <2> QED
    BY <1>1, <1>2, <1>3, <1>5, <2>1 DEF Transit, Rest
<1>11. Inserting(M, p, f, s) /\ Deleting(M, p) /\ Updating(M, p, f)
    BY <1>1, <1>4 DEF Inserting, Deleting, Updating
<1>12. c => Covers(M, p, f)
  <2>1. ASSUME c, NEW b \in 1 .. Len(f)
        PROVE  \E k \in Slots : \E i \in 1 .. Len(M[k]) : M[k][i] = b
    <3>1. PICK k \in Slots : \E i \in 1 .. Len(L[k]) : L[k][i] = b
      BY <2>1, Idle DEF Layout, Covers
    <3>2. PICK i \in 1 .. Len(L[k]) : L[k][i] = b
      BY <3>1
    <3> QED
      BY <1>4, <3>2
  <2> QED
    BY <2>1 DEF Covers
<1> QED
    BY <1>1, <1>4, <1>6, <1>7, <1>8, <1>9, <1>10, <1>11, <1>12 DEF Layout, p, M

LEMMA LayoutFreeRest ==
    ASSUME NEW L, NEW o, NEW f, NEW h, NEW s, NEW c, Layout(L, o, f, h, s, c),
           o.kind = "update", o.at = "linked", ~(o.page < Pages[o.val]), o.next # 0
    PROVE  Layout(Split(L, o.id, o.page), [o EXCEPT !.at = "zero", !.block = o.next], f, h, s, c)
<1> DEFINE p == [o EXCEPT !.at = "zero", !.block = o.next]
           M == Split(L, o.id, o.page)
<1>u. /\ Updates(L, o, f) /\ Updating(L, o, f) /\ o.page \in 1 .. Len(L[o.id])
      /\ Written(L[o.id], f, o.val, o.page) /\ o.tail = L[o.id][o.page]
    BY UpdateFacts
<1>1. /\ OpTypes(p) /\ p.at = "zero" /\ p.kind = o.kind /\ p.id = o.id /\ p.val = o.val
      /\ p.page = o.page /\ p.tail = o.tail /\ p.block = o.next /\ p.next = o.next
  <2>1. o \in Operation /\ "zero" \in Stages
    BY DEF Layout, OpTypes, Stages
  <2>2. p \in Operation
    BY <2>1 DEF Operation
  <2> QED
    BY <2>1, <2>2 DEF Layout, OpTypes, Operation
<1> HIDE DEF p
<1>2. /\ ~InTransit(o) /\ ~InTransit(p) /\ ~Freeing(o) /\ Freeing(p)
      /\ ~DeletesFirst(o) /\ ~DeletesFirst(p) /\ EndLink(o, f) = 0
    BY <1>1 DEF InTransit, Freeing, DeletesFirst, EndLink
<1>3. /\ o.page = Pages[o.val] /\ Len(L[o.id]) > o.page /\ o.next = L[o.id][o.page + 1]
      /\ o.page \in Nat \ {0} /\ Len(L[o.id]) \in Nat
  <2>1. o.next = IF Len(L[o.id]) > o.page THEN L[o.id][o.page + 1] ELSE 0
    BY <1>u DEF Updating
  <2> QED
    BY <1>u, <2>1 DEF Updates
<1>4. /\ Typed(M, Len(f)) /\ Apart(M) /\ Linked(M, f)
      /\ Len(M[o.id]) = o.page /\ \A i \in 1 .. o.page : M[o.id][i] = L[o.id][i]
      /\ Len(M[REST]) = Len(L[o.id]) - o.page
      /\ \A i \in 1 .. Len(M[REST]) : M[REST][i] = L[o.id][o.page + i] /\ o.page + i \in 1 .. Len(L[o.id])
      /\ \A l \in Slots : l # o.id /\ l # REST => M[l] = L[l]
      /\ \A l \in Slots : \A i \in 1 .. Len(L[l]) :
            \E m \in Slots : \E j \in 1 .. Len(M[m]) : M[m][j] = L[l][i]
  <2>1. /\ o.page \in 0 .. Len(L[o.id]) /\ Typed(L, Len(f)) /\ Apart(L) /\ Linked(L, f)
        /\ Len(f) \in Nat /\ o.id \in Slots /\ o.id # REST /\ Len(L[REST]) = 0
    BY <1>u, <1>3 DEF Layout, Updates, Rest
  <2>2. IsSplit(M, L, o.id, o.page, Len(f), f)
    BY <2>1, SplitList
  <2> HIDE DEF M
  <2> QED
    BY <2>2 DEF IsSplit
<1> HIDE DEF M
<1>5. Heads(M, h)
  <2>1. M[FREE] = L[FREE] /\ M[o.id][1] = L[o.id][1]
    BY <1>u, <1>3, <1>4, SlotFacts DEF Updates
  <2>2. \A b \in Ids : b # o.id => M[b] = L[b]
    BY <1>4, SlotFacts
  <2> QED
    BY <1>u, <2>1, <2>2 DEF Layout, Heads, Updates
<1>6. Ends(M, p, f)
  <2>1. ASSUME NEW k \in Slots, Len(M[k]) > 0, k # o.id
        PROVE  f[M[k][Len(M[k])]].link = 0
    <3>1. CASE k = REST
      <4>4. \A a, b \in Nat : a > b => a - b \in 1 .. a - b /\ b + (a - b) = a
        OBVIOUS
      <4>5. Len(M[REST]) = Len(L[o.id]) - o.page
        BY <1>4
      <4>1. Len(M[REST]) \in 1 .. Len(M[REST]) /\ o.page + Len(M[REST]) = Len(L[o.id])
        BY <1>3, <4>4, <4>5
      <4>6. \A i \in 1 .. Len(M[REST]) : M[REST][i] = L[o.id][o.page + i]
        BY <1>4
      <4>2. M[REST][Len(M[REST])] = L[o.id][Len(L[o.id])]
        BY <4>1, <4>6
      <4>3. f[L[o.id][Len(L[o.id])]].link = 0
        <5>1. Ends(L, o, f)
          BY DEF Layout
        <5> QED
          BY <1>u, <1>2, <5>1 DEF Ends, Updates
      <4> QED
        BY <3>1, <4>2, <4>3
    <3>2. CASE k # REST
      BY <1>2, <1>4, <2>1, <3>2 DEF Layout, Ends
    <3> QED
      BY <3>1, <3>2
  <2> QED
    BY <1>1, <1>2, <2>1 DEF Ends
<1>7. FirstPages(M, p, f)
  <2>1. \A b \in 1 .. Len(f) : b \in Slots /\ b # REST
    BY ListFacts, JournalAssumption DEF Slots, REST
  <2>2. ASSUME NEW b \in 1 .. Len(f), f[b].page[2] = 1
        PROVE  Len(M[b]) > 0
    <3>1. Len(L[b]) > 0
      BY <1>2, <2>2 DEF Layout, FirstPages
    <3>2. CASE b = o.id
      BY <1>3, <1>4, <3>2
    <3>3. CASE b # o.id
      <4>1. M[b] = L[b]
        BY <1>4, <2>1, <3>3
      <4> QED
        BY <3>1, <4>1
    <3> QED
      BY <3>2, <3>3
  <2> QED
    BY <2>2 DEF FirstPages
<1>8. Contents(M, p, f, s)
  <2>1. \A b \in Ids \ {o.id} : M[b] = L[b]
    BY <1>4, SlotFacts
  <2> QED
    BY <1>1, <2>1, ContentsKept DEF Layout
<1>9. Transit(M, p, f, h) /\ Rest(M, p)
  <2>1. 1 \in 1 .. Len(M[REST])
    BY <1>3, <1>4
  <2>2. Len(M[REST]) > 0
    BY <1>3, <1>4
  <2> QED
    BY <1>1, <1>2, <1>3, <1>4, <2>1, <2>2 DEF Transit, Rest
<1>10. Inserting(M, p, f, s) /\ Deleting(M, p)
    BY <1>1 DEF Inserting, Deleting
<1>11. Updating(M, p, f)
  <2>1. Written(M[o.id], f, o.val, o.page)
    BY <1>u, <1>4 DEF Written
  <2>2. o.page \in 1 .. o.page /\ o.page >= o.page /\ o.page > 0
    BY <1>3
  <2>3. M[o.id][o.page] = o.tail
    BY <1>u, <1>4, <2>2
  <2>4. o.page \in 1 .. Pages[o.val] /\ f[o.id].page[2] = 1
    BY <1>u DEF Updating
  <2> QED
    BY <1>1, <1>2, <1>3, <1>4, <2>1, <2>2, <2>3, <2>4 DEF Updating
<1>12. c => Covers(M, p, f)
  <2>1. ASSUME c, NEW b \in 1 .. Len(f)
        PROVE  \E k \in Slots : \E i \in 1 .. Len(M[k]) : M[k][i] = b
    <3>1. PICK k \in Slots : \E i \in 1 .. Len(L[k]) : L[k][i] = b
      BY <1>2, <2>1 DEF Layout, Covers
    <3>2. PICK i \in 1 .. Len(L[k]) : L[k][i] = b
      BY <3>1
    <3> QED
      BY <1>4, <3>2
  <2> QED
    BY <2>1 DEF Covers
<1> QED
    BY <1>1, <1>4, <1>5, <1>6, <1>7, <1>8, <1>9, <1>10, <1>11, <1>12 DEF Layout, p, M
-----------------------------------------------------------------------------
(* The last write of an operation, and the link to a block that was taken. *)

(* The object is cut off behind its text. *)
LEMMA LayoutUnlink ==
    ASSUME NEW L, NEW o, NEW f, NEW h, NEW s, NEW c, Layout(L, o, f, h, s, c), o.kind = "update",
           o.at = "unlink" \/ (o.at = "linked" /\ ~(o.page < Pages[o.val]) /\ o.next = 0)
    PROVE  Layout(L, NoOp, [f EXCEPT ![o.tail].link = 0], h, [s EXCEPT ![o.id] = o.val], c)
<1> DEFINE g == [f EXCEPT ![o.tail].link = 0]
           t == [s EXCEPT ![o.id] = o.val]
<1>u. /\ Updates(L, o, f) /\ Updating(L, o, f) /\ o.page \in 1 .. Len(L[o.id])
      /\ Written(L[o.id], f, o.val, o.page) /\ o.tail = L[o.id][o.page] /\ o.tail \in 1 .. Len(f)
    BY UpdateFacts
<1>1. /\ ~InTransit(o) /\ ~DeletesFirst(o) /\ OpTypes(NoOp) /\ Len(L[REST]) = 0
      /\ o.at # "unlink" => ~Freeing(o) /\ EndLink(o, f) = 0
    BY NoOpFacts DEF Layout, Rest, InTransit, Freeing, DeletesFirst, EndLink
<1>2. o.page = Pages[o.val] /\ Len(L[o.id]) = o.page
  <2>1. CASE o.at = "unlink"
    BY <1>u, <2>1 DEF Updating, Freeing
  <2>2. CASE o.at # "unlink"
    <3>1. o.next = IF Len(L[o.id]) > o.page THEN L[o.id][o.page + 1] ELSE 0
      BY <1>u, <2>2 DEF Updating
    <3>2. Len(L[o.id]) > o.page => o.page + 1 \in 1 .. Len(L[o.id])
      BY <1>u DEF Updates
    <3>3. ~(Len(L[o.id]) > o.page)
      BY <1>u, <2>2, <3>1, <3>2 DEF Updates
    <3> QED
      BY <1>u, <2>2, <3>3 DEF Updates
  <2> QED
    BY <2>1, <2>2
<1>3. /\ FileTypes(g) /\ Len(g) = Len(f)
      /\ \A b \in 1 .. Len(f) : /\ g[b].page = f[b].page
                                /\ g[b].link = IF b = o.tail THEN 0 ELSE f[b].link
  <2>1. FileTypes(f) /\ o.tail \in 1 .. Len(f) /\ 0 \in Missing .. MaxBlocks
    BY <1>u, ListFacts, JournalAssumption DEF Missing
  <2> QED
    BY <2>1, WriteLink
<1>4. /\ t \in [Ids -> Values \cup {NoValue}] /\ t[o.id] = o.val
      /\ \A b \in Ids : b # o.id => t[b] = s[b]
    BY <1>u DEF Layout, Updates
<1> HIDE DEF g, t
<1>5. \A l \in Slots : \A i \in 1 .. Len(L[l]) : L[l][i] = o.tail => l = o.id /\ i = Len(L[o.id])
  <2>1. Apart(L) /\ o.id \in Slots /\ Len(L[o.id]) \in 1 .. Len(L[o.id]) /\ o.tail = L[o.id][Len(L[o.id])]
    BY <1>u, <1>2 DEF Layout, Updates
  <2> QED
    BY <2>1 DEF Apart
<1>6. Linked(L, g)
  <2>1. \A k \in Slots : \A i \in 1 .. Len(L[k]) : i < Len(L[k]) => L[k][i] # o.tail
    BY <1>5, ListFacts
  <2> QED
    BY <1>3, <2>1, ListFacts DEF Layout, Linked, Follows
<1>7. Ends(L, NoOp, g)
  <2>1. ASSUME NEW k \in Slots, Len(L[k]) > 0
        PROVE  g[L[k][Len(L[k])]].link = 0
    <3>1. Len(L[k]) \in 1 .. Len(L[k]) /\ L[k][Len(L[k])] \in 1 .. Len(f)
      BY <2>1, ListFacts
    <3>2. CASE k = o.id
      BY <1>u, <1>2, <1>3, <3>1, <3>2
    <3>3. CASE k # o.id
      BY <1>3, <1>5, <2>1, <3>1, <3>3 DEF Layout, Ends
    <3> QED
      BY <3>2, <3>3
  <2> QED
    BY <2>1, NoOpFacts DEF Ends
<1>8. FirstPages(L, NoOp, g)
    BY <1>1, <1>3 DEF Layout, FirstPages
<1>9. Contents(L, NoOp, g, t)
  <2>1. ASSUME NEW b \in Ids
        PROVE  IF t[b] = NoValue THEN Len(L[b]) = 0 ELSE Holds(L, g, b, t[b])
    <3>1. \A i \in 1 .. Len(L[b]) : g[L[b][i]].page = f[L[b][i]].page
      BY <1>3, ListFacts, SlotFacts
    <3>2. CASE b = o.id
      <4>1. /\ t[b] \in Values /\ t[b] # NoValue /\ Len(L[b]) = Pages[t[b]]
            /\ Pages[t[b]] \in Nat
        BY <1>u, <1>2, <1>4, <3>2, BinFileAssumption DEF Updates
      <4>2. \A i \in 1 .. Len(L[b]) : f[L[b][i]].page = <<t[b], i>>
        BY <1>u, <1>2, <1>4, <3>2 DEF Written
      <4>3. \A i \in 1 .. Len(L[b]) : i <= Pages[t[b]]
        BY <4>1
      <4>4. Len(L[b]) >= Pages[t[b]]
        BY <4>1
      <4>5. Holds(L, g, b, t[b])
        BY <3>1, <4>2, <4>3, <4>4 DEF Holds
      <4> QED
        BY <4>1, <4>5
    <3>3. CASE b # o.id
      BY <1>4, <3>1, <3>3 DEF Layout, Contents, Holds
    <3> QED
      BY <3>2, <3>3
  <2> QED
    BY <2>1 DEF Contents
<1>10. Transit(L, NoOp, g, h) /\ Rest(L, NoOp)
    BY <1>1, NoOpFacts DEF Rest
<1>11. c => Covers(L, NoOp, g)
  <2>1. c => Covers(L, o, f)
    BY DEF Layout
  <2> QED
    BY <1>1, <1>3, <2>1 DEF Covers
<1> QED
    BY <1>1, <1>3, <1>4, <1>6, <1>7, <1>8, <1>9, <1>10, <1>11, NoOpFacts DEF Layout, g, t

(* The block that was taken becomes the last one of the object. *)
LEMMA LayoutLinkPopped ==
    ASSUME NEW L, NEW o, NEW f, NEW h, NEW s, NEW c, Layout(L, o, f, h, s, c),
           o.kind = "update", o.at = "link"
    PROVE  Layout(Put(L, o.id, Append(L[o.id], o.block)), [o EXCEPT !.at = "page", !.page = @ + 1],
                  [f EXCEPT ![o.tail].link = o.block], h, s, c)
<1> DEFINE p == [o EXCEPT !.at = "page", !.page = @ + 1]
           g == [f EXCEPT ![o.tail].link = o.block]
           M == Put(L, o.id, Append(L[o.id], o.block))
<1>u. /\ Updates(L, o, f) /\ Updating(L, o, f) /\ o.page \in 1 .. Len(L[o.id])
      /\ Written(L[o.id], f, o.val, o.page) /\ o.tail = L[o.id][o.page] /\ o.tail \in 1 .. Len(f)
    BY UpdateFacts
<1>1. /\ InTransit(o) /\ ~Freeing(o) /\ ~DeletesFirst(o) /\ EndLink(o, f) = 0
      /\ o.block \in 1 .. Len(f) /\ Loose(L, o.block) /\ f[o.block].link = 0 /\ Len(L[REST]) = 0
    BY DEF Layout, Transit, Rest, InTransit, Freeing, DeletesFirst, EndLink
<1>2. /\ Len(L[o.id]) = o.page /\ o.page < Pages[o.val] /\ o.block # o.tail
      /\ Len(f) + Pages[o.val] - o.page <= MaxBlocks
  <2>1. o.tail # o.block
    BY <1>u, <1>1 DEF Loose, Updates
  <2> QED
    BY <1>u, <1>1, <2>1 DEF Updating
<1>3. /\ OpTypes(p) /\ p.at = "page" /\ p.kind = o.kind /\ p.id = o.id /\ p.val = o.val
      /\ p.page = o.page + 1 /\ p.tail = o.tail /\ p.block = o.block /\ p.next = o.next
  <2>1. o \in Operation /\ o.page + 1 \in Nat /\ "page" \in Stages
    BY DEF Layout, OpTypes, Operation, Stages
  <2>2. p \in Operation
    BY <2>1 DEF Operation
  <2> QED
    BY <2>1, <2>2 DEF Layout, OpTypes, Operation
<1>4. /\ FileTypes(g) /\ Len(g) = Len(f)
      /\ \A b \in 1 .. Len(f) : /\ g[b].page = f[b].page
                                /\ g[b].link = IF b = o.tail THEN o.block ELSE f[b].link
  <2>1. FileTypes(f) /\ o.tail \in 1 .. Len(f) /\ o.block \in Missing .. MaxBlocks
    <3>1. Len(f) \in Nat /\ Len(f) <= MaxBlocks /\ MaxBlocks \in Nat
      BY ListFacts, JournalAssumption
    <3> QED
      BY <1>u, <1>1, <3>1, ListFacts DEF Missing
  <2> QED
    BY <2>1, WriteLink
<1>5. /\ Typed(M, Len(f)) /\ Apart(M) /\ Len(L[o.id]) \in Nat /\ Len(M[o.id]) = Len(L[o.id]) + 1
      /\ M[o.id][Len(L[o.id]) + 1] = o.block /\ \A i \in 1 .. Len(L[o.id]) : M[o.id][i] = L[o.id][i]
      /\ \A l \in Slots : l # o.id => M[l] = L[l]
  <2>1. Apart(L) /\ o.id \in Slots /\ o.block \in 1 .. Len(f) /\ Typed(L, Len(f)) /\ Len(f) \in Nat
    BY <1>u, <1>1 DEF Layout, Updates
  <2>2. Loose(L, o.block)
    BY <1>1
  <2>3. IsAppended(M, L, o.id, o.block, Len(f))
    BY <2>1, <2>2, AppendedList
  <2> HIDE DEF M
  <2> QED
    BY <2>3 DEF IsAppended
<1> HIDE DEF p, g, M
<1>v. /\ Len(M[o.id]) = o.page + 1 /\ M[o.id][o.page + 1] = o.block
      /\ \A i \in 1 .. o.page : M[o.id][i] = L[o.id][i] /\ i \in 1 .. Len(L[o.id])
      /\ o.page \in Nat \ {0} /\ o.id \in Slots
    BY <1>u, <1>2, <1>5 DEF Updates
<1>6. /\ ~InTransit(p) /\ ~Freeing(p) /\ ~DeletesFirst(p) /\ EndLink(p, g) = 0
  <2>1. o.block # Len(f) + 1
    BY <1>1, ListFacts
  <2> QED
    BY <1>3, <1>4, <2>1 DEF InTransit, Freeing, DeletesFirst, EndLink
<1>7. \A l \in Slots : \A i \in 1 .. Len(L[l]) : L[l][i] = o.tail => l = o.id /\ i = o.page
  <2>1. Apart(L) /\ o.id \in Slots
    BY <1>u DEF Layout, Updates
  <2> QED
    BY <1>u, <2>1 DEF Apart
<1>8. Heads(M, h)
  <2>1. M[FREE] = L[FREE] /\ Heads(L, h)
    BY <1>u, <1>5, SlotFacts DEF Layout, Updates
  <2>2. M[o.id][1] = o.id
    <3>1. 1 \in 1 .. o.page /\ L[o.id][1] = o.id
      BY <1>u, <1>v DEF Updates
    <3> QED
      BY <1>v, <3>1
  <2>3. \A b \in Ids : b # o.id => M[b] = L[b]
    BY <1>5, SlotFacts
  <2> QED
    BY <2>1, <2>2, <2>3 DEF Heads
<1>9. Linked(M, g)
  <2>1. ASSUME NEW k \in Slots, k # o.id
        PROVE  Follows(M[k], g)
    <3>1. M[k] = L[k] /\ Follows(L[k], f)
      BY <1>5, <2>1 DEF Layout, Linked
    <3>2. \A i \in 1 .. Len(L[k]) : g[L[k][i]].link = f[L[k][i]].link
      BY <1>4, <1>7, <2>1, ListFacts
    <3> QED
      BY <3>1, <3>2 DEF Follows
  <2>2. Follows(M[o.id], g)
    <3>1. ASSUME NEW i \in 1 .. Len(M[o.id]), i < Len(M[o.id])
          PROVE  g[M[o.id][i]].link = M[o.id][i + 1]
      <4>1. i \in 1 .. o.page
        BY <1>v, <3>1
      <4>2. CASE i = o.page
        <5>1. M[o.id][i] = o.tail /\ M[o.id][i + 1] = o.block
          BY <1>u, <1>v, <1>5, <1>2, <4>1, <4>2
        <5> QED
          BY <1>u, <1>4, <5>1
      <4>3. CASE i # o.page
        <5>1. i < Len(L[o.id]) /\ i + 1 \in 1 .. o.page /\ i \in 1 .. Len(L[o.id])
          BY <1>2, <1>v, <4>1, <4>3
        <5>2. f[L[o.id][i]].link = L[o.id][i + 1]
          BY <1>v, <5>1 DEF Layout, Linked, Follows
        <5>3. L[o.id][i] \in 1 .. Len(f) /\ L[o.id][i] # o.tail
          BY <1>u, <1>7, <1>v, <4>3, <5>1 DEF Updates
        <5> QED
          BY <1>4, <1>v, <4>1, <5>1, <5>2, <5>3
      <4> QED
        BY <4>2, <4>3
    <3> QED
      BY <3>1 DEF Follows
  <2> QED
    BY <2>1, <2>2 DEF Linked
<1>10. Ends(M, p, g)
  <2>1. ASSUME NEW k \in Slots, Len(M[k]) > 0
        PROVE  g[M[k][Len(M[k])]].link = 0
    <3>1. CASE k = o.id
      BY <1>1, <1>2, <1>4, <1>v, <3>1
    <3>2. CASE k # o.id
      <4>1. Len(L[k]) \in 1 .. Len(L[k]) /\ M[k] = L[k] /\ L[k][Len(L[k])] \in 1 .. Len(f) /\ Len(L[k]) > 0
        BY <1>5, <2>1, <3>2, ListFacts
      <4>2. f[L[k][Len(L[k])]].link = 0
        BY <3>2, <4>1 DEF Layout, Ends
      <4> QED
        BY <1>4, <1>7, <3>2, <4>1, <4>2
    <3> QED
      BY <3>1, <3>2
  <2> QED
    BY <1>6, <2>1 DEF Ends
<1>11. FirstPages(M, p, g) /\ Contents(M, p, g, s)
  <2>1. ASSUME NEW b \in 1 .. Len(f), g[b].page[2] = 1
        PROVE  Len(M[b]) > 0
    <3>1. Len(L[b]) > 0 /\ b \in Slots
      BY <1>1, <1>4, <2>1, ListFacts, JournalAssumption DEF Layout, FirstPages, Slots
    <3>2. CASE b = o.id
      BY <1>v, <3>2
    <3>3. CASE b # o.id
      BY <1>5, <3>1, <3>3
    <3> QED
      BY <3>2, <3>3
  <2>2. \A b \in Ids \ {o.id} : M[b] = L[b] /\ \A i \in 1 .. Len(L[b]) : g[L[b][i]].page = f[L[b][i]].page
    BY <1>4, <1>5, ListFacts, SlotFacts
  <2>3. Contents(M, p, g, s)
    BY <1>3, <2>2, ContentsKept DEF Layout
  <2> QED
    BY <1>4, <2>1, <2>3 DEF FirstPages
<1>12. Transit(M, p, g, h) /\ Rest(M, p)
    BY <1>u, <1>1, <1>3, <1>5, <1>6, SlotFacts DEF Transit, Rest, Updates
<1>13. Inserting(M, p, g, s) /\ Deleting(M, p)
    BY <1>3 DEF Inserting, Deleting
<1>14. Updating(M, p, g)
  <2>1. Written(M[o.id], g, o.val, o.page)
    <3>1. ASSUME NEW i \in 1 .. o.page
          PROVE  g[M[o.id][i]].page = <<o.val, i>>
      <4>1. f[L[o.id][i]].page = <<o.val, i>> /\ L[o.id][i] \in 1 .. Len(f) /\ M[o.id][i] = L[o.id][i]
        BY <1>u, <1>v DEF Written, Updates
      <4> QED
        BY <1>4, <4>1
    <3> QED
      BY <3>1 DEF Written
  <2>2. g[o.id].page[2] = 1
    BY <1>u, <1>4 DEF Updates
  <2>3. p.page - 1 = o.page /\ p.page \in 1 .. Pages[o.val] /\ Len(M[o.id]) >= p.page /\ Len(M[o.id]) > 0
    <3>1. \A a \in Nat \ {0}, m \in Nat : a < m => /\ (a + 1) - 1 = a /\ a + 1 \in 1 .. m
                                                  /\ a + 1 >= a + 1 /\ a + 1 > 0
      OBVIOUS
    <3>2. o.page \in Nat \ {0} /\ Pages[o.val] \in Nat /\ o.page < Pages[o.val]
      BY <1>u, <1>2, <1>v DEF Updates
    <3> QED
      BY <1>3, <1>v, <3>1, <3>2
  <2>4. Len(g) + Pages[o.val] - Len(M[o.id]) <= MaxBlocks
    <3>1. /\ Len(f) \in Int /\ Pages[o.val] \in Int /\ o.page \in Int /\ MaxBlocks \in Int
      BY <1>u, JournalAssumption DEF Updates
    <3> QED
      BY <1>2, <1>4, <1>v, <3>1
  <2>5. p.block = M[o.id][p.page] /\ o.block # Len(g) + 1
    <3>1. o.block # Len(f) + 1
      BY <1>1, ListFacts
    <3> QED
      BY <1>3, <1>4, <1>v, <3>1
  <2>6. p.at = "page" /\ p.kind = "update" /\ p.id = o.id /\ p.val = o.val /\ p.block = o.block
    BY <1>3
  <2>7. p.block # Len(g) + 1 /\ p.page - 1 = o.page
    BY <2>3, <2>5, <2>6
  <2> QED
    BY <1>6, <2>1, <2>2, <2>3, <2>4, <2>5, <2>6, <2>7 DEF Updating
<1>15. c => Covers(M, p, g)
  <2>1. ASSUME c, NEW b \in 1 .. Len(f)
        PROVE  \E k \in Slots : \E i \in 1 .. Len(M[k]) : M[k][i] = b
    <3>1. CASE b = o.block
      <4>1. o.page + 1 \in 1 .. Len(M[o.id])
        BY <1>v
      <4> QED
        BY <1>v, <3>1, <4>1
    <3>2. CASE b # o.block
      <4>1. PICK k \in Slots : \E i \in 1 .. Len(L[k]) : L[k][i] = b
        BY <2>1, <3>2 DEF Layout, Covers
      <4>2. PICK i \in 1 .. Len(L[k]) : L[k][i] = b
        BY <4>1
      <4>4. i \in 1 .. Len(M[o.id]) \/ k # o.id
        BY <1>5, <4>2
      <4>3. i \in 1 .. Len(M[k]) /\ M[k][i] = b
        BY <1>5, <4>2, <4>4, Zenon
      <4> QED
        BY <4>3
    <3> QED
      BY <3>1, <3>2
  <2> QED
    BY <1>4, <2>1 DEF Covers
<1> QED
    BY <1>3, <1>4, <1>5, <1>8, <1>9, <1>10, <1>11, <1>12, <1>13, <1>14, <1>15
       DEF Layout, p, g, M
(* The text goes into the block that was taken. *)
LEMMA LayoutFill ==
    ASSUME NEW L, NEW o, NEW f, NEW h, NEW s, NEW c, Layout(L, o, f, h, s, c),
           o.kind = "insert", o.at = "fill"
    PROVE  Layout(Put(L, o.id, Append(L[o.id], o.block)), NoOp,
                  [f EXCEPT ![o.block] = Block(<<o.val, 1>>, 0)], h, [s EXCEPT ![o.id] = o.val], c)
<1> DEFINE e == Block(<<o.val, 1>>, 0)
           g == [f EXCEPT ![o.block] = e]
           t == [s EXCEPT ![o.id] = o.val]
           M == Put(L, o.id, Append(L[o.id], o.block))
<1>1. /\ InTransit(o) /\ ~Freeing(o) /\ ~DeletesFirst(o) /\ EndLink(o, f) = 0
      /\ o.block \in 1 .. Len(f) /\ Loose(L, o.block) /\ Len(L[REST]) = 0
      /\ Len(L[o.id]) = 0 /\ o.block = o.id /\ Pages[o.val] = 1
    BY DEF Layout, Transit, Rest, Inserting, InTransit, Freeing, DeletesFirst, EndLink
<1>2. /\ o.id \in Ids /\ o.id \in Slots /\ o.id # FREE /\ o.id # REST /\ o.val \in Values
      /\ FileTypes(f) /\ Len(f) \in Nat
    BY OpFacts, ListFacts, SlotFacts
<1>3. e \in Block_ /\ e.page = <<o.val, 1>> /\ e.link = 0
  <2>1. <<o.val, 1>> \in Page
    BY <1>1, <1>2, PageFacts
  <2>2. 0 \in Missing .. MaxBlocks
    BY JournalAssumption DEF Missing
  <2> QED
    BY <2>1, <2>2 DEF Block_, Block
<1> HIDE DEF e
<1>4. /\ FileTypes(g) /\ Len(g) = Len(f)
      /\ \A b \in 1 .. Len(f) : g[b] = IF b = o.id THEN e ELSE f[b]
    BY <1>1, <1>2, <1>3, Write
<1>5. /\ t \in [Ids -> Values \cup {NoValue}] /\ t[o.id] = o.val /\ o.val # NoValue
      /\ \A b \in Ids : b # o.id => t[b] = s[b]
    BY <1>2, BinFileAssumption DEF Layout
<1>6. /\ Typed(M, Len(f)) /\ Apart(M) /\ Len(M[o.id]) = 1 /\ M[o.id][1] = o.id
      /\ \A l \in Slots : l # o.id => M[l] = L[l]
  <2>1. /\ Apart(L) /\ Typed(L, Len(f)) /\ Len(f) \in Nat /\ o.id \in Slots
        /\ o.block \in 1 .. Len(f) /\ Loose(L, o.block)
    BY <1>1, <1>2 DEF Layout
  <2>3. IsAppended(M, L, o.id, o.block, Len(f))
    BY <2>1, AppendedList
  <2>2. /\ Typed(M, Len(f)) /\ Apart(M) /\ Len(M[o.id]) = Len(L[o.id]) + 1
        /\ M[o.id][Len(L[o.id]) + 1] = o.block
        /\ \A l \in Slots : l # o.id => M[l] = L[l]
    BY <2>3 DEF IsAppended
  <2> QED
    BY <1>1, <2>2
<1> HIDE DEF g, t, M
<1>7. \A l \in Slots : \A i \in 1 .. Len(L[l]) : L[l][i] \in 1 .. Len(f) /\ g[L[l][i]] = f[L[l][i]]
    BY <1>1, <1>4, ListFacts DEF Loose
<1>8. Heads(M, h)
    BY <1>2, <1>6, SlotFacts DEF Layout, Heads
<1>9. Linked(M, g)
  <2>1. ASSUME NEW k \in Slots, k # o.id
        PROVE  Follows(M[k], g)
    <3>1. M[k] = L[k] /\ Follows(L[k], f)
      BY <1>6, <2>1 DEF Layout, Linked
    <3> QED
      BY <1>7, <3>1 DEF Follows
  <2>2. Follows(M[o.id], g)
    BY <1>6 DEF Follows
  <2> QED
    BY <2>1, <2>2 DEF Linked
<1>10. Ends(M, NoOp, g)
  <2>1. ASSUME NEW k \in Slots, Len(M[k]) > 0
        PROVE  g[M[k][Len(M[k])]].link = 0
    <3>1. CASE k = o.id
      BY <1>1, <1>3, <1>4, <1>6, <3>1
    <3>2. CASE k # o.id
      <4>1. Len(L[k]) \in 1 .. Len(L[k]) /\ M[k] = L[k] /\ Len(L[k]) > 0
        BY <1>6, <2>1, <3>2, ListFacts
      <4>2. f[L[k][Len(L[k])]].link = 0
        BY <3>2, <4>1 DEF Layout, Ends
      <4> QED
        BY <1>7, <4>1, <4>2
    <3> QED
      BY <3>1, <3>2
  <2> QED
    BY <2>1, NoOpFacts DEF Ends
<1>11. FirstPages(M, NoOp, g)
  <2>1. ASSUME NEW b \in 1 .. Len(f), g[b].page[2] = 1
        PROVE  Len(M[b]) > 0
    <3>1. CASE b = o.id
      BY <1>6, <3>1
    <3>2. CASE b # o.id
      <4>1. Len(L[b]) > 0 /\ b \in Slots
        BY <1>1, <1>4, <2>1, <3>2, ListFacts, JournalAssumption DEF Layout, FirstPages, Slots
      <4> QED
        BY <1>6, <3>2, <4>1
    <3> QED
      BY <3>1, <3>2
  <2> QED
    BY <1>4, <2>1 DEF FirstPages
<1>12. Contents(M, NoOp, g, t)
  <2>1. ASSUME NEW b \in Ids
        PROVE  IF t[b] = NoValue THEN Len(M[b]) = 0 ELSE Holds(M, g, b, t[b])
    <3>1. CASE b = o.id
      <4>1. \A i \in 1 .. 1 : g[M[b][i]].page = <<o.val, i>> /\ i <= 1
        BY <1>1, <1>3, <1>4, <1>6, <3>1
      <4>2. Holds(M, g, b, o.val)
        BY <1>1, <1>6, <3>1, <4>1 DEF Holds
      <4> QED
        BY <1>5, <3>1, <4>2
    <3>2. CASE b # o.id
      <4>1. M[b] = L[b] /\ t[b] = s[b]
        BY <1>5, <1>6, <3>2, SlotFacts
      <4>2. IF s[b] = NoValue THEN Len(L[b]) = 0 ELSE Holds(L, f, b, s[b])
        BY <3>2 DEF Layout, Contents
      <4> QED
        BY <1>7, <4>1, <4>2, SlotFacts DEF Holds
    <3> QED
      BY <3>1, <3>2
  <2> QED
    BY <2>1 DEF Contents
<1>13. Transit(M, NoOp, g, h) /\ Rest(M, NoOp)
    BY <1>1, <1>2, <1>6, SlotFacts, NoOpFacts DEF Rest
<1>14. c => Covers(M, NoOp, g)
  <2>1. ASSUME c, NEW b \in 1 .. Len(f)
        PROVE  \E k \in Slots : \E i \in 1 .. Len(M[k]) : M[k][i] = b
    <3>1. CASE b = o.id
      BY <1>2, <1>6, <3>1
    <3>2. CASE b # o.id
      <4>1. PICK k \in Slots : \E i \in 1 .. Len(L[k]) : L[k][i] = b
        BY <1>1, <2>1, <3>2 DEF Layout, Covers
      <4>2. PICK i \in 1 .. Len(L[k]) : L[k][i] = b
        BY <4>1
      <4>3. i \in 1 .. Len(M[k]) /\ M[k][i] = b
        BY <1>1, <1>6, <4>2
      <4> QED
        BY <4>3
    <3> QED
      BY <3>1, <3>2
  <2> QED
    BY <1>4, <2>1 DEF Covers
<1> QED
    BY <1>4, <1>5, <1>6, <1>8, <1>9, <1>10, <1>11, <1>12, <1>13, <1>14, NoOpFacts
       DEF Layout, g, t, M, e

LEMMA FunctionIsSeq ==
    ASSUME NEW S, NEW m \in Nat, NEW e \in [1 .. m -> S]
    PROVE  e \in Seq(S) /\ Len(e) = m
    OBVIOUS

(* The blocks of a value, written behind n others. *)
Fresh(n, v) ==
    [k \in 1 .. Pages[v] |-> Block(<<v, k>>, IF k < Pages[v] THEN n + k + 1 ELSE 0)]

FreshList(n, v) == [k \in 1 .. Pages[v] |-> n + k]

LEMMA FreshListFacts ==
    ASSUME NEW n \in Nat, NEW v, Pages[v] \in Nat
    PROVE  /\ FreshList(n, v) \in Seq(1 .. n + Pages[v]) /\ Len(FreshList(n, v)) = Pages[v]
           /\ \A k \in 1 .. Pages[v] : FreshList(n, v)[k] = n + k
<1>1. \A k \in 1 .. Pages[v] : n + k \in 1 .. n + Pages[v]
    OBVIOUS
<1>2. FreshList(n, v) \in [1 .. Pages[v] -> 1 .. n + Pages[v]]
    BY <1>1 DEF FreshList
<1>3. FreshList(n, v) \in Seq(1 .. n + Pages[v]) /\ Len(FreshList(n, v)) = Pages[v]
    BY <1>2, FunctionIsSeq
<1> QED
    BY <1>3 DEF FreshList

LEMMA LayoutAppendChain ==
    ASSUME NEW L, NEW o, NEW f, NEW h, NEW s, NEW c, Layout(L, o, f, h, s, c),
           o.kind = "insert", o.at = "append"
    PROVE  Layout(Put(L, o.id, FreshList(Len(f), o.val)), NoOp, f \o Fresh(Len(f), o.val), h,
                  [s EXCEPT ![o.id] = o.val], c)
<1> DEFINE q == Pages[o.val]
           n == Len(f)
           d == Fresh(n, o.val)
           l == FreshList(n, o.val)
           g == f \o d
           t == [s EXCEPT ![o.id] = o.val]
           M == Put(L, o.id, l)
<1>1. /\ ~InTransit(o) /\ ~Freeing(o) /\ ~DeletesFirst(o) /\ EndLink(o, f) = 0
      /\ Len(L[REST]) = 0 /\ Len(L[o.id]) = 0 /\ o.id = n + 1 /\ n + q <= MaxBlocks
    BY DEF Layout, Rest, Inserting, InTransit, Freeing, DeletesFirst, EndLink
<1>2. /\ o.id \in Ids /\ o.id \in Slots /\ o.id # FREE /\ o.id # REST /\ o.val \in Values
      /\ FileTypes(f) /\ n \in Nat /\ q \in Nat \ {0}
    BY OpFacts, ListFacts, SlotFacts
<1>3. /\ d \in Seq(Block_) /\ Len(d) = q
      /\ \A k \in 1 .. q : d[k].page = <<o.val, k>> /\ d[k].link = IF k < q THEN n + k + 1 ELSE 0
  <2>1. \A k \in 1 .. q : /\ <<o.val, k>> \in Page
                          /\ (IF k < q THEN n + k + 1 ELSE 0) \in Missing .. MaxBlocks
    <3>1. \A k \in 1 .. q : <<o.val, k>> \in Page
      BY <1>2, PageFacts
    <3>2. \A k \in 1 .. q : (IF k < q THEN n + k + 1 ELSE 0) \in Missing .. MaxBlocks
      BY <1>1, <1>2, JournalAssumption DEF Missing
    <3> QED
      BY <3>1, <3>2
  <2>2. \A k \in 1 .. q : Block(<<o.val, k>>, IF k < q THEN n + k + 1 ELSE 0) \in Block_
    BY <2>1 DEF Block, Block_
  <2>3. d = [k \in 1 .. q |-> Block(<<o.val, k>>, IF k < q THEN n + k + 1 ELSE 0)]
    BY DEF Fresh
  <2>4. d \in [1 .. q -> Block_]
    BY <2>2, <2>3
  <2>5. d \in Seq(Block_) /\ Len(d) = q
    BY <1>2, <2>4, FunctionIsSeq
  <2>6. \A k \in 1 .. q : d[k].page = <<o.val, k>> /\ d[k].link = IF k < q THEN n + k + 1 ELSE 0
    BY <2>3 DEF Block
  <2> QED
    BY <2>5, <2>6
<1>4. /\ l \in Seq(1 .. n + q) /\ Len(l) = q /\ \A k \in 1 .. q : l[k] = n + k
    BY <1>2, FreshListFacts
<1> HIDE DEF d, l
<1>5. /\ FileTypes(g) /\ Len(g) = n + q
      /\ \A b \in 1 .. n : g[b] = f[b]
      /\ \A k \in 1 .. q : g[n + k] = d[k] /\ n + k \in 1 .. n + q
  <2>1. f \in Seq(Block_)
    BY <1>2 DEF FileTypes
  <2>5. /\ f \o d \in Seq(Block_) /\ Len(f \o d) = Len(f) + Len(d)
        /\ \A i \in 1 .. Len(f) + Len(d) : (f \o d)[i] = IF i <= Len(f) THEN f[i] ELSE d[i - Len(f)]
    BY <1>3, <2>1, ConcatProperties
  <2>2. /\ g \in Seq(Block_) /\ Len(g) = n + q
        /\ \A i \in 1 .. n + q : g[i] = IF i <= n THEN f[i] ELSE d[i - n]
    BY <1>3, <2>5
  <2>3. \A b \in 1 .. n : b \in 1 .. n + q /\ b <= n
    BY <1>2
  <2>4. \A k \in 1 .. q : n + k \in 1 .. n + q /\ ~(n + k <= n) /\ (n + k) - n = k
    BY <1>2
  <2> QED
    BY <1>1, <2>2, <2>3, <2>4 DEF FileTypes
<1>6. /\ t \in [Ids -> Values \cup {NoValue}] /\ t[o.id] = o.val /\ o.val # NoValue
      /\ \A b \in Ids : b # o.id => t[b] = s[b]
    BY <1>2, BinFileAssumption DEF Layout
<1>7. /\ Typed(M, n + q) /\ M[o.id] = l /\ \A k \in Slots : k # o.id => M[k] = L[k]
      /\ Apart(M)
  <2>1. Typed(L, n + q) /\ Apart(L) /\ n + q \in Nat
    <3>1. Typed(L, n) /\ n <= n + q /\ n + q \in Nat
      BY <1>2 DEF Layout
    <3> QED
      BY <1>2, <3>1, Widen DEF Layout
  <2>2. \A i, j \in 1 .. Len(l) : l[i] = l[j] => i = j
    BY <1>2, <1>4
  <2>3. ASSUME NEW i \in 1 .. Len(l), NEW k \in Slots, k # o.id, NEW j \in 1 .. Len(L[k])
        PROVE  L[k][j] # l[i]
    <3>1. L[k][j] \in 1 .. n
      BY <2>3, ListFacts
    <3>2. l[i] = n + i /\ i \in 1 .. q
      BY <1>4, <2>3
    <3> QED
      BY <1>2, <3>1, <3>2
  <2>4. Apart(M)
    BY <1>2, <1>4, <2>1, <2>2, <2>3, PutApart
  <2> QED
    BY <1>2, <1>4, <2>1, <2>4, PutFacts
<1> HIDE DEF g, t, M
<1>8. \A k \in Slots : \A i \in 1 .. Len(L[k]) : L[k][i] \in 1 .. n /\ g[L[k][i]] = f[L[k][i]]
    BY <1>5, ListFacts
<1>9. Heads(M, h)
  <2>1. M[o.id][1] = o.id
    BY <1>1, <1>2, <1>4, <1>7
  <2>2. M[FREE] = L[FREE] /\ \A b \in Ids : b # o.id => M[b] = L[b]
    BY <1>2, <1>7, SlotFacts
  <2> QED
    BY <2>1, <2>2 DEF Layout, Heads
<1>10. Linked(M, g)
  <2>1. ASSUME NEW k \in Slots, k # o.id
        PROVE  Follows(M[k], g)
    <3>1. M[k] = L[k] /\ Follows(L[k], f)
      BY <1>7, <2>1 DEF Layout, Linked
    <3> QED
      BY <1>8, <3>1 DEF Follows
  <2>2. Follows(M[o.id], g)
    <3>1. ASSUME NEW i \in 1 .. q, i < q
          PROVE  g[l[i]].link = l[i + 1]
      <4>2. i + 1 \in 1 .. q /\ n + (i + 1) = n + i + 1
        BY <1>2, <3>1
      <4>1. l[i] = n + i /\ l[i + 1] = n + (i + 1) /\ n + (i + 1) = n + i + 1
        BY <1>4, <4>2
      <4> QED
        BY <1>3, <1>5, <3>1, <4>1
    <3> QED
      BY <1>4, <1>7, <3>1 DEF Follows
  <2> QED
    BY <2>1, <2>2 DEF Linked
<1>11. Ends(M, NoOp, g)
  <2>1. ASSUME NEW k \in Slots, Len(M[k]) > 0
        PROVE  g[M[k][Len(M[k])]].link = 0
    <3>1. CASE k = o.id
      <4>1. q \in 1 .. q /\ ~(q < q)
        BY <1>2
      <4>2. M[k][Len(M[k])] = n + q
        BY <1>4, <1>7, <3>1, <4>1
      <4>3. g[n + q] = d[q] /\ d[q].link = 0
        BY <1>3, <1>5, <4>1
      <4> QED
        BY <4>2, <4>3
    <3>2. CASE k # o.id
      <4>1. Len(L[k]) \in 1 .. Len(L[k]) /\ M[k] = L[k] /\ Len(L[k]) > 0
        BY <1>7, <2>1, <3>2, ListFacts
      <4>2. f[L[k][Len(L[k])]].link = 0
        BY <3>2, <4>1 DEF Layout, Ends
      <4> QED
        BY <1>8, <4>1, <4>2
    <3> QED
      BY <3>1, <3>2
  <2> QED
    BY <2>1, NoOpFacts DEF Ends
<1>12. FirstPages(M, NoOp, g)
  <2>1. ASSUME NEW b \in 1 .. n + q, g[b].page[2] = 1
        PROVE  Len(M[b]) > 0
    <3>1. CASE b = o.id
      BY <1>2, <1>4, <1>7, <3>1
    <3>2. CASE b # o.id /\ b \in 1 .. n
      <4>2. f[b].page[2] = 1
        BY <1>5, <2>1, <3>2
      <4>3. Len(L[b]) > 0
        BY <1>1, <3>2, <4>2 DEF Layout, FirstPages
      <4>4. b \in Slots
        BY <3>2, ListFacts, JournalAssumption DEF Slots
      <4>1. Len(L[b]) > 0 /\ b \in Slots
        BY <4>3, <4>4
      <4> QED
        BY <1>7, <3>2, <4>1
    <3>3. CASE b # o.id /\ b \notin 1 .. n
      <4>1. b - n \in 1 .. q /\ n + (b - n) = b /\ b - n # 1
        BY <1>1, <1>2, <3>3
      <4>2. g[b].page = <<o.val, b - n>>
        BY <1>3, <1>5, <4>1
      <4> QED
        BY <2>1, <4>1, <4>2
    <3> QED
      BY <3>1, <3>2, <3>3
  <2> QED
    BY <1>5, <2>1 DEF FirstPages
<1>13. Contents(M, NoOp, g, t)
  <2>1. ASSUME NEW b \in Ids
        PROVE  IF t[b] = NoValue THEN Len(M[b]) = 0 ELSE Holds(M, g, b, t[b])
    <3>1. CASE b = o.id
      <4>4. \A i \in 1 .. q : M[b][i] = n + i /\ g[n + i] = d[i]
        BY <1>4, <1>5, <1>7, <3>1
      <4>5. \A i \in 1 .. q : g[M[b][i]].page = <<o.val, i>>
        BY <1>3, <4>4
      <4>1. \A i \in 1 .. q : g[M[b][i]].page = <<o.val, i>> /\ i <= q
        BY <1>2, <4>5
      <4>2. Len(M[b]) = q /\ q >= q
        BY <1>2, <1>4, <1>7, <3>1
      <4>3. Holds(M, g, b, o.val)
        BY <4>1, <4>2 DEF Holds
      <4> QED
        BY <1>6, <3>1, <4>3
    <3>2. CASE b # o.id
      <4>1. M[b] = L[b] /\ t[b] = s[b]
        BY <1>6, <1>7, <3>2, SlotFacts
      <4>2. IF s[b] = NoValue THEN Len(L[b]) = 0 ELSE Holds(L, f, b, s[b])
        BY <3>2 DEF Layout, Contents
      <4> QED
        BY <1>8, <4>1, <4>2, SlotFacts DEF Holds
    <3> QED
      BY <3>1, <3>2
  <2> QED
    BY <2>1 DEF Contents
<1>14. Transit(M, NoOp, g, h) /\ Rest(M, NoOp)
    BY <1>1, <1>2, <1>7, SlotFacts, NoOpFacts DEF Rest
<1>15. c => Covers(M, NoOp, g)
  <2>1. ASSUME c, NEW b \in 1 .. n + q
        PROVE  \E k \in Slots : \E i \in 1 .. Len(M[k]) : M[k][i] = b
    <3>1. CASE b \notin 1 .. n
      <4>1. b - n \in 1 .. q /\ n + (b - n) = b
        BY <1>2, <3>1
      <4>2. b - n \in 1 .. Len(M[o.id]) /\ M[o.id][b - n] = b
        BY <1>4, <1>7, <4>1
      <4> QED
        BY <1>2, <4>2
    <3>2. CASE b \in 1 .. n
      <4>1. PICK k \in Slots : \E i \in 1 .. Len(L[k]) : L[k][i] = b
        BY <1>1, <2>1, <3>2 DEF Layout, Covers
      <4>2. PICK i \in 1 .. Len(L[k]) : L[k][i] = b
        BY <4>1
      <4>3. i \in 1 .. Len(M[k]) /\ M[k][i] = b
        BY <1>1, <1>7, <4>2
      <4> QED
        BY <4>3
    <3> QED
      BY <3>1, <3>2
  <2> QED
    BY <1>5, <2>1 DEF Covers
<1> QED
    BY <1>5, <1>6, <1>7, <1>9, <1>10, <1>11, <1>12, <1>13, <1>14, <1>15, NoOpFacts
       DEF Layout, g, t, M, l, d
-----------------------------------------------------------------------------
(* What a reader of the file finds. *)

LEMMA OwnPath ==
    ASSUME NEW L, NEW o, NEW f, NEW h, NEW s, NEW c, Layout(L, o, f, h, s, c),
           NEW k \in Slots, Len(L[k]) > 0, ~(k = o.id /\ Freeing(o))
    PROVE  Path(L[k], f)
<1>1. L[k] \in Seq(1 .. Len(f)) /\ Len(f) \in Nat
    BY ListFacts
<1>2. \A i \in 1 .. Len(L[k]) : i < Len(L[k]) => f[L[k][i]].link = L[k][i + 1]
    BY DEF Layout, Linked, Follows
<1>3. f[L[k][Len(L[k])]].link \notin 1 .. Len(f)
  <2>1. f[L[k][Len(L[k])]].link \in {Missing, 0, Len(f) + 1}
    BY DEF Layout, Ends, EndLink
  <2>2. Missing \notin 1 .. Len(f) /\ 0 \notin 1 .. Len(f) /\ Len(f) + 1 \notin 1 .. Len(f)
    BY <1>1 DEF Missing
  <2> QED
    BY <2>1, <2>2
<1>4. \A i, j \in 1 .. Len(L[k]) : L[k][i] = L[k][j] => i = j
    BY DEF Layout, Apart
<1> QED
    BY <1>1, <1>2, <1>3, <1>4 DEF Path

(* The blocks that are to be freed are left to nobody. *)
LEMMA DroppedList ==
    ASSUME NEW L, NEW n \in Nat, Typed(L, n), Apart(L)
    PROVE  LET M == Put(L, REST, << >>) IN
           /\ Typed(M, n) /\ Apart(M) /\ Len(M[REST]) = 0 /\ M[REST] = << >>
           /\ \A k \in Slots : k # REST => M[k] = L[k]
<1> DEFINE e == << >>
<1>1. REST \in Slots /\ e \in Seq(1 .. n) /\ Len(e) = 0
    BY SlotFacts, EmptySeq
<1>5. \A i \in 1 .. Len(e) : FALSE
    BY <1>1
<1> HIDE DEF e
<1>3. Apart(Put(L, REST, e))
    BY <1>1, <1>5, PutApart
<1>4. /\ Typed(Put(L, REST, e), n) /\ Put(L, REST, e)[REST] = e
      /\ \A k \in Slots : k # REST => Put(L, REST, e)[k] = L[k]
    BY <1>1 DEF Typed, Put
<1> QED
    BY <1>1, <1>3, <1>4 DEF e

(* The blocks that are to be freed go behind a list. *)
Join(L, k) == Put(Put(L, REST, << >>), k, L[k] \o L[REST])

IsJoin(M, L, k, n) ==
    /\ Typed(M, n) /\ Apart(M) /\ Len(M[REST]) = 0
    /\ Len(M[k]) = Len(L[k]) + Len(L[REST])
    /\ \A i \in 1 .. Len(L[k]) : M[k][i] = L[k][i]
    /\ \A i \in 1 .. Len(L[REST]) : M[k][Len(L[k]) + i] = L[REST][i]
    /\ \A l \in Slots : l # k /\ l # REST => M[l] = L[l]

(* List d is a followed by b. *)
IsConcat(d, a, b, n) ==
    /\ d \in Seq(1 .. n) /\ Len(d) = Len(a) + Len(b)
    /\ \A i \in 1 .. Len(a) : d[i] = a[i]
    /\ \A i \in 1 .. Len(b) : d[Len(a) + i] = b[i]
    /\ \A i \in 1 .. Len(d) : \/ i \in 1 .. Len(a) /\ d[i] = a[i]
                              \/ i - Len(a) \in 1 .. Len(b) /\ d[i] = b[i - Len(a)]

LEMMA Concatenated ==
    ASSUME NEW n, NEW a \in Seq(1 .. n), NEW b \in Seq(1 .. n), Len(a) \in Nat, Len(b) \in Nat
    PROVE  IsConcat(a \o b, a, b, n)
<1> DEFINE d == a \o b
<1>1. /\ d \in Seq(1 .. n) /\ Len(d) = Len(a) + Len(b)
      /\ \A i \in 1 .. Len(a) + Len(b) : d[i] = IF i <= Len(a) THEN a[i] ELSE b[i - Len(a)]
    BY ConcatProperties
<1> HIDE DEF d
<1>2. \A p, q \in Nat :
          /\ \A i \in 1 .. p : i \in 1 .. p + q /\ i <= p
          /\ \A i \in 1 .. q : p + i \in 1 .. p + q /\ ~(p + i <= p) /\ (p + i) - p = i
          /\ \A i \in 1 .. p + q : IF i <= p THEN i \in 1 .. p ELSE i - p \in 1 .. q
    OBVIOUS
<1>3. /\ \A i \in 1 .. Len(a) : i \in 1 .. Len(a) + Len(b) /\ i <= Len(a)
      /\ \A i \in 1 .. Len(b) : /\ Len(a) + i \in 1 .. Len(a) + Len(b)
                                /\ ~(Len(a) + i <= Len(a)) /\ (Len(a) + i) - Len(a) = i
      /\ \A i \in 1 .. Len(a) + Len(b) :
            IF i <= Len(a) THEN i \in 1 .. Len(a) ELSE i - Len(a) \in 1 .. Len(b)
    BY <1>2
<1>4. IsConcat(d, a, b, n)
    BY <1>1, <1>3 DEF IsConcat
<1> QED
    BY <1>4 DEF d

LEMMA JoinedList ==
    ASSUME NEW L, NEW n \in Nat, Typed(L, n), Apart(L), NEW k \in Slots, k # REST
    PROVE  IsJoin(Join(L, k), L, k, n)
<1> DEFINE d == L[k] \o L[REST]
           K == Put(L, REST, << >>)
           M == Put(K, k, d)
<1>1. /\ L[k] \in Seq(1 .. n) /\ Len(L[k]) \in Nat /\ REST \in Slots
      /\ L[REST] \in Seq(1 .. n) /\ Len(L[REST]) \in Nat
      /\ << >> \in Seq(1 .. n) /\ Len(<< >>) = 0
    BY SlotFacts, LenProperties, EmptySeq DEF Typed
<1>0. \A m \in Slots : \A x, y \in 1 .. Len(L[m]) : L[m][x] = L[m][y] => x = y
    BY DEF Apart
<1>4. \A l, m \in Slots : l # m => \A x \in 1 .. Len(L[l]) : \A y \in 1 .. Len(L[m]) : L[l][x] # L[m][y]
    BY DEF Apart
<1>9. \A x \in 1 .. Len(L[k]) : \A y \in 1 .. Len(L[REST]) : L[k][x] # L[REST][y]
    BY <1>1, <1>4
<1>2. /\ d \in Seq(1 .. n) /\ Len(d) = Len(L[k]) + Len(L[REST])
      /\ \A i \in 1 .. Len(L[k]) : d[i] = L[k][i]
      /\ \A i \in 1 .. Len(L[REST]) : d[Len(L[k]) + i] = L[REST][i]
      /\ \A i \in 1 .. Len(d) : \/ i \in 1 .. Len(L[k]) /\ d[i] = L[k][i]
                                \/ i - Len(L[k]) \in 1 .. Len(L[REST]) /\ d[i] = L[REST][i - Len(L[k])]
  <2>1. IsConcat(d, L[k], L[REST], n)
    BY <1>1, Concatenated
  <2> HIDE DEF d
  <2> QED
    BY <2>1 DEF IsConcat
<1> HIDE DEF d
<1>3. Typed(K, n) /\ K[REST] = << >> /\ Apart(K) /\ \A l \in Slots : l # REST => K[l] = L[l]
    BY DroppedList
<1> HIDE DEF K
<1>5. Typed(M, n) /\ M[k] = d /\ \A l \in Slots : l # k => M[l] = K[l]
    BY <1>2, <1>3, PutFacts
<1>6. Apart(M)
  <2>1. ASSUME NEW i \in 1 .. Len(d), NEW j \in 1 .. Len(d), d[i] = d[j]
        PROVE  i = j
    <3>1. CASE i \in 1 .. Len(L[k]) /\ d[i] = L[k][i] /\ j \in 1 .. Len(L[k]) /\ d[j] = L[k][j]
      <4>1. L[k][i] = L[k][j]
        BY <2>1, <3>1
      <4> QED
        BY <3>1, <4>1 DEF Apart
    <3>2. CASE /\ i - Len(L[k]) \in 1 .. Len(L[REST]) /\ d[i] = L[REST][i - Len(L[k])]
               /\ j - Len(L[k]) \in 1 .. Len(L[REST]) /\ d[j] = L[REST][j - Len(L[k])]
      <4>1. L[REST][i - Len(L[k])] = L[REST][j - Len(L[k])]
        BY <2>1, <3>2
      <4>4. \A x, y \in 1 .. Len(L[REST]) : L[REST][x] = L[REST][y] => x = y
        BY <1>0, <1>1
      <4>2. i - Len(L[k]) = j - Len(L[k])
        BY <3>2, <4>1, <4>4
      <4>3. i \in Int /\ j \in Int
        BY <1>1, <1>2
      <4> QED
        BY <1>1, <4>2, <4>3
    <3>3. CASE /\ i \in 1 .. Len(L[k]) /\ d[i] = L[k][i]
               /\ j - Len(L[k]) \in 1 .. Len(L[REST]) /\ d[j] = L[REST][j - Len(L[k])]
      <4>1. L[k][i] = L[REST][j - Len(L[k])]
        BY <2>1, <3>3
      <4> QED
        BY <1>9, <3>3, <4>1
    <3>4. CASE /\ j \in 1 .. Len(L[k]) /\ d[j] = L[k][j]
               /\ i - Len(L[k]) \in 1 .. Len(L[REST]) /\ d[i] = L[REST][i - Len(L[k])]
      <4>1. L[k][j] = L[REST][i - Len(L[k])]
        BY <2>1, <3>4
      <4> QED
        BY <1>9, <3>4, <4>1
    <3> QED
      BY <1>2, <3>1, <3>2, <3>3, <3>4
  <2>2. ASSUME NEW i \in 1 .. Len(d), NEW l \in Slots, l # k, NEW j \in 1 .. Len(K[l])
        PROVE  K[l][j] # d[i]
    <3>1. l # REST /\ K[l] = L[l]
      BY <1>1, <1>3, <2>2
    <3>2. CASE i \in 1 .. Len(L[k]) /\ d[i] = L[k][i]
      BY <1>4, <2>2, <3>1, <3>2
    <3>3. CASE i - Len(L[k]) \in 1 .. Len(L[REST]) /\ d[i] = L[REST][i - Len(L[k])]
      <4>1. \A y \in 1 .. Len(L[REST]) : L[l][j] # L[REST][y]
        BY <1>1, <1>4, <2>2, <3>1
      <4> QED
        BY <3>1, <3>3, <4>1
    <3> QED
      BY <1>2, <3>2, <3>3
  <2> QED
    BY <1>2, <1>3, <2>1, <2>2, PutApart
<1> HIDE DEF M
<1>7. Len(M[REST]) = 0 /\ \A l \in Slots : l # k /\ l # REST => M[l] = L[l]
    BY <1>1, <1>3, <1>5
<1>8. IsJoin(M, L, k, n)
    BY <1>2, <1>5, <1>6, <1>7 DEF IsJoin
<1> QED
    BY <1>8 DEF Join, M, K, d

LEMMA JoinedPath ==
    ASSUME NEW L, NEW f, Len(f) \in Nat, Typed(L, Len(f)), Apart(L), Linked(L, f),
           NEW k \in Slots, k # REST, NEW M, IsJoin(M, L, k, Len(f)), Path(L[REST], f),
           Len(L[k]) > 0 => f[L[k][Len(L[k])]].link = L[REST][1]
    PROVE  Path(M[k], f)
<1> DEFINE a == Len(L[k])
           b == Len(L[REST])
<1>1. a \in Nat /\ b \in Nat \ {0} /\ M[k] \in Seq(1 .. Len(f)) /\ REST \in Slots
    BY SlotFacts, LenProperties DEF Typed, IsJoin, Path
<1>2. /\ Len(M[k]) = a + b /\ \A i \in 1 .. a : M[k][i] = L[k][i]
      /\ \A i \in 1 .. b : M[k][a + i] = L[REST][i]
    BY DEF IsJoin
<1>3. /\ \A i \in 1 .. a : i < a => f[L[k][i]].link = L[k][i + 1]
      /\ \A i \in 1 .. b : i < b => f[L[REST][i]].link = L[REST][i + 1]
    BY <1>1 DEF Linked, Follows
<1>4. a > 0 => f[L[k][a]].link = L[REST][1]
    OBVIOUS
<1>5. f[L[REST][b]].link \notin 1 .. Len(f)
    BY DEF Path
<1> HIDE DEF a, b
<1>6. ASSUME NEW i \in 1 .. a + b, i < a + b
      PROVE  f[M[k][i]].link = M[k][i + 1]
  <2>1. CASE i < a
    <3>1. i \in 1 .. a /\ i + 1 \in 1 .. a
      BY <1>1, <1>6, <2>1
    <3> QED
      BY <1>2, <1>3, <2>1, <3>1
  <2>2. CASE i = a
    <3>1. a \in 1 .. a /\ a > 0 /\ 1 \in 1 .. b
      BY <1>1, <2>2
    <3> QED
      BY <1>2, <1>4, <2>2, <3>1
  <2>3. CASE a < i
    <3>1. /\ i - a \in 1 .. b /\ i - a < b /\ (i - a) + 1 \in 1 .. b
          /\ a + (i - a) = i /\ a + ((i - a) + 1) = i + 1
      BY <1>1, <1>6, <2>3
    <3>2. M[k][i] = L[REST][i - a] /\ M[k][i + 1] = L[REST][(i - a) + 1]
      BY <1>2, <3>1
    <3> QED
      BY <1>3, <3>1, <3>2
  <2> QED
    BY <1>1, <2>1, <2>2, <2>3
<1>7. f[M[k][a + b]].link \notin 1 .. Len(f)
  <2>1. b \in 1 .. b
    BY <1>1
  <2> QED
    BY <1>2, <1>5, <2>1
<1>8. \A i, j \in 1 .. Len(M[k]) : M[k][i] = M[k][j] => i = j
  <2>1. Apart(M)
    BY DEF IsJoin
  <2> QED
    BY <2>1 DEF Apart
<1>9. Len(M[k]) > 0
    BY <1>1, <1>2
<1> QED
    BY <1>1, <1>2, <1>6, <1>7, <1>8, <1>9 DEF Path

(* Lists as the links lead. *)
AtRest(M, f, h) ==
    /\ Typed(M, Len(f)) /\ Apart(M) /\ Heads(M, h)
    /\ \A k \in Slots : Len(M[k]) > 0 => Path(M[k], f)
    /\ \A b \in 1 .. Len(f) : f[b].page[2] = 1 => Len(M[b]) > 0

ShrinksIn(o, f) ==
    /\ o.kind = "update"
    /\ \/ o.at \in {"push", "unlink"}
       \/ o.at \in {"zero", "thread"} /\ f[o.tail].link # o.block

(* While an object is cut short the links lead from it into the free list; at any *)
(* other time they part the blocks.                                              *)
LEMMA Settle ==
    ASSUME NEW L, NEW o, NEW f, NEW h, NEW s, NEW c, Layout(L, o, f, h, s, c), ~ShrinksIn(o, f)
    PROVE  \E M : /\ AtRest(M, f, h)
                  /\ \A k \in Slots : k # o.id /\ k # REST => M[k] = L[k]
                  /\ o.kind = "update" => Len(M[REST]) = 0
<1>1. /\ Len(f) \in Nat /\ Typed(L, Len(f)) /\ Apart(L) /\ Heads(L, h) /\ Linked(L, f)
      /\ REST \in Slots /\ FREE \in Slots /\ REST # FREE /\ o.id # REST /\ o.id \in Slots
      /\ \A b \in 1 .. Len(f) : b \in Slots /\ b # REST /\ b # FREE
  <2>1. \A b \in 1 .. Len(f) : b \in Slots /\ b # REST /\ b # FREE
    BY ListFacts, JournalAssumption DEF Slots, REST, FREE
  <2> QED
    BY <2>1, ListFacts, SlotFacts, OpFacts DEF Layout
<1>2. CASE ~Freeing(o)
  <2>1. \A k \in Slots : Len(L[k]) > 0 => Path(L[k], f)
    BY <1>2, OwnPath
  <2>2. \A b \in 1 .. Len(f) : f[b].page[2] = 1 => Len(L[b]) > 0
    BY <1>2 DEF Layout, FirstPages, DeletesFirst, Freeing
  <2>3. Len(L[REST]) = 0
    BY <1>2 DEF Layout, Rest, Freeing
  <2> QED
    BY <1>1, <2>1, <2>2, <2>3 DEF AtRest
<1>3. CASE Freeing(o) /\ o.kind = "delete" /\ ~DeletesFirst(o)
  <2>1. Len(L[o.id]) = 0
    BY <1>3 DEF Layout, Deleting
  <2>2. \A k \in Slots : Len(L[k]) > 0 => Path(L[k], f)
    BY <2>1, OwnPath
  <2>3. \A b \in 1 .. Len(f) : f[b].page[2] = 1 => Len(L[b]) > 0
    BY <1>3 DEF Layout, FirstPages
  <2> QED
    BY <1>1, <1>3, <2>2, <2>3 DEF AtRest
<1>4. CASE (o.kind = "delete" /\ DeletesFirst(o)) \/ (o.kind = "update" /\ o.at = "zero")
  <2> DEFINE M == Join(L, o.id)
  <2>1. /\ o.at = "zero" /\ Freeing(o) /\ Len(L[REST]) > 0 /\ L[REST][1] = o.block
        /\ o.kind # "none" /\ o.id \in Ids /\ o.id # FREE
    BY <1>4, OpFacts DEF Layout, Rest, DeletesFirst, Freeing
  <2>2. IsJoin(M, L, o.id, Len(f))
    BY <1>1, JoinedList
  <2> HIDE DEF M
  <2>3. Path(L[REST], f)
    BY <1>1, <2>1, OwnPath
  <2>4. Len(L[o.id]) > 0 => f[L[o.id][Len(L[o.id])]].link = L[REST][1]
    <3>1. CASE o.kind = "delete"
      BY <3>1 DEF Layout, Deleting
    <3>2. CASE o.kind = "update"
      <4>1. o.tail = L[o.id][Len(L[o.id])]
        BY <2>1, <3>2 DEF Layout, Updating
      <4>2. f[o.tail].link = o.block
        BY <2>1, <3>2 DEF ShrinksIn
      <4> QED
        BY <2>1, <4>1, <4>2
    <3> QED
      BY <1>4, <3>1, <3>2
  <2>5. Path(M[o.id], f)
    BY <1>1, <2>2, <2>3, <2>4, JoinedPath
  <2>6. /\ Typed(M, Len(f)) /\ Apart(M) /\ Len(M[REST]) = 0
        /\ \A k \in Slots : k # o.id /\ k # REST => M[k] = L[k]
    BY <2>2 DEF IsJoin
  <2>7. ASSUME NEW k \in Slots, Len(M[k]) > 0
        PROVE  Path(M[k], f)
    <3>1. CASE k = o.id
      BY <2>5, <3>1
    <3>2. CASE k # o.id
      BY <2>6, <2>7, <3>2, OwnPath
    <3> QED
      BY <3>1, <3>2
  <2>8. M[o.id][1] = o.id /\ Len(M[o.id]) > 0
    <3>1. Len(M[o.id]) > 0
      BY <2>5 DEF Path
    <3>2. CASE o.kind = "delete"
      <4>1. Len(L[o.id]) = 0 /\ o.block = o.id /\ 1 \in 1 .. Len(L[REST]) /\ 0 + 1 = 1
        BY <1>1, <1>4, <2>1, <3>2, ListFacts DEF Layout, Deleting, DeletesFirst
      <4>2. M[o.id][0 + 1] = L[REST][1]
        BY <2>2, <4>1 DEF IsJoin
      <4> QED
        BY <2>1, <3>1, <4>1, <4>2
    <3>3. CASE o.kind = "update"
      <4>1. 1 \in 1 .. Len(L[o.id]) /\ L[o.id][1] = o.id
        BY <3>3, UpdateFacts
      <4> QED
        BY <2>2, <3>1, <4>1 DEF IsJoin
    <3> QED
      BY <1>4, <3>2, <3>3
  <2>9. Heads(M, h)
    <3>1. M[FREE] = L[FREE] /\ \A b \in Ids : b # o.id => M[b] = L[b]
      BY <1>1, <2>1, <2>6, SlotFacts
    <3> QED
      BY <1>1, <2>8, <3>1 DEF Heads
  <2>10. ASSUME NEW b \in 1 .. Len(f), f[b].page[2] = 1
         PROVE  Len(M[b]) > 0
    <3>1. CASE b = o.id
      BY <2>8, <3>1
    <3>2. CASE b # o.id
      <4>1. Len(L[b]) > 0
        BY <2>10, <3>2 DEF Layout, FirstPages
      <4> QED
        BY <1>1, <2>6, <3>2, <4>1
    <3> QED
      BY <3>1, <3>2
  <2>11. AtRest(M, f, h)
    BY <2>6, <2>7, <2>9, <2>10 DEF AtRest
  <2> QED
    BY <2>6, <2>11
<1>5. CASE o.kind = "update" /\ o.at = "thread"
  <2> DEFINE K == Put(L, REST, << >>)
             M == Put(K, o.id, Append(K[o.id], o.block))
  <2>1. /\ o.block \in 1 .. Len(f) /\ Loose(L, o.block) /\ f[o.block].link = 0
        /\ Len(L[o.id]) \in Nat \ {0} /\ o.tail = L[o.id][Len(L[o.id])] /\ f[o.tail].link = o.block
        /\ o.id \in Ids /\ o.id # FREE /\ L[o.id][1] = o.id
    <3>1. o.block \in 1 .. Len(f) /\ Loose(L, o.block) /\ f[o.block].link = 0
      BY <1>5 DEF Layout, Transit, InTransit
    <3>2. o.tail = L[o.id][Len(L[o.id])]
      BY <1>5 DEF Layout, Updating
    <3>3. f[o.tail].link = o.block
      BY <1>5 DEF ShrinksIn
    <3> QED
      BY <1>5, <3>1, <3>2, <3>3, UpdateFacts
  <2>k. Typed(K, Len(f)) /\ Apart(K) /\ Len(K[REST]) = 0 /\ K[REST] = << >> /\ \A k \in Slots : k # REST => K[k] = L[k]
    BY <1>1, DroppedList
  <2> HIDE DEF K
  <2>l. Loose(K, o.block)
    BY <2>1, <2>k, EmptySeq DEF Loose
  <2>m. /\ Typed(M, Len(f)) /\ Apart(M) /\ Len(M[o.id]) = Len(K[o.id]) + 1
        /\ M[o.id][Len(K[o.id]) + 1] = o.block /\ \A i \in 1 .. Len(K[o.id]) : M[o.id][i] = K[o.id][i]
        /\ \A l \in Slots : l # o.id => M[l] = K[l]
    <3>1. /\ Len(f) \in Nat /\ Typed(K, Len(f)) /\ Apart(K) /\ o.id \in Slots
          /\ o.block \in 1 .. Len(f) /\ Loose(K, o.block)
      BY <1>1, <2>1, <2>k, <2>l
    <3>2. IsAppended(M, K, o.id, o.block, Len(f))
      BY <3>1, AppendedList
    <3> QED
      BY <3>2 DEF IsAppended
  <2> HIDE DEF M
  <2>2. /\ Typed(M, Len(f)) /\ Apart(M) /\ Len(M[o.id]) = Len(L[o.id]) + 1
        /\ M[o.id][Len(L[o.id]) + 1] = o.block /\ \A i \in 1 .. Len(L[o.id]) : M[o.id][i] = L[o.id][i]
        /\ \A l \in Slots : l # o.id /\ l # REST => M[l] = L[l]
        /\ M[REST] = << >> /\ Len(M[REST]) = 0
    <3>1. K[o.id] = L[o.id] /\ M[REST] = K[REST]
      BY <1>1, <2>k, <2>m
    <3>2. \A l \in Slots : l # o.id /\ l # REST => M[l] = L[l]
      BY <2>k, <2>m
    <3> QED
      BY <2>k, <2>m, <3>1, <3>2
  <2>3. Path(M[o.id], f)
    <3>1. M[o.id] \in Seq(1 .. Len(f)) /\ Len(M[o.id]) > 0
      <4>1. M[o.id] \in Seq(1 .. Len(f))
        BY <1>1, <2>2 DEF Typed
      <4>2. Len(M[o.id]) > 0
        BY <2>1, <2>2
      <4> QED
        BY <4>1, <4>2
    <3>2. ASSUME NEW i \in 1 .. Len(M[o.id]), i < Len(M[o.id])
          PROVE  f[M[o.id][i]].link = M[o.id][i + 1]
      <4>1. i \in 1 .. Len(L[o.id])
        BY <2>1, <2>2, <3>2
      <4>2. CASE i = Len(L[o.id])
        BY <2>1, <2>2, <4>1, <4>2
      <4>3. CASE i # Len(L[o.id])
        <5>1. i < Len(L[o.id]) /\ i + 1 \in 1 .. Len(L[o.id])
          BY <2>1, <4>1, <4>3
        <5>2. f[L[o.id][i]].link = L[o.id][i + 1]
          BY <1>1, <4>1, <5>1 DEF Linked, Follows
        <5> QED
          BY <2>2, <4>1, <5>1, <5>2
      <4> QED
        BY <4>2, <4>3
    <3>3. f[M[o.id][Len(M[o.id])]].link \notin 1 .. Len(f)
      BY <1>1, <2>1, <2>2
    <3>4. \A i, j \in 1 .. Len(M[o.id]) : M[o.id][i] = M[o.id][j] => i = j
      BY <1>1, <2>2 DEF Apart
    <3> QED
      BY <3>1, <3>2, <3>3, <3>4 DEF Path
  <2>4. ASSUME NEW k \in Slots, Len(M[k]) > 0
        PROVE  Path(M[k], f)
    <3>1. CASE k = o.id
      BY <2>3, <3>1
    <3>2. CASE k # o.id
      BY <2>2, <2>4, <3>2, OwnPath
    <3> QED
      BY <3>1, <3>2
  <2>5. M[o.id][1] = o.id /\ Len(M[o.id]) > 0
    <3>1. 1 \in 1 .. Len(L[o.id])
      BY <2>1
    <3> QED
      BY <2>1, <2>2, <2>3, <3>1 DEF Path
  <2>6. Heads(M, h)
    <3>1. M[FREE] = L[FREE] /\ \A b \in Ids : b # o.id => M[b] = L[b]
      BY <1>1, <2>1, <2>2, SlotFacts
    <3> QED
      BY <1>1, <2>5, <3>1 DEF Heads
  <2>7. ASSUME NEW b \in 1 .. Len(f), f[b].page[2] = 1
        PROVE  Len(M[b]) > 0
    <3>1. CASE b = o.id
      BY <2>5, <3>1
    <3>2. CASE b # o.id
      <4>1. Len(L[b]) > 0
        BY <2>7, <3>2 DEF Layout, FirstPages
      <4> QED
        BY <1>1, <2>2, <3>2, <4>1
    <3> QED
      BY <3>1, <3>2
  <2> QED
    BY <1>1, <2>2, <2>4, <2>6, <2>7 DEF AtRest
<1> QED
  <2>1. Freeing(o) => o.kind \in {"delete", "update"}
    BY <1>1 DEF Layout, Freeing, Inserting, OpTypes, Operation
  <2>2. Freeing(o) /\ o.kind = "update" => o.at \in {"zero", "thread"}
    BY DEF Freeing, ShrinksIn
  <2> QED
    BY <1>2, <1>3, <1>4, <1>5, <2>1, <2>2
-----------------------------------------------------------------------------
(* The steps of the server keep a layout. *)

LEMMA ReadIsObject ==
    ASSUME NEW L, NEW o, NEW h, NEW s, NEW c, Layout(L, o, file, h, s, c), NEW b, IsObject(b)
    PROVE  b \in Ids /\ b \in 1 .. Len(file) /\ file[b].page[2] = 1
<1>1. Len(file) \in Nat /\ Len(file) <= MaxBlocks /\ DOMAIN file = 1 .. Len(file)
    BY ListFacts, FileFacts
<1> QED
    BY <1>1, JournalAssumption DEF IsObject, Ids

LEMMA ChainOfObject ==
    ASSUME NEW L, NEW h, NEW s, NEW c, Layout(L, NoOp, file, h, s, c), NEW b \in Ids, Len(L[b]) > 0
    PROVE  Chain(b) = L[b]
<1>1. Path(L[b], file) /\ L[b][1] = b
    BY OwnPath, NoOpFacts, SlotFacts DEF Layout, Heads
<1>2. Len(file) \in Nat /\ DOMAIN file = 1 .. Len(file)
    BY ListFacts, FileFacts
<1> QED
    BY <1>1, <1>2, ChainIsPath

LEMMA RequestKeepsLayout ==
    ASSUME NEW L, NEW c, Layout(L, op, file, head, stored, c), NEW w \in Workers, Request(w)
    PROVE  \E M : Layout(M, op', file', head', stored', c)
<1>1. op = NoOp /\ Len(file) \in Nat /\ DOMAIN file = 1 .. Len(file) /\ MaxBlocks \in Nat
    BY ListFacts, FileFacts, JournalAssumption
       DEF Request, InsertAtEnd, InsertWithoutGarbage, InsertInGarbage, Delete, Update, MayWrite
<1>2. Layout(L, NoOp, file, head, stored, c)
    BY <1>1
<1>3. CASE \E v \in Values : InsertAtEnd(w, v) \/ InsertWithoutGarbage(w, v)
  <2>1. PICK v \in Values : InsertAtEnd(w, v) \/ InsertWithoutGarbage(w, v)
    BY <1>3
  <2>2. /\ Len(file) + Pages[v] <= MaxBlocks
        /\ op' = Started("insert", "append", w, Len(file) + 1, v, 0)
        /\ file' = file /\ head' = head /\ stored' = stored
    BY <1>1, <2>1 DEF InsertAtEnd, InsertWithoutGarbage, Begin, Started, End
  <2> QED
    BY <1>2, <2>2, LayoutBeginAppend
<1>4. CASE \E v \in Values : InsertInGarbage(w, v)
  <2>1. PICK v \in Values : InsertInGarbage(w, v)
    BY <1>4
  <2>2. /\ Pages[v] = 1 /\ head # 0
        /\ op' = Started("insert", "clear", w, head, v, head)
        /\ file' = file /\ head' = file[head].link /\ stored' = stored
    BY <2>1 DEF InsertInGarbage, PopGarbage, Begin, Started
  <2> QED
    BY <1>2, <2>2, LayoutInsertInGarbage
<1>5. CASE \E id \in DOMAIN file : Delete(w, id)
  <2>1. PICK id \in DOMAIN file : Delete(w, id)
    BY <1>5
  <2>2. PICK v \in Values : Reads(id, v) /\ Log(w, id, v, DELETE) /\ Begin("delete", "zero", w, id, v, id)
    BY <2>1 DEF Delete
  <2>3. /\ op' = Started("delete", "zero", w, id, v, id)
        /\ file' = file /\ head' = head /\ stored' = stored
    BY <2>1, <2>2 DEF Delete, Begin, Started
  <2>4. id \in Ids /\ id \in 1 .. Len(file) /\ file[id].page[2] = 1
    BY <1>2, <2>2, ReadIsObject DEF Reads
  <2> QED
    BY <1>2, <2>3, <2>4, LayoutBeginDelete
<1>6. CASE \E id \in DOMAIN file : \E v \in Values : Update(w, id, v)
  <2>1. PICK id \in DOMAIN file : \E v \in Values : Update(w, id, v)
    BY <1>6
  <2>2. PICK v \in Values : Update(w, id, v)
    BY <2>1
  <2>3. /\ op' = Started("update", "page", w, id, v, id)
        /\ file' = file /\ head' = head /\ stored' = stored
        /\ Len(file) + Pages[v] - Len(Chain(id)) <= MaxBlocks
        /\ IsObject(id)
    BY <2>2 DEF Update, Begin, Started, Reads
  <2>4. id \in Ids /\ id \in 1 .. Len(file) /\ file[id].page[2] = 1
    BY <1>2, <2>3, ReadIsObject
  <2>5. Len(L[id]) > 0
    BY <1>2, <2>4, NoOpFacts DEF Layout, FirstPages
  <2>6. Chain(id) = L[id]
    BY <1>2, <2>4, <2>5, ChainOfObject
  <2> QED
    BY <1>2, <2>3, <2>4, <2>6, LayoutBeginUpdate
<1> QED
    BY <1>3, <1>4, <1>5, <1>6 DEF Request

LEMMA WriteKeepsLayout ==
    ASSUME NEW L, NEW c, Layout(L, op, file, head, stored, c), WriteStep
    PROVE  \E M : Layout(M, op', file', head', stored', c)
<1>1. CASE AppendChain
  <2>1. /\ op.kind = "insert" /\ op.at = "append" /\ op' = NoOp /\ head' = head
        /\ file' = file \o NewChain(op.val) /\ stored' = [stored EXCEPT ![op.id] = op.val]
    BY <1>1 DEF AppendChain, At, Finish
  <2>2. NewChain(op.val) = Fresh(Len(file), op.val)
    BY DEF NewChain, Fresh
  <2> QED
    BY <2>1, <2>2, LayoutAppendChain
<1>2. CASE ClearPopped
  <2>1. /\ op.at = "clear" /\ head' = head /\ stored' = stored
        /\ op' = [op EXCEPT !.at = IF op.kind = "insert" THEN "log" ELSE "link"]
        /\ file' = [file EXCEPT ![op.block] = EmptyBlock]
    BY <1>2 DEF ClearPopped, GoTo, GoOn
  <2> QED
    BY <2>1, LayoutClear
<1>3. CASE LogPopped
  <2>1. /\ op.kind = "insert" /\ op.at = "log" /\ op' = [op EXCEPT !.at = "fill"]
        /\ head' = head /\ stored' = stored /\ file' = file
    BY <1>3 DEF LogPopped, At, GoTo, GoOn
  <2> QED
    BY <2>1, LayoutLog
<1>4. CASE FillPopped
  <2>1. /\ op.kind = "insert" /\ op.at = "fill" /\ op' = NoOp /\ head' = head
        /\ file' = [file EXCEPT ![op.block] = Block(<<op.val, 1>>, 0)]
        /\ stored' = [stored EXCEPT ![op.id] = op.val]
    BY <1>4 DEF FillPopped, At, Finish
  <2> QED
    BY <2>1, LayoutFill
<1>5. CASE WritePage
  <2>1. op.kind = "update" /\ op.at = "page" /\ head' = head /\ stored' = stored
    BY <1>5 DEF WritePage, At, GoOn
  <2>2. CASE op.block = Len(file) + 1
    <3>1. /\ op' = [op EXCEPT !.at = "end_block", !.tail = op.block]
          /\ file' = Append(file, Block(<<op.val, op.page>>, Missing))
      BY <1>5, <2>2 DEF WritePage, End
    <3> QED
      BY <2>1, <2>2, <3>1, LayoutWriteAtEnd
  <2>3. CASE op.block # Len(file) + 1
    <3>1. /\ op' = [op EXCEPT !.at = "linked", !.tail = op.block, !.next = file[op.block].link]
          /\ file' = [file EXCEPT ![op.block].page = <<op.val, op.page>>]
      BY <1>5, <2>3 DEF WritePage, End
    <3> QED
      BY <2>1, <2>3, <3>1, LayoutWritePage
  <2> QED
    BY <2>2, <2>3
<1>6. CASE EndBlock
  <2>1. /\ op.kind = "update" /\ op.at = "end_block" /\ head' = head /\ stored' = stored
        /\ op' = [op EXCEPT !.at = "linked", !.next = 0]
        /\ file' = [file EXCEPT ![op.tail].link = 0]
    BY <1>6 DEF EndBlock, At, GoOn
  <2> QED
    BY <2>1, LayoutEndBlock
<1>7. CASE NextPage
  <2>1. /\ op.kind = "update" /\ op.at = "linked" /\ op.page < Pages[op.val] /\ op.next # 0
        /\ op' = [op EXCEPT !.at = "page", !.page = @ + 1, !.block = op.next]
        /\ file' = file /\ head' = head /\ stored' = stored
    BY <1>7 DEF NextPage, At, More, GoOn
  <2> QED
    BY <2>1, LayoutNextPage
<1>8. CASE ExtendFromGarbage
  <2>1. /\ op.kind = "update" /\ op.at = "linked" /\ op.page < Pages[op.val] /\ op.next = 0
        /\ head # 0 /\ head' = file[head].link /\ op' = [op EXCEPT !.at = "clear", !.block = head]
        /\ file' = file /\ stored' = stored
    BY <1>8 DEF ExtendFromGarbage, PopGarbage, At, More, GoOn
  <2> QED
    BY <2>1, LayoutExtendFromGarbage
<1>9. CASE LinkPopped
  <2>1. /\ op.kind = "update" /\ op.at = "link" /\ head' = head /\ stored' = stored
        /\ op' = [op EXCEPT !.at = "page", !.page = @ + 1]
        /\ file' = [file EXCEPT ![op.tail].link = op.block]
    BY <1>9 DEF LinkPopped, At, GoOn
  <2> QED
    BY <2>1, LayoutLinkPopped
<1>10. CASE ExtendAtEnd
  <2>1. /\ op.kind = "update" /\ op.at = "linked" /\ op.page < Pages[op.val] /\ op.next = 0
        /\ op' = [op EXCEPT !.at = "page", !.page = @ + 1, !.block = Len(file) + 1]
        /\ file' = [file EXCEPT ![op.tail].link = Len(file) + 1]
        /\ head' = head /\ stored' = stored
    BY <1>10 DEF ExtendAtEnd, At, More, GoOn, End
  <2> QED
    BY <2>1, LayoutExtendAtEnd
<1>11. CASE FreeRest
  <2>1. /\ op.kind = "update" /\ op.at = "linked" /\ ~(op.page < Pages[op.val]) /\ op.next # 0
        /\ op' = [op EXCEPT !.at = "zero", !.block = op.next]
        /\ file' = file /\ head' = head /\ stored' = stored
    BY <1>11 DEF FreeRest, At, More, GoOn
  <2> QED
    BY <2>1, LayoutFreeRest
<1>12. CASE Unlink
  <2>1. /\ op.at = "unlink" \/ (op.kind = "update" /\ op.at = "linked" /\ ~(op.page < Pages[op.val]) /\ op.next = 0)
        /\ op' = NoOp /\ head' = head
        /\ file' = [file EXCEPT ![op.tail].link = 0] /\ stored' = [stored EXCEPT ![op.id] = op.val]
    BY <1>12 DEF Unlink, At, More, Finish
  <2>2. op.kind = "update"
    <3>1. OpTypes(op) /\ (op.kind = "none" => op.at = "none") /\ Inserting(L, op, file, stored) /\ Deleting(L, op)
      BY DEF Layout
    <3> QED
      BY <2>1, <3>1 DEF OpTypes, Operation, Inserting, Deleting
  <2> QED
    BY <2>1, <2>2, LayoutUnlink
<1>13. CASE ZeroBlock
  <2>1. /\ op.at = "zero" /\ head' = head /\ stored' = stored
        /\ op' = [op EXCEPT !.at = "thread", !.next = file[op.block].link]
        /\ file' = [file EXCEPT ![op.block] = EmptyBlock]
    BY <1>13 DEF ZeroBlock, GoOn
  <2> QED
    BY <2>1, LayoutZero
<1>14. CASE ThreadGarbage
  <2>1. /\ op.at = "thread" /\ head' = head /\ stored' = stored
        /\ op' = [op EXCEPT !.at = "push"]
        /\ file' = [file EXCEPT ![op.block].link = head]
    BY <1>14 DEF ThreadGarbage, GoTo, GoOn
  <2> QED
    BY <2>1, LayoutThread
<1>15. CASE PushAndNext
  <2>1. /\ op.at = "push" /\ op.next # 0 /\ head' = op.block /\ stored' = stored /\ file' = file
        /\ op' = [op EXCEPT !.at = "zero", !.block = op.next]
    BY <1>15 DEF PushAndNext, PushGarbage, GoOn
  <2> QED
    BY <2>1, LayoutPushNext
<1>16. CASE PushLastOfRest
  <2>1. /\ op.at = "push" /\ op.next = 0 /\ op.kind = "update" /\ head' = op.block
        /\ op' = [op EXCEPT !.at = "unlink"] /\ stored' = stored /\ file' = file
    BY <1>16 DEF PushLastOfRest, PushGarbage, GoTo, GoOn
  <2> QED
    BY <2>1, LayoutPushLastOfRest
<1>17. CASE PushLastOfObject
  <2>1. /\ op.at = "push" /\ op.next = 0 /\ op.kind = "delete" /\ head' = op.block
        /\ op' = NoOp /\ stored' = [stored EXCEPT ![op.id] = NoValue] /\ file' = file
    BY <1>17 DEF PushLastOfObject, PushGarbage, Finish
  <2> QED
    BY <2>1, LayoutPushLastOfObject
<1> QED
    BY <1>1, <1>2, <1>3, <1>4, <1>5, <1>6, <1>7, <1>8, <1>9, <1>10, <1>11, <1>12, <1>13, <1>14,
       <1>15, <1>16, <1>17 DEF WriteStep

LEMMA RunningKeepsLayout ==
    ASSUME NEW L, NEW c, Layout(L, op, file, head, stored, c), Running
    PROVE  \E M : Layout(M, op', file', head', stored', c)
<1>1. CASE \E w \in Workers : Reopen(w) \/ JournalStep(w)
  <2>1. op' = op /\ file' = file /\ head' = head /\ stored' = stored
    BY <1>1 DEF Reopen, JournalStep, DropOwnRecords, TellOthers, DropRecords, RenameJournal, fileVars
  <2> QED
    BY <2>1
<1> QED
    BY <1>1, RequestKeepsLayout, WriteKeepsLayout DEF Running
-----------------------------------------------------------------------------
(* A restart keeps a layout: the check vouches for the interrupted operation. *)

LEMMA LayoutWeaker ==
    ASSUME NEW L, NEW o, NEW f, NEW h, NEW s, NEW c, Layout(L, o, f, h, s, c), NEW d, d => c
    PROVE  Layout(L, o, f, h, s, d)
    BY DEF Layout

LEMMA RestLayout ==
    ASSUME NEW M, NEW f, NEW h, NEW t \in [Ids -> Values \cup {NoValue}], FileTypes(f),
           AtRest(M, f, h), Len(M[REST]) = 0,
           \A k \in Slots : Len(M[k]) > 0 => f[M[k][Len(M[k])]].link = 0,
           \A b \in Ids : IF t[b] = NoValue THEN Len(M[b]) = 0 ELSE Holds(M, f, b, t[b])
    PROVE  Layout(M, NoOp, f, h, t, FALSE)
<1>1. Typed(M, Len(f)) /\ Apart(M) /\ Heads(M, h)
    BY DEF AtRest
<1>2. Linked(M, f)
  <2>1. ASSUME NEW k \in Slots, NEW i \in 1 .. Len(M[k]), i < Len(M[k])
        PROVE  f[M[k][i]].link = M[k][i + 1]
    <3>1. Len(M[k]) \in Nat
      BY <1>1, LenProperties DEF Typed
    <3>2. Path(M[k], f)
      BY <2>1, <3>1 DEF AtRest
    <3> QED
      BY <2>1, <3>2 DEF Path
  <2> QED
    BY <2>1 DEF Linked, Follows
<1>3. Ends(M, NoOp, f)
    BY NoOpFacts DEF Ends
<1>4. FirstPages(M, NoOp, f)
    BY DEF AtRest, FirstPages
<1>5. Contents(M, NoOp, f, t)
    BY DEF Contents
<1>6. Rest(M, NoOp)
    BY NoOpFacts DEF Rest
<1> QED
    BY <1>1, <1>2, <1>3, <1>4, <1>5, <1>6, NoOpFacts DEF Layout

(* An insert that had logged nothing left no trace but a lost block. *)
LEMMA LayoutDropInsert ==
    ASSUME NEW L, NEW o, NEW f, NEW h, NEW s, NEW c, Layout(L, o, f, h, s, c),
           o.kind = "insert", o.at \in {"clear", "log"}
    PROVE  Layout(L, NoOp, f, h, s, FALSE)
<1>1. ~Freeing(o) /\ ~DeletesFirst(o) /\ EndLink(o, f) = 0 /\ o.at \notin {"zero", "thread", "push"}
    BY DEF Freeing, DeletesFirst, EndLink
<1>2. Len(L[o.id]) = 0 /\ s[o.id] = NoValue
    BY DEF Layout, Inserting
<1>3. AtRest(L, f, h)
  <2>1. \A k \in Slots : Len(L[k]) > 0 => Path(L[k], f)
    BY <1>1, OwnPath
  <2>2. \A b \in 1 .. Len(f) : f[b].page[2] = 1 => Len(L[b]) > 0
    BY <1>1 DEF Layout, FirstPages
  <2> QED
    BY <2>1, <2>2 DEF AtRest, Layout
<1>4. Len(L[REST]) = 0 /\ FileTypes(f) /\ s \in [Ids -> Values \cup {NoValue}]
    BY <1>1 DEF Layout, Rest
<1>5. \A k \in Slots : Len(L[k]) > 0 => f[L[k][Len(L[k])]].link = 0
    BY <1>1 DEF Layout, Ends
<1>6. \A b \in Ids : IF s[b] = NoValue THEN Len(L[b]) = 0 ELSE Holds(L, f, b, s[b])
    BY <1>2 DEF Layout, Contents
<1> QED
    BY <1>3, <1>4, <1>5, <1>6, RestLayout

(* The blocks a delete had yet to free belong to nobody. *)
LEMMA LayoutDropDelete ==
    ASSUME NEW L, NEW o, NEW f, NEW h, NEW s, NEW c, Layout(L, o, f, h, s, c),
           o.kind = "delete", ~(o.id \in 1 .. Len(f) /\ f[o.id].page[2] = 1)
    PROVE  Layout(Put(L, REST, << >>), NoOp, f, h, [s EXCEPT ![o.id] = NoValue], FALSE)
<1> DEFINE M == Put(L, REST, << >>)
           t == [s EXCEPT ![o.id] = NoValue]
<1>1. /\ Len(f) \in Nat /\ FileTypes(f) /\ o.id \in Ids /\ o.id # REST /\ Len(L[o.id]) = 0
      /\ \A b \in Ids : b \in Slots /\ b # REST /\ b # FREE
      /\ \A b \in 1 .. Len(f) : b \in Ids
  <2>1. \A b \in 1 .. Len(f) : b \in Ids
    BY ListFacts, JournalAssumption DEF Ids
  <2> QED
    BY <2>1, ListFacts, SlotFacts, OpFacts DEF Layout, Deleting
<1>2. /\ Typed(M, Len(f)) /\ Apart(M) /\ Len(M[REST]) = 0
      /\ \A k \in Slots : k # REST => M[k] = L[k]
    BY <1>1, DroppedList DEF Layout
<1>3. /\ t \in [Ids -> Values \cup {NoValue}] /\ t[o.id] = NoValue
      /\ \A b \in Ids : b # o.id => t[b] = s[b]
    BY <1>1 DEF Layout
<1> HIDE DEF M, t
<1>4. AtRest(M, f, h)
  <2>1. ASSUME NEW k \in Slots, Len(M[k]) > 0
        PROVE  Path(M[k], f)
    <3>1. k # REST /\ k # o.id /\ M[k] = L[k]
      BY <1>1, <1>2, <2>1
    <3> QED
      BY <2>1, <3>1, OwnPath
  <2>2. ASSUME NEW b \in 1 .. Len(f), f[b].page[2] = 1
        PROVE  Len(M[b]) > 0
    <3>1. Len(L[b]) > 0
      BY <2>2 DEF Layout, FirstPages
    <3> QED
      BY <1>1, <1>2, <3>1
  <2>3. Heads(M, h)
    BY <1>1, <1>2, SlotFacts DEF Layout, Heads
  <2> QED
    BY <1>2, <2>1, <2>2, <2>3 DEF AtRest
<1>5. ASSUME NEW k \in Slots, Len(M[k]) > 0
      PROVE  f[M[k][Len(M[k])]].link = 0
  <2>1. k # REST /\ k # o.id /\ M[k] = L[k]
    BY <1>1, <1>2, <1>5
  <2> QED
    BY <1>5, <2>1 DEF Layout, Ends
<1>6. ASSUME NEW b \in Ids
      PROVE  IF t[b] = NoValue THEN Len(M[b]) = 0 ELSE Holds(M, f, b, t[b])
  <2>1. M[b] = L[b]
    BY <1>1, <1>2
  <2>2. CASE b = o.id
    BY <1>1, <1>3, <2>1, <2>2
  <2>3. CASE b # o.id
    BY <1>3, <2>1, <2>3 DEF Layout, Contents, Holds
  <2> QED
    BY <2>2, <2>3
<1>7. Layout(M, NoOp, f, h, t, FALSE)
    BY <1>1, <1>2, <1>3, <1>4, <1>5, <1>6, RestLayout
<1> QED
    BY <1>7 DEF M, t

(* An update whose object reads as it was logged is complete. *)
LEMMA LayoutKeepUpdate ==
    ASSUME NEW L, NEW o, NEW h, NEW s, NEW c, Layout(L, o, file, h, s, c),
           o.kind = "update", ~ShrinksIn(o, file), Reads(o.id, o.val)
    PROVE  \E M : Layout(M, NoOp, file, h, [s EXCEPT ![o.id] = o.val], FALSE)
<1> DEFINE t == [s EXCEPT ![o.id] = o.val]
<1>1. /\ Len(file) \in Nat /\ FileTypes(file) /\ DOMAIN file = 1 .. Len(file)
      /\ o.id \in Ids /\ o.id \in Slots /\ o.id # REST /\ o.val \in Values
      /\ \A b \in Ids : b \in Slots /\ b # REST
    BY ListFacts, FileFacts, SlotFacts, OpFacts
<1>2. /\ t \in [Ids -> Values \cup {NoValue}] /\ t[o.id] = o.val /\ o.val # NoValue
      /\ \A b \in Ids : b # o.id => t[b] = s[b]
    BY <1>1, BinFileAssumption DEF Layout
<1> HIDE DEF t
<1>3. PICK M : /\ AtRest(M, file, h) /\ Len(M[REST]) = 0
               /\ \A k \in Slots : k # o.id /\ k # REST => M[k] = L[k]
    BY Settle
<1>4. Len(M[o.id]) > 0 /\ M[o.id][1] = o.id /\ Path(M[o.id], file)
  <2>1. o.id \in 1 .. Len(file) /\ file[o.id].page[2] = 1
    BY <1>1 DEF Reads, IsObject
  <2> QED
    BY <1>1, <1>3, <2>1 DEF AtRest, Heads
<1>5. Chain(o.id) = M[o.id]
    BY <1>1, <1>4, ChainIsPath
<1>6. /\ file[M[o.id][Len(M[o.id])]].link = 0
      /\ Holds(M, file, o.id, o.val)
  <2>1. DOMAIN M[o.id] = 1 .. Len(M[o.id])
    BY <1>4, LenProperties DEF Path
  <2> QED
    BY <1>5, <2>1 DEF Reads, Holds, Last
<1>7. ASSUME NEW k \in Slots, Len(M[k]) > 0
      PROVE  file[M[k][Len(M[k])]].link = 0
  <2>1. CASE k = o.id
    BY <1>6, <2>1
  <2>2. CASE k # o.id
    <3>1. M[k] = L[k]
      BY <1>3, <1>7, <2>2
    <3> QED
      BY <1>7, <2>2, <3>1 DEF Layout, Ends
  <2> QED
    BY <2>1, <2>2
<1>8. ASSUME NEW b \in Ids
      PROVE  IF t[b] = NoValue THEN Len(M[b]) = 0 ELSE Holds(M, file, b, t[b])
  <2>1. CASE b = o.id
    BY <1>2, <1>6, <2>1
  <2>2. CASE b # o.id
    <3>1. M[b] = L[b] /\ t[b] = s[b]
      BY <1>1, <1>2, <1>3, <2>2
    <3> QED
      BY <2>2, <3>1 DEF Layout, Contents, Holds
  <2> QED
    BY <2>1, <2>2
<1>9. Layout(M, NoOp, file, h, t, FALSE)
    BY <1>1, <1>2, <1>3, <1>7, <1>8, RestLayout
<1> QED
    BY <1>9 DEF t
-----------------------------------------------------------------------------
(* The steps of the server keep the invariant. *)

LEMMA ShrinkingFacts ==
    ASSUME NEW o
    PROVE  Shrinking(o) <=> ShrinksIn(o, file)
    BY DEF Shrinking, ShrinksIn

LEMMA LastEnded ==
    ASSUME NEW e \in Seq(Operation), e # << >>
    PROVE  Last(e) \in ToSet(e)
<1>1. Len(e) \in 1 .. Len(e) /\ DOMAIN e = 1 .. Len(e)
    BY LenProperties, EmptySeq
<1> QED
    BY <1>1 DEF Last, ToSet

(* What the check compares is the last record logged, and it is found so. *)
LEMMA RestartKeepsLayout ==
    ASSUME OtherTypes, NewestInv, status = "down", CheckAll, ~Unnoticed(interrupted),
           NEW L, Layout(L, interrupted, file, head, stored, Uninterrupted),
           stored' = IF Logged(interrupted)
                     THEN [stored EXCEPT ![interrupted.id] = Outcome(interrupted)] ELSE stored
    PROVE  \E M : Layout(M, NoOp, file, head, stored', Uninterrupted)
<1> DEFINE o == interrupted
<1>1. OpTypes(o) /\ (o.kind = "none" => o = NoOp) /\ o.kind \in {"none", "insert", "update", "delete"}
    BY DEF Layout, OpTypes, Operation
<1>2. CASE o = NoOp
    BY <1>2 DEF Logged
<1>3. ASSUME o # NoOp
      PROVE  ~Uninterrupted
  <2>1. ended \in Seq(Operation) /\ ended # << >> /\ o = Last(ended)
    BY DEF OtherTypes, interrupted
  <2> QED
    BY <1>3, <2>1, LastEnded DEF Uninterrupted
<1>4. CASE o # NoOp /\ ~Logged(o)
  <2>1. o.kind = "insert" /\ o.at \in {"clear", "log"} /\ stored' = stored
    BY <1>4 DEF Logged
  <2>2. Layout(L, NoOp, file, head, stored', FALSE)
    BY <2>1, LayoutDropInsert
  <2> QED
    BY <1>3, <1>4, <2>2, LayoutWeaker
<1>5. CASE Logged(o)
  <2>1. o # NoOp /\ Compared = newest /\ ~Shrinking(o)
    BY <1>5 DEF Unnoticed, Logged
  <2>2. /\ newest \in Record /\ newest.id = o.id /\ newest.val = o.val
        /\ newest.flags = DELETE <=> o.kind = "delete"
    BY <1>5 DEF NewestInv, Current
  <2>3. newest # NoRecord
    <3>1. newest.time \in 0 .. MaxTime
      BY <2>2 DEF Record
    <3>2. NoRecord.time = -1 /\ -1 \notin 0 .. MaxTime
      BY JournalAssumption DEF NoRecord
    <3> QED
      BY <3>1, <3>2
  <2>4. IF o.kind = "delete" THEN ~IsObject(o.id) ELSE Reads(o.id, o.val)
    BY <2>1, <2>2, <2>3 DEF CheckAll, MatchesLog
  <2>5. stored' = [stored EXCEPT ![o.id] = IF o.kind = "delete" THEN NoValue ELSE o.val]
    BY <1>5 DEF Outcome
  <2>6. DOMAIN file = 1 .. Len(file)
    BY ListFacts, FileFacts
  <2>10. Layout(L, o, file, head, stored, Uninterrupted)
    OBVIOUS
  <2>7. CASE o.kind = "delete"
    <3>1. ~(o.id \in 1 .. Len(file) /\ file[o.id].page[2] = 1)
      BY <2>4, <2>6, <2>7 DEF IsObject
    <3>2. Layout(Put(L, REST, << >>), NoOp, file, head, [stored EXCEPT ![o.id] = NoValue], FALSE)
      <4> HIDE DEF o
      <4> QED
        BY <2>7, <2>10, <3>1, LayoutDropDelete
    <3>3. stored' = [stored EXCEPT ![o.id] = NoValue]
      BY <2>5, <2>7
    <3>4. Layout(Put(L, REST, << >>), NoOp, file, head, stored', FALSE)
      BY <3>2, <3>3
    <3> QED
      BY <1>3, <2>1, <3>4, LayoutWeaker
  <2>8. CASE o.kind = "update"
    <3>1. ~ShrinksIn(o, file) /\ Reads(o.id, o.val) /\ stored' = [stored EXCEPT ![o.id] = o.val]
      BY <2>1, <2>4, <2>5, <2>8, ShrinkingFacts
    <3>2. PICK M : Layout(M, NoOp, file, head, [stored EXCEPT ![o.id] = o.val], FALSE)
      <4> HIDE DEF o
      <4> QED
        BY <2>8, <2>10, <3>1, LayoutKeepUpdate
    <3>3. Layout(M, NoOp, file, head, stored', FALSE)
      BY <3>1, <3>2
    <3> QED
      BY <1>3, <2>1, <3>3, LayoutWeaker
  <2>9. CASE o.kind = "insert"
    <3>1. o.id \in 1 .. Len(file) /\ file[o.id].page[2] = 1
      BY <2>4, <2>6, <2>9 DEF Reads, IsObject
    <3>2. Len(L[o.id]) > 0
      BY <2>9, <3>1 DEF Layout, FirstPages, DeletesFirst
    <3>3. Len(L[o.id]) = 0
      BY <2>9 DEF Layout, Inserting
    <3> QED
      BY <3>2, <3>3
  <2> QED
    BY <1>1, <2>1, <2>7, <2>8, <2>9
<1> QED
    BY <1>2, <1>4, <1>5

LEMMA InitLayout == Init => RecoveryInv
<1> SUFFICES ASSUME Init PROVE RecoveryInv
    OBVIOUS
<1>1. /\ file = << >> /\ head = 0 /\ op = NoOp /\ stored = [b \in Ids |-> NoValue]
      /\ status = "up" /\ ended = << >> /\ newest = NoRecord
      /\ journal = [w \in Workers |-> << >>] /\ since = [w \in Workers |-> 0]
      /\ missing = [w \in Workers |-> FALSE] /\ now = 0
      /\ has_garbage = [w \in Workers |-> FALSE] /\ reopened = [w \in Workers |-> FALSE]
      /\ drops = [w \in Workers |-> 0] /\ owes = [w \in Workers |-> FALSE]
    BY DEF Init, FileInit, JournalInit
<1>2. OtherTypes
  <2>1. 0 \in 0 .. MaxTime /\ 0 \in Nat
    BY JournalAssumption
  <2>2. << >> \in Seq(Record) /\ << >> \in Seq(Operation)
    BY EmptySeq
  <2> QED
    BY <1>1, <2>1, <2>2 DEF OtherTypes
<1>3. LayoutInv
  <2> DEFINE e == << >>
             L == [k \in Slots |-> e]
             t == [b \in Ids |-> NoValue]
  <2>1. e \in Seq(Block_) /\ Len(e) = 0 /\ e \in Seq(1 .. Len(e)) /\ FileTypes(e)
    BY EmptySeq, JournalAssumption DEF FileTypes
  <2> HIDE DEF e
  <2>2. Typed(L, Len(e)) /\ \A k \in Slots : Len(L[k]) = 0
    BY <2>1 DEF Typed
  <2>3. t \in [Ids -> Values \cup {NoValue}] /\ \A b \in Ids : t[b] = NoValue
    OBVIOUS
  <2> HIDE DEF L, t
  <2>4. Apart(L)
    BY <2>2 DEF Apart
  <2>5. Heads(L, 0)
    BY <2>2, SlotFacts DEF Heads
  <2>6. AtRest(L, e, 0)
    BY <2>1, <2>2, <2>4, <2>5 DEF AtRest
  <2>11. Len(L[REST]) = 0 /\ \A k \in Slots : ~(Len(L[k]) > 0)
    BY <2>2, SlotFacts
  <2>12. \A b \in Ids : IF t[b] = NoValue THEN Len(L[b]) = 0 ELSE Holds(L, e, b, t[b])
    BY <2>2, <2>3, SlotFacts
  <2>7. Layout(L, NoOp, e, 0, t, FALSE)
    BY <2>1, <2>3, <2>6, <2>11, <2>12, RestLayout
  <2>8. Covers(L, NoOp, e)
    BY <2>1 DEF Covers
  <2>9. Layout(L, NoOp, e, 0, t, Uninterrupted)
    BY <2>7, <2>8 DEF Layout
  <2>10. e = << >> /\ t = stored
    BY <1>1 DEF e, t
  <2> QED
    BY <1>1, <2>9, <2>10 DEF LayoutInv, Left, Current
<1>4. NewestInv
    BY <1>1 DEF NewestInv, Current, Logged
<1>5. Refusal
    BY <1>1 DEF Refusal
<1> QED
    BY <1>2, <1>3, <1>4, <1>5 DEF RecoveryInv

(* Every step leaves a layout. *)
LEMMA NextKeepsLayout ==
    ASSUME RecoveryInv, Next
    PROVE  LayoutInv'
<1>1. PICK L : \E s : Left(s) /\ Layout(L, Current, file, head, s, Uninterrupted)
    BY DEF RecoveryInv, LayoutInv
<1>2. PICK s : Left(s) /\ Layout(L, Current, file, head, s, Uninterrupted)
    BY <1>1
<1>3. OtherTypes /\ NewestInv
    BY DEF RecoveryInv
<1>4. CASE status = "up" /\ Running /\ UNCHANGED <<status, ended>>
  <2>1. Layout(L, op, file, head, stored, Uninterrupted)
    BY <1>2, <1>4 DEF Left, Current
  <2>2. PICK M : Layout(M, op', file', head', stored', Uninterrupted)
    BY <1>4, <2>1, RunningKeepsLayout
  <2>3. Current' = op' /\ Uninterrupted' = Uninterrupted
    BY <1>4 DEF Current, Uninterrupted
  <2> QED
    BY <2>2, <2>3 DEF LayoutInv, Left
<1>5. CASE Tick /\ UNCHANGED <<fileVars, status, ended>>
  <2>1. Current' = Current /\ Uninterrupted' = Uninterrupted /\ file' = file /\ head' = head /\ Left(s)'
    BY <1>2, <1>5 DEF Current, interrupted, Uninterrupted, fileVars, Left
  <2> QED
    BY <1>2, <2>1 DEF LayoutInv
<1>6. CASE Stop
  <2>1. /\ status = "up" /\ status' = "down" /\ ended' = Append(ended, op)
        /\ file' = file /\ head' = head /\ stored' = stored
    BY <1>6 DEF Stop
  <2>2. Layout(L, op, file, head, stored, Uninterrupted)
    BY <1>2, <2>1 DEF Left, Current
  <2>3. ended \in Seq(Operation) /\ op \in Operation
    BY <1>3, <2>2 DEF OtherTypes, Layout, OpTypes
  <2>4. /\ ended' \in Seq(Operation) /\ Len(ended') = Len(ended) + 1
        /\ \A i \in 1 .. Len(ended) : ended'[i] = ended[i]
        /\ ended'[Len(ended) + 1] = op /\ Len(ended) \in Nat
    BY <2>1, <2>3, AppendProperties, LenProperties
  <2>5. Current' = op
    BY <2>1, <2>4, EmptySeq DEF Current, interrupted, Last
  <2>6. Uninterrupted' => Uninterrupted
    <3>1. DOMAIN ended = 1 .. Len(ended) /\ DOMAIN ended' = 1 .. Len(ended')
      BY <2>3, <2>4, LenProperties
    <3>2. \A i \in 1 .. Len(ended) : i \in 1 .. Len(ended')
      BY <2>4
    <3> QED
      BY <2>4, <3>1, <3>2 DEF Uninterrupted, ToSet
  <2>7. Layout(L, op, file, head, stored, Uninterrupted')
    BY <2>2, <2>6, LayoutWeaker
  <2> QED
    BY <2>1, <2>5, <2>7 DEF LayoutInv, Left
<1>7. CASE RestartPasses
  <2>1. /\ status = "down" /\ CheckAll /\ file' = file /\ head' = head /\ op' = op /\ ended' = ended
        /\ stored' = IF Logged(interrupted)
                     THEN [stored EXCEPT ![interrupted.id] = Outcome(interrupted)] ELSE stored
        /\ status' = IF Unnoticed(interrupted) THEN "unnoticed" ELSE "up"
    BY <1>7 DEF RestartPasses
  <2>2. Layout(L, interrupted, file, head, stored, Uninterrupted) /\ op = NoOp
    BY <1>2, <1>3, <2>1 DEF Left, Current, OtherTypes
  <2>3. interrupted' = interrupted /\ Uninterrupted' = Uninterrupted
    BY <2>1 DEF interrupted, Uninterrupted
  <2>4. CASE Unnoticed(interrupted)
    <3>1. status' = "unnoticed" /\ Current' = interrupted
      BY <2>1, <2>3, <2>4 DEF Current
    <3> QED
      BY <2>1, <2>2, <2>3, <3>1 DEF LayoutInv, Left
  <2>5. CASE ~Unnoticed(interrupted)
    <3>1. Current' = NoOp
      BY <2>1, <2>2, <2>5 DEF Current
    <3>2. PICK M : Layout(M, NoOp, file, head, stored', Uninterrupted)
      BY <1>3, <2>1, <2>2, <2>5, RestartKeepsLayout
    <3> QED
      BY <2>1, <2>3, <3>1, <3>2 DEF LayoutInv, Left
  <2> QED
    BY <2>4, <2>5
<1>8. CASE RestartRefused
  <2>1. /\ status = "down" /\ status' = "refused" /\ ended' = ended
        /\ file' = file /\ head' = head /\ stored' = stored
    BY <1>8 DEF RestartRefused, fileVars
  <2>2. Current' = Current /\ Uninterrupted' = Uninterrupted /\ Left(s)'
    BY <1>2, <2>1 DEF Current, interrupted, Uninterrupted, Left
  <2> QED
    BY <1>2, <2>1, <2>2 DEF LayoutInv
<1> QED
    BY <1>4, <1>5, <1>6, <1>7, <1>8 DEF Next
-----------------------------------------------------------------------------
(* The types of the other variables. *)

JournalTypes ==
    /\ journal \in [Workers -> Seq(Record)] /\ since \in [Workers -> 0..MaxTime]
    /\ missing \in [Workers -> BOOLEAN]
    /\ now \in 0..MaxTime /\ newest \in Record \cup {NoRecord}

LEMMA ReplaceTypes ==
    ASSUME JournalTypes, NEW w \in Workers, Replace(w)
    PROVE  /\ journal' \in [Workers -> Seq(Record)] /\ since' \in [Workers -> 0..MaxTime]
           /\ missing' \in [Workers -> BOOLEAN]
<1>1. << >> \in Seq(Record)
    BY EmptySeq
<1> QED
    BY <1>1 DEF JournalTypes, Replace

LEMMA DeleteOpsTypes ==
    ASSUME JournalTypes, NEW w \in Workers, DeleteOps(w)
    PROVE  JournalTypes'
<1>1. Replace(w) /\ now' = now /\ newest' = newest
    BY DEF DeleteOps
<1> QED
    BY <1>1, ReplaceTypes DEF JournalTypes

LEMMA RenameTypes ==
    ASSUME JournalTypes, NEW w \in Workers, Rename(w)
    PROVE  JournalTypes'
    BY DEF JournalTypes, Rename

(* The record of a write. *)
RecordOf(id, v, flags) == [time |-> now, id |-> id, val |-> v, flags |-> flags]

LEMMA LogTypes ==
    ASSUME JournalTypes, NEW w \in Workers, NEW id \in Ids, NEW v \in Values,
           NEW flags \in {INSERT, UPDATE, DELETE}, Log(w, id, v, flags)
    PROVE  JournalTypes' /\ newest' = RecordOf(id, v, flags) /\ newest' \in Record
<1> DEFINE r == RecordOf(id, v, flags)
<1>1. r \in Record
    BY DEF JournalTypes, RecordOf, Record
<1>2. /\ newest' = r /\ now' = now
      /\ \/ journal' = [journal EXCEPT ![w] = Append(@, r)] /\ UNCHANGED <<since, missing>>
         \/ Replace(w)
    BY DEF Log, Clean, RecordOf
<1> HIDE DEF r
<1>3. CASE journal' = [journal EXCEPT ![w] = Append(@, r)] /\ UNCHANGED <<since, missing>>
  <2>1. Append(journal[w], r) \in Seq(Record)
    BY <1>1, AppendProperties DEF JournalTypes
  <2>2. journal' \in [Workers -> Seq(Record)]
    BY <1>3, <2>1 DEF JournalTypes
  <2> QED
    BY <1>1, <1>2, <1>3, <2>2 DEF JournalTypes, r
<1>4. CASE Replace(w)
    BY <1>1, <1>2, <1>4, ReplaceTypes DEF JournalTypes, r
<1> QED
    BY <1>2, <1>3, <1>4

(* What the workers know. *)
WorkerTypes ==
    /\ has_garbage \in [Workers -> BOOLEAN] /\ reopened \in [Workers -> BOOLEAN]
    /\ drops \in [Workers -> Nat] /\ owes \in [Workers -> BOOLEAN]

LEMMA RequestTypes ==
    ASSUME JournalTypes, WorkerTypes, DOMAIN file = 1 .. Len(file), Len(file) \in Nat,
           Len(file) <= MaxBlocks, NEW w \in Workers, Request(w)
    PROVE  JournalTypes' /\ WorkerTypes'
<1>0. MaxBlocks \in Nat /\ \A v \in Values : Pages[v] \in Nat \ {0}
    BY JournalAssumption, BinFileAssumption
<1>1. CASE \E v \in Values : InsertAtEnd(w, v) \/ InsertWithoutGarbage(w, v)
  <2>1. PICK v \in Values : InsertAtEnd(w, v) \/ InsertWithoutGarbage(w, v)
    BY <1>1
  <2>2. PICK flags \in {INSERT, UPDATE} : Log(w, End, v, flags)
    BY <2>1 DEF InsertAtEnd, InsertWithoutGarbage
  <2>3. End \in Ids
    <3>1. Len(file) + 1 <= MaxBlocks
      BY <1>0, <2>1 DEF InsertAtEnd, InsertWithoutGarbage
    <3> QED
      BY <1>0, <3>1 DEF End, Ids
  <2>4. JournalTypes'
    BY <2>2, <2>3, LogTypes
  <2>5. WorkerTypes'
    BY <2>1 DEF WorkerTypes, InsertAtEnd, InsertWithoutGarbage, Begin
  <2> QED
    BY <2>4, <2>5
<1>2. CASE \E v \in Values : InsertInGarbage(w, v)
    BY <1>2 DEF JournalTypes, WorkerTypes, InsertInGarbage, PopGarbage, Begin, journalVars
<1>3. CASE \E id \in DOMAIN file : Delete(w, id)
  <2>1. PICK id \in DOMAIN file : Delete(w, id)
    BY <1>3
  <2>2. PICK v \in Values : Log(w, id, v, DELETE) /\ Begin("delete", "zero", w, id, v, id)
    BY <2>1 DEF Delete
  <2>3. id \in Ids
    BY <1>0 DEF Ids
  <2>4. JournalTypes'
    BY <2>2, <2>3, LogTypes
  <2>5. WorkerTypes'
    BY <2>1, <2>2 DEF WorkerTypes, Delete, Begin
  <2> QED
    BY <2>4, <2>5
<1>4. CASE \E id \in DOMAIN file : \E v \in Values : Update(w, id, v)
  <2>1. PICK id \in DOMAIN file : \E v \in Values : Update(w, id, v)
    BY <1>4
  <2>2. PICK v \in Values : Update(w, id, v)
    BY <2>1
  <2>3. id \in Ids /\ Log(w, id, v, UPDATE)
    BY <1>0, <2>2 DEF Ids, Update
  <2>4. JournalTypes'
    BY <2>3, LogTypes
  <2>5. WorkerTypes'
    BY <2>2 DEF WorkerTypes, Update, Begin
  <2> QED
    BY <2>4, <2>5
<1> QED
    BY <1>1, <1>2, <1>3, <1>4 DEF Request

LEMMA WriteTypes ==
    ASSUME JournalTypes, WorkerTypes, OpTypes(op), WriteStep
    PROVE  JournalTypes' /\ WorkerTypes'
<1>1. op.kind # "none" /\ op.worker \in Workers /\ op.id \in Ids /\ op.val \in Values
    BY DEF OpTypes, WriteStep
<1>2. CASE LogPopped
  <2>1. JournalTypes'
    BY <1>1, <1>2, LogTypes DEF LogPopped
  <2>2. WorkerTypes'
    BY <1>2 DEF WorkerTypes, LogPopped, GoOn
  <2> QED
    BY <2>1, <2>2
<1>3. ASSUME ~LogPopped
      PROVE  UNCHANGED journalVars
    BY <1>3 DEF WriteStep, AppendChain, ClearPopped, FillPopped, WritePage, EndBlock, NextPage,
       ExtendFromGarbage, LinkPopped, ExtendAtEnd, FreeRest, Unlink, ZeroBlock, ThreadGarbage,
       PushAndNext, PushLastOfRest, PushLastOfObject
<1>4. JournalTypes'
    BY <1>2, <1>3 DEF JournalTypes, journalVars
<1>5. CASE AppendChain \/ ClearPopped \/ FillPopped \/ WritePage \/ EndBlock \/ NextPage
    BY <1>4, <1>5 DEF WorkerTypes, AppendChain, ClearPopped, FillPopped, WritePage, EndBlock, NextPage,
       Finish, GoOn
<1>6. CASE LinkPopped \/ ExtendAtEnd \/ FreeRest \/ Unlink \/ ZeroBlock \/ ThreadGarbage
    BY <1>4, <1>6 DEF WorkerTypes, LinkPopped, ExtendAtEnd, FreeRest, Unlink, ZeroBlock, ThreadGarbage,
       Finish, GoOn
<1>7. CASE ExtendFromGarbage
    BY <1>1, <1>4, <1>7 DEF WorkerTypes, ExtendFromGarbage, PopGarbage, GoOn
<1>8. CASE PushAndNext \/ PushLastOfRest \/ PushLastOfObject
    BY <1>1, <1>4, <1>8 DEF WorkerTypes, PushAndNext, PushLastOfRest, PushLastOfObject, PushGarbage,
       Finish, GoOn
<1> QED
    BY <1>2, <1>4, <1>5, <1>6, <1>7, <1>8 DEF WriteStep

LEMMA RunningTypes ==
    ASSUME JournalTypes, WorkerTypes, OpTypes(op), FileTypes(file), Running
    PROVE  JournalTypes' /\ WorkerTypes'
<1>1. DOMAIN file = 1 .. Len(file) /\ Len(file) \in Nat /\ Len(file) <= MaxBlocks
    BY FileFacts
<1>2. CASE \E w \in Workers : Request(w)
    BY <1>1, <1>2, RequestTypes
<1>3. CASE WriteStep
    BY <1>3, WriteTypes
<1>4. CASE \E w \in Workers : Reopen(w)
    BY <1>4 DEF JournalTypes, WorkerTypes, Reopen, journalVars
<1>5. CASE \E w \in Workers : JournalStep(w)
  <2>1. PICK w \in Workers : JournalStep(w)
    BY <1>5
  <2>2. CASE DropOwnRecords(w) \/ RenameJournal(w)
    <3>1. JournalTypes'
      BY <2>2, DeleteOpsTypes, RenameTypes DEF DropOwnRecords, RenameJournal
    <3>2. WorkerTypes'
      BY <2>2 DEF WorkerTypes, DropOwnRecords, RenameJournal, fileVars
    <3> QED
      BY <3>1, <3>2
  <2>3. CASE TellOthers(w)
    <3>1. JournalTypes'
      BY <2>3, RenameTypes DEF TellOthers
    <3>2. WorkerTypes'
      BY <2>3 DEF WorkerTypes, TellOthers
    <3> QED
      BY <3>1, <3>2
  <2>4. CASE DropRecords(w)
    <3>1. JournalTypes'
      BY <2>4, DeleteOpsTypes DEF DropRecords
    <3>2. WorkerTypes'
      BY <2>4 DEF WorkerTypes, DropRecords
    <3> QED
      BY <3>1, <3>2
  <2> QED
    BY <2>1, <2>2, <2>3, <2>4 DEF JournalStep
<1> QED
    BY <1>2, <1>3, <1>4, <1>5 DEF Running
-----------------------------------------------------------------------------
(* The last record logged. *)

(* The step logs the operation, or goes on with it, or finishes it as logged. *)
LogsIt ==
    \E id \in Ids : \E v \in Values : \E flags \in {INSERT, UPDATE, DELETE} :
        /\ newest' = RecordOf(id, v, flags)
        /\ Logged(op') /\ op'.id = id /\ op'.val = v
        /\ flags = DELETE <=> op'.kind = "delete"

GoesOn ==
    /\ newest' = newest /\ stored' = stored /\ (Logged(op') <=> Logged(op))
    /\ Logged(op) => op'.id = op.id /\ op'.val = op.val /\ op'.kind = op.kind

FinishesIt ==
    /\ newest' = newest /\ op' = NoOp /\ Logged(op)
    /\ stored' = [stored EXCEPT ![op.id] = IF op.kind = "delete" THEN NoValue ELSE op.val]

LEMMA LoggedFacts ==
    /\ ~Logged(NoOp)
    /\ \A o : o.kind \in {"update", "delete"} => Logged(o)
    /\ \A o : o.kind = "insert" => (Logged(o) <=> o.at \notin {"clear", "log"})
<1>1. NoOp.kind = "none"
    BY DEF NoOp
<1> HIDE DEF NoOp
<1> QED
    BY <1>1 DEF Logged

LEMMA StartedLogged ==
    ASSUME NEW kind, NEW stage, NEW w, NEW id, NEW v, NEW b
    PROVE  LET p == Started(kind, stage, w, id, v, b) IN
           p.kind = kind /\ p.at = stage /\ p.id = id /\ p.val = v
    BY DEF Started

LEMMA RequestNewest ==
    ASSUME FileTypes(file), NEW w \in Workers, Request(w)
    PROVE  LogsIt \/ GoesOn
<1>1. /\ op = NoOp /\ DOMAIN file = 1 .. Len(file) /\ Len(file) \in Nat /\ Len(file) <= MaxBlocks
      /\ MaxBlocks \in Nat /\ \A v \in Values : Pages[v] \in Nat \ {0}
      /\ INSERT # DELETE /\ UPDATE # DELETE
    BY FileFacts, JournalAssumption, BinFileAssumption
       DEF Request, InsertAtEnd, InsertWithoutGarbage, InsertInGarbage, Delete, Update, MayWrite,
           INSERT, UPDATE, DELETE
<1>2. CASE \E v \in Values : InsertAtEnd(w, v) \/ InsertWithoutGarbage(w, v)
  <2>1. PICK v \in Values : InsertAtEnd(w, v) \/ InsertWithoutGarbage(w, v)
    BY <1>2
  <2>2. PICK flags \in {INSERT, UPDATE} : Log(w, End, v, flags)
    BY <2>1 DEF InsertAtEnd, InsertWithoutGarbage
  <2>3. End \in Ids
    <3>1. Len(file) + 1 <= MaxBlocks
      BY <1>1, <2>1 DEF InsertAtEnd, InsertWithoutGarbage
    <3> QED
      BY <1>1, <3>1 DEF End, Ids
  <2>4. op' = Started("insert", "append", w, End, v, 0)
    BY <2>1 DEF InsertAtEnd, InsertWithoutGarbage, Begin, Started
  <2>5. op'.kind = "insert" /\ op'.at = "append" /\ op'.id = End /\ op'.val = v
    BY <2>4, StartedLogged
  <2>6. Logged(op') /\ (flags = DELETE <=> op'.kind = "delete")
    BY <1>1, <2>5, LoggedFacts
  <2>7. newest' = RecordOf(End, v, flags)
    BY <2>2 DEF Log, RecordOf
  <2> QED
    BY <2>2, <2>3, <2>5, <2>6, <2>7 DEF LogsIt
<1>3. CASE \E v \in Values : InsertInGarbage(w, v)
  <2>1. PICK v \in Values : InsertInGarbage(w, v)
    BY <1>3
  <2>2. /\ op' = Started("insert", "clear", w, head, v, head)
        /\ newest' = newest /\ stored' = stored
    BY <2>1 DEF InsertInGarbage, Begin, Started, journalVars
  <2>3. op'.kind = "insert" /\ op'.at = "clear"
    BY <2>2, StartedLogged
  <2> QED
    BY <1>1, <2>2, <2>3, LoggedFacts DEF GoesOn
<1>4. CASE \E id \in DOMAIN file : Delete(w, id)
  <2>1. PICK id \in DOMAIN file : Delete(w, id)
    BY <1>4
  <2>2. PICK v \in Values : Log(w, id, v, DELETE) /\ Begin("delete", "zero", w, id, v, id)
    BY <2>1 DEF Delete
  <2>3. op' = Started("delete", "zero", w, id, v, id)
    BY <2>2 DEF Begin, Started
  <2>4. op'.kind = "delete" /\ op'.id = id /\ op'.val = v
    BY <2>3, StartedLogged
  <2>5. id \in Ids /\ newest' = RecordOf(id, v, DELETE) /\ Logged(op')
    BY <1>1, <2>2, <2>4, LoggedFacts DEF Log, RecordOf, Ids
  <2> QED
    BY <2>4, <2>5 DEF LogsIt
<1>5. CASE \E id \in DOMAIN file : \E v \in Values : Update(w, id, v)
  <2>1. PICK id \in DOMAIN file : \E v \in Values : Update(w, id, v)
    BY <1>5
  <2>2. PICK v \in Values : Update(w, id, v)
    BY <2>1
  <2>3. op' = Started("update", "page", w, id, v, id) /\ Log(w, id, v, UPDATE)
    BY <2>2 DEF Update, Begin, Started
  <2>4. op'.kind = "update" /\ op'.id = id /\ op'.val = v
    BY <2>3, StartedLogged
  <2>5. id \in Ids /\ newest' = RecordOf(id, v, UPDATE) /\ Logged(op')
    BY <1>1, <2>3, <2>4, LoggedFacts DEF Log, RecordOf, Ids
  <2> QED
    BY <1>1, <2>4, <2>5 DEF LogsIt
<1> QED
    BY <1>2, <1>3, <1>4, <1>5 DEF Request

LEMMA WriteNewest ==
    ASSUME NEW L, NEW c, Layout(L, op, file, head, stored, c), WriteStep
    PROVE  LogsIt \/ GoesOn \/ FinishesIt
<1>1. /\ op \in Operation /\ op.kind # "none" /\ op.id \in Ids /\ op.val \in Values
      /\ op.kind \in {"insert", "update", "delete"}
    BY DEF Layout, OpTypes, Operation, WriteStep
<1>2. /\ op.kind = "insert" => op.at \in {"append", "clear", "log", "fill"}
      /\ op.kind = "delete" => op.at \in {"zero", "thread", "push"}
    BY DEF Layout, Inserting, Deleting
<1>3. CASE LogPopped
  <2>1. /\ op.kind = "insert" /\ op' = [op EXCEPT !.at = "fill"] /\ stored' = stored
        /\ newest' = RecordOf(op.id, op.val, UPDATE)
    BY <1>3 DEF LogPopped, At, GoTo, GoOn, Log, RecordOf
  <2>2. op'.kind = "insert" /\ op'.at = "fill" /\ op'.id = op.id /\ op'.val = op.val
    BY <1>1, <2>1 DEF Operation
  <2>3. Logged(op') /\ UPDATE # DELETE
    BY <2>2, LoggedFacts DEF UPDATE, DELETE
  <2> QED
    BY <1>1, <2>1, <2>2, <2>3 DEF LogsIt
<1>4. CASE AppendChain \/ FillPopped \/ Unlink \/ PushLastOfObject
  <2>1. newest' = newest /\ op' = NoOp
    BY <1>4 DEF AppendChain, FillPopped, Unlink, PushLastOfObject, Finish, journalVars
  <2>2. CASE AppendChain \/ FillPopped
    <3>1. /\ op.kind = "insert" /\ op.at \in {"append", "fill"}
          /\ stored' = [stored EXCEPT ![op.id] = op.val]
      BY <2>2 DEF AppendChain, FillPopped, At, Finish
    <3> QED
      BY <2>1, <3>1, LoggedFacts DEF FinishesIt
  <2>3. CASE Unlink
    <3>1. op.kind = "update"
      BY <1>1, <1>2, <2>3 DEF Unlink, At
    <3>2. stored' = [stored EXCEPT ![op.id] = op.val]
      BY <2>3 DEF Unlink, Finish
    <3> QED
      BY <2>1, <3>1, <3>2, LoggedFacts DEF FinishesIt
  <2>4. CASE PushLastOfObject
    <3>1. op.kind = "delete" /\ stored' = [stored EXCEPT ![op.id] = NoValue]
      BY <2>4 DEF PushLastOfObject, Finish
    <3> QED
      BY <2>1, <3>1, LoggedFacts DEF FinishesIt
  <2> QED
    BY <1>4, <2>2, <2>3, <2>4
<1>5. CASE ClearPopped
  <2>1. /\ op.at = "clear" /\ stored' = stored /\ newest' = newest
        /\ op' = [op EXCEPT !.at = IF op.kind = "insert" THEN "log" ELSE "link"]
    BY <1>5 DEF ClearPopped, GoTo, GoOn, journalVars
  <2>2. /\ op'.kind = op.kind /\ op'.id = op.id /\ op'.val = op.val
        /\ op.kind = "insert" => op'.at = "log"
    BY <1>1, <2>1 DEF Operation
  <2>3. Logged(op') <=> Logged(op)
    <3>1. CASE op.kind = "insert"
      BY <2>1, <2>2, <3>1, LoggedFacts
    <3>2. CASE op.kind # "insert"
      BY <1>1, <2>2, <3>2, LoggedFacts
    <3> QED
      BY <3>1, <3>2
  <2> QED
    BY <2>1, <2>2, <2>3 DEF GoesOn
<1>6. CASE \/ WritePage \/ EndBlock \/ NextPage \/ ExtendFromGarbage \/ LinkPopped \/ ExtendAtEnd
           \/ FreeRest \/ ZeroBlock \/ ThreadGarbage \/ PushAndNext \/ PushLastOfRest
  <2>1. stored' = stored /\ newest' = newest
    BY <1>6 DEF WritePage, EndBlock, NextPage, ExtendFromGarbage, LinkPopped, ExtendAtEnd,
       FreeRest, ZeroBlock, ThreadGarbage, PushAndNext, PushLastOfRest, GoOn, journalVars
  <2>2. op'.kind = op.kind /\ op'.id = op.id /\ op'.val = op.val
    <3>1. CASE WritePage
      BY <1>1, <3>1 DEF WritePage, Operation
    <3>2. CASE EndBlock \/ NextPage \/ ExtendFromGarbage \/ LinkPopped \/ ExtendAtEnd
      BY <1>1, <3>2 DEF EndBlock, NextPage, ExtendFromGarbage, LinkPopped, ExtendAtEnd, Operation
    <3>3. CASE FreeRest \/ ZeroBlock \/ ThreadGarbage \/ PushAndNext \/ PushLastOfRest
      BY <1>1, <3>3 DEF FreeRest, ZeroBlock, ThreadGarbage, PushAndNext, PushLastOfRest, GoTo, Operation
    <3> QED
      BY <1>6, <3>1, <3>2, <3>3
  <2>3. op.kind \in {"update", "delete"}
    BY <1>1, <1>2, <1>6 DEF WritePage, EndBlock, NextPage, ExtendFromGarbage, LinkPopped, ExtendAtEnd,
       FreeRest, ZeroBlock, ThreadGarbage, PushAndNext, PushLastOfRest, PushGarbage, At
  <2> QED
    BY <2>1, <2>2, <2>3, LoggedFacts DEF GoesOn
<1> QED
    BY <1>3, <1>4, <1>5, <1>6 DEF WriteStep

LEMMA RunningNewest ==
    ASSUME NEW L, NEW c, Layout(L, op, file, head, stored, c), Running
    PROVE  LogsIt \/ GoesOn \/ FinishesIt
<1>1. FileTypes(file)
    BY DEF Layout
<1>2. CASE \E w \in Workers : Reopen(w) \/ JournalStep(w)
  <2>1. op' = op /\ stored' = stored /\ newest' = newest
    BY <1>2 DEF Reopen, JournalStep, DropOwnRecords, TellOthers, DropRecords, RenameJournal,
       DeleteOps, Rename, fileVars, journalVars
  <2> QED
    BY <2>1 DEF GoesOn
<1> QED
    BY <1>1, <1>2, RequestNewest, WriteNewest DEF Running
-----------------------------------------------------------------------------
(* The inductive invariant. *)

LEMMA SplitTypes ==
    OtherTypes <=>
        /\ JournalTypes /\ WorkerTypes
        /\ status \in {"up", "down", "refused", "unnoticed"}
        /\ stored \in [Ids -> Values \cup {NoValue}]
        /\ ended \in Seq(Operation) /\ (status # "up" => op = NoOp /\ ended # << >>)
    BY DEF OtherTypes, JournalTypes, WorkerTypes

LEMMA CheckStays ==
    ASSUME UNCHANGED <<journal, since, missing, file>>
    PROVE  Compared' = Compared /\ (CheckAll' <=> CheckAll)
<1>1. Compared' = Compared
    BY DEF Compared
<1>2. \A b : Chain(b)' = Chain(b)
    BY DEF Chain
<1>3. \A b : \A v : Reads(b, v)' <=> Reads(b, v)
    BY <1>2 DEF Reads, IsObject
<1>4. \A b : IsObject(b)' <=> IsObject(b)
    BY DEF IsObject
<1> HIDE DEF Compared
<1> QED
    BY <1>1, <1>3, <1>4 DEF CheckAll, MatchesLog

LEMMA RunningKeepsNewest ==
    ASSUME OtherTypes, NewestInv, status = "up", status' = "up", Running,
           NEW L, Layout(L, op, file, head, stored, Uninterrupted)
    PROVE  NewestInv'
<1>1. /\ JournalTypes /\ stored \in [Ids -> Values \cup {NoValue}]
      /\ IF Logged(op)
         THEN /\ newest \in Record /\ newest.id = op.id /\ newest.val = op.val
              /\ newest.flags = DELETE <=> op.kind = "delete"
         ELSE newest # NoRecord =>
              /\ newest \in Record
              /\ stored[newest.id] = IF newest.flags = DELETE THEN NoValue ELSE newest.val
    BY SplitTypes DEF NewestInv, Current
<1>2. SUFFICES
         IF Logged(op')
         THEN /\ newest' \in Record /\ newest'.id = op'.id /\ newest'.val = op'.val
              /\ newest'.flags = DELETE <=> op'.kind = "delete"
         ELSE newest' # NoRecord =>
              /\ newest' \in Record
              /\ stored'[newest'.id] = IF newest'.flags = DELETE THEN NoValue ELSE newest'.val
    BY DEF NewestInv, Current, Logged
<1>3. CASE LogsIt
  <2>1. PICK id \in Ids : \E v \in Values : \E flags \in {INSERT, UPDATE, DELETE} :
            /\ newest' = RecordOf(id, v, flags)
            /\ Logged(op') /\ op'.id = id /\ op'.val = v
            /\ flags = DELETE <=> op'.kind = "delete"
    BY <1>3 DEF LogsIt
  <2>2. PICK v \in Values : \E flags \in {INSERT, UPDATE, DELETE} :
            /\ newest' = RecordOf(id, v, flags)
            /\ Logged(op') /\ op'.id = id /\ op'.val = v
            /\ flags = DELETE <=> op'.kind = "delete"
    BY <2>1
  <2>3. PICK flags \in {INSERT, UPDATE, DELETE} :
            /\ newest' = RecordOf(id, v, flags)
            /\ Logged(op') /\ op'.id = id /\ op'.val = v
            /\ flags = DELETE <=> op'.kind = "delete"
    BY <2>2
  <2>4. newest' \in Record /\ newest'.id = id /\ newest'.val = v /\ newest'.flags = flags
    BY <1>1, <2>3 DEF RecordOf, Record, JournalTypes
  <2> QED
    BY <2>3, <2>4
<1>4. CASE GoesOn
    BY <1>1, <1>4 DEF GoesOn
<1>5. CASE FinishesIt
  <2>1. ~Logged(op') /\ newest' = newest /\ Logged(op) /\ newest \in Record
    BY <1>1, <1>5, LoggedFacts DEF FinishesIt
  <2>2. newest.id \in Ids
    BY <2>1 DEF Record
  <2>3. stored'[newest.id] = IF op.kind = "delete" THEN NoValue ELSE op.val
    BY <1>1, <1>5, <2>1, <2>2 DEF FinishesIt
  <2> QED
    BY <1>1, <2>1, <2>3
<1> QED
    BY <1>3, <1>4, <1>5, RunningNewest

LEMMA NextKeepsInv ==
    ASSUME RecoveryInv, [Next]_vars
    PROVE  RecoveryInv'
<1>1. OtherTypes /\ NewestInv /\ Refusal /\ LayoutInv
    BY DEF RecoveryInv
<1>2. PICK L : \E s : Left(s) /\ Layout(L, Current, file, head, s, Uninterrupted)
    BY <1>1 DEF LayoutInv
<1>3. PICK s : Left(s) /\ Layout(L, Current, file, head, s, Uninterrupted)
    BY <1>2
<1>4. /\ JournalTypes /\ WorkerTypes /\ stored \in [Ids -> Values \cup {NoValue}]
      /\ status \in {"up", "down", "refused", "unnoticed"}
      /\ ended \in Seq(Operation) /\ (status # "up" => op = NoOp /\ ended # << >>)
    BY <1>1, SplitTypes
<1>5. CASE Next
  <2>0. LayoutInv'
    BY <1>5, NextKeepsLayout
  <2>1. CASE status = "up" /\ Running /\ UNCHANGED <<status, ended>>
    <3>1. Layout(L, op, file, head, stored, Uninterrupted)
      BY <1>3, <2>1 DEF Left, Current
    <3>2. JournalTypes' /\ WorkerTypes'
      BY <1>4, <2>1, <3>1, RunningTypes DEF Layout
    <3>3. stored' \in [Ids -> Values \cup {NoValue}]
      BY <2>1, <3>1, RunningKeepsLayout DEF Layout
    <3>4. OtherTypes'
      BY <1>4, <2>1, <3>2, <3>3 DEF OtherTypes, JournalTypes, WorkerTypes
    <3>5. NewestInv'
      BY <1>1, <2>1, <3>1, RunningKeepsNewest
    <3>6. Refusal'
      BY <2>1 DEF Refusal
    <3> QED
      BY <2>0, <3>4, <3>5, <3>6 DEF RecoveryInv
  <2>2. CASE Tick /\ UNCHANGED <<fileVars, status, ended>>
    <3>1. /\ UNCHANGED <<journal, since, missing, newest, status, ended>>
          /\ UNCHANGED <<file, head, has_garbage, reopened, op, drops, owes, stored, ops>>
          /\ now' = now + 1 /\ now < MaxTime
      BY <2>2 DEF Tick, fileVars
    <3>2. now' \in 0 .. MaxTime
      BY <1>4, <3>1, JournalAssumption DEF JournalTypes
    <3>3. OtherTypes'
      BY <1>4, <3>1, <3>2 DEF OtherTypes, JournalTypes, WorkerTypes
    <3>4. NewestInv'
      BY <1>1, <3>1 DEF NewestInv, Current, interrupted, Logged
    <3>5. Refusal'
      BY <1>1, <3>1, CheckStays DEF Refusal
    <3> QED
      BY <2>0, <3>3, <3>4, <3>5 DEF RecoveryInv
  <2>3. CASE Stop
    <3>1. /\ status = "up" /\ status' = "down" /\ ended' = Append(ended, op) /\ op' = NoOp
          /\ stored' = stored /\ UNCHANGED <<journal, since, missing, now, newest>>
      BY <2>3 DEF Stop, journalVars
    <3>2. JournalTypes' /\ WorkerTypes'
      BY <1>4, <2>3, <3>1 DEF JournalTypes, WorkerTypes, Stop
    <3>3. op \in Operation
      BY <1>3, <3>1 DEF Current, Layout, OpTypes
    <3>4. /\ ended' \in Seq(Operation) /\ Len(ended') = Len(ended) + 1 /\ Len(ended) \in Nat
          /\ ended'[Len(ended) + 1] = op
      BY <1>4, <3>1, <3>3, AppendProperties, LenProperties
    <3>5. ended' # << >>
      BY <3>4, EmptySeq
    <3>6. OtherTypes'
      BY <1>4, <3>1, <3>2, <3>4, <3>5 DEF OtherTypes, JournalTypes, WorkerTypes
    <3>7. Current' = op /\ Current = op
      BY <3>1, <3>4, <3>5 DEF Current, interrupted, Last
    <3>8. NewestInv'
      <4>1. NewestInv' <=>
              (IF Logged(op)
               THEN /\ newest \in Record /\ newest.id = op.id /\ newest.val = op.val
                    /\ newest.flags = DELETE <=> op.kind = "delete"
               ELSE newest # NoRecord =>
                    /\ newest \in Record
                    /\ stored[newest.id] = IF newest.flags = DELETE THEN NoValue ELSE newest.val)
        <5> HIDE DEF Current
        <5> QED
          BY <3>1, <3>7 DEF NewestInv, Logged
      <4> QED
        BY <1>1, <3>1, <3>7, <4>1 DEF NewestInv
    <3>9. Refusal'
      BY <3>1 DEF Refusal
    <3> QED
      BY <2>0, <3>6, <3>8, <3>9 DEF RecoveryInv
  <2>4. CASE RestartPasses
    <3>1. /\ status = "down" /\ op' = op /\ op = NoOp /\ ended' = ended
          /\ UNCHANGED <<has_garbage, reopened, drops, owes, journal, now, newest>>
          /\ stored' = IF Logged(interrupted)
                       THEN [stored EXCEPT ![interrupted.id] = Outcome(interrupted)] ELSE stored
          /\ status' = IF Unnoticed(interrupted) THEN "unnoticed" ELSE "up"
          /\ since' = [w \in Workers |-> IF missing[w] THEN now ELSE since[w]]
          /\ missing' = [w \in Workers |-> FALSE]
      BY <1>4, <2>4 DEF RestartPasses, OpenJournals
    <3>2. JournalTypes' /\ WorkerTypes'
      BY <1>4, <3>1 DEF JournalTypes, WorkerTypes
    <3>3. OpTypes(interrupted) /\ Current = interrupted
      BY <1>3, <3>1 DEF Current, Layout
    <3>4. stored' \in [Ids -> Values \cup {NoValue}]
      <4>1. CASE Logged(interrupted)
        <5>1. Outcome(interrupted) \in Values \cup {NoValue}
          BY <3>3, <4>1 DEF OpTypes, Logged, Outcome
        <5> QED
          BY <1>4, <3>1, <4>1, <5>1
      <4>2. CASE ~Logged(interrupted)
        BY <1>4, <3>1, <4>2
      <4> QED
        BY <4>1, <4>2
    <3>5. OtherTypes'
      BY <1>4, <3>1, <3>2, <3>4 DEF OtherTypes, JournalTypes, WorkerTypes
    <3>6. NewestInv'
      <4>1. CASE Unnoticed(interrupted)
        BY <3>1, <4>1 DEF NewestInv
      <4>2. CASE ~Unnoticed(interrupted)
        <5>1. Current' = NoOp /\ ~Logged(NoOp)
          BY <3>1, <4>2, LoggedFacts DEF Current
        <5>2. SUFFICES ASSUME newest # NoRecord
                       PROVE  /\ newest \in Record
                              /\ stored'[newest.id] = IF newest.flags = DELETE THEN NoValue ELSE newest.val
          <6> HIDE DEF Current
          <6> QED
            BY <3>1, <5>1 DEF NewestInv, Logged
        <5>3. CASE Logged(interrupted)
          <6>1. /\ newest \in Record /\ newest.id = interrupted.id /\ newest.val = interrupted.val
                /\ newest.flags = DELETE <=> interrupted.kind = "delete"
            BY <1>1, <3>1, <3>3, <5>3 DEF NewestInv
          <6>2. newest.id \in Ids
            BY <6>1 DEF Record
          <6>3. stored'[newest.id] = Outcome(interrupted)
            BY <1>4, <3>1, <5>3, <6>1, <6>2
          <6> QED
            BY <6>1, <6>3 DEF Outcome
        <5>4. CASE ~Logged(interrupted)
          BY <1>1, <3>1, <3>3, <5>2, <5>4 DEF NewestInv
        <5> QED
          BY <5>3, <5>4
      <4> QED
        BY <4>1, <4>2
    <3>7. Refusal'
      BY <3>1 DEF Refusal
    <3> QED
      BY <2>0, <3>5, <3>6, <3>7 DEF RecoveryInv
  <2>5. CASE RestartRefused
    <3>1. /\ status = "down" /\ status' = "refused" /\ ~CheckAll
          /\ UNCHANGED <<file, head, has_garbage, reopened, op, drops, owes, stored, ops>>
          /\ UNCHANGED <<journal, since, missing, now, newest, ended>>
      BY <2>5 DEF RestartRefused, fileVars, journalVars
    <3>2. OtherTypes'
      BY <1>4, <3>1 DEF OtherTypes, JournalTypes, WorkerTypes
    <3>3. NewestInv'
      BY <1>1, <3>1 DEF NewestInv, Current, interrupted, Logged
    <3>4. Refusal'
      BY <3>1, CheckStays DEF Refusal
    <3> QED
      BY <2>0, <3>2, <3>3, <3>4 DEF RecoveryInv
  <2> QED
    BY <1>5, <2>1, <2>2, <2>3, <2>4, <2>5 DEF Next
<1>6. CASE UNCHANGED vars
  <2>1. /\ UNCHANGED <<file, head, has_garbage, reopened, op, drops, owes, stored, ops>>
        /\ UNCHANGED <<journal, since, missing, now, newest, ended, status>>
    BY <1>6 DEF vars, fileVars, journalVars
  <2>2. OtherTypes'
    BY <1>4, <2>1 DEF OtherTypes, JournalTypes, WorkerTypes
  <2>3. NewestInv'
    BY <1>1, <2>1 DEF NewestInv, Current, interrupted, Logged
  <2>4. Refusal'
    BY <1>1, <2>1, CheckStays DEF Refusal
  <2>5. LayoutInv'
    <3>1. Current' = Current /\ Uninterrupted' = Uninterrupted /\ Left(s)'
      BY <1>3, <2>1 DEF Current, interrupted, Uninterrupted, Left
    <3> QED
      BY <1>3, <2>1, <3>1 DEF LayoutInv
  <2> QED
    BY <2>2, <2>3, <2>4, <2>5 DEF RecoveryInv
<1> QED
    BY <1>5, <1>6
-----------------------------------------------------------------------------
(* What the invariant says of the file. *)

LEMMA IsInjectiveChain ==
    ASSUME NEW c, NEW f, Path(c, f)
    PROVE  IsInjective(c)
<1>1. DOMAIN c = 1 .. Len(c)
    BY LenProperties DEF Path
<1> QED
    BY <1>1 DEF Path, IsInjective

LEMMA RestChains ==
    ASSUME FileTypes(file), NEW M, AtRest(M, file, head)
    PROVE  /\ FreeList = M[FREE]
           /\ \A b \in Objects : b \in Slots /\ b # FREE /\ b # REST /\ Chain(b) = M[b] /\ Path(M[b], file)
<1>1. /\ DOMAIN file = 1 .. Len(file) /\ Len(file) \in Nat /\ Len(file) <= MaxBlocks
      /\ MaxBlocks \in Nat
    BY FileFacts, JournalAssumption
<1>2. FreeList = M[FREE]
  <2>1. M[FREE] \in Seq(1 .. Len(file)) /\ Len(M[FREE]) \in Nat
    BY SlotFacts, LenProperties DEF AtRest, Typed
  <2>2. CASE Len(M[FREE]) = 0
    <3>1. head = 0 /\ M[FREE] = << >>
      BY <2>1, <2>2, EmptySeq DEF AtRest, Heads
    <3> QED
      BY <1>1, <3>1 DEF FreeList
  <2>3. CASE Len(M[FREE]) # 0
    <3>1. head = M[FREE][1] /\ Path(M[FREE], file) /\ 1 \in 1 .. Len(M[FREE])
      BY <2>1, <2>3, SlotFacts DEF AtRest, Heads
    <3>2. M[FREE][1] \in 1 .. Len(file)
      BY <2>1, <3>1, ElementOfSeq
    <3>3. Chain(M[FREE][1]) = M[FREE]
      BY <1>1, <3>1, ChainIsPath
    <3> QED
      BY <1>1, <3>1, <3>2, <3>3 DEF FreeList
  <2> QED
    BY <2>2, <2>3
<1>3. ASSUME NEW b \in Objects
      PROVE  b \in Slots /\ b # FREE /\ b # REST /\ Chain(b) = M[b] /\ Path(M[b], file)
  <2>1. b \in 1 .. Len(file) /\ file[b].page[2] = 1
    BY <1>1 DEF Objects, IsObject
  <2>2. b \in Ids
    BY <1>1, <2>1 DEF Ids
  <2>3. Len(M[b]) > 0 /\ b \in Slots /\ b # FREE /\ b # REST
    BY <2>1, <2>2, SlotFacts DEF AtRest
  <2>4. M[b][1] = b /\ Path(M[b], file)
    BY <2>2, <2>3 DEF AtRest, Heads
  <2>5. Chain(M[b][1]) = M[b]
    BY <1>1, <2>4, ChainIsPath
  <2> QED
    BY <2>3, <2>4, <2>5
<1> QED
    BY <1>2, <1>3

LEMMA RestIntegrity ==
    ASSUME FileTypes(file), NEW M, AtRest(M, file, head)
    PROVE  /\ IsInjective(FreeList)
           /\ FreeBlocks \cap InUse = {}
           /\ \A a \in Objects :
                 /\ IsInjective(Chain(a))
                 /\ \A b \in Objects \ {a} : BlocksOf(a) \cap BlocksOf(b) = {}
<1>1. /\ FreeList = M[FREE]
      /\ \A b \in Objects : b \in Slots /\ b # FREE /\ b # REST /\ Chain(b) = M[b] /\ Path(M[b], file)
    BY RestChains
<1>2. /\ FREE \in Slots /\ Apart(M)
      /\ \A k \in Slots : DOMAIN M[k] = 1 .. Len(M[k])
    BY SlotFacts, LenProperties DEF AtRest, Typed
<1>3. \A k, l \in Slots : k # l => ToSet(M[k]) \cap ToSet(M[l]) = {}
  <2> SUFFICES ASSUME NEW k \in Slots, NEW l \in Slots, k # l, NEW x \in ToSet(M[k]), x \in ToSet(M[l])
               PROVE  FALSE
    OBVIOUS
  <2>1. PICK i \in 1 .. Len(M[k]) : M[k][i] = x
    BY <1>2 DEF ToSet
  <2>2. PICK j \in 1 .. Len(M[l]) : M[l][j] = x
    BY <1>2 DEF ToSet
  <2> QED
    BY <1>2, <2>1, <2>2 DEF Apart
<1>4. IsInjective(FreeList)
    BY <1>1, <1>2 DEF IsInjective, Apart
<1>5. FreeBlocks \cap InUse = {}
  <2>1. \A b \in Objects : FreeBlocks \cap BlocksOf(b) = {}
    BY <1>1, <1>2, <1>3 DEF FreeBlocks, BlocksOf
  <2> QED
    BY <2>1 DEF InUse
<1>6. ASSUME NEW a \in Objects
      PROVE  /\ IsInjective(Chain(a))
             /\ \A b \in Objects \ {a} : BlocksOf(a) \cap BlocksOf(b) = {}
    BY <1>1, <1>3, IsInjectiveChain DEF BlocksOf
<1> QED
    BY <1>4, <1>5, <1>6

LEMMA LayoutReads ==
    ASSUME NEW L, NEW s, NEW c, Layout(L, NoOp, file, head, s, c), NEW b \in Ids
    PROVE  /\ IF s[b] = NoValue THEN ~IsObject(b) ELSE Reads(b, s[b])
           /\ Len(L[b]) > 0 => IsObject(b) /\ Chain(b) = L[b]
<1>1. /\ DOMAIN file = 1 .. Len(file) /\ Len(file) \in Nat /\ b \in Slots /\ b # NoOp.id
      /\ Len(L[b]) \in Nat /\ \A i \in 1 .. Len(L[b]) : L[b][i] \in 1 .. Len(file)
      /\ L[b] \in Seq(1 .. Len(file))
    BY ListFacts, FileFacts, SlotFacts, NoOpFacts
<1>2. IF s[b] = NoValue THEN Len(L[b]) = 0 ELSE Holds(L, file, b, s[b])
    BY <1>1 DEF Layout, Contents
<1>3. CASE s[b] = NoValue
  <2>1. Len(L[b]) = 0
    BY <1>2, <1>3
  <2>2. ~IsObject(b)
    BY <1>1, <2>1, NoOpFacts DEF Layout, FirstPages, IsObject
  <2> QED
    BY <1>3, <2>1, <2>2
<1>4. CASE s[b] # NoValue
  <2> DEFINE v == s[b]
  <2>1. v \in Values /\ Pages[v] \in Nat \ {0} /\ Holds(L, file, b, v)
    BY <1>2, <1>4, BinFileAssumption DEF Layout
  <2> HIDE DEF v
  <2>2. Len(L[b]) >= Pages[v] /\ Len(L[b]) > 0 /\ 1 \in 1 .. Len(L[b]) /\ 1 <= Pages[v]
    <3>1. Len(L[b]) >= Pages[v]
      BY <2>1 DEF Holds
    <3> QED
      BY <1>1, <2>1, <3>1
  <2>3. L[b][1] = b /\ file[L[b][1]].page = <<v, 1>>
    BY <2>1, <2>2 DEF Layout, Heads, Holds
  <2>4. IsObject(b)
    BY <1>1, <2>2, <2>3 DEF IsObject
  <2>5. Chain(b) = L[b]
    BY <2>2, ChainOfObject
  <2>6. file[L[b][Len(L[b])]].link = 0
    BY <1>1, <2>2, NoOpFacts DEF Layout, Ends
  <2>7. DOMAIN L[b] = 1 .. Len(L[b])
    BY <1>1, LenProperties
  <2>8. Reads(b, v)
    BY <2>1, <2>2, <2>4, <2>5, <2>6, <2>7 DEF Reads, Holds, Last
  <2> QED
    BY <1>4, <2>4, <2>5, <2>8 DEF v
<1> QED
    BY <1>3, <1>4

LEMMA InvTypes == RecoveryInv => TypeOK
<1> SUFFICES ASSUME RecoveryInv PROVE TypeOK
    OBVIOUS
<1>1. PICK L : \E s : Left(s) /\ Layout(L, Current, file, head, s, Uninterrupted)
    BY DEF RecoveryInv, LayoutInv
<1>2. PICK s : Left(s) /\ Layout(L, Current, file, head, s, Uninterrupted)
    BY <1>1
<1>3. OtherTypes
    BY DEF RecoveryInv
<1>4. op \in Operation
  <2>1. CASE status = "up"
    BY <1>2, <2>1 DEF Current, Layout, OpTypes
  <2>2. CASE status # "up"
    BY <1>3, <2>2, NoOpFacts DEF OtherTypes, OpTypes
  <2> QED
    BY <2>1, <2>2
<1>5. file \in Seq(Block_) /\ Len(file) <= MaxBlocks
    BY <1>2 DEF Layout, FileTypes
<1>6. head \in 0 .. MaxBlocks
  <2>1. head \in 0 .. Len(file) /\ Len(file) \in Nat
    BY <1>2, ListFacts
  <2> QED
    BY <1>5, <2>1, JournalAssumption
<1> QED
    BY <1>3, <1>4, <1>5, <1>6 DEF OtherTypes, Operation, TypeOK

LEMMA InvIntegrity == RecoveryInv => Integrity
<1> SUFFICES ASSUME RecoveryInv, ~Shrinking(op), ~Shrinking(interrupted)
             PROVE  /\ IsInjective(FreeList)
                    /\ FreeBlocks \cap InUse = {}
                    /\ \A a \in Objects :
                          /\ IsInjective(Chain(a))
                          /\ \A b \in Objects \ {a} : BlocksOf(a) \cap BlocksOf(b) = {}
    BY DEF Integrity
<1>1. PICK L : \E s : Left(s) /\ Layout(L, Current, file, head, s, Uninterrupted)
    BY DEF RecoveryInv, LayoutInv
<1>2. PICK s : Left(s) /\ Layout(L, Current, file, head, s, Uninterrupted)
    BY <1>1
<1>3. ~ShrinksIn(Current, file) /\ FileTypes(file)
    BY <1>2, ShrinkingFacts DEF Current, Layout
<1>4. PICK M : AtRest(M, file, head)
    BY <1>2, <1>3, Settle
<1> QED
    BY <1>3, <1>4, RestIntegrity

LEMMA InvNoBlockLost == RecoveryInv => NoBlockLost
<1> SUFFICES ASSUME RecoveryInv, op = NoOp, ToSet(ended) \subseteq {NoOp}
             PROVE  FreeBlocks \cup InUse = DOMAIN file
    BY DEF NoBlockLost
<1>1. PICK L : \E s : Left(s) /\ Layout(L, Current, file, head, s, Uninterrupted)
    BY DEF RecoveryInv, LayoutInv
<1>2. PICK s : Left(s) /\ Layout(L, Current, file, head, s, Uninterrupted)
    BY <1>1
<1>3. Current = NoOp /\ Uninterrupted
  <2>1. ended # << >> => Last(ended) = NoOp
    BY LastEnded DEF RecoveryInv, OtherTypes
  <2> QED
    BY <2>1 DEF Current, interrupted, Uninterrupted
<1>4. Layout(L, NoOp, file, head, s, Uninterrupted)
    BY <1>2, <1>3
<1>5. /\ DOMAIN file = 1 .. Len(file) /\ Len(file) \in Nat /\ FileTypes(file)
      /\ \A k \in Slots : /\ DOMAIN L[k] = 1 .. Len(L[k])
                          /\ \A i \in 1 .. Len(L[k]) : L[k][i] \in 1 .. Len(file)
      /\ FREE \in Slots /\ \A b \in Ids : b \in Slots
    BY <1>4, ListFacts, FileFacts, SlotFacts, LenProperties
<1>6. ~ShrinksIn(NoOp, file)
    BY NoOpFacts DEF ShrinksIn
<1>7. PICK M : AtRest(M, file, head)
    BY <1>4, <1>6, Settle
<1>8. /\ FreeList = M[FREE]
      /\ \A b \in Objects : b \in Slots /\ b # FREE /\ b # REST /\ Chain(b) = M[b] /\ Path(M[b], file)
    BY <1>5, <1>7, RestChains
<1>9. \A k \in Slots : ToSet(M[k]) \subseteq 1 .. Len(file)
  <2>1. \A k \in Slots : M[k] \in Seq(1 .. Len(file))
    BY <1>7 DEF AtRest, Typed
  <2> QED
    BY <2>1, ElementOfSeq, LenProperties DEF ToSet
<1>10. FreeBlocks \cup InUse \subseteq DOMAIN file
  <2>1. FreeBlocks \subseteq 1 .. Len(file)
    BY <1>5, <1>8, <1>9 DEF FreeBlocks
  <2>2. \A b \in Objects : BlocksOf(b) \subseteq 1 .. Len(file)
    BY <1>8, <1>9 DEF BlocksOf
  <2> QED
    BY <1>5, <2>1, <2>2 DEF InUse
<1>11. ASSUME NEW b \in 1 .. Len(file)
       PROVE  b \in FreeBlocks \cup InUse
  <2>1. PICK k \in Slots : \E i \in 1 .. Len(L[k]) : L[k][i] = b
    BY <1>3, <1>4, NoOpFacts DEF Layout, Covers
  <2>2. b \in ToSet(L[k]) /\ Len(L[k]) > 0
    BY <1>5, <2>1 DEF ToSet
  <2>3. k # REST
    BY <1>4, <2>2, Idle
  <2>4. CASE k = FREE
    <3>1. Chain(head) = L[FREE] /\ head \in DOMAIN file
      <4>1. Path(L[FREE], file) /\ head = L[FREE][1] /\ 1 \in 1 .. Len(L[FREE])
        BY <1>4, <1>5, <2>2, <2>4, OwnPath, NoOpFacts, LenProperties, ListFacts DEF Layout, Heads
      <4> QED
        BY <1>5, <4>1, ChainIsPath
    <3> QED
      BY <2>2, <2>4, <3>1 DEF FreeBlocks, FreeList
  <2>5. CASE k # FREE
    <3>1. k \in Ids
      BY <2>3, <2>5, JournalAssumption DEF Slots, FREE, REST, Ids
    <3>2. IsObject(k) /\ Chain(k) = L[k]
      BY <1>4, <2>2, <3>1, LayoutReads
    <3>3. k \in Objects /\ b \in BlocksOf(k)
      BY <2>2, <3>2 DEF Objects, BlocksOf, IsObject
    <3> QED
      BY <3>3 DEF InUse
  <2> QED
    BY <2>4, <2>5
<1> QED
    BY <1>5, <1>10, <1>11

LEMMA InvReadsBack == RecoveryInv => ReadsBack
<1> SUFFICES ASSUME RecoveryInv, status = "up", op = NoOp, NEW b \in Ids
             PROVE  IF stored[b] = NoValue THEN ~IsObject(b) ELSE Reads(b, stored[b])
    BY DEF ReadsBack
<1>1. PICK L : Layout(L, NoOp, file, head, stored, Uninterrupted)
    BY DEF RecoveryInv, LayoutInv, Left, Current
<1> QED
    BY <1>1, LayoutReads

LEMMA InvNoFalseAlarm == RecoveryInv => NoFalseAlarm
<1> SUFFICES ASSUME RecoveryInv, status = "refused", interrupted = NoOp, Compared = newest
             PROVE  FALSE
    BY DEF NoFalseAlarm
<1>1. PICK L : Layout(L, NoOp, file, head, stored, Uninterrupted)
    BY DEF RecoveryInv, LayoutInv, Left, Current
<1>2. newest # NoRecord /\ ~MatchesLog(newest)
    BY DEF RecoveryInv, Refusal, CheckAll
<1>3. /\ newest \in Record
      /\ stored[newest.id] = IF newest.flags = DELETE THEN NoValue ELSE newest.val
    BY <1>2, LoggedFacts DEF RecoveryInv, NewestInv, Current
<1>4. newest.id \in Ids /\ newest.val \in Values /\ newest.val # NoValue
    BY <1>3, BinFileAssumption DEF Record
<1>5. IF stored[newest.id] = NoValue THEN ~IsObject(newest.id) ELSE Reads(newest.id, stored[newest.id])
    BY <1>1, <1>4, LayoutReads
<1> QED
    BY <1>2, <1>3, <1>4, <1>5 DEF MatchesLog

-----------------------------------------------------------------------------
(* The theorems. *)

(* The server keeps, whatever it runs, a file that is laid out in lists that share *)
(* no block, and a record of the last change logged that is true of the file or of *)
(* the operation under way.                                                        *)
THEOREM RecoveryKept == Spec => []RecoveryInv
<1>1. Init => RecoveryInv
    BY InitLayout
<1>2. RecoveryInv /\ [Next]_vars => RecoveryInv'
    BY NextKeepsInv
<1> QED
    BY <1>1, <1>2, PTL DEF Spec

(* BinFile and Journal: every variable keeps its type, and the file never grows *)
(* beyond its bound.                                                            *)
THEOREM TypesKept == Spec => []TypeOK
    BY RecoveryKept, InvTypes, PTL

(* BinFile: at every write, and so wherever a crash hits, no block is both free *)
(* and in use or part of two objects and no chain runs in a circle, unless an   *)
(* update is shrinking an object.                                               *)
THEOREM IntegrityKept == Spec => []Integrity
    BY RecoveryKept, InvIntegrity, PTL

(* BinFile: every block is part of an object or in the list of free blocks while *)
(* no operation runs and none was interrupted, whatever has_garbage says to the  *)
(* workers.                                                                      *)
THEOREM NoBlockIsLost == Spec => []NoBlockLost
    BY RecoveryKept, InvNoBlockLost, PTL

(* WriteBlock, DeleteChain and CheckAll: the collection holds what the operations  *)
(* have left, after any number of crashes that the check at start let pass knowing *)
(* of the interrupted operation.                                                   *)
THEOREM CollectionReadsBack == Spec => []ReadsBack
    BY RecoveryKept, InvReadsBack, PTL

(* Journal::CheckAll: a server that was stopped between two operations is refused *)
(* only when the record it compares is not the last one logged.                   *)
THEOREM NoAlarmIsFalse == Spec => []NoFalseAlarm
    BY RecoveryKept, InvNoFalseAlarm, PTL
=============================================================================
