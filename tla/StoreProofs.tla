---------------------------- MODULE StoreProofs ----------------------------
(***************************************************************************)
(* PagesUsable of PageManager, for files, pages and blocks of any size and *)
(* any number of pages and mappings; FilesReadBack of FileStreams, for     *)
(* values, buffers and chunks of any size and files of any length; and     *)
(* SetRemembers of PersistentHashSet, for tables, hashes and buffers of    *)
(* any size and any number of ids, writers and readers.                    *)
(***************************************************************************)
EXTENDS PageManager, FileStreams, PersistentHashSet, SequenceTheorems, FiniteSetTheorems,
        WellFoundedInduction, TLAPS

PageType == [offset : Nat, size : Nat \ {0}]

(* All pages that were made, in use or free *)
Made == pages \cup Range(freelist)

PagesType ==
    /\ block_size \in Nat \ {0} /\ end_pos \in Nat
    /\ freelist \in Seq(PageType) /\ pages \subseteq PageType
    /\ used_bytes \in Nat /\ file_size \in Nat /\ disk \in Nat
    /\ current_mapping = NoMapping \/ current_mapping \in Nat
    /\ getting # << >> => getting[1] \in PageType
    /\ shrinking # << >> => shrinking[1] \in Nat
    /\ refs \subseteq [page : PageType, map : Nat]
    /\ raced \in BOOLEAN

(* New pages are made at the end of the file, behind all others *)
AllocRight ==
    /\ \A a, b \in Made : a = b \/ Disjoint(a, b)
    /\ \A a \in Made : LastByte(a) <= end_pos
    /\ pages \cap Range(freelist) = {}
    /\ \A i, j \in 1..Len(freelist) : freelist[i] = freelist[j] => i = j

(* used_bytes_ covers every page that somebody has or is about to get; the *)
(* file covers used_bytes_ while shrinkFile() and getPage() take turns     *)
MapRight ==
    /\ \A ref \in refs : LastByte(ref.page) <= used_bytes
    /\ getting # << >> => LastByte(getting[1]) <= used_bytes
    /\ ~raced =>
         /\ disk = file_size /\ used_bytes <= disk
         /\ \A ref \in refs : LastByte(ref.page) <= ref.map
         /\ shrinking # << >> => getting = << >> /\ shrinking[1] = used_bytes

PageInv == PagesType /\ AllocRight /\ MapRight

-----------------------------------------------------------------------------
(* Blocks and sequences *)

(* Rounding up to blocks does not lose bytes.                              *)
LEMMA RoundsUp ==
  ASSUME NEW n \in Nat, NEW b \in Nat \ {0}
  PROVE  /\ ((n + b - 1) \div b) * b \in Nat /\ ((n + b - 1) \div b) * b >= n
         /\ ((n \div b) + 1) * b \in Nat /\ ((n \div b) + 1) * b > n
<1>1. ASSUME NEW m \in Nat
      PROVE  /\ m \div b \in Nat /\ (m \div b) * b \in Nat
             /\ m < (m \div b) * b + b
  <2>1. PICK q : q = m \div b
    OBVIOUS
  <2>2. q \in Nat /\ m % b \in 0..(b - 1) /\ m = b * q + (m % b)
    BY <2>1
  <2>3. q * b = b * q /\ q * b \in Nat
    BY <2>2
  <2>4. QED
    BY <2>1, <2>2, <2>3
<1>2. n + b - 1 \in Nat
  OBVIOUS
<1>3. PICK q, r : q = (n + b - 1) \div b /\ r = n \div b
  OBVIOUS
<1>4. q \in Nat /\ q * b \in Nat /\ n + b - 1 < q * b + b
  BY <1>1, <1>2, <1>3
<1>5. r \in Nat /\ r * b \in Nat /\ n < r * b + b
  BY <1>1, <1>3
<1>6. (r + 1) * b = r * b + b
  BY <1>5
<1>7. QED
  BY <1>3, <1>4, <1>5, <1>6

(* The members of a list are those at its indexes.                         *)
LEMMA RangeOfList ==
  ASSUME NEW S, NEW s \in Seq(S)
  PROVE  /\ Range(s) = {s[i] : i \in 1..Len(s)}
         /\ Range(s) \subseteq S
BY LenProperties DEF Range

(* findFreePage() finds an index of the free list, and a page that is large*)
(* enough, or none is.                                                     *)
LEMMA FindFreePageRight ==
  ASSUME freelist \in Seq(PageType), NEW n \in Nat, NEW i, i = FindFreePage(n)
  PROVE  \/ i = 0
         \/ i \in 1..Len(freelist) /\ freelist[i].size >= n
<1> DEFINE I == {k \in 1..Len(freelist) : freelist[k].size >= n}
<1>1. i = IF I # {} THEN Min(I) ELSE 0
  BY DEF FindFreePage, SelectInSeq
<1>2. I \subseteq Nat
  BY LenProperties
<1>3. ASSUME I # {} PROVE Min(I) \in I
  <2>1. \E m \in I : \A k \in I : m <= k
    <3> DEFINE R == {p \in Nat \X Nat : p[1] < p[2]}
    <3>1. IsWellFoundedOn(R, Nat)
      BY NatLessThanWellFounded, Zenon DEF OpToRel
    <3> HIDE DEF R, I
    <3>2. PICK m \in I : \A k \in I : ~(<<k, m>> \in R)
      BY <1>2, <1>3, <3>1, WFMin
    <3>3. \A k \in I : ~(k < m)
      BY <1>2, <3>2 DEF R
    <3>4. QED
      BY <1>2, <3>3
  <2> HIDE DEF I
  <2>2. QED
    BY <2>1 DEF Min
<1>4. QED
  BY <1>1, <1>3

(* The list without one of its members.                                    *)
LEMMA RemoveAtRight ==
  ASSUME NEW S, NEW s \in Seq(S), NEW i \in 1..Len(s)
  PROVE  /\ RemoveAt(s, i) \in Seq(S) /\ Len(RemoveAt(s, i)) = Len(s) - 1
         /\ \A k \in 1..(Len(s) - 1) : RemoveAt(s, i)[k] = IF k < i THEN s[k] ELSE s[k + 1]
<1>1. Len(s) \in Nat /\ \A k \in 1..Len(s) : s[k] \in S
  BY LenProperties
<1>2. PICK a, b : a = SubSeq(s, 1, i - 1) /\ b = SubSeq(s, i + 1, Len(s))
  OBVIOUS
<1>3. /\ a \in Seq(S) /\ Len(a) = i - 1
      /\ \A k \in 1..(i - 1) : a[k] = s[k]
  BY <1>1, <1>2, SubSeqProperties
<1>4. /\ b \in Seq(S) /\ Len(b) = Len(s) - i
      /\ \A k \in 1..(Len(s) - i) : b[k] = s[k + i]
  <2>1. \A k \in (i + 1)..Len(s) : s[k] \in S
    BY <1>1
  <2>2. /\ b \in Seq(S) /\ Len(b) = IF i + 1 <= Len(s) THEN Len(s) - (i + 1) + 1 ELSE 0
        /\ \A k \in 1..(Len(s) - (i + 1) + 1) : b[k] = s[(i + 1) + k - 1]
    BY <1>1, <1>2, <2>1, SubSeqProperties
  <2>3. QED
    BY <1>1, <2>2
<1>5. RemoveAt(s, i) = a \o b
  BY <1>2 DEF RemoveAt
<1>6. /\ a \o b \in Seq(S) /\ Len(a \o b) = Len(a) + Len(b)
      /\ \A k \in 1..Len(a) + Len(b) : (a \o b)[k] = IF k <= Len(a) THEN a[k] ELSE b[k - Len(a)]
  <2>1. a \in Seq(S) /\ b \in Seq(S)
    BY <1>3, <1>4
  <2>2. QED
    BY <2>1, ConcatProperties
<1>7. QED
  BY <1>1, <1>3, <1>4, <1>5, <1>6

-----------------------------------------------------------------------------
(* The allocator *)

(* A page of the free list is handed out, or one is made at the end.       *)
LEMMA AllocPageStep ==
  ASSUME PageInv, NEW n \in Sizes, AllocPage(n)
  PROVE  PageInv'
<1>1. PagesType /\ AllocRight /\ MapRight /\ n \in Nat \ {0}
  BY SizesAssumption DEF PageInv
<1>2. PICK m : m = Aligned(n)
  OBVIOUS
<1>3. m \in Nat \ {0}
  BY <1>1, <1>2, RoundsUp DEF Aligned, PagesType
<1>4. /\ UNCHANGED <<block_size, used_bytes, file_size, current_mapping, disk>>
      /\ UNCHANGED <<getting, shrinking, refs, raced>>
  BY DEF AllocPage, mmapVars
<1>5. MapRight'
  BY <1>1, <1>4 DEF MapRight, LastByte
<1>6. PICK i : i = FindFreePage(m)
  OBVIOUS
<1>7. i = 0 \/ i \in 1..Len(freelist)
  BY <1>1, <1>3, <1>6, FindFreePageRight DEF PagesType
<1>8. /\ Range(freelist) = {freelist[k] : k \in 1..Len(freelist)}
      /\ Len(freelist) \in Nat
  BY <1>1, RangeOfList, LenProperties DEF PagesType
<1>9. CASE i # 0
  <2>1. /\ pages' = pages \cup {freelist[i]} /\ end_pos' = end_pos
        /\ freelist' = RemoveAt(freelist, i)
    BY <1>2, <1>6, <1>9 DEF AllocPage
  <2>2. i \in 1..Len(freelist) /\ freelist[i] \in PageType
    BY <1>1, <1>7, <1>9, ElementOfSeq DEF PagesType
  <2>3. /\ freelist' \in Seq(PageType) /\ Len(freelist') = Len(freelist) - 1
        /\ \A k \in 1..Len(freelist') :
             freelist'[k] = IF k < i THEN freelist[k] ELSE freelist[k + 1]
    BY <1>1, <2>1, <2>2, RemoveAtRight DEF PagesType
  <2>4. Range(freelist') = {freelist'[k] : k \in 1..Len(freelist')}
    BY <2>3, RangeOfList
  <2>5. \A k \in 1..Len(freelist') :
          \E l \in 1..Len(freelist) : l # i /\ freelist'[k] = freelist[l] /\ (l = k \/ l = k + 1)
    BY <1>8, <2>2, <2>3
  <2>6. PagesType'
    BY <1>1, <1>4, <2>1, <2>2, <2>3 DEF PagesType
  <2>7. Made' \subseteq Made
    BY <1>8, <2>1, <2>2, <2>4, <2>5 DEF Made
  <2>8. pages' \cap Range(freelist') = {}
    <3>1. ASSUME NEW p \in Range(freelist') PROVE p \notin pages'
      <4>1. PICK l \in 1..Len(freelist) : l # i /\ p = freelist[l]
        BY <2>4, <2>5, <3>1
      <4>2. p # freelist[i]
        BY <1>1, <2>2, <4>1 DEF AllocRight
      <4>3. p \notin pages
        BY <1>1, <1>8, <4>1 DEF AllocRight
      <4>4. QED
        BY <2>1, <4>2, <4>3
    <3>2. QED
      BY <3>1
  <2>9. \A k, l \in 1..Len(freelist') : freelist'[k] = freelist'[l] => k = l
    <3>1. SUFFICES ASSUME NEW k \in 1..Len(freelist'), NEW l \in 1..Len(freelist'),
                          freelist'[k] = freelist'[l]
                   PROVE  k = l
      OBVIOUS
    <3>2. \A x, y \in 1..Len(freelist) : freelist[x] = freelist[y] => x = y
      BY <1>1 DEF AllocRight
    <3>3. PICK x, y : x = (IF k < i THEN k ELSE k + 1) /\ y = (IF l < i THEN l ELSE l + 1)
      OBVIOUS
    <3>4. x \in 1..Len(freelist) /\ y \in 1..Len(freelist)
      BY <1>8, <2>2, <2>3, <3>1, <3>3
    <3>5. freelist[x] = freelist[y]
      BY <2>3, <3>1, <3>3
    <3>6. x = y
      BY <3>2, <3>4, <3>5
    <3>7. QED
      BY <1>8, <2>2, <2>3, <3>1, <3>3, <3>6
  <2>10. AllocRight'
    BY <1>1, <2>1, <2>7, <2>8, <2>9 DEF AllocRight, Disjoint, LastByte
  <2>11. QED
    BY <1>5, <2>6, <2>10 DEF PageInv
<1>10. CASE i = 0
  <2>1. PICK p : p = [offset |-> end_pos, size |-> m]
    OBVIOUS
  <2>2. pages' = pages \cup {p} /\ end_pos' = end_pos + m /\ freelist' = freelist
    BY <1>2, <1>6, <1>10, <2>1 DEF AllocPage
  <2>3. p \in PageType /\ p.offset = end_pos /\ p.size = m
    BY <1>1, <1>3, <2>1 DEF PageType, PagesType
  <2>4. PagesType'
    BY <1>1, <1>3, <1>4, <2>2, <2>3 DEF PagesType
  <2>5. Made' = Made \cup {p}
    BY <2>2 DEF Made
  <2>6. Made \subseteq PageType
    BY <1>1, RangeOfList DEF Made, PagesType
  <2>7. ASSUME NEW a \in Made
        PROVE  LastByte(a) <= p.offset /\ a # p /\ LastByte(a) \in Nat
    BY <1>1, <1>3, <2>3, <2>6 DEF AllocRight, LastByte, PageType, PagesType
  <2>8. LastByte(p) = end_pos + m
    BY <2>3 DEF LastByte
  <2>9. p \notin Range(freelist)
    BY <2>7 DEF Made
  <2>10. \A a, b \in Made' : a = b \/ Disjoint(a, b)
    BY <1>1, <2>5, <2>7 DEF AllocRight, Disjoint
  <2>11. \A a \in Made' : LastByte(a) <= end_pos'
    BY <1>1, <1>3, <2>2, <2>3, <2>5, <2>7, <2>8 DEF PagesType
  <2>12. AllocRight'
    BY <1>1, <2>2, <2>9, <2>10, <2>11 DEF AllocRight, Disjoint, LastByte
  <2>13. QED
    BY <1>5, <2>4, <2>12 DEF PageInv
<1>11. QED
  BY <1>9, <1>10

(* A page goes to the end of the free list.                                *)
LEMMA FreePageStep ==
  ASSUME PageInv, NEW p \in pages, FreePage(p)
  PROVE  PageInv'
<1>1. PagesType /\ AllocRight /\ MapRight /\ p \in PageType
  BY DEF PageInv, PagesType
<1>2. /\ UNCHANGED <<block_size, end_pos, used_bytes, file_size, current_mapping, disk>>
      /\ UNCHANGED <<getting, shrinking, refs, raced>>
      /\ pages' = pages \ {p} /\ freelist' = Append(freelist, p)
  BY DEF FreePage, mmapVars
<1>3. MapRight'
  BY <1>1, <1>2 DEF MapRight, LastByte
<1>4. /\ Range(freelist) = {freelist[k] : k \in 1..Len(freelist)}
      /\ Len(freelist) \in Nat
  BY <1>1, RangeOfList, LenProperties DEF PagesType
<1>5. /\ freelist' \in Seq(PageType) /\ Len(freelist') = Len(freelist) + 1
      /\ \A k \in 1..Len(freelist) : freelist'[k] = freelist[k]
      /\ freelist'[Len(freelist) + 1] = p
  BY <1>1, <1>2, AppendProperties DEF PagesType
<1>6. Range(freelist') = {freelist'[k] : k \in 1..Len(freelist')}
  BY <1>5, RangeOfList
<1>7. Range(freelist') = Range(freelist) \cup {p}
  <2>1. 1..Len(freelist') = 1..Len(freelist) \cup {Len(freelist) + 1}
    BY <1>4, <1>5
  <2>2. QED
    BY <1>4, <1>5, <1>6, <2>1
<1>8. PagesType'
  BY <1>1, <1>2, <1>5 DEF PagesType
<1>9. Made' = Made
  BY <1>2, <1>7 DEF Made
<1>10. p \notin Range(freelist) /\ pages' \cap Range(freelist') = {}
  BY <1>1, <1>2, <1>7 DEF AllocRight
<1>11. \A i, j \in 1..Len(freelist') : freelist'[i] = freelist'[j] => i = j
  <2>1. \A i \in 1..Len(freelist) : freelist[i] # p
    BY <1>4, <1>10
  <2>2. \A i, j \in 1..Len(freelist) : freelist[i] = freelist[j] => i = j
    BY <1>1 DEF AllocRight
  <2>3. QED
    BY <1>4, <1>5, <2>1, <2>2
<1>12. AllocRight'
  BY <1>1, <1>2, <1>9, <1>10, <1>11 DEF AllocRight, Disjoint, LastByte
<1>13. QED
  BY <1>3, <1>8, <1>12 DEF PageInv

-----------------------------------------------------------------------------
(* MmapPageManager *)

(* What the allocator keeps while it is left alone.                        *)
LEMMA AllocatorIdle ==
  ASSUME AllocRight, UNCHANGED allocVars
  PROVE  AllocRight'
<1>1. UNCHANGED <<end_pos, freelist, pages>>
  BY DEF allocVars
<1>2. Made' = Made
  BY <1>1 DEF Made
<1>3. QED
  BY <1>1, <1>2 DEF AllocRight, Disjoint, LastByte

(* getPage() makes the file long enough for the page.                      *)
LEMMA GetPageStep ==
  ASSUME PageInv, NEW p \in pages, NEW pad \in BOOLEAN, GetPage(p, pad)
  PROVE  PageInv'
<1>1. PagesType /\ AllocRight /\ MapRight /\ p \in PageType
  BY DEF PageInv, PagesType
<1>2. /\ UNCHANGED <<block_size, end_pos, freelist, pages>> /\ UNCHANGED allocVars
      /\ UNCHANGED <<current_mapping, shrinking, refs>>
      /\ getting = << >> /\ getting' = <<p>>
  BY DEF GetPage, allocVars
<1>3. PICK n : n = LastByte(p)
  OBVIOUS
<1>4. n \in Nat
  BY <1>1, <1>3 DEF LastByte, PageType
<1>5. used_bytes' \in Nat /\ used_bytes' >= used_bytes /\ used_bytes' >= n
      /\ (used_bytes' = n \/ used_bytes' = used_bytes)
  BY <1>1, <1>3, <1>4 DEF GetPage, PagesType
<1>6. NewSize(n, pad) \in Nat /\ NewSize(n, pad) >= n
  BY <1>4, RoundsUp, SizesAssumption DEF NewSize
<1>7. \/ n > file_size /\ disk' = NewSize(n, pad) /\ file_size' = disk'
      \/ n <= file_size /\ disk' = disk /\ file_size' = file_size
  BY <1>1, <1>3, <1>4 DEF GetPage, PagesType
<1>8. raced' \in BOOLEAN /\ (~raced' => ~raced /\ shrinking = << >>)
  BY DEF GetPage
<1>9. getting'[1] = p /\ LastByte(p)' = n
  BY <1>2, <1>3 DEF LastByte
<1>10. PagesType'
  BY <1>1, <1>2, <1>5, <1>6, <1>7, <1>8, <1>9 DEF PagesType
<1>11. \A ref \in refs : LastByte(ref.page) \in Nat /\ LastByte(ref.page) <= used_bytes
  BY <1>1 DEF PagesType, MapRight, LastByte, PageType
<1>12. \A ref \in refs' : LastByte(ref.page) <= used_bytes'
  BY <1>1, <1>2, <1>5, <1>11 DEF PagesType
<1>13. LastByte(getting'[1]) <= used_bytes'
  BY <1>3, <1>5, <1>9
<1>14. ASSUME ~raced'
       PROVE  /\ disk' = file_size' /\ used_bytes' <= disk'
              /\ \A ref \in refs' : LastByte(ref.page) <= ref.map
              /\ shrinking' = << >>
  <2>1. ~raced /\ shrinking = << >> /\ disk = file_size /\ used_bytes <= disk
    BY <1>1, <1>8, <1>14 DEF MapRight
  <2>2. used_bytes' <= disk'
    BY <1>1, <1>4, <1>5, <1>6, <1>7, <2>1 DEF PagesType
  <2>3. QED
    BY <1>1, <1>2, <1>7, <2>1, <2>2 DEF MapRight
<1>15. MapRight'
  BY <1>12, <1>13, <1>14 DEF MapRight, LastByte
<1>16. QED
  BY <1>1, <1>2, <1>10, <1>15, AllocatorIdle DEF PageInv

(* The page is mapped, with a new mapping when the current one is short.   *)
LEMMA MapPageStep ==
  ASSUME PageInv, MapPage
  PROVE  PageInv'
<1>1. PagesType /\ AllocRight /\ MapRight
  BY DEF PageInv
<1>2. /\ UNCHANGED <<block_size, end_pos, freelist, pages>> /\ UNCHANGED allocVars
      /\ UNCHANGED <<used_bytes, file_size, disk, shrinking, raced>>
      /\ getting # << >> /\ getting' = << >>
  BY DEF MapPage, allocVars
<1>3. PICK p, m : p = getting[1] /\ m = current_mapping'
  OBVIOUS
<1>4. p \in PageType /\ LastByte(p) \in Nat /\ LastByte(p) <= used_bytes
  BY <1>1, <1>2, <1>3 DEF PagesType, MapRight, LastByte, PageType
<1>5. m \in Nat /\ (m = disk \/ m >= LastByte(p))
  BY <1>1, <1>3, <1>4 DEF MapPage, PagesType
<1>6. PICK new : new = [page |-> p, map |-> m]
  OBVIOUS
<1>7. refs' = refs \cup {new}
  BY <1>3, <1>6 DEF MapPage
<1>8. new \in [page : PageType, map : Nat] /\ new.page = p /\ new.map = m
  BY <1>4, <1>5, <1>6
<1>9. PagesType'
  BY <1>1, <1>2, <1>3, <1>5, <1>7, <1>8 DEF PagesType
<1>10. \A ref \in refs' : LastByte(ref.page) <= used_bytes'
  BY <1>1, <1>2, <1>4, <1>7, <1>8 DEF MapRight
<1>11. ASSUME ~raced'
       PROVE  /\ disk' = file_size' /\ used_bytes' <= disk'
              /\ \A ref \in refs' : LastByte(ref.page) <= ref.map
              /\ shrinking' # << >> => shrinking'[1] = used_bytes'
  <2>1. ~raced /\ used_bytes <= disk
    BY <1>1, <1>2, <1>11 DEF MapRight
  <2>2. LastByte(new.page) <= new.map
    BY <1>1, <1>4, <1>5, <1>8, <2>1 DEF PagesType
  <2>3. QED
    BY <1>1, <1>2, <1>7, <2>1, <2>2 DEF MapRight
<1>12. MapRight'
  BY <1>2, <1>10, <1>11 DEF MapRight, LastByte
<1>13. QED
  BY <1>1, <1>2, <1>9, <1>12, AllocatorIdle DEF PageInv

(* A reference is dropped.                                                 *)
LEMMA DropRefStep ==
  ASSUME PageInv, NEW ref \in refs, DropRef(ref)
  PROVE  PageInv'
<1>1. PagesType /\ AllocRight /\ MapRight
  BY DEF PageInv
<1>2. /\ UNCHANGED <<block_size, end_pos, freelist, pages>> /\ UNCHANGED allocVars
      /\ UNCHANGED <<used_bytes, file_size, disk, current_mapping, getting, shrinking, raced>>
      /\ refs' \subseteq refs
  BY DEF DropRef, allocVars, mmapVars
<1>3. PagesType'
  BY <1>1, <1>2 DEF PagesType
<1>4. MapRight'
  BY <1>1, <1>2 DEF MapRight, LastByte
<1>5. QED
  BY <1>1, <1>2, <1>3, <1>4, AllocatorIdle DEF PageInv

(* shrinkFile() reads used_bytes_.                                         *)
LEMMA ShrinkStep ==
  ASSUME PageInv, Shrink
  PROVE  PageInv'
<1>1. PagesType /\ AllocRight /\ MapRight
  BY DEF PageInv
<1>2. /\ UNCHANGED <<block_size, end_pos, freelist, pages>> /\ UNCHANGED allocVars
      /\ UNCHANGED <<used_bytes, file_size, disk, current_mapping, getting, refs>>
      /\ shrinking' = <<used_bytes>> /\ shrinking'[1] = used_bytes
  BY DEF Shrink, allocVars, mmapVars
<1>3. raced' \in BOOLEAN /\ (~raced' => ~raced /\ getting = << >>)
  BY DEF Shrink
<1>4. PagesType'
  BY <1>1, <1>2, <1>3 DEF PagesType
<1>5. MapRight'
  BY <1>1, <1>2, <1>3 DEF MapRight, LastByte
<1>6. QED
  BY <1>1, <1>2, <1>4, <1>5, AllocatorIdle DEF PageInv

(* shrinkFile() cuts the file off.                                         *)
LEMMA ShrinkTruncateStep ==
  ASSUME PageInv, ShrinkTruncate
  PROVE  PageInv'
<1>1. PagesType /\ AllocRight /\ MapRight
  BY DEF PageInv
<1>2. /\ UNCHANGED <<block_size, end_pos, freelist, pages>> /\ UNCHANGED allocVars
      /\ UNCHANGED <<used_bytes, current_mapping, getting, refs, raced>>
      /\ shrinking # << >> /\ shrinking' = << >>
      /\ disk' = shrinking[1] /\ file_size' = used_bytes
  BY DEF ShrinkTruncate, allocVars
<1>3. PagesType'
  BY <1>1, <1>2 DEF PagesType
<1>4. MapRight'
  BY <1>1, <1>2 DEF MapRight, LastByte, PagesType
<1>5. QED
  BY <1>1, <1>2, <1>3, <1>4, AllocatorIdle DEF PageInv

-----------------------------------------------------------------------------
(* The invariant *)

(* The invariant holds for a file that is opened.                          *)
LEMMA PagesStart == PagesInit => PageInv
<1>1. SUFFICES ASSUME PagesInit PROVE PageInv
  OBVIOUS
<1>2. /\ block_size \in Nat \ {0} /\ end_pos \in Nat /\ freelist = << >> /\ pages = {}
      /\ used_bytes = end_pos /\ file_size = end_pos /\ disk = end_pos
      /\ current_mapping = NoMapping /\ getting = << >> /\ shrinking = << >> /\ refs = {}
      /\ raced = FALSE
  BY <1>1, SizesAssumption DEF PagesInit
<1>3. freelist \in Seq(PageType) /\ Len(freelist) = 0 /\ Made = {}
  <2>1. freelist \in Seq(PageType) /\ Len(freelist) = 0
    BY <1>2
  <2>2. Range(freelist) = {freelist[k] : k \in 1..0}
    BY <2>1, RangeOfList
  <2>3. QED
    BY <1>2, <2>1, <2>2 DEF Made
<1>4. PagesType
  BY <1>2, <1>3 DEF PagesType
<1>5. AllocRight
  BY <1>2, <1>3 DEF AllocRight
<1>6. MapRight
  BY <1>2 DEF MapRight
<1>7. QED
  BY <1>4, <1>5, <1>6 DEF PageInv

(* Every step keeps the invariant.                                         *)
LEMMA PagesStep == PageInv /\ [PagesNext]_pageVars => PageInv'
<1>1. SUFFICES ASSUME PageInv, [PagesNext]_pageVars PROVE PageInv'
  OBVIOUS
<1>2. CASE UNCHANGED pageVars
  <2>1. /\ UNCHANGED allocVars /\ UNCHANGED <<block_size, end_pos, freelist, pages>>
        /\ UNCHANGED <<used_bytes, file_size, current_mapping, disk, getting, shrinking, refs, raced>>
    BY <1>2 DEF pageVars, allocVars, mmapVars
  <2>2. PagesType' /\ MapRight'
    BY <1>1, <2>1 DEF PageInv, PagesType, MapRight, LastByte
  <2>3. QED
    BY <1>1, <2>1, <2>2, AllocatorIdle DEF PageInv
<1>3. CASE PagesNext
  BY <1>1, <1>3, AllocPageStep, FreePageStep, GetPageStep, MapPageStep, DropRefStep, ShrinkStep,
     ShrinkTruncateStep DEF PagesNext
<1>4. QED
  BY <1>1, <1>2, <1>3

(* No byte belongs to two pages, a page is handed out or free and not      *)
(* both, and the page behind every PageRef lies inside its mapping and     *)
(* inside the file unless shrinkFile() has run beside getPage(), for files *)
(* and pages of any size (PageManager::allocPage, freePage,                *)
(* MmapPageManager::getPage, shrinkFile).                                  *)
THEOREM PagesUsableHolds == PagesSpec => []PagesUsable
<1>1. PageInv => PagesUsable
  <2>1. SUFFICES ASSUME PageInv PROVE PagesUsable
    OBVIOUS
  <2>2. PagesType /\ AllocRight /\ MapRight
    BY <2>1 DEF PageInv
  <2>3. ASSUME NEW ref \in refs, ~raced
        PROVE  LastByte(ref.page) <= ref.map /\ LastByte(ref.page) <= disk
    <3>1. LastByte(ref.page) \in Nat
      BY <2>2 DEF PagesType, LastByte, PageType
    <3>2. QED
      BY <2>2, <2>3, <3>1 DEF MapRight, PagesType
  <2>4. QED
    BY <2>2, <2>3 DEF PagesUsable, AllocRight, Made
<1>2. QED
  BY <1>1, PagesStart, PagesStep, PTL DEF PagesSpec
-----------------------------------------------------------------------------

\* Every set of numbers that is not empty has a least one.
LEMMA LeastNumber ==
    ASSUME NEW S, S # {}, S \subseteq Nat
    PROVE  \E m \in S : \A n \in S : m <= n
<1> DEFINE R == {p \in Nat \X Nat : p[1] < p[2]}
<1>1. IsWellFoundedOn(R, Nat)
    BY NatLessThanWellFounded, Zenon DEF OpToRel
<1> HIDE DEF R
<1>2. PICK m \in S : \A n \in S : ~(<<n, m>> \in R)
    BY <1>1, WFMin
<1>3. \A n \in S : ~(n < m)
    BY <1>2 DEF R
<1> QED
    BY <1>3

\* Seven bits of a number.
LEMMA Div128 ==
    ASSUME NEW v \in Nat
    PROVE  /\ v \div 128 \in Nat /\ v % 128 \in 0..127
           /\ v = 128 * (v \div 128) + (v % 128)
           /\ v >= 128 => v \div 128 < v
    OBVIOUS

\* Division by a buffer's size.
LEMMA DivB ==
    ASSUME NEW v \in Nat, NEW b \in Nat \ {0}
    PROVE  /\ v \div b \in Nat
           /\ (v \div b) * b <= v /\ v < (v \div b) * b + b
    OBVIOUS

\* A number that is read in two parts.
LEMMA Weighted ==
    ASSUME NEW W \in Nat, NEW q \in Nat, NEW b \in Nat, NEW a \in Nat, NEW r \in Nat, r = 128 * q + b
    PROVE  a + W * r = (a + b * W) + (W * 128) * q
    OBVIOUS

\* What \o yields, byte by byte.
LEMMA Joined ==
    ASSUME NEW s \in Seq(Nat), NEW t \in Seq(Nat)
    PROVE  /\ s \o t \in Seq(Nat) /\ Len(s \o t) = Len(s) + Len(t)
           /\ \A i \in 1..Len(s) : (s \o t)[i] = s[i]
           /\ \A i \in 1..Len(t) : (s \o t)[Len(s) + i] = t[i]
    OBVIOUS

\* It does not matter in which order three sequences are joined.
LEMMA Regrouped ==
    ASSUME NEW a \in Seq(Nat), NEW b \in Seq(Nat), NEW c \in Seq(Nat)
    PROVE  (a \o b) \o c = a \o (b \o c)
    BY ConcatAssociative

\* Data that goes half to the file and half to the buffer.
LEMMA CutInTwo ==
    ASSUME NEW w \in Seq(Nat), NEW d \in Seq(Nat), NEW t \in 0..Len(d)
    PROVE  /\ SubSeq(d, 1, t) \in Seq(Nat) /\ SubSeq(d, t + 1, Len(d)) \in Seq(Nat)
           /\ Len(SubSeq(d, 1, t)) = t /\ Len(SubSeq(d, t + 1, Len(d))) = Len(d) - t
           /\ (w \o SubSeq(d, 1, t)) \o SubSeq(d, t + 1, Len(d)) = w \o d
<1>1. Len(d) \in Nat /\ \A i \in 1..Len(d) : d[i] \in Nat
    OBVIOUS
<1>2. SubSeq(d, 1, t) \in Seq(Nat) /\ Len(SubSeq(d, 1, t)) = t
    BY <1>1, SubSeqProperties
<1>3. SubSeq(d, t + 1, Len(d)) \in Seq(Nat) /\ Len(SubSeq(d, t + 1, Len(d))) = Len(d) - t
    BY <1>1, SubSeqProperties
<1>4. SubSeq(d, 1, t) \o SubSeq(d, t + 1, Len(d)) = d
  <2>1. 1 \in 1..Len(d) + 1 /\ t \in 1 - 1..Len(d) /\ Len(d) \in t..Len(d)
      BY <1>1
  <2>2. SubSeq(d, 1, t) \o SubSeq(d, t + 1, Len(d)) = SubSeq(d, 1, Len(d))
      BY <2>1, ConcatAdjacentSubSeq
  <2> QED
      BY <2>2, SubSeqFull
<1>5. (w \o SubSeq(d, 1, t)) \o SubSeq(d, t + 1, Len(d)) = w \o (SubSeq(d, 1, t) \o SubSeq(d, t + 1, Len(d)))
    BY <1>2, <1>3, Regrouped
<1> QED
    BY <1>2, <1>3, <1>4, <1>5

\* The equation of VarUInt, for all numbers up to the largest.
Digits(g, v) == IF v < 128 THEN <<v>> ELSE <<128 + (v % 128)>> \o g[v \div 128]

\* By the least number that no function could be found up to.
LEMMA VarUIntUnfolds ==
    /\ VarUInt \in [0..MaxNumber -> Seq(Nat)]
    /\ \A v \in 0..MaxNumber : VarUInt[v] = Digits(VarUInt, v)
<1> DEFINE Upto(n, g) == \A v \in 0..MaxNumber : v < n => g[v] = Digits(g, v)
           Missing == {n \in Nat : ~\E g \in [0..MaxNumber -> Seq(Nat)] : Upto(n, g)}
<1>0. MaxNumber \in Nat
    BY StreamsAssumption
<1>1. 0 \notin Missing
  <2>1. [v \in 0..MaxNumber |-> << >>] \in [0..MaxNumber -> Seq(Nat)]
      OBVIOUS
  <2>2. Upto(0, [v \in 0..MaxNumber |-> << >>])
      BY <1>0
  <2> QED
      BY <2>1, <2>2
<1>6. \A v \in 0..MaxNumber : v >= 128 => v \div 128 \in 0..MaxNumber /\ v \div 128 < v /\ v % 128 \in 0..127
    BY <1>0, Div128
<1>2. ASSUME NEW n \in Nat, n \notin Missing
      PROVE  n + 1 \notin Missing
  <2>1. PICK g \in [0..MaxNumber -> Seq(Nat)] : Upto(n, g)
      BY <1>2
  <2>2. PICK h : h = [v \in 0..MaxNumber |-> Digits(g, v)]
      OBVIOUS
  <2>3. ASSUME NEW v \in 0..MaxNumber PROVE Digits(g, v) \in Seq(Nat)
    <3>1. CASE v < 128
        BY <1>0, <3>1 DEF Digits
    <3>2. CASE ~(v < 128)
      <4>1. g[v \div 128] \in Seq(Nat) /\ <<128 + (v % 128)>> \in Seq(Nat)
          BY <1>0, <1>6, <2>1, <3>2
      <4> QED
          BY <3>2, <4>1, Joined DEF Digits
    <3> QED
        BY <3>1, <3>2
  <2>4. h \in [0..MaxNumber -> Seq(Nat)]
      BY <2>2, <2>3
  <2>5. \A v \in 0..MaxNumber : v < n => h[v] = g[v]
      BY <2>1, <2>2
  <2>6. ASSUME NEW v \in 0..MaxNumber, v < n + 1
        PROVE  h[v] = Digits(h, v)
    <3>1. v >= 128 => h[v \div 128] = g[v \div 128]
        BY <1>0, <1>6, <2>5, <2>6
    <3> QED
        BY <1>0, <2>2, <3>1 DEF Digits
  <2> QED
      BY <2>4, <2>6
<1>3. Missing = {}
  <2>1. SUFFICES ASSUME Missing # {} PROVE FALSE
      OBVIOUS
  <2>2. Missing \subseteq Nat
      OBVIOUS
  <2> HIDE DEF Missing
  <2>3. PICK m \in Missing : \A n \in Missing : m <= n
      BY <2>1, <2>2, LeastNumber
  <2>4. m \in Nat /\ m # 0
      BY <1>1, <2>2, <2>3
  <2>5. m - 1 \in Nat /\ m - 1 \notin Missing /\ (m - 1) + 1 = m
      BY <2>2, <2>3, <2>4
  <2> QED
      BY <1>2, <2>3, <2>5
<1>4. PICK g \in [0..MaxNumber -> Seq(Nat)] : Upto(MaxNumber + 1, g)
  <2>1. \A n \in Nat : \E g \in [0..MaxNumber -> Seq(Nat)] : Upto(n, g)
      BY <1>3
  <2>2. MaxNumber + 1 \in Nat
      BY <1>0
  <2> QED
      BY <2>1, <2>2
<1>5. \A v \in 0..MaxNumber : g[v] = Digits(g, v)
    BY <1>0, <1>4
<1>7. g = [v \in 0..MaxNumber |-> Digits(g, v)]
    BY <1>4, <1>5
<1>8. VarUInt = CHOOSE f : f = [v \in 0..MaxNumber |-> Digits(f, v)]
    BY DEF VarUInt, Digits
<1>9. VarUInt = [v \in 0..MaxNumber |-> Digits(VarUInt, v)]
    BY <1>7, <1>8
<1>10. \A v \in 0..MaxNumber : VarUInt[v] = Digits(VarUInt, v)
    BY <1>9
<1>11. ASSUME NEW W, W = {v \in 0..MaxNumber : VarUInt[v] \notin Seq(Nat)}, W # {}
       PROVE  FALSE
  <2>0. W \subseteq Nat
      BY <1>0, <1>11
  <2>1. PICK v \in W : \A n \in W : v <= n
      BY <1>11, <2>0, LeastNumber
  <2>2. v \in 0..MaxNumber /\ VarUInt[v] = Digits(VarUInt, v) /\ VarUInt[v] \notin Seq(Nat)
      BY <1>10, <1>11, <2>1
  <2>3. CASE v < 128
    <3>1. VarUInt[v] = <<v>> /\ v \in Nat
        BY <1>0, <2>2, <2>3 DEF Digits
    <3> QED
        BY <2>2, <3>1
  <2>4. CASE ~(v < 128)
    <3>1. v \div 128 \in 0..MaxNumber /\ v \div 128 \notin W
        BY <1>0, <1>6, <2>1, <2>2, <2>4
    <3>2. VarUInt[v \div 128] \in Seq(Nat) /\ <<128 + (v % 128)>> \in Seq(Nat)
        BY <1>0, <1>6, <1>11, <2>2, <2>4, <3>1
    <3>3. VarUInt[v] = <<128 + (v % 128)>> \o VarUInt[v \div 128]
        BY <2>2, <2>4 DEF Digits
    <3>4. VarUInt[v] \in Seq(Nat)
        BY <3>2, <3>3, Joined
    <3> QED
        BY <2>2, <3>4
  <2> QED
      BY <2>3, <2>4
<1> QED
    BY <1>9, <1>10, <1>11

\* A number is one byte below 128, or its lowest seven bits with the sign to
\* go on and the bytes of the rest.
LEMMA VarUIntBytes ==
    ASSUME NEW v \in 0..MaxNumber
    PROVE  /\ VarUInt[v] \in Seq(Nat) /\ Len(VarUInt[v]) >= 1
           /\ v < 128 => Len(VarUInt[v]) = 1 /\ VarUInt[v][1] = v
           /\ v >= 128 =>
                /\ v \div 128 \in 0..MaxNumber
                /\ Len(VarUInt[v]) = 1 + Len(VarUInt[v \div 128])
                /\ VarUInt[v][1] = 128 + (v % 128)
                /\ \A j \in 1..Len(VarUInt[v \div 128]) : VarUInt[v][1 + j] = VarUInt[v \div 128][j]
<1>1. MaxNumber \in Nat /\ v \in Nat
    BY StreamsAssumption
<1>2. VarUInt[v] = Digits(VarUInt, v) /\ VarUInt[v] \in Seq(Nat)
    BY VarUIntUnfolds
<1>3. CASE v < 128
    BY <1>1, <1>2, <1>3 DEF Digits
<1>4. CASE v >= 128
  <2>1. v \div 128 \in 0..MaxNumber
      BY <1>1, <1>4, Div128
  <2>2. PICK a, b : a = <<128 + (v % 128)>> /\ b = VarUInt[v \div 128]
      OBVIOUS
  <2>3. a \in Seq(Nat) /\ b \in Seq(Nat) /\ Len(a) = 1 /\ a[1] = 128 + (v % 128)
      BY <1>1, <2>1, <2>2, VarUIntUnfolds, Div128
  <2>4. VarUInt[v] = a \o b
      BY <1>1, <1>2, <1>4, <2>2 DEF Digits
  <2> QED
      BY <1>1, <1>2, <1>4, <2>1, <2>2, <2>3, <2>4, Joined
<1> QED
    BY <1>1, <1>3, <1>4

\* The bytes of a value, a number or a string behind its length.
NumberOf(v) == IF v.string THEN Len(v.bytes) ELSE v.val

LEMMA EncodedBytes ==
    ASSUME NEW v \in Values
    PROVE  /\ v.string \in BOOLEAN /\ v.bytes \in Seq(Nat) /\ NumberOf(v) \in 0..MaxNumber
           /\ v.string => v = [string |-> TRUE, val |-> 0, bytes |-> v.bytes]
           /\ ~v.string => v = [string |-> FALSE, val |-> v.val, bytes |-> << >>]
           /\ Encoded(v) \in Seq(Nat)
           /\ Len(Encoded(v)) = Len(VarUInt[NumberOf(v)]) + Len(v.bytes)
           /\ \A j \in 1..Len(VarUInt[NumberOf(v)]) : Encoded(v)[j] = VarUInt[NumberOf(v)][j]
           /\ \A j \in 1..Len(v.bytes) : Encoded(v)[Len(VarUInt[NumberOf(v)]) + j] = v.bytes[j]
<1>1. CASE v.string
  <2>1. v \in [string : {TRUE}, val : {0}, bytes : Seq(Nat)] /\ Len(v.bytes) <= MaxNumber
      BY <1>1, StreamsAssumption
  <2>2. v.string = TRUE /\ v.bytes \in Seq(Nat) /\ Len(v.bytes) \in 0..MaxNumber
    <3>1. v.bytes \in Seq(Nat) /\ v.string = TRUE
        BY <2>1
    <3>2. PICK w : w = v.bytes
        OBVIOUS
    <3>3. Len(w) \in Nat
        BY <3>1, <3>2
    <3>4. MaxNumber \in Nat /\ Len(w) <= MaxNumber
        BY <2>1, <3>2, StreamsAssumption
    <3>5. Len(w) \in 0..MaxNumber
        BY <3>3, <3>4
    <3> QED
        BY <3>1, <3>2, <3>5
  <2>3. v = [string |-> TRUE, val |-> 0, bytes |-> v.bytes]
      BY <2>1
  <2>4. Encoded(v) = VarUInt[NumberOf(v)] \o v.bytes /\ NumberOf(v) = Len(v.bytes)
      BY <1>1 DEF Encoded, NumberOf
  <2>5. VarUInt[NumberOf(v)] \in Seq(Nat)
      BY <2>2, <2>4, VarUIntBytes
  <2>6. PICK a : a = VarUInt[NumberOf(v)]
      OBVIOUS
  <2>7. /\ a \o v.bytes \in Seq(Nat) /\ Len(a \o v.bytes) = Len(a) + Len(v.bytes)
        /\ \A i \in 1..Len(a) : (a \o v.bytes)[i] = a[i]
        /\ \A i \in 1..Len(v.bytes) : (a \o v.bytes)[Len(a) + i] = v.bytes[i]
      BY <2>2, <2>5, <2>6, Joined
  <2> QED
      BY <2>2, <2>3, <2>4, <2>6, <2>7
<1>2. CASE ~v.string
  <2>1. v \in [string : {FALSE}, val : 0..MaxNumber, bytes : {<< >>}]
      BY <1>2, StreamsAssumption
  <2>2. v.string = FALSE /\ v.bytes = << >> /\ v.val \in 0..MaxNumber
      BY <2>1
  <2>3. v = [string |-> FALSE, val |-> v.val, bytes |-> << >>]
      BY <2>1
  <2>4. Encoded(v) = VarUInt[NumberOf(v)] /\ NumberOf(v) = v.val
      BY <1>2 DEF Encoded, NumberOf
  <2>5. VarUInt[NumberOf(v)] \in Seq(Nat)
      BY <2>2, <2>4, VarUIntBytes
  <2>6. v.bytes \in Seq(Nat) /\ Len(v.bytes) = 0
      BY <2>2
  <2>7. Len(VarUInt[NumberOf(v)]) \in Nat
      BY <2>5
  <2>8. Len(Encoded(v)) = Len(VarUInt[NumberOf(v)]) + Len(v.bytes)
      BY <2>4, <2>6, <2>7
  <2>9. \A j \in 1..Len(v.bytes) : FALSE
      BY <2>6
  <2> QED
      BY <2>2, <2>3, <2>4, <2>5, <2>6, <2>8, <2>9
<1> QED
    BY <1>1, <1>2

\* What has been written is in the file and the buffer, value behind value.
Stream == valueFile \o wbuf

LaidOut(offs, bytes, vs) ==
    /\ offs \in [0..Len(vs) -> Nat]
    /\ offs[0] = 0 /\ offs[Len(vs)] = Len(bytes)
    /\ \A i \in 1..Len(vs) :
         /\ offs[i] = offs[i - 1] + Len(Encoded(vs[i]))
         /\ \A j \in 1..Len(Encoded(vs[i])) : bytes[offs[i - 1] + j] = Encoded(vs[i])[j]

StreamType ==
    /\ wbuf \in Seq(Nat) /\ Len(wbuf) <= BufferSize /\ valueFile \in Seq(Nat)
    /\ written \in Seq(Values)
    /\ fpos \in Nat /\ buf \in Seq(Nat) /\ buf_pos \in 0..Len(buf)
    /\ partial \in [val : Nat, weight : Nat, length : Int, bytes : Seq(Nat)]
    /\ values \in Seq(Values \cup {SkippedString}) /\ Len(values) <= Len(written)
    /\ mode \in {"write", "read", "eof"}

\* The buffer is the part of the file before the descriptor.
BufferRight ==
    /\ Len(buf) <= fpos /\ fpos <= Len(valueFile)
    /\ \A k \in 1..Len(buf) : buf[k] = valueFile[(fpos - Len(buf)) + k]

ReadSoFar == \A i \in 1..Len(values) : values[i] \in {written[i], SkippedString}

\* How far the reader is in the value behind the first n: d bytes, after
\* which the rest of a number, or of a string, is still to come.
InNumber(v, d, rest) ==
    /\ partial.length = -1 /\ partial.bytes = << >>
    /\ rest \in 0..MaxNumber
    /\ NumberOf(v) = partial.val + partial.weight * rest
    /\ Len(VarUInt[NumberOf(v)]) = d + Len(VarUInt[rest])
    /\ \A j \in 1..Len(VarUInt[rest]) : VarUInt[NumberOf(v)][d + j] = VarUInt[rest][j]

InString(v, d) ==
    /\ v.string /\ partial.length = Len(v.bytes) /\ Len(partial.bytes) < Len(v.bytes)
    /\ d = Len(VarUInt[NumberOf(v)]) + Len(partial.bytes)
    /\ \A j \in 1..Len(partial.bytes) : partial.bytes[j] = v.bytes[j]

Between == partial = NoValue

At(offs, d) ==
    /\ d \in Nat /\ fpos - (Len(buf) - buf_pos) = offs[Len(values)] + d
    /\ \/ Between /\ d = 0
       \/ /\ Len(values) < Len(written)
          /\ \/ \E rest \in 0..MaxNumber : InNumber(written[Len(values) + 1], d, rest)
             \/ InString(written[Len(values) + 1], d)

Writing == values = << >> /\ Between /\ fpos = 0 /\ buf = << >> /\ buf_pos = 0
Reading(offs) ==
    /\ wbuf = << >> /\ BufferRight
    /\ \E d \in Nat : At(offs, d)

StreamInv ==
    short \in BOOLEAN /\ (~short =>
      /\ StreamType /\ ReadSoFar
      /\ mode = "write" => Writing
      /\ \E offs \in [0..Len(written) -> Nat] :
           LaidOut(offs, Stream, written) /\ (mode # "write" => Reading(offs)))

\* A full buffer, and whole buffers of data, go to the file; no byte is lost.
LEMMA BufferedFacts ==
    ASSUME wbuf \in Seq(Nat), Len(wbuf) <= BufferSize, NEW data \in Seq(Nat), NEW b, b = Buffered(data)
    PROVE  /\ b.wbuf \in Seq(Nat) /\ Len(b.wbuf) <= BufferSize /\ b.handed \in Seq(Nat)
           /\ b.handed \o b.wbuf = wbuf \o data
<1>1. PICK room, rest : room = BufferSize - Len(wbuf) /\ rest = Len(data) - room
    OBVIOUS
<1>2. room \in Nat /\ rest \in Int /\ BufferSize \in Nat \ {0} /\ Len(data) \in Nat
    BY <1>1, StreamsAssumption
<1>3. CASE rest <= 0
  <2>1. b.wbuf = wbuf \o data /\ b.handed = << >>
      BY <1>1, <1>3 DEF Buffered
  <2>2. Len(data) <= room
      BY <1>1, <1>2, <1>3
  <2> QED
      BY <1>1, <1>2, <2>1, <2>2, Joined, ConcatEmptySeq
<1>4. CASE ~(rest <= 0)
  <2>1. PICK q : q = (rest - 1) \div BufferSize
      OBVIOUS
  <2>2. q \in Nat /\ q * BufferSize <= rest - 1 /\ rest - 1 < q * BufferSize + BufferSize
      BY <1>2, <1>4, <2>1, DivB
  <2>3. PICK t : t = room + q * BufferSize
      OBVIOUS
  <2>4. t \in 0..Len(data) /\ Len(data) - t <= BufferSize
      BY <1>1, <1>2, <2>2, <2>3
  <2>5. b.wbuf = SubSeq(data, t + 1, Len(data)) /\ b.handed = wbuf \o SubSeq(data, 1, t)
      BY <1>1, <1>4, <2>1, <2>3 DEF Buffered
  <2>6. SubSeq(data, 1, t) \in Seq(Nat)
      BY <2>4, CutInTwo
  <2>7. wbuf \o SubSeq(data, 1, t) \in Seq(Nat)
      BY <2>6, Joined
  <2>8. /\ SubSeq(data, t + 1, Len(data)) \in Seq(Nat) /\ Len(SubSeq(data, t + 1, Len(data))) = Len(data) - t
        /\ (wbuf \o SubSeq(data, 1, t)) \o SubSeq(data, t + 1, Len(data)) = wbuf \o data
      BY <2>4, CutInTwo
  <2> QED
      BY <2>4, <2>5, <2>7, <2>8
<1> QED
    BY <1>3, <1>4

\* No value begins behind the end, by the last one that would.
LEMMA LayoutMonotone ==
    ASSUME NEW vs \in Seq(Values), NEW bytes \in Seq(Nat),
           NEW offs \in [0..Len(vs) -> Nat], LaidOut(offs, bytes, vs)
    PROVE  \A i \in 0..Len(vs) : offs[i] <= Len(bytes)
<1>1. PICK n : n = Len(vs)
    OBVIOUS
<1>2. n \in Nat /\ offs[n] = Len(bytes) /\ Len(bytes) \in Nat
    BY <1>1 DEF LaidOut
<1>3. SUFFICES ASSUME NEW W, W = {k \in Nat : k <= n /\ ~(offs[n - k] <= Len(bytes))}, W # {}
               PROVE  FALSE
  <2>1. ASSUME NEW i \in 0..n, ~(offs[i] <= Len(bytes)) PROVE FALSE
    <3>1. PICK k : k = n - i
        OBVIOUS
    <3>2. k \in Nat /\ k <= n /\ n - k = i
        BY <1>2, <3>1
    <3>3. k \in {l \in Nat : l <= n /\ ~(offs[n - l] <= Len(bytes))}
        BY <2>1, <3>2
    <3> QED
        BY <1>3, <3>3
  <2> QED
      BY <1>1, <2>1
<1>4. PICK k \in W : \A l \in W : k <= l
    BY <1>3, LeastNumber
<1>5. k \in Nat /\ k <= n /\ ~(offs[n - k] <= Len(bytes)) /\ k # 0
    BY <1>2, <1>3, <1>4
<1>6. k - 1 \in Nat /\ k - 1 <= n /\ k - 1 \notin W
    BY <1>2, <1>4, <1>5
<1>7. offs[n - (k - 1)] <= Len(bytes)
    BY <1>3, <1>6
<1>8. n - (k - 1) \in 1..n /\ (n - (k - 1)) - 1 = n - k /\ n - k \in 0..n
    BY <1>2, <1>5
<1>9. offs[n - (k - 1)] = offs[n - k] + Len(Encoded(vs[n - (k - 1)]))
    BY <1>1, <1>8 DEF LaidOut
<1>10. Len(Encoded(vs[n - (k - 1)])) \in Nat
    BY <1>1, <1>8, EncodedBytes
<1>11. offs[n - k] \in Nat
    BY <1>1, <1>8
<1> QED
    BY <1>2, <1>5, <1>7, <1>9, <1>10, <1>11

\* Where the next value lies.
LiesAt(v, k, offs, bytes) ==
    /\ v \in Values /\ offs[k] \in Nat /\ offs[k + 1] <= Len(bytes)
    /\ offs[k + 1] = offs[k] + Len(Encoded(v))
    /\ \A j \in 1..Len(Encoded(v)) : bytes[offs[k] + j] = Encoded(v)[j]

LEMMA LayoutAt ==
    ASSUME NEW vs \in Seq(Values), NEW bytes \in Seq(Nat), NEW offs \in [0..Len(vs) -> Nat],
           LaidOut(offs, bytes, vs), NEW k \in Nat, k < Len(vs), NEW v, v = vs[k + 1]
    PROVE  LiesAt(v, k, offs, bytes)
<1>1. k + 1 \in 1..Len(vs) /\ (k + 1) - 1 = k /\ k \in 0..Len(vs) /\ k + 1 \in 0..Len(vs)
    OBVIOUS
<1>2. offs[k + 1] <= Len(bytes)
    BY <1>1, LayoutMonotone
<1>3. /\ offs[k + 1] = offs[k] + Len(Encoded(v))
      /\ \A j \in 1..Len(Encoded(v)) : bytes[offs[k] + j] = Encoded(v)[j]
    BY <1>1 DEF LaidOut
<1> QED
    BY <1>1, <1>2, <1>3 DEF LiesAt

\* A value is written behind the others.
LEMMA LayoutGrows ==
    ASSUME NEW vs \in Seq(Values), NEW bytes \in Seq(Nat), NEW v \in Values,
           NEW offs \in [0..Len(vs) -> Nat], LaidOut(offs, bytes, vs)
    PROVE  \E o \in [0..Len(Append(vs, v)) -> Nat] : LaidOut(o, bytes \o Encoded(v), Append(vs, v))
<1>1. PICK n, ws, o, e : /\ n = Len(vs) /\ ws = Append(vs, v) /\ e = Encoded(v)
                         /\ o = [i \in 0..n + 1 |-> IF i = n + 1 THEN offs[n] + Len(e) ELSE offs[i]]
    OBVIOUS
<1>2. n \in Nat /\ Len(ws) = n + 1 /\ ws[n + 1] = v /\ \A i \in 1..n : ws[i] = vs[i]
    BY <1>1
<1>3. e \in Seq(Nat) /\ Len(e) \in Nat
  <2>1. e \in Seq(Nat)
      BY <1>1, EncodedBytes
  <2> QED
      BY <2>1
<1>4. o \in [0..n + 1 -> Nat] /\ o[n + 1] = offs[n] + Len(e) /\ \A i \in 0..n : o[i] = offs[i]
  <2>1. \A i \in 0..n : offs[i] \in Nat /\ i \in 0..n + 1 /\ i # n + 1
    <3>1. offs \in [0..n -> Nat]
        BY <1>1
    <3>2. \A i \in 0..n : i \in 0..n + 1 /\ i # n + 1
        BY <1>2
    <3> QED
        BY <3>1, <3>2
  <2>2. n \in 0..n /\ n + 1 \in 0..n + 1 /\ \A i \in 0..n + 1 : i # n + 1 => i \in 0..n
      BY <1>2
  <2> QED
      BY <1>1, <1>3, <2>1, <2>2
<1>5. offs[n] = Len(bytes) /\ offs[0] = 0
    BY <1>1 DEF LaidOut
<1>6. PICK B : B = bytes \o e
    OBVIOUS
<1>7. /\ Len(B) = Len(bytes) + Len(e)
      /\ \A i \in 1..Len(bytes) : B[i] = bytes[i]
      /\ \A i \in 1..Len(e) : B[Len(bytes) + i] = e[i]
    BY <1>3, <1>6, Joined
<1>8. \A i \in 1..n : offs[i] <= Len(bytes)
  <2>1. \A i \in 0..Len(vs) : offs[i] <= Len(bytes)
      BY LayoutMonotone
  <2>2. \A i \in 1..n : i \in 0..Len(vs)
      BY <1>1, <1>2
  <2> QED
      BY <2>1, <2>2
<1>9. ASSUME NEW i \in 1..n + 1
      PROVE  /\ o[i] = o[i - 1] + Len(Encoded(ws[i]))
             /\ \A j \in 1..Len(Encoded(ws[i])) : B[o[i - 1] + j] = Encoded(ws[i])[j]
  <2>1. CASE i = n + 1
    <3>1. o[i] = Len(bytes) + Len(e) /\ i - 1 = n /\ n \in 0..n /\ ws[i] = v
        BY <1>2, <1>4, <1>5, <2>1
    <3>2. o[i - 1] = Len(bytes)
        BY <1>4, <1>5, <3>1
    <3> QED
        BY <1>1, <1>7, <3>1, <3>2
  <2>2. CASE i # n + 1
    <3>0. i \in 1..n /\ i \in 0..n /\ i - 1 \in 0..n
        BY <1>2, <2>2
    <3>1. i \in 1..n /\ i - 1 \in 0..n /\ ws[i] = vs[i] /\ o[i] = offs[i] /\ o[i - 1] = offs[i - 1]
        BY <1>2, <1>4, <3>0
    <3>2. /\ offs[i] = offs[i - 1] + Len(Encoded(vs[i]))
          /\ \A j \in 1..Len(Encoded(vs[i])) : bytes[offs[i - 1] + j] = Encoded(vs[i])[j]
        BY <1>1, <3>1 DEF LaidOut
    <3>3. Len(Encoded(vs[i])) \in Nat /\ offs[i - 1] \in Nat /\ offs[i] <= Len(bytes)
        BY <1>1, <1>8, <3>1, EncodedBytes
    <3>4. \A j \in 1..Len(Encoded(vs[i])) : offs[i - 1] + j \in 1..Len(bytes)
      <4>1. PICK before, len, end : before = offs[i - 1] /\ len = Len(Encoded(vs[i])) /\ end = Len(bytes)
          OBVIOUS
      <4>2. before \in Nat /\ len \in Nat /\ end \in Nat /\ before + len <= end
          BY <3>2, <3>3, <4>1
      <4>3. \A j \in 1..len : before + j \in 1..end
          BY <4>2
      <4> QED
          BY <4>1, <4>3
    <3> QED
        BY <1>7, <3>1, <3>2, <3>4
  <2> QED
      BY <2>1, <2>2
<1>10. o[0] = 0 /\ o[n + 1] = Len(B)
    BY <1>2, <1>4, <1>5, <1>7
<1>11. LaidOut(o, B, ws)
    BY <1>2, <1>4, <1>9, <1>10 DEF LaidOut
<1> QED
    BY <1>1, <1>2, <1>4, <1>6, <1>11

\* Refilling the buffer moves the descriptor and not the reader, who finds the
\* byte he stands before, or the end of the file.
LEMMA RefilledFacts ==
    ASSUME valueFile \in Seq(Nat), fpos \in Nat, buf \in Seq(Nat), buf_pos \in 0..Len(buf), BufferRight,
           NEW q, q = fpos - (Len(buf) - buf_pos), NEW r \in Refilled
    PROVE  /\ r.fpos \in Nat /\ r.buf \in Seq(Nat) /\ r.pos \in 0..Len(r.buf)
           /\ q \in Nat /\ q <= Len(valueFile) /\ r.fpos - (Len(r.buf) - r.pos) = q
           /\ Len(r.buf) <= r.fpos /\ r.fpos <= Len(valueFile)
           /\ \A k \in 1..Len(r.buf) : r.buf[k] = valueFile[(r.fpos - Len(r.buf)) + k]
           /\ r.pos < Len(r.buf) => q < Len(valueFile) /\ r.buf[r.pos + 1] = valueFile[q + 1]
           /\ r.pos >= Len(r.buf) => q = Len(valueFile)
<1>1. /\ Len(buf) \in Nat /\ Len(valueFile) \in Nat /\ Len(buf) <= fpos /\ fpos <= Len(valueFile)
      /\ \A k \in 1..Len(buf) : buf[k] = valueFile[(fpos - Len(buf)) + k]
  <2>1. Len(buf) \in Nat
      OBVIOUS
  <2>2. Len(valueFile) \in Nat
      OBVIOUS
  <2> QED
      BY <2>1, <2>2 DEF BufferRight
<1>2. CASE buf_pos < Len(buf)
  <2>1. r = InputAt(buf, buf_pos, fpos)
      BY <1>2 DEF Refilled
  <2>2. r.fpos = fpos /\ r.buf = buf /\ r.pos = buf_pos
      BY <2>1 DEF InputAt
  <2>3. PICK len, end : len = Len(buf) /\ end = Len(valueFile)
      OBVIOUS
  <2>4. /\ len \in Nat /\ end \in Nat /\ len <= fpos /\ fpos <= end /\ buf_pos \in 0..len
        /\ buf_pos < len /\ q = fpos - (len - buf_pos)
      BY <1>1, <1>2, <2>3
  <2>5. /\ buf_pos + 1 \in 1..len /\ (fpos - len) + (buf_pos + 1) = q + 1
        /\ q \in Nat /\ q < end /\ ~(buf_pos >= len)
    <3>1. PICK pos, at : pos = buf_pos /\ at = fpos
        OBVIOUS
    <3>2. /\ pos \in Nat /\ at \in Nat /\ len \in Nat /\ end \in Nat
          /\ pos < len /\ len <= at /\ at <= end /\ q = at - (len - pos)
        BY SMTT(30), <2>4, <3>1
    <3>3. pos + 1 \in 1..len /\ (at - len) + (pos + 1) = q + 1 /\ q \in Nat /\ q < end /\ ~(pos >= len)
        BY <3>2
    <3> QED
        BY <3>1, <3>3
  <2>6. buf[buf_pos + 1] = valueFile[q + 1]
      BY <1>1, <2>3, <2>5
  <2> QED
      BY <1>1, <2>2, <2>3, <2>4, <2>5, <2>6
<1>3. CASE ~(buf_pos < Len(buf))
  <2>1. PICK chunk \in Chunks : r = InputAt(chunk, 0, fpos + Len(chunk))
      BY <1>3 DEF Refilled
  <2>2. q = fpos
    <3>1. PICK n \in Nat : n = Len(buf)
        BY <1>1
    <3>2. buf_pos = n
        BY <1>3, <3>1
    <3> QED
        BY <3>1, <3>2
  <2>3. PICK left, most : left = Len(valueFile) - fpos /\ most = IF left < ChunkSize THEN left ELSE ChunkSize
      OBVIOUS
  <2>4. left \in Nat /\ ChunkSize \in Nat \ {0} /\ most <= left /\ (left > 0 => most > 0) /\ most \in Nat
      BY <1>1, <2>3, StreamsAssumption
  <2>5. PICK n \in IF left <= 0 THEN {0} ELSE 1..most : chunk = SubSeq(valueFile, fpos + 1, fpos + n)
      BY <2>1, <2>3 DEF Chunks
  <2>6. n \in Nat /\ n <= left /\ (left > 0 => n > 0)
      BY <2>4, <2>5
  <2>7. chunk \in Seq(Nat) /\ Len(chunk) = n /\ \A i \in 1..n : chunk[i] = valueFile[fpos + i]
    <3>1. fpos + 1 \in 1..Len(valueFile) + 1 /\ fpos + n \in fpos..Len(valueFile)
        BY <1>1, <2>3, <2>6
    <3>2. \A i \in fpos + 1..fpos + n : valueFile[i] \in Nat
        BY <1>1, <2>3, <2>6
    <3> QED
        BY <1>1, <2>5, <2>6, <3>1, <3>2, SubSeqProperties
  <2>8. r.buf = chunk /\ r.pos = 0 /\ r.fpos = fpos + n
      BY <2>1, <2>7 DEF InputAt
  <2>9. r.fpos \in Nat /\ r.fpos - Len(r.buf) = fpos /\ r.fpos <= Len(valueFile)
    <3>1. fpos + n \in Nat /\ (fpos + n) - n = fpos
        BY <2>6
    <3>2. fpos + n <= Len(valueFile)
        BY <1>1, <2>3, <2>6
    <3> QED
        BY <2>7, <2>8, <3>1, <3>2
  <2>10. \A k \in 1..Len(r.buf) : r.buf[k] = valueFile[(r.fpos - Len(r.buf)) + k]
      BY <2>7, <2>8, <2>9
  <2>13. r.pos = 0 /\ Len(r.buf) = n /\ q = fpos /\ Len(valueFile) = fpos + left
      BY <1>1, <2>2, <2>3, <2>7, <2>8
  <2>14. n > 0 => r.buf[1] = valueFile[fpos + 1]
      BY <2>6, <2>7, <2>8
  <2>11. r.pos < Len(r.buf) => q < Len(valueFile) /\ r.buf[r.pos + 1] = valueFile[q + 1]
    <3>1. n > 0 => fpos < fpos + left
        BY <1>1, <2>4, <2>6
    <3> QED
        BY <2>6, <2>13, <2>14, <3>1
  <2>12. r.pos >= Len(r.buf) => q = Len(valueFile)
    <3>1. 0 >= n => left = 0
        BY <2>4, <2>6
    <3>2. left = 0 => fpos = fpos + left
        BY <1>1
    <3> QED
        BY <2>13, <3>1, <3>2
  <2>15. r.buf \in Seq(Nat) /\ r.pos \in 0..Len(r.buf)
      BY <2>6, <2>7, <2>8, <2>13
  <2>16. q \in Nat /\ q <= Len(valueFile) /\ r.fpos - (Len(r.buf) - r.pos) = q /\ Len(r.buf) <= r.fpos
      BY <1>1, <2>2, <2>6, <2>8, <2>13
  <2> QED
      BY <2>9, <2>10, <2>11, <2>12, <2>15, <2>16
<1> QED
    BY <1>2, <1>3

\* The next byte of a number that is being read.
WithByteOfNumber(v, d, rest, byte) ==
    /\ byte = 128 + (rest % 128) /\ byte % 128 = rest % 128 /\ rest \div 128 \in 0..MaxNumber
    /\ NumberOf(v) = (partial.val + (rest % 128) * partial.weight) + (partial.weight * 128) * (rest \div 128)
    /\ Len(VarUInt[NumberOf(v)]) = (d + 1) + Len(VarUInt[rest \div 128])
    /\ \A j \in 1..Len(VarUInt[rest \div 128]) :
          VarUInt[NumberOf(v)][(d + 1) + j] = VarUInt[rest \div 128][j]

WithLastByteOfNumber(v, d, rest, byte) ==
    /\ byte = rest /\ byte % 128 = rest
    /\ NumberOf(v) = partial.val + rest * partial.weight
    /\ Len(VarUInt[NumberOf(v)]) = d + 1

LEMMA NumberByte ==
    ASSUME partial \in [val : Nat, weight : Nat, length : Int, bytes : Seq(Nat)],
           NEW v \in Values, NEW d \in Nat, NEW rest \in 0..MaxNumber, InNumber(v, d, rest),
           NEW byte, byte = Encoded(v)[d + 1]
    PROVE  /\ d < Len(Encoded(v))
           /\ rest >= 128 => WithByteOfNumber(v, d, rest, byte)
           /\ rest < 128 => WithLastByteOfNumber(v, d, rest, byte)
<1>1. PICK N, R, W, a : N = VarUInt[NumberOf(v)] /\ R = VarUInt[rest] /\ W = partial.weight /\ a = partial.val
    OBVIOUS
<1>2. /\ Len(N) = d + Len(R) /\ \A j \in 1..Len(R) : N[d + j] = R[j]
      /\ NumberOf(v) = a + W * rest
    BY <1>1 DEF InNumber
<1>3. W \in Nat /\ a \in Nat /\ rest \in Nat /\ MaxNumber \in Nat
    BY <1>1, StreamsAssumption
<1>4. R \in Seq(Nat) /\ Len(R) >= 1 /\ Len(R) \in Nat
  <2>1. R \in Seq(Nat) /\ Len(R) >= 1
      BY <1>1, VarUIntBytes
  <2> QED
      BY <2>1
<1>5. /\ NumberOf(v) \in 0..MaxNumber /\ v.bytes \in Seq(Nat)
      /\ Len(Encoded(v)) = Len(N) + Len(v.bytes) /\ \A j \in 1..Len(N) : Encoded(v)[j] = N[j]
    BY <1>1, EncodedBytes
<1>6. d + 1 \in 1..Len(N) /\ 1 \in 1..Len(R)
    BY <1>2, <1>4
<1>7. byte = N[d + 1] /\ N[d + 1] = R[1]
    BY <1>2, <1>5, <1>6
<1>8. d < Len(Encoded(v)) /\ d + 1 <= Len(N)
  <2>1. Len(v.bytes) \in Nat
      BY <1>5
  <2>2. d + 1 <= Len(N) /\ Len(N) \in Nat
      BY <1>2, <1>4
  <2>3. Len(Encoded(v)) = Len(N) + Len(v.bytes)
      BY <1>5
  <2> QED
      BY <2>1, <2>2, <2>3
<1>9. ASSUME rest >= 128
      PROVE  /\ byte = 128 + (rest % 128) /\ byte % 128 = rest % 128 /\ rest \div 128 \in 0..MaxNumber
             /\ NumberOf(v) = (a + (rest % 128) * W) + (W * 128) * (rest \div 128)
             /\ Len(N) = (d + 1) + Len(VarUInt[rest \div 128])
             /\ \A j \in 1..Len(VarUInt[rest \div 128]) : N[(d + 1) + j] = VarUInt[rest \div 128][j]
  <2>1. PICK Q : Q = VarUInt[rest \div 128]
      OBVIOUS
  <2>2. /\ rest \div 128 \in 0..MaxNumber /\ Len(R) = 1 + Len(Q) /\ R[1] = 128 + (rest % 128)
        /\ \A j \in 1..Len(Q) : R[1 + j] = Q[j]
      BY <1>1, <1>9, <2>1, VarUIntBytes
  <2>3. Q \in Seq(Nat)
      BY <2>1, <2>2, VarUIntBytes
  <2>4. Len(Q) \in Nat
      BY <2>3
  <2>5. /\ rest \div 128 \in Nat /\ rest % 128 \in 0..127 /\ rest = 128 * (rest \div 128) + (rest % 128)
      BY <1>3, Div128
  <2>6. a + W * rest = (a + (rest % 128) * W) + (W * 128) * (rest \div 128)
      BY <1>3, <2>5, Weighted
  <2>7. byte = 128 + (rest % 128)
      BY <1>7, <2>2
  <2>8. byte % 128 = rest % 128
      BY <2>5, <2>7
  <2>9. \A j \in 1..Len(Q) : 1 + j \in 1..Len(R) /\ (d + 1) + j = d + (1 + j)
      BY <2>2, <2>4
  <2>10. \A j \in 1..Len(Q) : N[(d + 1) + j] = Q[j]
      BY <1>2, <2>2, <2>9
  <2>11. Len(N) = (d + 1) + Len(Q)
      BY <1>2, <2>2, <2>4
  <2>12. NumberOf(v) = (a + (rest % 128) * W) + (W * 128) * (rest \div 128)
      BY <1>2, <2>6
  <2>13. /\ Len(N) = (d + 1) + Len(VarUInt[rest \div 128])
         /\ \A j \in 1..Len(VarUInt[rest \div 128]) : N[(d + 1) + j] = VarUInt[rest \div 128][j]
      BY <2>1, <2>10, <2>11, Zenon
  <2> QED
      BY <2>2, <2>7, <2>8, <2>12, <2>13, Zenon
<1>10. ASSUME rest < 128
       PROVE  byte = rest /\ byte % 128 = rest /\ NumberOf(v) = a + rest * W /\ Len(N) = d + 1
  <2>1. Len(R) = 1 /\ R[1] = rest
      BY <1>1, <1>10, VarUIntBytes
  <2>2. byte = rest
      BY <1>7, <2>1
  <2>3. byte % 128 = rest
      BY <1>3, <1>10, <2>2
  <2>4. W * rest = rest * W
      BY <1>3
  <2> QED
      BY <1>2, <2>1, <2>2, <2>3, <2>4
<1> QED
    BY <1>1, <1>8, <1>9, <1>10 DEF WithByteOfNumber, WithLastByteOfNumber

\* The next byte of a string that is being read.
WithByteOfString(v, d, bytes) ==
    /\ v.string /\ partial.length = Len(v.bytes) /\ partial.length > 0
    /\ bytes \in Seq(Nat) /\ Len(bytes) <= Len(v.bytes)
    /\ d + 1 = Len(VarUInt[NumberOf(v)]) + Len(bytes)
    /\ \A j \in 1..Len(bytes) : bytes[j] = v.bytes[j]

LEMMA StringByte ==
    ASSUME partial \in [val : Nat, weight : Nat, length : Int, bytes : Seq(Nat)],
           NEW v \in Values, NEW d \in Nat, InString(v, d),
           NEW byte, byte = Encoded(v)[d + 1], NEW bytes, bytes = Append(partial.bytes, byte)
    PROVE  d < Len(Encoded(v)) /\ WithByteOfString(v, d, bytes)
<1>1. PICK N, b, m : N = VarUInt[NumberOf(v)] /\ b = v.bytes /\ m = Len(partial.bytes)
    OBVIOUS
<1>2. /\ v.string /\ partial.length = Len(b) /\ m < Len(b) /\ d = Len(N) + m
      /\ \A j \in 1..m : partial.bytes[j] = b[j]
    BY <1>1 DEF InString
<1>3. /\ NumberOf(v) \in 0..MaxNumber /\ b \in Seq(Nat) /\ Len(Encoded(v)) = Len(N) + Len(b)
      /\ \A j \in 1..Len(b) : Encoded(v)[Len(N) + j] = b[j]
    BY <1>1, EncodedBytes
<1>4. Len(N) \in Nat
  <2>1. N \in Seq(Nat)
      BY <1>1, <1>3, VarUIntBytes
  <2> QED
      BY <2>1
<1>5. Len(b) \in Nat /\ m \in Nat
    BY <1>1, <1>3
<1>6. m + 1 \in 1..Len(b) /\ d + 1 = Len(N) + (m + 1) /\ d < Len(Encoded(v))
    BY <1>2, <1>3, <1>4, <1>5
<1>7. byte = b[m + 1] /\ b[m + 1] \in Nat
    BY SMTT(30), <1>3, <1>6
<1>8. /\ bytes \in Seq(Nat) /\ Len(bytes) = m + 1 /\ bytes[m + 1] = byte
      /\ \A j \in 1..m : bytes[j] = partial.bytes[j]
    BY <1>1, <1>7
<1>9. \A j \in 1..Len(bytes) : bytes[j] = b[j]
  <2>1. \A j \in 1..Len(bytes) : j = m + 1 \/ j \in 1..m
      BY <1>5, <1>8
  <2> QED
      BY <1>2, <1>7, <1>8, <2>1
<1>10. Len(bytes) <= Len(b) /\ d + 1 = Len(N) + Len(bytes) /\ Len(b) > 0
    BY <1>2, <1>5, <1>6, <1>8
<1>11. v.string /\ partial.length = Len(v.bytes) /\ partial.length > 0
    BY <1>1, <1>2, <1>10
<1>12. /\ bytes \in Seq(Nat) /\ Len(bytes) <= Len(v.bytes) /\ d + 1 = Len(VarUInt[NumberOf(v)]) + Len(bytes)
       /\ \A j \in 1..Len(bytes) : bytes[j] = v.bytes[j]
    BY <1>1, <1>8, <1>9, <1>10
<1>13. WithByteOfString(v, d, bytes)
    BY <1>11, <1>12 DEF WithByteOfString
<1> QED
    BY <1>6, <1>13

\* The reader has gone on inside a value.
LEMMA StillReading ==
    ASSUME StreamType, ReadSoFar, short = FALSE, wbuf = << >>, mode' = "read", UNCHANGED <<outputVars, values>>,
           NEW offs \in [0..Len(written) -> Nat], LaidOut(offs, valueFile, written),
           Len(values) < Len(written), NEW v, v = written[Len(values) + 1], NEW d \in Nat,
           partial' \in [val : Nat, weight : Nat, length : Int, bytes : Seq(Nat)],
           (\E rest \in 0..MaxNumber : InNumber(v, d, rest)') \/ InString(v, d)',
           fpos' \in Nat, buf' \in Seq(Nat), buf_pos' \in 0..Len(buf'), BufferRight',
           fpos' - (Len(buf') - buf_pos') = offs[Len(values)] + d
    PROVE  StreamInv'
<1>1. wbuf' = wbuf /\ valueFile' = valueFile /\ written' = written /\ short' = short /\ values' = values
    BY DEF outputVars
<1>2. StreamType'
    BY <1>1 DEF StreamType
<1>3. ReadSoFar'
    BY <1>1 DEF ReadSoFar
<1>4. Stream' = valueFile
    BY <1>1 DEF StreamType, Stream
<1>5. LaidOut(offs, Stream, written)'
    BY <1>1, <1>4 DEF LaidOut
<1>6. v = written'[Len(values') + 1]
    BY <1>1
<1>7. At(offs, d)'
    BY <1>1, <1>6 DEF At
<1>8. Reading(offs)'
    BY <1>1, <1>7 DEF Reading
<1>9. offs \in [0..Len(written') -> Nat] /\ mode' # "write" /\ short' \in BOOLEAN
    BY <1>1
<1> QED
    BY <1>2, <1>3, <1>5, <1>8, <1>9 DEF StreamInv

\* The reader has reached the end of a value.
LEMMA ValueRead ==
    ASSUME StreamType, ReadSoFar, short = FALSE, wbuf = << >>, mode' = "read", UNCHANGED outputVars,
           NEW offs \in [0..Len(written) -> Nat], LaidOut(offs, valueFile, written),
           Len(values) < Len(written), NEW x \in {written[Len(values) + 1], SkippedString},
           values' = Append(values, x), partial' = NoValue,
           fpos' \in Nat, buf' \in Seq(Nat), buf_pos' \in 0..Len(buf'), BufferRight',
           fpos' - (Len(buf') - buf_pos') = offs[Len(values) + 1]
    PROVE  StreamInv'
<1>1. wbuf' = wbuf /\ valueFile' = valueFile /\ written' = written /\ short' = short
    BY DEF outputVars
<1>2. PICK k : k = Len(values)
    OBVIOUS
<1>3. k \in Nat /\ k + 1 \in 1..Len(written) /\ written[k + 1] \in Values
  <2>1. written \in Seq(Values) /\ values \in Seq(Values \cup {SkippedString})
      BY DEF StreamType
  <2>2. k \in Nat
      BY <1>2, <2>1
  <2>3. Len(written) \in Nat /\ \A i \in 1..Len(written) : written[i] \in Values
      BY <2>1
  <2>4. k + 1 \in 1..Len(written)
      BY <1>2, <2>2, <2>3
  <2> QED
      BY <2>2, <2>3, <2>4
<1>4. /\ values' \in Seq(Values \cup {SkippedString}) /\ Len(values') = k + 1 /\ values'[k + 1] = x
      /\ \A i \in 1..k : values'[i] = values[i]
  <2>1. values \in Seq(Values \cup {SkippedString}) /\ x \in Values \cup {SkippedString}
      BY <1>2, <1>3 DEF StreamType
  <2> QED
      BY <1>2, <2>1
<1>5. NoValue \in [val : Nat, weight : Nat, length : Int, bytes : Seq(Nat)]
    BY DEF NoValue
<1>6. StreamType'
    BY <1>1, <1>3, <1>4, <1>5 DEF StreamType
<1>7. ReadSoFar'
  <2>1. ASSUME NEW i \in 1..k + 1 PROVE values'[i] \in {written[i], SkippedString}
    <3>1. CASE i = k + 1
        BY <1>2, <1>4, <3>1
    <3>2. CASE i # k + 1
      <4>1. i \in 1..k
          BY <1>3, <3>2
      <4> QED
          BY <1>2, <1>4, <4>1 DEF ReadSoFar
    <3> QED
        BY <3>1, <3>2
  <2> QED
      BY <1>1, <1>4, <2>1 DEF ReadSoFar
<1>8. Stream' = valueFile
    BY <1>1 DEF StreamType, Stream
<1>9. LaidOut(offs, Stream, written)'
    BY <1>1, <1>8 DEF LaidOut
<1>10. At(offs, 0)'
  <2>1. k + 1 \in 0..Len(written)
      BY <1>3
  <2>2. offs[k + 1] \in Nat /\ offs[k + 1] + 0 = offs[k + 1]
      BY <2>1
  <2> QED
      BY <1>2, <1>4, <2>2 DEF At, Between
<1>11. Reading(offs)'
    BY <1>1, <1>10 DEF Reading
<1>12. offs \in [0..Len(written') -> Nat] /\ mode' # "write" /\ short' \in BOOLEAN
    BY <1>1
<1> QED
    BY <1>6, <1>7, <1>9, <1>11, <1>12 DEF StreamInv

\* What the invariant says of a reader.
LEMMA ReaderFacts ==
    ASSUME StreamInv, short = FALSE, mode # "write"
    PROVE  /\ StreamType /\ ReadSoFar /\ wbuf = << >> /\ BufferRight
           /\ \E offs \in [0..Len(written) -> Nat] :
                LaidOut(offs, valueFile, written) /\ \E d \in Nat : At(offs, d)
<1>1. StreamType /\ ReadSoFar
    BY DEF StreamInv
<1>2. PICK offs \in [0..Len(written) -> Nat] : LaidOut(offs, Stream, written) /\ Reading(offs)
    BY DEF StreamInv
<1>3. wbuf = << >> /\ BufferRight /\ \E d \in Nat : At(offs, d)
    BY <1>2 DEF Reading
<1>4. Stream = valueFile
    BY <1>1, <1>3 DEF StreamType, Stream
<1>5. LaidOut(offs, valueFile, written)
    BY <1>2, <1>4
<1> QED
    BY <1>1, <1>3, <1>5

\* The reader takes the next byte of a value.
LEMMA ReadByteStep ==
    ASSUME StreamInv, NEW string \in BOOLEAN, ReadByte(string)
    PROVE  StreamInv'
<1>1. /\ mode = "read" /\ Len(values) < Len(written) /\ string = written[Len(values) + 1].string
      /\ UNCHANGED outputVars
    BY DEF ReadByte
<1>2. short' = short /\ short \in BOOLEAN
    BY <1>1 DEF StreamInv, outputVars
<1>3. CASE short
    BY <1>2, <1>3 DEF StreamInv
<1>4. CASE ~short
  <2>1. short = FALSE
      BY <1>2, <1>4
  <2>2. StreamType /\ ReadSoFar /\ wbuf = << >> /\ BufferRight
      BY <1>1, <2>1, ReaderFacts
  <2>3. PICK offs \in [0..Len(written) -> Nat] : LaidOut(offs, valueFile, written) /\ \E d \in Nat : At(offs, d)
      BY <1>1, <2>1, ReaderFacts
  <2>4. PICK d \in Nat : At(offs, d)
      BY <2>3
  <2>5. PICK k, v : k = Len(values) /\ v = written[k + 1]
      OBVIOUS
  <2>6. /\ written \in Seq(Values) /\ values \in Seq(Values \cup {SkippedString}) /\ valueFile \in Seq(Nat)
        /\ fpos \in Nat /\ buf \in Seq(Nat) /\ buf_pos \in 0..Len(buf)
        /\ partial \in [val : Nat, weight : Nat, length : Int, bytes : Seq(Nat)]
      BY <2>2 DEF StreamType
  <2>7. k \in Nat /\ k < Len(written)
      BY <1>1, <2>5, <2>6
  <2>8. /\ v \in Values /\ offs[k] \in Nat /\ offs[k + 1] <= Len(valueFile)
        /\ offs[k + 1] = offs[k] + Len(Encoded(v))
        /\ \A j \in 1..Len(Encoded(v)) : valueFile[offs[k] + j] = Encoded(v)[j]
    <3>1. LiesAt(v, k, offs, valueFile)
        BY <2>3, <2>5, <2>6, <2>7, LayoutAt
    <3> QED
        BY <3>1 DEF LiesAt
  <2>9. /\ v.string \in BOOLEAN /\ v.bytes \in Seq(Nat) /\ NumberOf(v) \in 0..MaxNumber
        /\ v.string => v = [string |-> TRUE, val |-> 0, bytes |-> v.bytes]
        /\ ~v.string => v = [string |-> FALSE, val |-> v.val, bytes |-> << >>]
        /\ Encoded(v) \in Seq(Nat)
        /\ Len(Encoded(v)) = Len(VarUInt[NumberOf(v)]) + Len(v.bytes)
      BY <2>8, EncodedBytes
  <2>10. PICK q : q = fpos - (Len(buf) - buf_pos)
      OBVIOUS
  <2>11. q = offs[k] + d
      BY <2>4, <2>5, <2>10 DEF At
  <2>12. (\E rest \in 0..MaxNumber : InNumber(v, d, rest)) \/ InString(v, d)
    <3>1. CASE Between /\ d = 0
      <4>1. partial.val = 0 /\ partial.weight = 1 /\ partial.length = -1 /\ partial.bytes = << >>
          BY <3>1 DEF Between, NoValue
      <4>2. VarUInt[NumberOf(v)] \in Seq(Nat)
          BY <2>9, VarUIntBytes
      <4>3. Len(VarUInt[NumberOf(v)]) \in Nat
          BY <4>2
      <4>4. NumberOf(v) = 0 + 1 * NumberOf(v) /\ Len(VarUInt[NumberOf(v)]) = 0 + Len(VarUInt[NumberOf(v)])
          BY <2>9, <4>3, StreamsAssumption
      <4>5. \A j \in 1..Len(VarUInt[NumberOf(v)]) : 0 + j = j
          BY <4>3
      <4>6. InNumber(v, 0, NumberOf(v))
          BY <2>9, <4>1, <4>4, <4>5 DEF InNumber
      <4> QED
          BY <2>9, <3>1, <4>6
    <3>2. CASE ~(Between /\ d = 0)
        BY <2>4, <2>5, <3>2 DEF At
    <3> QED
        BY <3>1, <3>2
  <2>13. PICK e : e = Encoded(v)[d + 1]
      OBVIOUS
  <2>14. d < Len(Encoded(v))
      BY <2>6, <2>8, <2>12, <2>13, NumberByte, StringByte
  <2>15. q < Len(valueFile) /\ valueFile[q + 1] = e
    <3>1. PICK E : E = Encoded(v)
        OBVIOUS
    <3>2. E \in Seq(Nat) /\ offs[k] \in Nat /\ offs[k] + Len(E) <= Len(valueFile) /\ d < Len(E)
        BY <2>8, <2>9, <2>14, <3>1
    <3>3. Len(E) \in Nat /\ Len(valueFile) \in Nat
        BY SMTT(30), <2>6, <3>2
    <3>4. d + 1 \in 1..Len(E) /\ offs[k] + (d + 1) = q + 1 /\ q < Len(valueFile)
        BY <2>11, <3>2, <3>3
    <3>5. valueFile[offs[k] + (d + 1)] = E[d + 1]
        BY <2>8, <3>1, <3>4
    <3> QED
        BY <2>13, <3>1, <3>4, <3>5
  <2> DEFINE Done(byte, p) ==
                IF partial.length < 0 /\ byte >= 128
                THEN partial' = p /\ UNCHANGED values
                ELSE IF partial.length < 0 /\ string /\ p.val > 0
                THEN partial' = [p EXCEPT !.length = p.val] /\ UNCHANGED values
                ELSE IF Len(p.bytes) < p.length
                THEN partial' = p /\ UNCHANGED values
                ELSE /\ partial' = NoValue
                     /\ values' = Append(values, [string |-> string, bytes |-> p.bytes,
                                                  val |-> IF string THEN 0 ELSE p.val])
  <2>16. PICK r \in Refilled :
            /\ fpos' = r.fpos /\ buf' = r.buf
            /\ r.pos < Len(r.buf) => /\ buf_pos' = r.pos + 1 /\ UNCHANGED mode
                                    /\ Done(r.buf[r.pos + 1], TakeByte(partial, r.buf[r.pos + 1]))
    <3>1. PICK r \in Refilled :
            /\ fpos' = r.fpos /\ buf' = r.buf
            /\ IF r.pos >= Len(r.buf)
               THEN mode' = "raised" /\ buf_pos' = r.pos /\ UNCHANGED <<partial, values>>
               ELSE \E byte \in {r.buf[r.pos + 1]}, p \in {TakeByte(partial, r.buf[r.pos + 1])} :
                      buf_pos' = r.pos + 1 /\ UNCHANGED mode /\ Done(byte, p)
        BY DEF ReadByte
    <3>2. /\ r.pos \in Nat /\ Len(r.buf) \in Nat
      <4>1. r.buf \in Seq(Nat) /\ r.pos \in 0..Len(r.buf)
          BY <2>2, <2>6, <2>10, RefilledFacts
      <4> QED
          BY <4>1
    <3> HIDE DEF Done
    <3>3. r.pos < Len(r.buf) => ~(r.pos >= Len(r.buf))
        BY <3>2
    <3> QED
        BY <3>1, <3>3
  <2> HIDE DEF Done
  <2>17. /\ r.fpos \in Nat /\ r.buf \in Seq(Nat) /\ r.pos \in 0..Len(r.buf)
         /\ r.fpos - (Len(r.buf) - r.pos) = q
         /\ Len(r.buf) <= r.fpos /\ r.fpos <= Len(valueFile)
         /\ \A i \in 1..Len(r.buf) : r.buf[i] = valueFile[(r.fpos - Len(r.buf)) + i]
         /\ r.pos < Len(r.buf) => q < Len(valueFile) /\ r.buf[r.pos + 1] = valueFile[q + 1]
         /\ r.pos >= Len(r.buf) => q = Len(valueFile)
      BY <2>2, <2>6, <2>10, RefilledFacts
  <2>18. r.pos < Len(r.buf) /\ r.buf[r.pos + 1] = e
    <3>1. r.pos \in Nat /\ Len(r.buf) \in Nat /\ Len(valueFile) \in Nat /\ q # Len(valueFile)
      <4>1. Len(r.buf) \in Nat /\ Len(valueFile) \in Nat
          BY <2>6, <2>17
      <4>2. q \in Nat
          BY <2>8, <2>11
      <4> QED
          BY <2>15, <2>17, <4>1, <4>2
    <3> QED
        BY <2>15, <2>17, <3>1
  <2>19. PICK p : p = TakeByte(partial, e)
      OBVIOUS
  <2>20. buf_pos' = r.pos + 1 /\ mode' = "read" /\ Done(e, p)
      BY <1>1, <2>16, <2>18, <2>19
  <2>21. valueFile' = valueFile
      BY <1>1 DEF outputVars
  <2>22. /\ fpos' \in Nat /\ buf' \in Seq(Nat) /\ buf_pos' \in 0..Len(buf') /\ BufferRight'
         /\ fpos' - (Len(buf') - buf_pos') = offs[k] + (d + 1)
    <3>1. fpos' = r.fpos /\ buf' = r.buf /\ buf_pos' = r.pos + 1
        BY <2>16, <2>20
    <3>2. Len(r.buf) \in Nat /\ r.pos \in Nat
        BY <2>17
    <3>5. /\ r.fpos \in Nat /\ offs[k] \in Nat /\ r.fpos - (Len(r.buf) - r.pos) = offs[k] + d
          /\ r.pos < Len(r.buf)
        BY <2>8, <2>11, <2>17, <2>18
    <3>6. PICK rp, rl, rf, ok : rp = r.pos /\ rl = Len(r.buf) /\ rf = r.fpos /\ ok = offs[k]
        OBVIOUS
    <3>7. rp \in Nat /\ rl \in Nat /\ rf \in Nat /\ ok \in Nat /\ rf - (rl - rp) = ok + d /\ rp < rl
        BY <3>2, <3>5, <3>6
    <3>8. rp + 1 \in 0..rl /\ rf - (rl - (rp + 1)) = ok + (d + 1)
        BY <3>7
    <3>3. r.pos + 1 \in 0..Len(r.buf) /\ r.fpos - (Len(r.buf) - (r.pos + 1)) = offs[k] + (d + 1)
        BY <3>6, <3>8
    <3>4. BufferRight'
        BY <2>17, <2>21, <3>1 DEF BufferRight
    <3> QED
        BY <2>17, <3>1, <3>3, <3>4
  <2>23. ASSUME UNCHANGED values, partial' \in [val : Nat, weight : Nat, length : Int, bytes : Seq(Nat)],
                (\E rest \in 0..MaxNumber : InNumber(v, d + 1, rest)') \/ InString(v, d + 1)'
         PROVE  StreamInv'
    <3>1. d + 1 \in Nat
        OBVIOUS
    <3> QED
        BY <1>1, <2>1, <2>2, <2>3, <2>5, <2>20, <2>22, <2>23, <3>1, StillReading
  <2>24. ASSUME values' = Append(values, v), partial' = NoValue, d + 1 = Len(Encoded(v))
         PROVE  StreamInv'
    <3>1. fpos' - (Len(buf') - buf_pos') = offs[k + 1]
        BY <2>8, <2>22, <2>24
    <3> QED
        BY <1>1, <2>1, <2>2, <2>3, <2>5, <2>20, <2>22, <2>24, <3>1, ValueRead
  <2>25. ASSUME NEW rest \in 0..MaxNumber, InNumber(v, d, rest)
         PROVE  StreamInv'
    <3>1. /\ partial.length = -1 /\ partial.bytes = << >>
          /\ partial.val \in Nat /\ partial.weight \in Nat
        BY <2>6, <2>25 DEF InNumber
    <3>2. p = [partial EXCEPT !.val = @ + (e % 128) * partial.weight, !.weight = @ * 128]
        BY <2>19, <3>1 DEF TakeByte
    <3>3. /\ p.val = partial.val + (e % 128) * partial.weight /\ p.weight = partial.weight * 128
          /\ p.length = -1 /\ p.bytes = << >>
        BY <2>6, <3>1, <3>2
    <3>4. CASE rest >= 128
      <4>1. /\ e = 128 + (rest % 128) /\ e % 128 = rest % 128 /\ rest \div 128 \in 0..MaxNumber
            /\ NumberOf(v) = (partial.val + (rest % 128) * partial.weight) + (partial.weight * 128) * (rest \div 128)
            /\ Len(VarUInt[NumberOf(v)]) = (d + 1) + Len(VarUInt[rest \div 128])
            /\ \A j \in 1..Len(VarUInt[rest \div 128]) :
                  VarUInt[NumberOf(v)][(d + 1) + j] = VarUInt[rest \div 128][j]
        <5>1. partial \in [val : Nat, weight : Nat, length : Int, bytes : Seq(Nat)] /\ v \in Values
            BY <2>6, <2>8
        <5>2. InNumber(v, d, rest) /\ rest >= 128
            BY <2>25, <3>4
        <5>3. WithByteOfNumber(v, d, rest, e)
            BY <5>1, <5>2, <2>13, NumberByte
        <5> QED
            BY <5>3 DEF WithByteOfNumber
      <4>2. rest \in Nat /\ rest % 128 \in 0..127 /\ e >= 128
        <5>1. rest \in Nat
            BY StreamsAssumption
        <5>2. rest % 128 \in 0..127
            BY <5>1, Div128
        <5> QED
            BY <4>1, <5>1, <5>2
      <4>3. partial' = p /\ UNCHANGED values
          BY <2>20, <3>1, <4>2 DEF Done
      <4>4. partial' \in [val : Nat, weight : Nat, length : Int, bytes : Seq(Nat)]
        <5>1. (e % 128) * partial.weight \in Nat /\ partial.weight * 128 \in Nat
            BY SMTT(30), <3>1, <4>1, <4>2
        <5>2. partial.val + (e % 128) * partial.weight \in Nat
            BY <3>1, <5>1
        <5> QED
            BY <2>6, <3>2, <4>3, <5>1, <5>2
      <4>5. InNumber(v, d + 1, rest \div 128)'
        <5>1. p.val = partial.val + (rest % 128) * partial.weight
            BY <3>3, <4>1
        <5>2. NumberOf(v) = p.val + p.weight * (rest \div 128)
            BY <3>3, <4>1, <5>1
        <5> QED
            BY <3>3, <4>1, <4>3, <5>2 DEF InNumber
      <4> QED
          BY <2>23, <4>1, <4>3, <4>4, <4>5
    <3>5. CASE ~(rest >= 128)
      <4>0. rest < 128 /\ rest \in Nat
          BY <3>5, StreamsAssumption
      <4>1. /\ e = rest /\ e % 128 = rest /\ NumberOf(v) = partial.val + rest * partial.weight
            /\ Len(VarUInt[NumberOf(v)]) = d + 1
        <5>1. partial \in [val : Nat, weight : Nat, length : Int, bytes : Seq(Nat)] /\ v \in Values
            BY <2>6, <2>8
        <5>2. InNumber(v, d, rest) /\ rest < 128
            BY <2>25, <4>0
        <5>3. WithLastByteOfNumber(v, d, rest, e)
            BY <5>1, <5>2, <2>13, NumberByte
        <5> QED
            BY <5>3 DEF WithLastByteOfNumber
      <4>2. p.val = NumberOf(v) /\ ~(e >= 128)
          BY <3>3, <4>0, <4>1
      <4>3. NumberOf(v) \in Nat
          BY <2>9, StreamsAssumption
      <4>4. CASE string /\ p.val > 0
        <5>1. v.string /\ NumberOf(v) = Len(v.bytes)
            BY <1>1, <2>5, <4>4 DEF NumberOf
        <5>2. partial' = [p EXCEPT !.length = p.val] /\ UNCHANGED values
            BY <2>20, <3>1, <4>2, <4>4 DEF Done
        <5>3. partial' \in [val : Nat, weight : Nat, length : Int, bytes : Seq(Nat)]
          <6>1. partial.weight * 128 \in Nat
              BY <3>1
          <6>2. p \in [val : Nat, weight : Nat, length : Int, bytes : Seq(Nat)]
              BY <2>6, <3>2, <3>3, <4>2, <4>3, <6>1
          <6> QED
              BY SMTT(30), <4>2, <4>3, <5>2, <6>2
        <5>4. partial'.length = Len(v.bytes) /\ partial'.bytes = << >>
            BY <2>6, <3>2, <3>3, <4>2, <5>1, <5>2
        <5>5. Len(partial'.bytes) = 0 /\ Len(v.bytes) > 0
            BY <4>2, <4>4, <5>1, <5>4
        <5>6. d + 1 = Len(VarUInt[NumberOf(v)]) + 0 /\ \A j \in 1..0 : FALSE
            BY <4>1
        <5>7. InString(v, d + 1)'
            BY <5>1, <5>4, <5>5, <5>6 DEF InString
        <5> QED
            BY <2>23, <5>2, <5>3, <5>7
      <4>5. CASE ~(string /\ p.val > 0)
        <5>1. Len(p.bytes) = 0 /\ p.length = -1 /\ ~(0 < -1)
            BY <3>3
        <5>2. /\ partial' = NoValue
              /\ values' = Append(values, [string |-> string, bytes |-> p.bytes,
                                           val |-> IF string THEN 0 ELSE p.val])
            BY <2>20, <3>1, <4>2, <4>5, <5>1 DEF Done
        <5>3. string = v.string
            BY <1>1, <2>5
        <5>4. Len(v.bytes) = 0 /\ v = [string |-> string, bytes |-> << >>, val |-> IF string THEN 0 ELSE p.val]
          <6>1. CASE string
            <7>1. NumberOf(v) = Len(v.bytes) /\ Len(v.bytes) = 0
                BY <4>2, <4>3, <4>5, <5>3, <6>1 DEF NumberOf
            <7>2. v.bytes = << >>
                BY <2>9, <7>1
            <7> QED
                BY <2>9, <5>3, <6>1, <7>1, <7>2
          <6>2. CASE ~string
            <7>1. NumberOf(v) = v.val /\ v.bytes = << >>
                BY <2>9, <5>3, <6>2 DEF NumberOf
            <7> QED
                BY <2>9, <4>2, <5>3, <6>2, <7>1
          <6> QED
              BY <6>1, <6>2
        <5>5. values' = Append(values, v)
            BY <3>3, <5>2, <5>4
        <5>6. d + 1 = Len(Encoded(v))
            BY <2>9, <4>1, <5>4
        <5> QED
            BY <2>24, <5>2, <5>5, <5>6
      <4> QED
          BY <4>4, <4>5
    <3> QED
        BY <3>4, <3>5
  <2>26. ASSUME InString(v, d)
         PROVE  StreamInv'
    <3>1. PICK bytes : bytes = Append(partial.bytes, e)
        OBVIOUS
    <3>2. /\ v.string /\ partial.length = Len(v.bytes) /\ partial.length > 0
          /\ bytes \in Seq(Nat) /\ Len(bytes) <= Len(v.bytes)
          /\ d + 1 = Len(VarUInt[NumberOf(v)]) + Len(bytes)
          /\ \A j \in 1..Len(bytes) : bytes[j] = v.bytes[j]
      <4>1. partial \in [val : Nat, weight : Nat, length : Int, bytes : Seq(Nat)] /\ v \in Values
          BY <2>6, <2>8
      <4>2. InString(v, d)
          BY <2>26
      <4>3. WithByteOfString(v, d, bytes)
          BY <4>1, <4>2, <2>13, <3>1, StringByte
      <4> QED
          BY <4>3 DEF WithByteOfString
    <3>3. partial.length \in Int /\ partial.length >= 0 /\ ~(partial.length < 0)
        BY <2>6, <3>2
    <3>4. p = [partial EXCEPT !.bytes = bytes]
        BY <2>19, <3>1, <3>3 DEF TakeByte
    <3>5. p.bytes = bytes /\ p.length = partial.length
        BY <2>6, <3>4
    <3>6. CASE Len(bytes) < Len(v.bytes)
      <4>1. partial' = p /\ UNCHANGED values
          BY <2>20, <3>2, <3>3, <3>5, <3>6 DEF Done
      <4>2. partial' \in [val : Nat, weight : Nat, length : Int, bytes : Seq(Nat)]
          BY <2>6, <3>2, <3>4, <4>1
      <4>3. InString(v, d + 1)'
          BY <3>2, <3>5, <3>6, <4>1 DEF InString
      <4> QED
          BY <2>23, <4>1, <4>2, <4>3
    <3>7. CASE ~(Len(bytes) < Len(v.bytes))
      <4>1. Len(bytes) = Len(v.bytes)
        <5>1. Len(bytes) \in Nat /\ Len(v.bytes) \in Nat
            BY <2>9, <3>2
        <5> QED
            BY <3>2, <3>7, <5>1
      <4>2. bytes = v.bytes
        <5>1. PICK b : b = v.bytes
            OBVIOUS
        <5>2. bytes \in Seq(Nat) /\ b \in Seq(Nat) /\ Len(bytes) = Len(b) /\ \A j \in 1..Len(bytes) : bytes[j] = b[j]
            BY <2>9, <3>2, <4>1, <5>1
        <5>3. bytes = b
            BY <5>2, SeqEqual
        <5> QED
            BY <5>1, <5>3
      <4>3. /\ partial' = NoValue
            /\ values' = Append(values, [string |-> string, bytes |-> p.bytes,
                                         val |-> IF string THEN 0 ELSE p.val])
          BY <2>20, <3>2, <3>3, <3>5, <3>7 DEF Done
      <4>4. string = TRUE /\ v.string = TRUE
          BY <1>1, <2>5, <2>9, <3>2
      <4>5. v = [string |-> string, bytes |-> p.bytes, val |-> IF string THEN 0 ELSE p.val]
          BY <2>9, <3>5, <4>2, <4>4
      <4>6. d + 1 = Len(Encoded(v))
          BY <2>9, <3>2, <4>1
      <4> QED
          BY <2>24, <4>3, <4>5, <4>6
    <3> QED
        BY <3>6, <3>7
  <2> QED
      BY <2>12, <2>25, <2>26
<1> QED
    BY <1>3, <1>4

\* The reader skips a string.
LEMMA SkipStep ==
    ASSUME StreamInv, Skip
    PROVE  StreamInv'
<1>1. /\ mode = "read" /\ mode' = "read" /\ partial.length > 0 /\ partial.bytes = << >>
      /\ UNCHANGED outputVars /\ partial' = NoValue /\ values' = Append(values, SkippedString)
    BY DEF Skip
<1>2. short' = short /\ short \in BOOLEAN
    BY <1>1 DEF StreamInv, outputVars
<1>3. CASE short
    BY <1>2, <1>3 DEF StreamInv
<1>4. CASE ~short
  <2>1. short = FALSE
      BY <1>2, <1>4
  <2>2. StreamType /\ ReadSoFar /\ wbuf = << >> /\ BufferRight
      BY <1>1, <2>1, ReaderFacts
  <2>3. PICK offs \in [0..Len(written) -> Nat] : LaidOut(offs, valueFile, written) /\ \E d \in Nat : At(offs, d)
      BY <1>1, <2>1, ReaderFacts
  <2>4. PICK d \in Nat : At(offs, d)
      BY <2>3
  <2>5. PICK k, v, m : k = Len(values) /\ v = written[k + 1] /\ m = partial.length
      OBVIOUS
  <2>6. /\ written \in Seq(Values) /\ values \in Seq(Values \cup {SkippedString}) /\ valueFile \in Seq(Nat)
        /\ fpos \in Nat /\ buf \in Seq(Nat) /\ buf_pos \in 0..Len(buf) /\ m \in Int /\ m > 0
      BY <1>1, <2>2, <2>5 DEF StreamType
  <2>7. k < Len(written) /\ InString(v, d)
    <3>1. ~Between
        BY <1>1 DEF Between, NoValue
    <3>2. \A rest \in 0..MaxNumber : ~InNumber(v, d, rest)
        BY <1>1 DEF InNumber
    <3> QED
        BY <2>4, <2>5, <3>1, <3>2 DEF At
  <2>8. k \in Nat
      BY <2>5, <2>6
  <2>9. /\ v \in Values /\ offs[k] \in Nat /\ offs[k + 1] <= Len(valueFile)
        /\ offs[k + 1] = offs[k] + Len(Encoded(v))
    <3>1. LiesAt(v, k, offs, valueFile)
        BY <2>3, <2>5, <2>6, <2>7, <2>8, LayoutAt
    <3> QED
        BY <3>1 DEF LiesAt
  <2>10. offs[k + 1] = (offs[k] + d) + m
    <3>1. PICK N : N = VarUInt[NumberOf(v)]
        OBVIOUS
    <3>2. NumberOf(v) \in 0..MaxNumber /\ Len(Encoded(v)) = Len(N) + Len(v.bytes)
        BY <2>9, <3>1, EncodedBytes
    <3>3. N \in Seq(Nat)
        BY <3>1, <3>2, VarUIntBytes
    <3>4. Len(v.bytes) = m /\ d = Len(N) + 0
        BY <1>1, <2>5, <2>7, <3>1 DEF InString
    <3>5. d = Len(N)
        BY <3>3, <3>4
    <3>6. offs[k] \in Nat /\ offs[k + 1] = offs[k] + (d + m)
        BY <2>9, <3>2, <3>4, <3>5
    <3> QED
        BY <2>6, <3>6
  <2>11. fpos - (Len(buf) - buf_pos) = offs[k] + d
      BY <2>4, <2>5 DEF At
  <2>12. /\ Len(buf) \in Nat /\ Len(buf) <= fpos /\ fpos <= Len(valueFile) /\ valueFile' = valueFile
      BY <1>1, <2>2, <2>6 DEF BufferRight, outputVars
  <2>13. PICK L, F : L = Len(buf) /\ F = Len(valueFile)
      OBVIOUS
  <2>14. L \in Nat /\ F \in Nat /\ L <= fpos /\ fpos <= F /\ buf_pos \in 0..L
      BY <2>6, <2>12, <2>13
  <2>15. /\ fpos' \in Nat /\ buf' \in Seq(Nat) /\ buf_pos' \in 0..Len(buf') /\ BufferRight'
         /\ fpos' - (Len(buf') - buf_pos') = offs[k + 1]
    <3>1. CASE m <= L - buf_pos
      <4>1. buf_pos' = buf_pos + m /\ buf' = buf /\ fpos' = fpos
          BY <2>5, <2>13, <3>1 DEF Skip
      <4>2. buf_pos + m \in 0..L /\ fpos - (L - (buf_pos + m)) = (fpos - (L - buf_pos)) + m
          BY <2>6, <2>14, <3>1
      <4>3. BufferRight'
          BY <2>2, <2>12, <4>1 DEF BufferRight
      <4> QED
          BY <2>6, <2>10, <2>11, <2>13, <4>1, <4>2, <4>3
    <3>2. CASE ~(m <= L - buf_pos)
      <4>1. buf_pos' = 0 /\ buf' = << >> /\ fpos' = fpos + m - (L - buf_pos)
          BY <2>5, <2>13, <3>2 DEF Skip
      <4>2. fpos + m - (L - buf_pos) = (fpos - (L - buf_pos)) + m
          BY <2>6, <2>14
      <4>3. fpos' = offs[k + 1]
          BY <2>10, <2>11, <2>13, <4>1, <4>2
      <4>4. Len(buf') = 0 /\ buf' \in Seq(Nat)
          BY <4>1
      <4>5. offs[k + 1] \in Nat
        <5>1. offs[k] + d \in Nat
            BY <2>9
        <5> QED
            BY <2>6, <2>10, <5>1
      <4>6. BufferRight'
          BY <2>9, <2>12, <4>3, <4>4, <4>5 DEF BufferRight
      <4> QED
          BY <4>1, <4>3, <4>4, <4>5, <4>6
    <3> QED
        BY <3>1, <3>2
  <2>16. SkippedString \in {written[Len(values) + 1], SkippedString}
      OBVIOUS
  <2> QED
      BY <1>1, <2>1, <2>2, <2>3, <2>5, <2>7, <2>15, <2>16, ValueRead
<1> QED
    BY <1>3, <1>4

\* eof() finds the end behind the last value.
LEMMA EOFStep ==
    ASSUME StreamInv, EOF
    PROVE  StreamInv'
<1>1. mode = "read" /\ partial = NoValue /\ Len(values) = Len(written) /\ UNCHANGED <<outputVars, partial, values>>
    BY DEF EOF
<1>2. short' = short /\ short \in BOOLEAN
    BY <1>1 DEF StreamInv, outputVars
<1>3. CASE short
    BY <1>2, <1>3 DEF StreamInv
<1>4. CASE ~short
  <2>1. short = FALSE
      BY <1>2, <1>4
  <2>2. StreamType /\ ReadSoFar /\ wbuf = << >> /\ BufferRight
      BY <1>1, <2>1, ReaderFacts
  <2>3. PICK offs \in [0..Len(written) -> Nat] : LaidOut(offs, valueFile, written) /\ \E d \in Nat : At(offs, d)
      BY <1>1, <2>1, ReaderFacts
  <2>4. PICK d \in Nat : At(offs, d)
      BY <2>3
  <2>5. PICK q : q = fpos - (Len(buf) - buf_pos)
      OBVIOUS
  <2>6. Len(written) \in Nat /\ Len(valueFile) \in Nat
      BY <2>2 DEF StreamType
  <2>7. q = Len(valueFile)
    <3>1. d = 0
        BY <1>1, <2>4, <2>6 DEF At
    <3>2. offs[Len(values)] = Len(valueFile)
        BY <1>1, <2>3 DEF LaidOut
    <3> QED
        BY <2>4, <2>5, <2>6, <3>1, <3>2 DEF At
  <2>8. PICK r \in Refilled :
           /\ fpos' = r.fpos /\ buf' = r.buf /\ buf_pos' = r.pos
           /\ mode' = IF r.pos >= Len(r.buf) THEN "eof" ELSE "more"
      BY DEF EOF
  <2>9. valueFile \in Seq(Nat) /\ fpos \in Nat /\ buf \in Seq(Nat) /\ buf_pos \in 0..Len(buf)
      BY <2>2 DEF StreamType
  <2>10. /\ r.fpos \in Nat /\ r.buf \in Seq(Nat) /\ r.pos \in 0..Len(r.buf)
         /\ r.fpos - (Len(r.buf) - r.pos) = q
         /\ Len(r.buf) <= r.fpos /\ r.fpos <= Len(valueFile)
         /\ \A i \in 1..Len(r.buf) : r.buf[i] = valueFile[(r.fpos - Len(r.buf)) + i]
         /\ r.pos < Len(r.buf) => q < Len(valueFile)
      BY <2>2, <2>5, <2>9, RefilledFacts
  <2>11. mode' = "eof"
    <3>1. PICK L, p : L = Len(r.buf) /\ p = r.pos
        OBVIOUS
    <3>2. L \in Nat /\ p \in 0..L
        BY <2>10, <3>1
    <3>3. ~(p < L)
        BY <2>6, <2>7, <2>10, <3>1
    <3>4. p >= L
        BY <3>2, <3>3
    <3> QED
        BY <2>8, <3>1, <3>4
  <2>12. wbuf' = wbuf /\ valueFile' = valueFile /\ written' = written /\ values' = values /\ partial' = partial
      BY <1>1 DEF outputVars
  <2>13. StreamType'
      BY <2>2, <2>8, <2>10, <2>11, <2>12 DEF StreamType
  <2>14. ReadSoFar'
      BY <2>2, <2>12 DEF ReadSoFar
  <2>15. BufferRight'
      BY <2>8, <2>10, <2>12 DEF BufferRight
  <2>16. At(offs, 0)'
    <3>1. offs[Len(values')] = Len(valueFile) /\ Len(valueFile) + 0 = Len(valueFile)
        BY <1>1, <2>3, <2>6, <2>12 DEF LaidOut
    <3>2. Between'
        BY <1>1, <2>12 DEF Between
    <3> QED
        BY <2>7, <2>8, <2>10, <3>1, <3>2 DEF At
  <2>17. Reading(offs)'
      BY <2>2, <2>12, <2>15, <2>16 DEF Reading
  <2>18. LaidOut(offs, Stream, written)'
    <3>1. Stream' = valueFile
        BY <2>2, <2>9, <2>12 DEF Stream
    <3> QED
        BY <2>3, <2>12, <3>1 DEF LaidOut
  <2>19. offs \in [0..Len(written') -> Nat] /\ short' \in BOOLEAN /\ mode' # "write"
      BY <1>2, <2>11, <2>12
  <2> QED
      BY <2>13, <2>14, <2>17, <2>18, <2>19 DEF StreamInv
<1> QED
    BY <1>3, <1>4

\* rewind() goes back to the first byte.
LEMMA RewindStep ==
    ASSUME StreamInv, Rewind
    PROVE  StreamInv'
<1>1. /\ mode \in {"read", "eof"} /\ partial = NoValue /\ fpos' = 0 /\ buf' = << >> /\ buf_pos' = 0
      /\ values' = << >> /\ mode' = "read" /\ UNCHANGED <<outputVars, partial>>
    BY DEF Rewind
<1>2. short' = short /\ short \in BOOLEAN
    BY <1>1 DEF StreamInv, outputVars
<1>3. CASE short
    BY <1>2, <1>3 DEF StreamInv
<1>4. CASE ~short
  <2>1. short = FALSE
      BY <1>2, <1>4
  <2>2. StreamType /\ wbuf = << >>
      BY <1>1, <2>1, ReaderFacts
  <2>3. PICK offs \in [0..Len(written) -> Nat] : LaidOut(offs, valueFile, written) /\ \E d \in Nat : At(offs, d)
      BY <1>1, <2>1, ReaderFacts
  <2>4. wbuf' = wbuf /\ valueFile' = valueFile /\ written' = written /\ partial' = partial
      BY <1>1 DEF outputVars
  <2>5. Len(buf') = 0 /\ Len(values') = 0 /\ Len(written) \in Nat /\ Len(valueFile) \in Nat
      BY <1>1, <2>2 DEF StreamType
  <2>6. StreamType'
      BY <1>1, <2>2, <2>4, <2>5 DEF StreamType
  <2>7. ReadSoFar'
      BY <2>5 DEF ReadSoFar
  <2>8. BufferRight'
      BY <1>1, <2>4, <2>5 DEF BufferRight
  <2>9. At(offs, 0)'
    <3>1. offs[0] = 0
        BY <2>3 DEF LaidOut
    <3> QED
        BY <1>1, <2>4, <2>5, <3>1 DEF At, Between
  <2>10. Reading(offs)'
      BY <2>2, <2>4, <2>8, <2>9 DEF Reading
  <2>11. LaidOut(offs, Stream, written)'
    <3>1. Stream' = valueFile
        BY <2>2, <2>4 DEF Stream, StreamType
    <3> QED
        BY <2>3, <2>4, <3>1 DEF LaidOut
  <2>12. offs \in [0..Len(written') -> Nat] /\ short' \in BOOLEAN /\ mode' # "write"
      BY <1>1, <1>2, <2>4
  <2> QED
      BY <2>6, <2>7, <2>10, <2>11, <2>12 DEF StreamInv
<1> QED
    BY <1>3, <1>4

\* Nothing is written, and nothing read.
LEMMA StreamStart ==
    ASSUME StreamInit
    PROVE  StreamInv
<1>1. /\ wbuf = << >> /\ valueFile = << >> /\ written = << >> /\ short = FALSE /\ fpos = 0 /\ buf = << >>
      /\ buf_pos = 0 /\ partial = NoValue /\ values = << >> /\ mode = "write"
    BY DEF StreamInit
<1>2. NoValue \in [val : Nat, weight : Nat, length : Int, bytes : Seq(Nat)]
    BY DEF NoValue
<1>3. StreamType
    BY <1>1, <1>2, StreamsAssumption DEF StreamType
<1>4. ReadSoFar /\ Writing
    BY <1>1 DEF ReadSoFar, Writing, Between
<1>5. PICK offs : offs = [i \in 0..0 |-> 0]
    OBVIOUS
<1>6. offs \in [0..Len(written) -> Nat] /\ LaidOut(offs, Stream, written)
  <2>1. Stream = << >> /\ Len(Stream) = 0 /\ Len(written) = 0
      BY <1>1 DEF Stream
  <2>2. offs[0] = 0 /\ offs \in [0..0 -> Nat] /\ \A i \in 1..0 : FALSE
      BY <1>5
  <2> QED
      BY <2>1, <2>2 DEF LaidOut
<1> QED
    BY <1>1, <1>3, <1>4, <1>6 DEF StreamInv

\* A value is written behind the others.
LEMMA WriteStep ==
    ASSUME StreamInv, NEW value \in Values, Write(value)
    PROVE  StreamInv'
<1>1. mode = "write" /\ written' = Append(written, value) /\ UNCHANGED <<inputVars, mode>>
    BY DEF Write
<1>2. PICK b \in {Buffered(Encoded(value))}, missing \in {0, 1} :
         /\ wbuf' = b.wbuf /\ valueFile' = valueFile \o WrittenOf(b.handed, missing)
         /\ short' = (short \/ missing = 1)
    BY Zenon DEF Write
<1>3. short \in BOOLEAN /\ short' \in BOOLEAN
  <2>1. short \in BOOLEAN
      BY DEF StreamInv
  <2>2. (short \/ missing = 1) \in BOOLEAN
      OBVIOUS
  <2> QED
      BY <1>2, <2>1, <2>2
<1>4. CASE short'
    BY <1>3, <1>4 DEF StreamInv
<1>5. CASE ~short'
  <2>1. ~short /\ missing = 0
    <3>1. ~(short \/ missing = 1)
        BY <1>2, <1>5
    <3> QED
        BY <3>1
  <2>2. StreamType /\ Writing
      BY <1>1, <2>1 DEF StreamInv
  <2>3. PICK offs \in [0..Len(written) -> Nat] : LaidOut(offs, Stream, written)
      BY <2>1 DEF StreamInv
  <2>4. PICK e, w, f : e = Encoded(value) /\ w = wbuf /\ f = valueFile
      OBVIOUS
  <2>5. e \in Seq(Nat) /\ w \in Seq(Nat) /\ f \in Seq(Nat) /\ Len(w) <= BufferSize /\ written \in Seq(Values)
      BY <2>2, <2>4, EncodedBytes DEF StreamType
  <2>6. /\ b.wbuf \in Seq(Nat) /\ Len(b.wbuf) <= BufferSize /\ b.handed \in Seq(Nat)
        /\ b.handed \o b.wbuf = w \o e
      BY <1>2, <2>4, <2>5, BufferedFacts
  <2>7. valueFile' = f \o b.handed
    <3>1. PICK h : h = b.handed
        OBVIOUS
    <3>2. h \in Seq(Nat) /\ Len(h) - 0 = Len(h) /\ SubSeq(h, 1, Len(h)) = h
        BY <2>6, <3>1, SubSeqFull
    <3>3. WrittenOf(h, missing) = h
        BY <2>1, <3>2 DEF WrittenOf
    <3> QED
        BY <1>2, <2>4, <3>1, <3>3
  <2>8. valueFile' \in Seq(Nat)
      BY <2>5, <2>6, <2>7, Joined
  <2>9. Stream' = Stream \o e
    <3>1. ASSUME NEW x \in Seq(Nat), NEW y \in Seq(Nat) PROVE (f \o x) \o y = f \o (x \o y)
        BY <2>5, Regrouped
    <3>2. (f \o b.handed) \o b.wbuf = f \o (w \o e) /\ (f \o w) \o e = f \o (w \o e)
      <4>1. (f \o b.handed) \o b.wbuf = f \o (b.handed \o b.wbuf)
          BY <2>6, <3>1
      <4>2. (f \o w) \o e = f \o (w \o e)
          BY <2>5, <3>1
      <4> QED
          BY <2>6, <4>1, <4>2
    <3>3. Stream' = (f \o b.handed) \o b.wbuf
        BY <1>2, <2>7 DEF Stream
    <3> QED
        BY <2>4, <3>2, <3>3 DEF Stream
  <2>10. Stream \in Seq(Nat)
      BY <2>4, <2>5, Joined DEF Stream
  <2>11. PICK o \in [0..Len(Append(written, value)) -> Nat] : LaidOut(o, Stream \o e, Append(written, value))
      BY <2>3, <2>4, <2>5, <2>10, LayoutGrows
  <2>12. /\ fpos' = fpos /\ buf' = buf /\ buf_pos' = buf_pos /\ partial' = partial /\ values' = values
         /\ mode' = mode
      BY <1>1 DEF inputVars
  <2>13. StreamType'
    <3>1. written' \in Seq(Values) /\ Len(written') = Len(written) + 1 /\ Len(written) \in Nat
        BY <1>1, <2>5
    <3>2. Len(values') = 0
        BY <2>2, <2>12 DEF Writing
    <3>3. Len(values') <= Len(written')
        BY <3>1, <3>2
    <3> QED
        BY <1>2, <2>2, <2>6, <2>8, <2>12, <3>1, <3>3 DEF StreamType
  <2>14. ReadSoFar' /\ Writing'
      BY <2>2, <2>12 DEF ReadSoFar, Writing, Between
  <2>15. o \in [0..Len(written') -> Nat] /\ LaidOut(o, Stream, written)'
      BY <1>1, <2>9, <2>11 DEF LaidOut
  <2> QED
      BY <1>1, <1>3, <2>12, <2>13, <2>14, <2>15 DEF StreamInv
<1> QED
    BY <1>4, <1>5

\* The file is closed, and opened for reading.
LEMMA CloseStep ==
    ASSUME StreamInv, Close
    PROVE  StreamInv'
<1>1. mode = "write" /\ mode' = "read" /\ wbuf' = << >> /\ UNCHANGED <<written, inputVars>>
    BY DEF Close
<1>2. PICK missing \in {0, 1} :
         valueFile' = valueFile \o WrittenOf(wbuf, missing) /\ short' = (short \/ missing = 1)
    BY DEF Close
<1>3. short \in BOOLEAN /\ short' \in BOOLEAN
  <2>1. short \in BOOLEAN
      BY DEF StreamInv
  <2>2. (short \/ missing = 1) \in BOOLEAN
      OBVIOUS
  <2> QED
      BY <1>2, <2>1, <2>2
<1>4. CASE short'
    BY <1>3, <1>4 DEF StreamInv
<1>5. CASE ~short'
  <2>1. ~short /\ missing = 0
    <3>1. ~(short \/ missing = 1)
        BY <1>2, <1>5
    <3> QED
        BY <3>1
  <2>2. StreamType /\ Writing /\ ReadSoFar
      BY <1>1, <2>1 DEF StreamInv
  <2>3. PICK offs \in [0..Len(written) -> Nat] : LaidOut(offs, Stream, written)
      BY <2>1 DEF StreamInv
  <2>4. PICK w, f : w = wbuf /\ f = valueFile
      OBVIOUS
  <2>5. w \in Seq(Nat) /\ f \in Seq(Nat)
      BY <2>2, <2>4 DEF StreamType
  <2>6. valueFile' = f \o w
    <3>1. Len(w) - 0 = Len(w) /\ SubSeq(w, 1, Len(w)) = w
        BY <2>5, SubSeqFull
    <3>2. WrittenOf(w, missing) = w
        BY <2>1, <3>1 DEF WrittenOf
    <3> QED
        BY <1>2, <2>4, <3>2
  <2>7. valueFile' \in Seq(Nat)
      BY <2>5, <2>6, Joined
  <2>8. Stream' = Stream
    <3>1. Stream' = valueFile'
        BY <1>1, <2>7 DEF Stream
    <3> QED
        BY <2>4, <2>6, <3>1 DEF Stream
  <2>9. /\ fpos' = 0 /\ buf' = << >> /\ buf_pos' = 0 /\ partial' = NoValue /\ values' = << >>
        /\ written' = written
      BY <1>1, <2>2 DEF inputVars, Writing, Between
  <2>10. Len(buf') = 0 /\ Len(values') = 0 /\ Len(wbuf') = 0 /\ Len(valueFile') \in Nat /\ Len(written) \in Nat
      BY <1>1, <2>2, <2>7, <2>9 DEF StreamType
  <2>11. NoValue \in [val : Nat, weight : Nat, length : Int, bytes : Seq(Nat)]
      BY DEF NoValue
  <2>12. StreamType'
      BY <1>1, <2>2, <2>7, <2>9, <2>10, <2>11, StreamsAssumption DEF StreamType
  <2>13. ReadSoFar'
      BY <2>10 DEF ReadSoFar
  <2>14. BufferRight'
      BY <2>9, <2>10 DEF BufferRight
  <2>15. At(offs, 0)'
    <3>1. offs[0] = 0
        BY <2>3 DEF LaidOut
    <3> QED
        BY <2>9, <2>10, <3>1 DEF At, Between
  <2>16. Reading(offs)'
      BY <1>1, <2>14, <2>15 DEF Reading
  <2>17. offs \in [0..Len(written') -> Nat] /\ LaidOut(offs, Stream, written)'
      BY <2>3, <2>8, <2>9 DEF LaidOut
  <2>18. mode' # "write"
      BY <1>1
  <2> QED
      BY <1>3, <2>12, <2>13, <2>16, <2>17, <2>18 DEF StreamInv
<1> QED
    BY <1>4, <1>5

\* Wherever the buffers end and whichever strings are skipped, every pass over
\* the file reads what was written, in its order, and finds the end behind the
\* last value, unless a write() was short.
THEOREM FilesReadBackHolds ==
    StreamSpec => []FilesReadBack
<1>1. StreamInit => StreamInv
    BY StreamStart
<1>2. StreamInv /\ [StreamNext]_streamVars => StreamInv'
  <2> SUFFICES ASSUME StreamInv, [StreamNext]_streamVars
               PROVE  StreamInv'
      OBVIOUS
  <2>1. CASE UNCHANGED streamVars
    <3>1. /\ wbuf' = wbuf /\ valueFile' = valueFile /\ written' = written /\ short' = short /\ fpos' = fpos
          /\ buf' = buf /\ buf_pos' = buf_pos /\ partial' = partial /\ values' = values /\ mode' = mode
        BY <2>1 DEF streamVars, outputVars, inputVars
    <3>2. (StreamType => StreamType') /\ (ReadSoFar => ReadSoFar') /\ (Writing => Writing') /\ Stream' = Stream
        BY <3>1 DEF StreamType, ReadSoFar, Writing, Between, Stream
    <3>3. ASSUME NEW offs, Reading(offs)
          PROVE  Reading(offs)'
      <4>1. wbuf' = << >> /\ BufferRight'
          BY <3>1, <3>3 DEF Reading, BufferRight
      <4>2. PICK d \in Nat : At(offs, d)
          BY <3>3 DEF Reading
      <4>3. Between' = Between /\ \A v, n, rest : InNumber(v, n, rest)' = InNumber(v, n, rest)
          BY <3>1 DEF Between, InNumber
      <4>4. \A v, n : InString(v, n)' = InString(v, n)
          BY <3>1 DEF InString
      <4>5. At(offs, d)'
          BY <3>1, <4>2, <4>3, <4>4 DEF At
      <4> QED
          BY <4>1, <4>5 DEF Reading
    <3>4. ASSUME NEW offs, LaidOut(offs, Stream, written)
          PROVE  LaidOut(offs, Stream, written)'
        BY <3>1, <3>2, <3>4 DEF LaidOut
    <3>5. short' = short /\ mode' = mode /\ [0..Len(written') -> Nat] = [0..Len(written) -> Nat]
        BY <3>1
    <3> QED
        BY <3>2, <3>3, <3>4, <3>5 DEF StreamInv
  <2>2. ASSUME NEW value \in Values, Write(value) PROVE StreamInv'
      BY <2>2, WriteStep
  <2>3. CASE Close
      BY <2>3, CloseStep
  <2>4. ASSUME NEW string \in BOOLEAN, ReadByte(string) PROVE StreamInv'
      BY <2>4, ReadByteStep
  <2>5. CASE Skip
      BY <2>5, SkipStep
  <2>6. CASE EOF
      BY <2>6, EOFStep
  <2>7. CASE Rewind
      BY <2>7, RewindStep
  <2> QED
      BY <2>1, <2>2, <2>3, <2>4, <2>5, <2>6, <2>7 DEF StreamNext
<1>3. StreamInv => FilesReadBack
  <2>1. ASSUME StreamInv, ~short PROVE mode \notin {"raised", "more"} /\ ReadSoFar
      BY <2>1 DEF StreamInv, StreamType
  <2> QED
      BY <2>1 DEF FilesReadBack, ReadSoFar
<1> QED
    BY <1>1, <1>2, <1>3, PTL DEF StreamSpec
-----------------------------------------------------------------------------
\* PersistentHashSet: what a slot holds, and the ids and used slots of a table.
SlotValue == Ids \cup {Empty}
IdsOf(table) == {table[k] : k \in 1..Len(table)} \ {Empty}
TakenSlots(table) == {k \in 1..Len(table) : table[k] # Empty}

\* A slot in use is reached by probes that pass over slots in use only.
Reached(table, k) ==
    \E i \in 0..Len(table) - 1 :
      /\ ProbeAt(table[k], i, Len(table)) = k
      /\ \A j \in 0..i - 1 : table[ProbeAt(table[k], j, Len(table))] # Empty
Findable(table) == \A k \in TakenSlots(table) : Reached(table, k)
TableSize(n) == n \in Nat /\ (n = InitialSlots \/ n >= 2 * InitialSlots)
TableRight(table) ==
    /\ table \in Seq(SlotValue)
    /\ table # << >> =>
         /\ TableSize(Len(table)) /\ Findable(table)
         /\ \E k \in 1..Len(table) : table[k] = Empty

\* By how much the slots in use may exceed nslots_used, twice: grow() stores
\* again what the scan hands out a second time, and does not count it.
Slack(n) == IF n <= InitialSlots THEN 0 ELSE n - 2
CountRight(used, table) ==
    2 * Cardinality(TakenSlots(table)) <= 2 * used + Slack(Len(table))

LinkedTable == IF linked = 0 THEN << >> ELSE slotFiles[linked]

SlotsType ==
    /\ slotFiles \in Seq(Seq(SlotValue)) /\ linked \in 0..Len(slotFiles)
    /\ nslots \in Nat /\ nslots_used \in Nat \cup {Unknown}
    /\ apc \in [Adders -> {"idle", "insert", "write", "move"}]
    /\ adding \in [Adders -> [ids : SUBSET Ids, left : SUBSET Ids]]
    /\ alive \in BOOLEAN
    /\ attempted \subseteq Ids /\ acknowledged \subseteq Ids /\ added \in [Ids -> Nat]

FilesRight ==
    \A f \in 1..Len(slotFiles) : TableRight(slotFiles[f]) /\ IdsOf(slotFiles[f]) \subseteq attempted

ObjectRight ==
    /\ alive => nslots = Len(LinkedTable)
    /\ ~alive => nslots = 0 /\ nslots_used = Unknown
    /\ nslots_used # Unknown => CountRight(nslots_used, LinkedTable)

HistoryRight ==
    /\ acknowledged \subseteq IdsOf(LinkedTable)
    /\ \A id \in Ids : added[id] <= 1 /\ (added[id] = 1 => id \in IdsOf(LinkedTable))

\* A writer, and the new file that it has written
WriterRight(a) ==
    apc[a] # "idle" =>
      /\ alive /\ linked # 0
      /\ adding[a].left \subseteq adding[a].ids /\ adding[a].ids \subseteq attempted
      /\ adding[a].ids \ adding[a].left \subseteq IdsOf(LinkedTable)
      /\ apc[a] # "insert" => Len(slotFiles) = linked + 1 /\ nslots_used # Unknown
      /\ apc[a] = "move" =>
           /\ Len(slotFiles[linked + 1]) = GrownSlots
           /\ IdsOf(slotFiles[linked + 1]) = IdsOf(LinkedTable)
           /\ CountRight(nslots_used, slotFiles[linked + 1])
WritersRight ==
    /\ \A a, b \in Adders : apc[a] # "idle" /\ apc[b] # "idle" => a = b
    /\ \A a \in Adders : WriterRight(a)

\* What a reader has seen, of a file that only gains ids meanwhile
InFile(call) ==
    /\ call.file \in 1..linked /\ slotFiles[call.file] # << >>
    /\ call.promised \subseteq IdsOf(slotFiles[call.file])
LookupRight(call) ==
    /\ call \in [op : {"lookup"}, id : Ids, file : Nat, probe : Nat, promised : SUBSET Ids]
    /\ InFile(call)
    /\ call.probe < Len(slotFiles[call.file])
    /\ \A j \in 0..call.probe - 1 :
         slotFiles[call.file][ProbeAt(call.id, j, Len(slotFiles[call.file]))] \notin {call.id, Empty}
ScanRight(call) ==
    /\ call.op = "scan"
    /\ call \in [op : {"scan"}, file : Nat, batch : Nat, buffer : {call.buffer},
                 ids : SUBSET Ids, promised : SUBSET Ids]
    /\ InFile(call)
    /\ call.batch < FetchReads(Len(slotFiles[call.file]))
    /\ call.ids \subseteq attempted
    /\ call.batch # 0 => \A k \in 1..FetchBatch : call.buffer[k] \in attempted \cup {Empty}
    /\ \A id \in call.promised : \E k \in 1..Len(slotFiles[call.file]) :
         slotFiles[call.file][k] = id /\ (k <= call.batch * FetchBatch => id \in call.ids)
AnsweredRight(call) ==
    /\ call.op = "answered"
    /\ call.id \in call.promised => call.found
    /\ call.found => call.id \in attempted
FetchedRight(call) ==
    /\ call.op = "fetched"
    /\ call.promised \subseteq call.ids /\ call.ids \subseteq attempted
ReaderRight(call) ==
    \/ call = NoCall \/ LookupRight(call) \/ ScanRight(call)
    \/ AnsweredRight(call) \/ FetchedRight(call)
ReadersRight == DOMAIN readers = Readers /\ \A r \in Readers : ReaderRight(readers[r])

SlotsInv ==
    /\ SlotsType /\ FilesRight /\ ObjectRight /\ HistoryRight /\ WritersRight /\ ReadersRight

-----------------------------------------------------------------------------
\* A remainder is the only number below the divisor that is left over.
LEMMA RemainderIs ==
    ASSUME NEW n \in Nat \ {0}, NEW q \in Nat, NEW r \in 0..n - 1
    PROVE  (n * q + r) % n = r
<1>1. PICK a : a = n * q + r
    OBVIOUS
<1>2. n * q \in Nat /\ a \in Nat
    BY <1>1
<1>3. PICK p, s : p = a \div n /\ s = a % n
    OBVIOUS
<1>4. p \in Nat /\ s \in 0..n - 1 /\ a = n * p + s
    BY <1>2, <1>3
<1>5. n * p + s = n * q + r /\ n * p \in Nat
    BY <1>1, <1>4
<1>6. CASE p = q
    BY <1>1, <1>3, <1>5, <1>6
<1>7. CASE p < q
  <2>1. PICK d \in Nat : q = p + 1 + d
      BY <1>4, <1>7
  <2>2. n * q = n * p + n + n * d /\ n * d \in Nat
      BY <1>4, <2>1
  <2> QED
      BY <1>4, <1>5, <2>2
<1>8. CASE q < p
  <2>1. PICK d \in Nat : p = q + 1 + d
      BY <1>4, <1>8
  <2>2. n * p = n * q + n + n * d /\ n * d \in Nat
      BY <1>4, <2>1
  <2> QED
      BY <1>2, <1>4, <1>5, <2>2
<1> QED
    BY <1>4, <1>6, <1>7, <1>8

\* The probes for an id stay in the table, and come to all of its slots.
LEMMA ProbesOfId ==
    ASSUME NEW id \in Ids, NEW n \in Nat \ {0}
    PROVE  /\ \A i \in Nat : ProbeAt(id, i, n) \in 1..n
           /\ \A k \in 1..n : \E i \in 0..n - 1 : ProbeAt(id, i, n) = k
<1>1. PICK h : h = SlotHash[id]
    OBVIOUS
<1>2. h \in Nat
    BY <1>1, SlotsAssumption
<1>3. ASSUME NEW i \in Nat
      PROVE  ProbeAt(id, i, n) \in 1..n
  <2>1. h + i \in Nat
      BY <1>2
  <2>2. (h + i) % n \in 0..n - 1
      BY <2>1
  <2> QED
      BY <1>1, <2>2 DEF ProbeAt
<1>4. ASSUME NEW k \in 1..n
      PROVE  \E i \in 0..n - 1 : ProbeAt(id, i, n) = k
  <2>1. PICK q, r : q = h \div n /\ r = h % n
      OBVIOUS
  <2>2. q \in Nat /\ r \in 0..n - 1 /\ h = n * q + r /\ n * q \in Nat
      BY <1>2, <2>1
  <2>3. CASE k - 1 >= r
    <3>1. PICK i : i = k - 1 - r
        OBVIOUS
    <3>2. i \in 0..n - 1 /\ h + i = n * q + (k - 1) /\ k - 1 \in 0..n - 1
        BY <2>2, <2>3, <3>1
    <3>3. (h + i) % n = k - 1
        BY <2>2, <3>2, RemainderIs
    <3> QED
        BY <1>1, <3>2, <3>3 DEF ProbeAt
  <2>4. CASE k - 1 < r
    <3>1. PICK i : i = k - 1 - r + n
        OBVIOUS
    <3>2. n * (q + 1) = n * q + n /\ q + 1 \in Nat
        BY <2>2
    <3>3. i \in 0..n - 1 /\ h + i = n * (q + 1) + (k - 1) /\ k - 1 \in 0..n - 1
        BY <2>2, <2>4, <3>1, <3>2
    <3>4. (h + i) % n = k - 1
        BY <3>2, <3>3, RemainderIs
    <3> QED
        BY <1>1, <3>3, <3>4 DEF ProbeAt
  <2> QED
      BY <2>2, <2>3, <2>4
<1> QED
    BY <1>3, <1>4

\* The slots in use are counted.
LEMMA TakenCounted ==
    ASSUME NEW table \in Seq(SlotValue)
    PROVE  /\ TakenSlots(table) \subseteq 1..Len(table) /\ IsFiniteSet(TakenSlots(table))
           /\ Cardinality(TakenSlots(table)) \in Nat
           /\ Cardinality(TakenSlots(table)) <= Len(table)
           /\ Cardinality(TakenSlots(table)) < Len(table) => \E k \in 1..Len(table) : table[k] = Empty
<1>1. PICK n : n = Len(table)
    OBVIOUS
<1>2. n \in Nat
    BY <1>1
<1>3. IsFiniteSet(1..n) /\ Cardinality(1..n) = n
    BY <1>2, FS_Interval
<1>4. TakenSlots(table) \subseteq 1..n
    BY <1>1 DEF TakenSlots
<1>5. /\ IsFiniteSet(TakenSlots(table)) /\ Cardinality(TakenSlots(table)) \in Nat
      /\ Cardinality(TakenSlots(table)) <= n
    BY <1>3, <1>4, FS_Subset, FS_CardinalityType
<1>6. ASSUME \A k \in 1..n : table[k] # Empty
      PROVE  Cardinality(TakenSlots(table)) = n
  <2>1. TakenSlots(table) = 1..n
      BY <1>1, <1>6 DEF TakenSlots
  <2> QED
      BY <1>3, <2>1
<1> QED
    BY <1>1, <1>2, <1>4, <1>5, <1>6

\* Min of the library, of a set of numbers.
LEMMA MinRight ==
    ASSUME NEW s, s # {}, s \subseteq Nat
    PROVE  Min(s) \in s /\ \A x \in s : Min(s) <= x
<1>1. \E m \in s : \A x \in s : m <= x
    BY LeastNumber
<1> QED
    BY <1>1 DEF Min

\* The first probe that meets the id or an empty slot tells whether the id is
\* in the table, and there is one.
LEMMA FirstStop ==
    ASSUME NEW table, TableRight(table), table # << >>, NEW id \in Ids,
           NEW i \in 0..Len(table) - 1, table[ProbeAt(id, i, Len(table))] \in {id, Empty},
           \A j \in 0..i - 1 : table[ProbeAt(id, j, Len(table))] \notin {id, Empty}
    PROVE  table[ProbeAt(id, i, Len(table))] = id <=> id \in IdsOf(table)
<1>1. PICK n : n = Len(table)
    OBVIOUS
<1>2. table \in Seq(SlotValue) /\ n \in Nat \ {0} /\ Findable(table) /\ id # Empty
    BY <1>1, SlotsAssumption DEF TableRight, TableSize
<1>3. i \in Nat /\ ProbeAt(id, i, n) \in 1..n
  <2>1. i \in Nat
      BY <1>1
  <2> QED
      BY <1>2, <2>1, ProbesOfId
<1>4. ASSUME table[ProbeAt(id, i, n)] = id
      PROVE  id \in IdsOf(table)
    BY <1>1, <1>2, <1>3, <1>4 DEF IdsOf
<1>5. ASSUME id \in IdsOf(table), table[ProbeAt(id, i, n)] # id
      PROVE  FALSE
  <2>1. PICK k \in 1..n : table[k] = id
      BY <1>1, <1>5 DEF IdsOf
  <2>2. k \in TakenSlots(table)
      BY <1>1, <1>2, <2>1 DEF TakenSlots
  <2>3. PICK m \in 0..n - 1 : /\ ProbeAt(id, m, n) = k
                              /\ \A j \in 0..m - 1 : table[ProbeAt(id, j, n)] # Empty
      BY <1>1, <1>2, <2>1, <2>2 DEF Findable, Reached
  <2>4. CASE m < i
    <3>1. m \in 0..i - 1
        BY <1>1, <1>2, <2>3, <2>4
    <3> QED
        BY <1>1, <2>1, <2>3, <3>1
  <2>5. CASE m = i
      BY <1>5, <2>1, <2>3, <2>5
  <2>6. CASE i < m
    <3>1. i \in 0..m - 1
        BY <1>1, <1>2, <2>3, <2>6
    <3> QED
        BY <1>1, <1>5, <2>3, <3>1
  <2> QED
      BY <1>1, <1>2, <2>3, <2>4, <2>5, <2>6
<1> QED
    BY <1>1, <1>4, <1>5

LEMMA SomeStop ==
    ASSUME NEW table, TableRight(table), table # << >>, NEW id \in Ids
    PROVE  /\ Len(table) \in Nat \ {0}
           /\ \E i \in 0..Len(table) - 1 : table[ProbeAt(id, i, Len(table))] = Empty
<1>1. PICK n : n = Len(table)
    OBVIOUS
<1>2. n \in Nat \ {0}
    BY <1>1, SlotsAssumption DEF TableRight, TableSize
<1>3. PICK k \in 1..n : table[k] = Empty
    BY <1>1 DEF TableRight
<1> QED
    BY <1>1, <1>2, <1>3, ProbesOfId

\* A table that has only gained ids
Fills(table, fuller) ==
    /\ Len(fuller) = Len(table)
    /\ \A k \in TakenSlots(table) : fuller[k] = table[k]

\* An id in its first empty slot is found there, and hides no other.
LEMMA IdStored ==
    ASSUME NEW table \in Seq(SlotValue), Len(table) # 0, Findable(table), NEW id \in Ids,
           NEW i \in 0..Len(table) - 1, table[ProbeAt(id, i, Len(table))] = Empty,
           \A j \in 0..i - 1 : table[ProbeAt(id, j, Len(table))] # Empty,
           NEW fuller, fuller = [table EXCEPT ![ProbeAt(id, i, Len(table))] = id]
    PROVE  /\ fuller \in Seq(SlotValue) /\ Fills(table, fuller) /\ Findable(fuller)
           /\ IdsOf(fuller) = IdsOf(table) \cup {id}
           /\ Cardinality(TakenSlots(fuller)) = Cardinality(TakenSlots(table)) + 1
<1>1. PICK n, s : n = Len(table) /\ s = ProbeAt(id, i, n)
    OBVIOUS
<1>2. n \in Nat \ {0} /\ id # Empty /\ s \in 1..n
  <2>1. n \in Nat \ {0} /\ i \in Nat /\ id # Empty
      BY <1>1, SlotsAssumption
  <2> QED
      BY <1>1, <2>1, ProbesOfId
<1>3. /\ fuller \in Seq(SlotValue) /\ Len(fuller) = n /\ fuller[s] = id
      /\ \A k \in 1..n : k # s => fuller[k] = table[k]
    BY <1>1, <1>2 DEF SlotValue
<1>4. table[s] = Empty
    BY <1>1
<1>5. TakenSlots(fuller) = TakenSlots(table) \cup {s} /\ s \notin TakenSlots(table)
    BY <1>1, <1>2, <1>3, <1>4 DEF TakenSlots
<1>6. Fills(table, fuller)
    BY <1>1, <1>3, <1>5 DEF Fills, TakenSlots
<1>7. Cardinality(TakenSlots(fuller)) = Cardinality(TakenSlots(table)) + 1
    BY <1>5, TakenCounted, FS_AddElement
<1>8. IdsOf(fuller) = IdsOf(table) \cup {id}
    BY <1>1, <1>2, <1>3, <1>4 DEF IdsOf
<1>9. ASSUME NEW k \in TakenSlots(fuller)
      PROVE  Reached(fuller, k)
  <2>1. \A v \in Ids, j \in Nat : ProbeAt(v, j, n) \in 1..n
      BY <1>2, ProbesOfId
  <2>2. \A v \in Ids, j \in Nat : table[ProbeAt(v, j, n)] # Empty => fuller[ProbeAt(v, j, n)] # Empty
      BY <1>2, <1>3, <2>1
  <2>3. CASE k = s
    <3>1. \A j \in 0..i - 1 : fuller[ProbeAt(id, j, n)] # Empty
        BY <1>1, <2>2
    <3> QED
        BY <1>1, <1>3, <2>3, <3>1 DEF Reached
  <2>4. CASE k # s
    <3>1. k \in TakenSlots(table) /\ fuller[k] = table[k] /\ table[k] \in Ids
        BY <1>1, <1>3, <1>5, <2>4 DEF TakenSlots, SlotValue
    <3>2. PICK m \in 0..n - 1 : /\ ProbeAt(table[k], m, n) = k
                                /\ \A j \in 0..m - 1 : table[ProbeAt(table[k], j, n)] # Empty
        BY <1>1, <3>1 DEF Findable, Reached
    <3>3. \A j \in 0..m - 1 : fuller[ProbeAt(fuller[k], j, n)] # Empty
        BY <2>2, <3>1, <3>2
    <3> QED
        BY <1>3, <3>1, <3>2, <3>3 DEF Reached
  <2> QED
      BY <2>3, <2>4
<1> QED
    BY <1>3, <1>6, <1>7, <1>8, <1>9 DEF Findable
-----------------------------------------------------------------------------
\* How many slots the reads of a scan hand out.
LEMMA ReadsCover ==
    ASSUME NEW n \in Nat, n >= FetchBatch
    PROVE  /\ FetchReads(n) \in Nat \ {0} /\ FetchReads(n) * FetchBatch \in Nat
           /\ FetchReads(n) * FetchBatch >= n
           /\ FetchReads(n) * FetchBatch <= n + FetchBatch - 1
<1>1. FetchBatch \in Nat \ {0}
    BY SlotsAssumption
<1>2. PICK q : q = FetchReads(n)
    OBVIOUS
<1>3. n + FetchBatch - 1 \in Nat
    BY <1>1
<1>4. /\ q \in Nat /\ q * FetchBatch <= n + FetchBatch - 1
      /\ n + FetchBatch - 1 < q * FetchBatch + FetchBatch
    BY <1>1, <1>2, <1>3, DivB DEF FetchReads
<1>5. q * FetchBatch \in Nat
    BY <1>1, <1>4
<1>6. q # 0
    BY <1>1, <1>3, <1>4
<1> QED
    BY <1>1, <1>2, <1>4, <1>5, <1>6

\* A scan hands out every slot, and fewer than a batch of them twice.
LEMMA HandedOutRight ==
    ASSUME NEW table \in Seq(SlotValue), TableSize(Len(table)), NEW handed, handed = HandedOut(table)
    PROVE  /\ handed \in Seq(SlotValue) /\ IdsOf(handed) = IdsOf(table)
           /\ Called(handed) = TakenSlots(handed)
           /\ Cardinality(TakenSlots(handed)) >= Cardinality(TakenSlots(table))
           /\ Cardinality(TakenSlots(handed)) <= Cardinality(TakenSlots(table)) + InitialSlots - 1
<1>1. PICK n, m : n = Len(table) /\ m = FetchReads(n) * FetchBatch
    OBVIOUS
<1>2. /\ InitialSlots \in Nat \ {0} /\ FetchBatch \in 1..InitialSlots
      /\ n \in Nat \ {0} /\ n >= FetchBatch
    BY <1>1, SlotsAssumption DEF TableSize
<1>3. m \in Nat /\ m >= n /\ m - n <= InitialSlots - 1 /\ m - FetchBatch < n
  <2>1. m \in Nat /\ m >= n /\ m <= n + FetchBatch - 1
      BY <1>1, <1>2, ReadsCover
  <2> QED
      BY <1>2, <2>1
<1>4. /\ \A k \in 1..n : k \in 1..m /\ table[k] \in SlotValue
      /\ \A k \in 1..m : k \in 1..n \/ k - FetchBatch \in 1..n
    BY <1>1, <1>2, <1>3
<1>5. handed = [k \in 1..m |-> IF k <= n THEN table[k] ELSE table[k - FetchBatch]]
    BY <1>1 DEF HandedOut
<1>6. /\ \A k \in 1..n : handed[k] = table[k]
      /\ \A k \in 1..m : handed[k] = table[k] \/ handed[k] = table[k - FetchBatch]
      /\ \A k \in 1..m : k \notin 1..n => handed[k] = table[k - FetchBatch]
    BY <1>4, <1>5
<1>7. handed \in [1..m -> SlotValue]
    BY <1>4, <1>5
<1>8. handed \in Seq(SlotValue) /\ Len(handed) = m /\ DOMAIN handed = 1..m
    BY <1>3, <1>7
<1>9. IdsOf(handed) = IdsOf(table)
  <2>1. ASSUME NEW k \in 1..m
        PROVE  \E l \in 1..n : handed[k] = table[l]
      BY <1>4, <1>6
  <2>2. \A k \in 1..n : k \in 1..m /\ handed[k] = table[k]
      BY <1>4, <1>6
  <2>3. {handed[k] : k \in 1..m} = {table[l] : l \in 1..n}
      BY ONLY <2>1, <2>2
  <2>4. IdsOf(handed) = {handed[k] : k \in 1..m} \ {Empty}
      BY <1>8 DEF IdsOf
  <2>5. IdsOf(table) = {table[l] : l \in 1..n} \ {Empty}
      BY <1>1 DEF IdsOf
  <2> QED
      BY ONLY <2>3, <2>4, <2>5
<1>10. Called(handed) = TakenSlots(handed)
    BY <1>8 DEF Called, TakenSlots
<1>11. PICK more : more = TakenSlots(handed) \ TakenSlots(table)
    OBVIOUS
<1>12. /\ TakenSlots(table) \subseteq TakenSlots(handed)
       /\ more \subseteq (n + 1)..m /\ TakenSlots(handed) = TakenSlots(table) \cup more
  <2>1. TakenSlots(handed) \subseteq 1..m /\ TakenSlots(table) \subseteq 1..n
      BY <1>1, <1>8 DEF TakenSlots
  <2>2. \A k \in 1..n : k \in TakenSlots(handed) <=> k \in TakenSlots(table)
      BY <1>1, <1>4, <1>6, <1>8 DEF TakenSlots
  <2>3. \A k \in 1..m : k \in 1..n \/ k \in (n + 1)..m
      BY <1>2, <1>3
  <2> QED
      BY <1>11, <2>1, <2>2, <2>3
<1>13. IsFiniteSet((n + 1)..m) /\ Cardinality((n + 1)..m) <= InitialSlots - 1
  <2>1. n + 1 \in Int /\ m \in Int
      BY <1>2, <1>3
  <2>2. IsFiniteSet((n + 1)..m) /\ Cardinality((n + 1)..m) = IF n + 1 > m THEN 0 ELSE m - (n + 1) + 1
      BY <2>1, FS_Interval
  <2> QED
      BY <1>2, <1>3, <2>2
<1>14. IsFiniteSet(more) /\ Cardinality(more) \in Nat /\ Cardinality(more) <= InitialSlots - 1
  <2>1. IsFiniteSet(more) /\ Cardinality(more) <= Cardinality((n + 1)..m)
      BY <1>12, <1>13, FS_Subset
  <2>2. Cardinality(more) \in Nat /\ Cardinality((n + 1)..m) \in Nat
      BY <1>13, <2>1, FS_CardinalityType
  <2> QED
      BY <1>2, <1>13, <2>1, <2>2
<1>15. IsFiniteSet(TakenSlots(table)) /\ Cardinality(TakenSlots(table)) \in Nat
    BY TakenCounted
<1>16. Cardinality(TakenSlots(handed)) = Cardinality(TakenSlots(table)) + Cardinality(more)
  <2>1. TakenSlots(table) \cap more = {}
      BY <1>11
  <2>2. Cardinality({}) = 0
      BY FS_EmptySet
  <2>3. Cardinality(TakenSlots(table) \cup more) =
          Cardinality(TakenSlots(table)) + Cardinality(more) - Cardinality(TakenSlots(table) \cap more)
      BY <1>14, <1>15, FS_Union
  <2>4. TakenSlots(handed) = TakenSlots(table) \cup more /\ Cardinality(TakenSlots(table) \cap more) = 0
      BY <1>12, <2>1, <2>2
  <2>5. PICK a, b : a = Cardinality(TakenSlots(table)) /\ b = Cardinality(more)
      OBVIOUS
  <2>6. a \in Nat /\ b \in Nat /\ a + b - 0 = a + b
      BY <1>14, <1>15, <2>5
  <2> QED
      BY <2>3, <2>4, <2>5, <2>6
<1> QED
    BY <1>2, <1>8, <1>9, <1>10, <1>14, <1>15, <1>16

-----------------------------------------------------------------------------
\* The tables that a rehash goes through
IsRehash(tables, handed, n) ==
    tables = [k \in 0..Len(handed) |->
                IF k = 0 THEN [slot \in 1..n |-> Empty] ELSE WithId(tables[k - 1], handed[k])]
\* and what is right about the one with the ids of the first k slots.
Rehashing(table, handed, n, k) ==
    /\ table \in Seq(SlotValue) /\ Len(table) = n /\ Findable(table)
    /\ IdsOf(table) = {handed[j] : j \in 1..k} \ {Empty}
    /\ Cardinality(TakenSlots(table)) <= Cardinality(TakenSlots(handed) \cap 1..k)

LEMMA RehashIsTable ==
    ASSUME NEW handed, NEW n
    PROVE  Rehashed(handed, n) = (CHOOSE tables : IsRehash(tables, handed, n))[Len(handed)]
    BY DEF Rehashed, IsRehash

LEMMA RehashExists ==
    ASSUME NEW handed \in Seq(SlotValue), NEW n \in Nat
    PROVE  \E tables : IsRehash(tables, handed, n)
<1> DEFINE Value(g, k) == IF k = 0 THEN [slot \in 1..n |-> Empty] ELSE WithId(g[k - 1], handed[k])
           Upto(m, g) == /\ DOMAIN g = 0..Len(handed) /\ g = [k \in 0..Len(handed) |-> g[k]]
                         /\ \A k \in 0..Len(handed) : k < m => g[k] = Value(g, k)
           Missing == {m \in Nat : ~\E g : Upto(m, g)}
<1>0. Len(handed) \in Nat
    OBVIOUS
<1>1. 0 \notin Missing
  <2>1. PICK g : g = [k \in 0..Len(handed) |-> 0]
      OBVIOUS
  <2>2. Upto(0, g)
      BY <2>1
  <2> QED
      BY <2>2
<1>2. ASSUME NEW m \in Nat, m \notin Missing
      PROVE  m + 1 \notin Missing
  <2>1. PICK g : Upto(m, g)
      BY <1>2
  <2>2. PICK h : h = [k \in 0..Len(handed) |-> Value(g, k)]
      OBVIOUS
  <2>3. \A k \in 0..Len(handed) : k < m => h[k] = g[k]
      BY <2>1, <2>2
  <2>4. ASSUME NEW k \in 0..Len(handed), k < m + 1
        PROVE  h[k] = Value(h, k)
    <3>1. CASE k = 0
        BY <2>2, <3>1
    <3>2. CASE k # 0
      <4>1. k - 1 \in 0..Len(handed) /\ k - 1 < m
          BY <1>0, <1>2, <2>4, <3>2
      <4>2. h[k - 1] = g[k - 1]
          BY <2>3, <4>1
      <4> QED
          BY <2>2, <3>2, <4>2
    <3> QED
        BY <3>1, <3>2
  <2>5. DOMAIN h = 0..Len(handed) /\ h = [k \in 0..Len(handed) |-> h[k]]
      BY <2>2
  <2>6. Upto(m + 1, h)
      BY <2>4, <2>5
  <2> QED
      BY <2>6
<1>3. Missing = {}
  <2>1. SUFFICES ASSUME Missing # {} PROVE FALSE
      OBVIOUS
  <2>2. Missing \subseteq Nat
      OBVIOUS
  <2> HIDE DEF Missing
  <2>3. PICK m \in Missing : \A k \in Missing : m <= k
      BY <2>1, <2>2, LeastNumber
  <2>4. m \in Nat /\ m # 0
      BY <1>1, <2>2, <2>3
  <2>5. m - 1 \in Nat /\ m - 1 \notin Missing /\ (m - 1) + 1 = m
      BY <2>2, <2>3, <2>4
  <2> QED
      BY <1>2, <2>3, <2>5
<1>4. Len(handed) + 1 \in Nat /\ \A k \in 0..Len(handed) : k < Len(handed) + 1
    BY <1>0
<1>5. PICK g : Upto(Len(handed) + 1, g)
    BY <1>3, <1>4
<1>6. g = [k \in 0..Len(handed) |-> g[k]] /\ \A k \in 0..Len(handed) : g[k] = Value(g, k)
    BY <1>4, <1>5
<1>7. IsRehash(g, handed, n)
    BY <1>6 DEF IsRehash
<1> QED
    BY <1>7

\* One more slot of the old table finds its place in the new one.
LEMMA RehashOne ==
    ASSUME NEW handed \in Seq(SlotValue), NEW n \in Nat \ {0}, Cardinality(TakenSlots(handed)) < n,
           NEW k \in 1..Len(handed), NEW table, Rehashing(table, handed, n, k - 1)
    PROVE  Rehashing(WithId(table, handed[k]), handed, n, k)
<1>1. PICK id : id = handed[k]
    OBVIOUS
<1>2. /\ table \in Seq(SlotValue) /\ Len(table) = n /\ Findable(table) /\ id \in SlotValue
      /\ IdsOf(table) = {handed[j] : j \in 1..k - 1} \ {Empty}
      /\ Cardinality(TakenSlots(table)) <= Cardinality(TakenSlots(handed) \cap 1..k - 1)
    BY <1>1 DEF Rehashing
<1>3. PICK before, upto : /\ before = TakenSlots(handed) \cap 1..k - 1
                          /\ upto = TakenSlots(handed) \cap 1..k
    OBVIOUS
<1>4. 1..k = (1..k - 1) \cup {k} /\ k \notin 1..k - 1
    OBVIOUS
<1>5. {handed[j] : j \in 1..k} = {handed[j] : j \in 1..k - 1} \cup {id}
    BY <1>1, <1>4
<1>6. /\ IsFiniteSet(before) /\ IsFiniteSet(upto)
      /\ Cardinality(before) \in Nat /\ Cardinality(upto) \in Nat
      /\ Cardinality(upto) <= Cardinality(TakenSlots(handed))
  <2>1. before \subseteq TakenSlots(handed) /\ upto \subseteq TakenSlots(handed)
      BY <1>3
  <2>2. IsFiniteSet(TakenSlots(handed))
      BY TakenCounted
  <2> QED
      BY <2>1, <2>2, FS_Subset, FS_CardinalityType
<1>7. CASE id = Empty
  <2>1. WithId(table, id) = table
      BY <1>7 DEF WithId
  <2>2. k \notin TakenSlots(handed)
      BY <1>1, <1>7 DEF TakenSlots
  <2>3. upto = before
      BY <1>3, <1>4, <2>2
  <2>4. {handed[j] : j \in 1..k} \ {Empty} = {handed[j] : j \in 1..k - 1} \ {Empty}
      BY <1>5, <1>7
  <2> QED
      BY <1>1, <1>2, <1>3, <2>1, <2>3, <2>4 DEF Rehashing
<1>8. CASE id # Empty
  <2>1. id \in Ids /\ k \in TakenSlots(handed)
      BY <1>1, <1>2, <1>8 DEF SlotValue, TakenSlots
  <2>2. upto = before \cup {k} /\ k \notin before
      BY <1>3, <1>4, <2>1
  <2>3. Cardinality(upto) = Cardinality(before) + 1
      BY <1>6, <2>2, FS_AddElement
  <2>4. Cardinality(TakenSlots(table)) \in Nat /\ Cardinality(TakenSlots(handed)) \in Nat
      BY <1>2, TakenCounted
  <2>5. Cardinality(TakenSlots(table)) < Len(table)
      BY <1>2, <1>3, <1>6, <2>3, <2>4
  <2>6. \E l \in 1..n : table[l] = Empty
      BY <1>2, <2>5, TakenCounted
  <2>7. PICK free : free = {i \in 0..n - 1 : table[ProbeAt(id, i, n)] = Empty}
      OBVIOUS
  <2>8. free # {} /\ free \subseteq Nat
    <3>1. PICK l \in 1..n : table[l] = Empty
        BY <2>6
    <3>2. \E i \in 0..n - 1 : ProbeAt(id, i, n) = l
        BY <2>1, ProbesOfId
    <3>3. \E i \in 0..n - 1 : table[ProbeAt(id, i, n)] = Empty
        BY <3>1, <3>2
    <3> QED
        BY <2>7, <3>3
  <2>9. PICK i : i = Min(free)
      OBVIOUS
  <2>10. i \in free /\ \A j \in free : i <= j
      BY <2>8, <2>9, MinRight
  <2>11. i \in 0..n - 1 /\ table[ProbeAt(id, i, n)] = Empty
      BY <2>7, <2>10
  <2>12. ASSUME NEW j \in 0..i - 1
         PROVE  table[ProbeAt(id, j, n)] # Empty
    <3>1. j \in 0..n - 1 /\ ~(i <= j)
        BY <2>11
    <3> QED
        BY <2>7, <2>10, <3>1
  <2>13. PICK fuller : fuller = [table EXCEPT ![ProbeAt(id, i, n)] = id]
      OBVIOUS
  <2>14. WithId(table, id) = fuller
      BY <1>2, <1>8, <2>7, <2>8, <2>9, <2>13 DEF WithId
  <2>15. /\ fuller \in Seq(SlotValue) /\ Fills(table, fuller) /\ Findable(fuller)
         /\ IdsOf(fuller) = IdsOf(table) \cup {id}
         /\ Cardinality(TakenSlots(fuller)) = Cardinality(TakenSlots(table)) + 1
      BY <1>2, <2>1, <2>11, <2>12, <2>13, IdStored
  <2>16. IdsOf(fuller) = {handed[j] : j \in 1..k} \ {Empty}
      BY <1>2, <1>5, <1>8, <2>15
  <2>17. Cardinality(TakenSlots(fuller)) <= Cardinality(upto) /\ Len(fuller) = n
      BY <1>2, <1>3, <1>6, <2>3, <2>4, <2>15 DEF Fills
  <2> QED
      BY <1>1, <1>3, <2>14, <2>15, <2>16, <2>17 DEF Rehashing
<1> QED
    BY <1>7, <1>8

\* A rehash keeps all ids, where a lookup finds them.
LEMMA RehashedRight ==
    ASSUME NEW handed \in Seq(SlotValue), NEW n \in Nat \ {0}, Cardinality(TakenSlots(handed)) < n,
           NEW table, table = Rehashed(handed, n)
    PROVE  /\ table \in Seq(SlotValue) /\ Len(table) = n /\ Findable(table)
           /\ IdsOf(table) = IdsOf(handed)
           /\ Cardinality(TakenSlots(table)) <= Cardinality(TakenSlots(handed))
           /\ \E k \in 1..n : table[k] = Empty
<1>1. PICK m : m = Len(handed)
    OBVIOUS
<1>2. m \in Nat
    BY <1>1
<1>3. PICK tables : IsRehash(tables, handed, n) /\ table = tables[m]
    BY <1>1, RehashIsTable, RehashExists
<1>4. /\ tables[0] = [slot \in 1..n |-> Empty]
      /\ \A k \in 1..m : tables[k] = WithId(tables[k - 1], handed[k])
  <2>1. 0 \in 0..m /\ \A k \in 1..m : k \in 0..m /\ k # 0
      BY <1>2
  <2>2. \A k \in 0..m : tables[k] = IF k = 0 THEN [slot \in 1..n |-> Empty] ELSE WithId(tables[k - 1], handed[k])
      BY <1>1, <1>3 DEF IsRehash
  <2> QED
      BY <2>1, <2>2
<1>5. Rehashing(tables[0], handed, n, 0)
  <2>1. PICK t : t = tables[0]
      OBVIOUS
  <2>2. t \in [1..n -> SlotValue] /\ \A k \in 1..n : t[k] = Empty
      BY <1>4, <2>1 DEF SlotValue
  <2>3. t \in Seq(SlotValue) /\ Len(t) = n
      BY <2>2
  <2>4. TakenSlots(t) = {} /\ IdsOf(t) = {}
      BY <2>2, <2>3 DEF TakenSlots, IdsOf
  <2>5. 1..0 = {}
      OBVIOUS
  <2>6. {handed[j] : j \in 1..0} \ {Empty} = {} /\ TakenSlots(handed) \cap 1..0 = {}
      BY <2>5
  <2>7. Findable(t)
      BY <2>4 DEF Findable
  <2>8. Cardinality({}) = 0
      BY FS_EmptySet
  <2> QED
      BY <2>1, <2>3, <2>4, <2>6, <2>7, <2>8 DEF Rehashing
<1>6. ASSUME NEW k \in 1..m, Rehashing(tables[k - 1], handed, n, k - 1)
      PROVE  Rehashing(tables[k], handed, n, k)
    BY <1>1, <1>4, <1>6, RehashOne
<1>7. \A k \in 0..m : Rehashing(tables[k], handed, n, k)
  <2> DEFINE Wrong == {k \in 0..m : ~Rehashing(tables[k], handed, n, k)}
  <2>1. ASSUME Wrong # {} PROVE FALSE
    <3>1. Wrong \subseteq Nat
        BY <1>2
    <3>2. PICK k \in Wrong : \A j \in Wrong : k <= j
        BY <2>1, <3>1, LeastNumber
    <3>3. k \in 0..m /\ k # 0
        BY <1>5, <3>2
    <3>4. k \in 1..m /\ k - 1 \in 0..m /\ ~(k <= k - 1)
        BY <1>2, <3>3
    <3>5. Rehashing(tables[k - 1], handed, n, k - 1)
        BY <3>2, <3>4
    <3> QED
        BY <1>6, <3>2, <3>4, <3>5
  <2> QED
      BY <2>1
<1>8. Rehashing(table, handed, n, m)
    BY <1>2, <1>3, <1>7
<1>9. TakenSlots(handed) \cap 1..m = TakenSlots(handed)
    BY <1>1, TakenCounted
<1>10. IdsOf(table) = IdsOf(handed)
    BY <1>1, <1>8 DEF Rehashing, IdsOf
<1>11. /\ table \in Seq(SlotValue) /\ Len(table) = n /\ Findable(table)
       /\ Cardinality(TakenSlots(table)) <= Cardinality(TakenSlots(handed))
    BY <1>8, <1>9 DEF Rehashing
<1>12. Cardinality(TakenSlots(table)) \in Nat /\ Cardinality(TakenSlots(handed)) \in Nat
    BY <1>11, TakenCounted
<1>13. \E k \in 1..n : table[k] = Empty
    BY <1>11, <1>12, TakenCounted
<1> QED
    BY <1>10, <1>11, <1>13
-----------------------------------------------------------------------------
\* One read() answers some probes, the next one first.
LEMMA ProbesRight ==
    ASSUME NEW id \in Ids, NEW n \in Nat \ {0}, NEW i \in 0..n - 1
    PROVE  \E m \in (i + 1)..n : ProbesOfRead(id, i, n) = i..m - 1 /\ Max(ProbesOfRead(id, i, n)) = m - 1
<1>1. PICK b, e : b = i + ProbeBatch /\ e = i + n - (ProbeAt(id, i, n) - 1)
    OBVIOUS
<1>2. ProbeBatch \in Nat \ {0} /\ i \in Nat /\ i < n /\ ProbeAt(id, i, n) \in 1..n
  <2>1. ProbeBatch \in Nat \ {0} /\ i \in Nat /\ i < n
      BY SlotsAssumption
  <2> QED
      BY <2>1, ProbesOfId
<1>3. b \in Nat /\ e \in Nat /\ b >= i + 1 /\ e >= i + 1
    BY <1>1, <1>2
<1>4. PICK m : m = Min({b, e, n})
    OBVIOUS
<1>5. m \in {b, e, n} /\ m <= n
  <2>1. {b, e, n} # {} /\ {b, e, n} \subseteq Nat /\ n \in {b, e, n}
      BY <1>3
  <2> QED
      BY <1>4, <2>1, MinRight
<1>6. m \in (i + 1)..n
    BY <1>2, <1>3, <1>5
<1>7. ProbesOfRead(id, i, n) = i..m - 1
    BY <1>1, <1>4 DEF ProbesOfRead
<1>8. m - 1 \in i..m - 1 /\ \A x \in i..m - 1 : m - 1 >= x
    BY <1>2, <1>6
<1>9. \A x \in i..m - 1 : (\A y \in i..m - 1 : x >= y) => x = m - 1
    BY <1>2, <1>6, <1>8
<1>10. Max(i..m - 1) = m - 1
    BY <1>8, <1>9 DEF Max
<1> QED
    BY <1>6, <1>7, <1>10

\* The file that is linked is right, and so is the count of insert().
LEMMA LinkedRight ==
    ASSUME SlotsInv
    PROVE  /\ TableRight(LinkedTable) /\ LinkedTable \in Seq(SlotValue) /\ Len(LinkedTable) \in Nat
           /\ IdsOf(LinkedTable) \subseteq attempted
           /\ LinkedTable # << >> => TableSize(Len(LinkedTable))
<1>1. linked \in 0..Len(slotFiles) /\ Len(slotFiles) \in Nat /\ FilesRight
    BY DEF SlotsInv, SlotsType
<1>2. CASE linked = 0
  <2>1. LinkedTable = << >>
      BY <1>2 DEF LinkedTable
  <2>2. << >> \in Seq(SlotValue) /\ Len(<< >>) = 0
      OBVIOUS
  <2>3. IdsOf(<< >>) = {}
      BY <2>2 DEF IdsOf
  <2> QED
      BY <2>1, <2>2, <2>3 DEF TableRight
<1>3. CASE linked # 0
  <2>1. linked \in 1..Len(slotFiles) /\ LinkedTable = slotFiles[linked]
      BY <1>1, <1>3 DEF LinkedTable
  <2> QED
      BY <1>1, <2>1 DEF FilesRight, TableRight
<1> QED
    BY <1>2, <1>3

LEMMA UsedRight ==
    ASSUME SlotsInv, NEW a \in Adders, apc[a] # "idle"
    PROVE  /\ nslots = Len(LinkedTable) /\ linked # 0 /\ linked \in 1..Len(slotFiles)
           /\ slotFiles[linked] = LinkedTable
           /\ Used \in Nat /\ CountRight(Used, LinkedTable)
<1>1. alive /\ linked # 0
    BY DEF SlotsInv, WritersRight, WriterRight
<1>2. nslots = Len(LinkedTable)
    BY <1>1 DEF SlotsInv, ObjectRight
<1>3. linked \in 1..Len(slotFiles) /\ slotFiles[linked] = LinkedTable
    BY <1>1 DEF SlotsInv, SlotsType, LinkedTable
<1>4. PICK table : table = LinkedTable
    OBVIOUS
<1>5. /\ TableRight(table) /\ table \in Seq(SlotValue) /\ Len(table) \in Nat
      /\ table # << >> => TableSize(Len(table))
    BY <1>4, LinkedRight
<1>6. nslots_used # Unknown => nslots_used \in Nat /\ CountRight(nslots_used, table)
    BY <1>4 DEF SlotsInv, SlotsType, ObjectRight
<1>7. ASSUME nslots_used = Unknown
      PROVE  Counted \in Nat /\ CountRight(Counted, table)
  <2>0. Slack(Len(table)) \in Nat
      BY <1>5, SlotsAssumption DEF Slack
  <2>1. CASE Len(table) = 0
    <3>1. Counted = 0
        BY <1>2, <1>4, <2>1 DEF Counted
    <3>2. Cardinality(TakenSlots(table)) \in Nat /\ Cardinality(TakenSlots(table)) <= 0
        BY <1>5, <2>1, TakenCounted
    <3> QED
        BY <2>0, <3>1, <3>2 DEF CountRight
  <2>2. CASE Len(table) # 0
    <3>1. PICK handed : handed = HandedOut(table)
        OBVIOUS
    <3>2. table # << >> /\ TableSize(Len(table))
        BY <1>5, <2>2
    <3>3. /\ handed \in Seq(SlotValue) /\ Called(handed) = TakenSlots(handed)
          /\ Cardinality(TakenSlots(handed)) >= Cardinality(TakenSlots(table))
        BY <1>5, <3>1, <3>2, HandedOutRight
    <3>4. Cardinality(TakenSlots(handed)) \in Nat /\ Cardinality(TakenSlots(table)) \in Nat
        BY <1>5, <3>3, TakenCounted
    <3>5. Counted = Cardinality(TakenSlots(handed))
        BY <1>2, <1>3, <1>4, <2>2, <3>1, <3>3 DEF Counted
    <3> QED
        BY <2>0, <3>3, <3>4, <3>5 DEF CountRight
  <2> QED
      BY <2>1, <2>2
<1>8. Used \in Nat /\ CountRight(Used, table)
    BY <1>6, <1>7 DEF Used
<1> QED
    BY <1>1, <1>2, <1>3, <1>4, <1>8

-----------------------------------------------------------------------------
\* A table that gains ids loses none.
LEMMA IdsKept ==
    ASSUME NEW table \in Seq(SlotValue), NEW fuller, Fills(table, fuller)
    PROVE  IdsOf(table) \subseteq IdsOf(fuller)
    BY DEF Fills, IdsOf, TakenSlots

\* Readers go on while files gain ids, and others are linked.
LEMMA ReaderKept ==
    ASSUME SlotsInv, linked' \in Nat, linked <= linked', attempted \subseteq attempted', attempted' \subseteq Ids,
           \A f \in 1..linked : Fills(slotFiles[f], slotFiles'[f]),
           NEW call, ReaderRight(call)
    PROVE  ReaderRight(call)'
<1>1. linked \in Nat /\ linked <= Len(slotFiles) /\ FilesRight /\ attempted \subseteq Ids
    BY DEF SlotsInv, SlotsType
<1>2. ASSUME InFile(call)
      PROVE  /\ InFile(call)'
             /\ call.file \in 1..linked /\ slotFiles[call.file] \in Seq(SlotValue)
             /\ Len(slotFiles'[call.file]) = Len(slotFiles[call.file])
             /\ \A k \in TakenSlots(slotFiles[call.file]) : slotFiles'[call.file][k] = slotFiles[call.file][k]
  <2>1. call.file \in 1..linked /\ call.file \in 1..linked' /\ call.file \in 1..Len(slotFiles)
      BY <1>1, <1>2 DEF InFile
  <2>2. slotFiles[call.file] \in Seq(SlotValue) /\ slotFiles[call.file] # << >>
      BY <1>1, <1>2, <2>1 DEF FilesRight, TableRight, InFile
  <2>3. Fills(slotFiles[call.file], slotFiles'[call.file])
      BY <2>1
  <2>4. IdsOf(slotFiles[call.file]) \subseteq IdsOf(slotFiles'[call.file])
      BY <2>2, <2>3, IdsKept
  <2>5. Len(slotFiles[call.file]) # 0
      BY <2>2
  <2>6. /\ Len(slotFiles'[call.file]) = Len(slotFiles[call.file])
        /\ \A k \in TakenSlots(slotFiles[call.file]) : slotFiles'[call.file][k] = slotFiles[call.file][k]
      BY <2>3 DEF Fills
  <2>7. slotFiles'[call.file] # << >>
      BY <2>5, <2>6
  <2> QED
      BY <1>2, <2>1, <2>2, <2>4, <2>6, <2>7 DEF InFile
<1>3. CASE call = NoCall
    BY <1>3 DEF ReaderRight
<1>4. CASE LookupRight(call)
  <2>1. /\ InFile(call) /\ call.id \in Ids /\ call.probe \in Nat
        /\ call \in [op : {"lookup"}, id : Ids, file : Nat, probe : Nat, promised : SUBSET Ids]
      BY <1>4 DEF LookupRight
  <2>2. PICK f, n : f = call.file /\ n = Len(slotFiles[f])
      OBVIOUS
  <2>3. n \in Nat \ {0}
      BY <1>2, <2>1, <2>2 DEF InFile
  <2>4. ASSUME NEW j \in 0..call.probe - 1
        PROVE  slotFiles'[f][ProbeAt(call.id, j, n)] \notin {call.id, Empty}
    <3>1. slotFiles[f][ProbeAt(call.id, j, n)] \notin {call.id, Empty}
        BY <1>4, <2>2 DEF LookupRight
    <3>2. ProbeAt(call.id, j, n) \in 1..n
        BY <2>1, <2>3, ProbesOfId
    <3>3. ProbeAt(call.id, j, n) \in TakenSlots(slotFiles[f])
        BY <2>2, <3>1, <3>2 DEF TakenSlots
    <3> QED
        BY <1>2, <2>1, <2>2, <3>1, <3>3
  <2>5. call.probe < n /\ Len(slotFiles'[f]) = n /\ InFile(call)'
      BY <1>2, <1>4, <2>1, <2>2 DEF LookupRight
  <2>6. LookupRight(call)'
      BY <2>1, <2>2, <2>4, <2>5 DEF LookupRight
  <2> QED
      BY <2>6 DEF ReaderRight
<1>5. CASE ScanRight(call)
  <2>1. /\ InFile(call) /\ call.op = "scan" /\ call.promised \subseteq Ids
        /\ call \in [op : {"scan"}, file : Nat, batch : Nat, buffer : {call.buffer},
                     ids : SUBSET Ids, promised : SUBSET Ids]
        /\ call.batch < FetchReads(Len(slotFiles[call.file])) /\ call.ids \subseteq attempted
        /\ call.batch # 0 => \A k \in 1..FetchBatch : call.buffer[k] \in attempted \cup {Empty}
        /\ \A id \in call.promised : \E k \in 1..Len(slotFiles[call.file]) :
             slotFiles[call.file][k] = id /\ (k <= call.batch * FetchBatch => id \in call.ids)
      BY <1>5 DEF ScanRight
  <2>2. /\ InFile(call)' /\ Len(slotFiles'[call.file]) = Len(slotFiles[call.file])
        /\ \A k \in TakenSlots(slotFiles[call.file]) : slotFiles'[call.file][k] = slotFiles[call.file][k]
      BY <1>2, <2>1
  <2>3. ASSUME NEW id \in call.promised
        PROVE  \E k \in 1..Len(slotFiles'[call.file]) :
                 slotFiles'[call.file][k] = id /\ (k <= call.batch * FetchBatch => id \in call.ids)
    <3>1. PICK k \in 1..Len(slotFiles[call.file]) :
             slotFiles[call.file][k] = id /\ (k <= call.batch * FetchBatch => id \in call.ids)
        BY <2>1
    <3>2. k \in TakenSlots(slotFiles[call.file])
        BY <2>1, <3>1, SlotsAssumption DEF TakenSlots
    <3> QED
        BY <2>2, <3>1, <3>2
  <2>4. call.ids \subseteq attempted' /\ call.batch < FetchReads(Len(slotFiles'[call.file]))
      BY <2>1, <2>2
  <2>5. call.batch # 0 => \A k \in 1..FetchBatch : call.buffer[k] \in attempted' \cup {Empty}
      BY <2>1
  <2>6. ScanRight(call)'
      BY <2>1, <2>2, <2>3, <2>4, <2>5 DEF ScanRight
  <2> QED
      BY <2>6 DEF ReaderRight
<1>6. CASE AnsweredRight(call)
    BY <1>6 DEF AnsweredRight, ReaderRight
<1>7. CASE FetchedRight(call)
    BY <1>7 DEF FetchedRight, ReaderRight
<1> QED
    BY <1>3, <1>4, <1>5, <1>6, <1>7 DEF ReaderRight

LEMMA ReadersKept ==
    ASSUME SlotsInv, linked' \in Nat, linked <= linked', attempted \subseteq attempted', attempted' \subseteq Ids,
           \A f \in 1..linked : Fills(slotFiles[f], slotFiles'[f]), readers' = readers
    PROVE  ReadersRight'
<1>1. \A r \in Readers : ReaderRight(readers[r])
    BY DEF SlotsInv, ReadersRight
<1>2. \A call : ReaderRight(call) => ReaderRight(call)'
    BY ReaderKept
<1>3. DOMAIN readers' = Readers
    BY DEF SlotsInv, ReadersRight
<1> QED
    BY <1>1, <1>2, <1>3 DEF ReadersRight

\* A step of a reader changes nothing else.
LEMMA ReaderStep ==
    ASSUME SlotsInv, UNCHANGED <<fileVars, objectVars, apc, adding, alive, crashes, history>>,
           NEW r \in Readers, NEW call, ReaderRight(call), readers' = [readers EXCEPT ![r] = call]
    PROVE  SlotsInv'
<1>1. /\ slotFiles' = slotFiles /\ linked' = linked /\ nslots' = nslots /\ nslots_used' = nslots_used
      /\ apc' = apc /\ adding' = adding /\ alive' = alive
      /\ attempted' = attempted /\ acknowledged' = acknowledged /\ added' = added
    BY DEF fileVars, objectVars, history
<1>2. LinkedTable' = LinkedTable /\ GrownSlots' = GrownSlots
    BY <1>1 DEF LinkedTable, GrownSlots
<1>3. SlotsType' /\ FilesRight' /\ ObjectRight' /\ HistoryRight'
    BY <1>1, <1>2 DEF SlotsInv, SlotsType, FilesRight, ObjectRight, HistoryRight
<1>4. \A a : WriterRight(a)' <=> WriterRight(a)
    BY <1>1, <1>2 DEF WriterRight
<1>5. WritersRight'
    BY <1>1, <1>4 DEF SlotsInv, WritersRight
<1>6. /\ linked' \in Nat /\ linked <= linked' /\ attempted \subseteq attempted' /\ attempted' \subseteq Ids
      /\ \A f \in 1..linked : Fills(slotFiles[f], slotFiles'[f])
    BY <1>1 DEF SlotsInv, SlotsType, Fills
<1>7. \A c : ReaderRight(c) => ReaderRight(c)'
    BY <1>6, ReaderKept
<1>8. \A q \in Readers : readers'[q] = call \/ readers'[q] = readers[q]
    BY DEF SlotsInv, ReadersRight
<1>9. ReadersRight'
  <2>1. DOMAIN readers' = Readers /\ \A q \in Readers : ReaderRight(readers[q])
      BY DEF SlotsInv, ReadersRight
  <2> QED
      BY <1>7, <1>8, <2>1 DEF ReadersRight
<1> QED
    BY <1>3, <1>5, <1>9 DEF SlotsInv
-----------------------------------------------------------------------------
\* The readers' calls
LEMMA HasRecordIDStep ==
    ASSUME SlotsInv, NEW r \in Readers, NEW id \in Ids, HasRecordID(r, id)
    PROVE  SlotsInv'
<1>1. /\ alive /\ UNCHANGED <<fileVars, objectVars, apc, adding, alive, crashes, history>>
      /\ acknowledged \subseteq Ids /\ acknowledged \subseteq IdsOf(LinkedTable)
      /\ nslots = Len(LinkedTable) /\ TableRight(LinkedTable)
    BY LinkedRight DEF HasRecordID, SlotsInv, SlotsType, ObjectRight, HistoryRight
<1>2. CASE nslots = 0
  <2>1. PICK call : call = [op |-> "answered", id |-> id, found |-> FALSE, promised |-> acknowledged]
      OBVIOUS
  <2>2. readers' = [readers EXCEPT ![r] = call]
      BY <1>2, <2>1 DEF HasRecordID
  <2>3. id \notin acknowledged
      BY <1>1, <1>2 DEF IdsOf
  <2>4. ReaderRight(call)
      BY <2>1, <2>3 DEF ReaderRight, AnsweredRight
  <2> QED
      BY <1>1, <2>2, <2>4, ReaderStep
<1>3. CASE nslots # 0
  <2>1. PICK call : call = [op |-> "lookup", id |-> id, file |-> linked, probe |-> 0, promised |-> acknowledged]
      OBVIOUS
  <2>2. readers' = [readers EXCEPT ![r] = call]
      BY <1>3, <2>1 DEF HasRecordID
  <2>3. LinkedTable # << >> /\ Len(LinkedTable) \in Nat \ {0}
      BY <1>1, <1>3, LinkedRight
  <2>4. linked # 0 /\ LinkedTable = slotFiles[linked] /\ linked \in 1..linked
      BY <2>3 DEF LinkedTable, SlotsInv, SlotsType
  <2>5. InFile(call)
      BY <1>1, <2>1, <2>3, <2>4 DEF InFile
  <2>6. LookupRight(call)
      BY <1>1, <2>1, <2>3, <2>4, <2>5 DEF LookupRight
  <2>7. ReaderRight(call)
      BY <2>6 DEF ReaderRight
  <2> QED
      BY <1>1, <2>2, <2>7, ReaderStep
<1> QED
    BY <1>2, <1>3

LEMMA LookupReadStep ==
    ASSUME SlotsInv, NEW r \in Readers, LookupRead(r)
    PROVE  SlotsInv'
<1>1. PICK call, slots : call = readers[r] /\ slots = slotFiles[call.file]
    OBVIOUS
<1>2. UNCHANGED <<fileVars, objectVars, apc, adding, alive, crashes, history>> /\ call.op = "lookup"
    BY <1>1 DEF LookupRead
<1>3. LookupRight(call)
    BY <1>1, <1>2 DEF SlotsInv, ReadersRight, ReaderRight, NoCall, ScanRight, AnsweredRight, FetchedRight
<1>4. PICK id, n, i : id = call.id /\ n = Len(slots) /\ i = call.probe
    OBVIOUS
<1>5. /\ call \in [op : {"lookup"}, id : Ids, file : Nat, probe : Nat, promised : SUBSET Ids]
      /\ InFile(call) /\ id \in Ids /\ i \in Nat /\ i < n /\ call.promised \subseteq IdsOf(slots)
      /\ \A j \in 0..i - 1 : slots[ProbeAt(id, j, n)] \notin {id, Empty}
    BY <1>1, <1>3, <1>4 DEF LookupRight, InFile
<1>6. call.file \in 1..Len(slotFiles) /\ slots # << >>
    BY <1>1, <1>5 DEF InFile, SlotsInv, SlotsType
<1>7. TableRight(slots) /\ IdsOf(slots) \subseteq attempted
    BY <1>1, <1>6 DEF SlotsInv, FilesRight
<1>8. n \in Nat \ {0} /\ i \in 0..n - 1
    BY <1>4, <1>5, <1>6, <1>7, SomeStop
<1>9. PICK m \in (i + 1)..n : ProbesOfRead(id, i, n) = i..m - 1 /\ Max(ProbesOfRead(id, i, n)) = m - 1
    BY <1>5, <1>8, ProbesRight
<1>10. PICK stops : stops = Stops(slots, id, i..m - 1)
    OBVIOUS
<1>11. stops = {j \in i..m - 1 : slots[ProbeAt(id, j, n)] \in {id, Empty}}
    BY <1>4, <1>10 DEF Stops
<1>12. readers' = [readers EXCEPT ![r] =
                     IF stops # {}
                     THEN [op |-> "answered", id |-> id, promised |-> call.promised,
                           found |-> slots[ProbeAt(id, Min(stops), n)] = id]
                     ELSE IF m - 1 + 1 = n THEN [op |-> "full"]
                     ELSE [call EXCEPT !.probe = m - 1 + 1]]
    BY <1>1, <1>4, <1>9, <1>10 DEF LookupRead
<1>13. CASE stops # {}
  <2>1. PICK s, answer : /\ s = Min(stops)
                         /\ answer = [op |-> "answered", id |-> id, promised |-> call.promised,
                                      found |-> slots[ProbeAt(id, s, n)] = id]
      OBVIOUS
  <2>2. stops \subseteq Nat
      BY <1>8, <1>11
  <2>3. s \in stops /\ \A j \in stops : s <= j
      BY <1>13, <2>1, <2>2, MinRight
  <2>4. s \in i..m - 1 /\ slots[ProbeAt(id, s, n)] \in {id, Empty} /\ s \in 0..n - 1
      BY <1>8, <1>9, <1>11, <2>3
  <2>5. ASSUME NEW j \in 0..s - 1
        PROVE  slots[ProbeAt(id, j, n)] \notin {id, Empty}
    <3>1. CASE j < i
      <4>1. j \in 0..i - 1
          BY <1>8, <3>1
      <4> QED
          BY <1>5, <4>1
    <3>2. CASE j >= i
      <4>1. j \in i..m - 1 /\ ~(s <= j)
          BY <1>8, <1>9, <2>4, <3>2
      <4> QED
          BY <1>11, <2>3, <4>1
    <3> QED
        BY <1>8, <3>1, <3>2
  <2>6. slots[ProbeAt(id, s, n)] = id <=> id \in IdsOf(slots)
      BY SMTT(30), <1>4, <1>5, <1>6, <1>7, <2>4, <2>5, FirstStop
  <2>7. AnsweredRight(answer)
      BY <1>5, <1>7, <2>1, <2>6 DEF AnsweredRight
  <2>8. readers' = [readers EXCEPT ![r] = answer] /\ ReaderRight(answer)
      BY <1>12, <1>13, <2>1, <2>7 DEF ReaderRight
  <2> QED
      BY <1>2, <2>8, ReaderStep
<1>14. CASE stops = {}
  <2>1. ASSUME NEW j \in 0..m - 1
        PROVE  slots[ProbeAt(id, j, n)] \notin {id, Empty}
    <3>1. CASE j < i
      <4>1. j \in 0..i - 1
          BY <1>8, <3>1
      <4> QED
          BY <1>5, <4>1
    <3>2. CASE j >= i
      <4>1. j \in i..m - 1
          BY <1>8, <1>9, <3>2
      <4> QED
          BY <1>11, <1>14, <4>1
    <3> QED
        BY <1>8, <3>1, <3>2
  <2>2. m # n
      BY <1>4, <1>5, <1>6, <1>7, <2>1, SomeStop
  <2>3. m \in Nat /\ m - 1 + 1 = m /\ m < n
      BY <1>8, <1>9, <2>2
  <2>4. PICK next : next = [call EXCEPT !.probe = m]
      OBVIOUS
  <2>5. readers' = [readers EXCEPT ![r] = next]
      BY <1>12, <1>14, <2>2, <2>3, <2>4
  <2>6. /\ next \in [op : {"lookup"}, id : Ids, file : Nat, probe : Nat, promised : SUBSET Ids]
        /\ next.file = call.file /\ next.promised = call.promised /\ next.id = id /\ next.probe = m
      BY <1>4, <1>5, <2>3, <2>4
  <2>7. InFile(next)
      BY <1>5, <2>6 DEF InFile
  <2>8. LookupRight(next)
      BY <1>1, <1>4, <2>1, <2>3, <2>6, <2>7 DEF LookupRight
  <2>9. ReaderRight(next)
      BY <2>8 DEF ReaderRight
  <2> QED
      BY <1>2, <2>5, <2>9, ReaderStep
<1> QED
    BY <1>13, <1>14

LEMMA FetchRecordIDsStep ==
    ASSUME SlotsInv, NEW r \in Readers, FetchRecordIDs(r)
    PROVE  SlotsInv'
<1>1. /\ alive /\ UNCHANGED <<fileVars, objectVars, apc, adding, alive, crashes, history>>
      /\ acknowledged \subseteq Ids /\ acknowledged \subseteq IdsOf(LinkedTable)
      /\ nslots = Len(LinkedTable) /\ TableRight(LinkedTable)
    BY LinkedRight DEF FetchRecordIDs, SlotsInv, SlotsType, ObjectRight, HistoryRight
<1>2. CASE nslots = 0
  <2>1. PICK call : call = [op |-> "fetched", ids |-> {}, promised |-> acknowledged]
      OBVIOUS
  <2>2. readers' = [readers EXCEPT ![r] = call]
      BY <1>2, <2>1 DEF FetchRecordIDs
  <2>3. acknowledged = {}
      BY <1>1, <1>2 DEF IdsOf
  <2>4. ReaderRight(call)
      BY <2>1, <2>3 DEF ReaderRight, FetchedRight
  <2> QED
      BY <1>1, <2>2, <2>4, ReaderStep
<1>3. CASE nslots # 0
  <2>1. PICK call : call = [op |-> "scan", file |-> linked, batch |-> 0, buffer |-> << >>,
                            ids |-> {}, promised |-> acknowledged]
      OBVIOUS
  <2>2. readers' = [readers EXCEPT ![r] = call]
      BY <1>3, <2>1 DEF FetchRecordIDs
  <2>3. LinkedTable # << >> /\ TableSize(Len(LinkedTable))
      BY <1>1, <1>3, LinkedRight
  <2>4. linked # 0 /\ LinkedTable = slotFiles[linked] /\ linked \in 1..linked
      BY <2>3 DEF LinkedTable, SlotsInv, SlotsType
  <2>5. InFile(call)
      BY <1>1, <2>1, <2>3, <2>4 DEF InFile
  <2>6. Len(LinkedTable) \in Nat /\ Len(LinkedTable) >= FetchBatch
      BY <2>3, SlotsAssumption DEF TableSize
  <2>7. 0 < FetchReads(Len(LinkedTable))
      BY <2>6, ReadsCover
  <2>8. 0 * FetchBatch = 0
      BY SlotsAssumption
  <2>9. ASSUME NEW id \in acknowledged
        PROVE  \E k \in 1..Len(LinkedTable) : LinkedTable[k] = id /\ (k <= 0 * FetchBatch => id \in {})
      BY <1>1, <2>6, <2>8 DEF IdsOf
  <2>10. ScanRight(call)
      BY <1>1, <2>1, <2>4, <2>5, <2>7, <2>9 DEF ScanRight
  <2>11. ReaderRight(call)
      BY <2>10 DEF ReaderRight
  <2> QED
      BY <1>1, <2>2, <2>11, ReaderStep
<1> QED
    BY <1>2, <1>3

LEMMA ScanReadStep ==
    ASSUME SlotsInv, NEW r \in Readers, ScanRead(r)
    PROVE  SlotsInv'
<1>1. PICK call, slots : call = readers[r] /\ slots = slotFiles[call.file]
    OBVIOUS
<1>2. UNCHANGED <<fileVars, objectVars, apc, adding, alive, crashes, history>> /\ call.op = "scan"
    BY <1>1 DEF ScanRead
<1>3. ScanRight(call)
    BY <1>1, <1>2 DEF SlotsInv, ReadersRight, ReaderRight, NoCall, LookupRight, AnsweredRight, FetchedRight
<1>4. PICK n, b, reads : n = Len(slots) /\ b = call.batch /\ reads = FetchReads(n)
    OBVIOUS
<1>5. /\ call \in [op : {"scan"}, file : Nat, batch : Nat, buffer : {call.buffer},
                   ids : SUBSET Ids, promised : SUBSET Ids]
      /\ InFile(call) /\ b \in Nat /\ b < reads /\ call.ids \subseteq attempted
      /\ b # 0 => \A k \in 1..FetchBatch : call.buffer[k] \in attempted \cup {Empty}
      /\ \A id \in call.promised : \E k \in 1..n :
           slots[k] = id /\ (k <= b * FetchBatch => id \in call.ids)
      /\ call.promised \subseteq Ids
    BY <1>1, <1>3, <1>4 DEF ScanRight
<1>6. call.file \in 1..Len(slotFiles) /\ slots # << >>
    BY <1>1, <1>5 DEF InFile, SlotsInv, SlotsType
<1>7. TableRight(slots) /\ IdsOf(slots) \subseteq attempted /\ slots \in Seq(SlotValue)
    BY <1>1, <1>6 DEF SlotsInv, FilesRight, TableRight
<1>8. FetchBatch \in Nat \ {0} /\ n \in Nat /\ n >= FetchBatch
    BY <1>4, <1>6, <1>7, SlotsAssumption DEF TableRight, TableSize
<1>9. reads \in Nat /\ reads * FetchBatch >= n /\ b * FetchBatch \in Nat
      /\ (b + 1) * FetchBatch = b * FetchBatch + FetchBatch
  <2>1. reads \in Nat /\ reads * FetchBatch >= n
      BY <1>4, <1>8, ReadsCover
  <2> QED
      BY <1>5, <1>8, <2>1
<1>10. PICK buffer, ids : /\ buffer = FetchedBuffer(slots, b, call.buffer)
                          /\ ids = call.ids \cup ({buffer[k] : k \in 1..FetchBatch} \ {Empty})
    OBVIOUS
<1>11. /\ \A k \in 1..FetchBatch : b * FetchBatch + k <= n => buffer[k] = slots[b * FetchBatch + k]
       /\ \A k \in 1..FetchBatch : ~(b * FetchBatch + k <= n) => buffer[k] = call.buffer[k]
    BY <1>4, <1>10 DEF FetchedBuffer
<1>12. \A k \in 1..FetchBatch : buffer[k] \in attempted \cup {Empty}
  <2> SUFFICES ASSUME NEW k \in 1..FetchBatch PROVE buffer[k] \in attempted \cup {Empty}
      OBVIOUS
  <2>1. CASE b * FetchBatch + k <= n
    <3>1. b * FetchBatch + k \in 1..n
        BY <1>8, <1>9, <2>1
    <3>2. slots[b * FetchBatch + k] \in IdsOf(slots) \cup {Empty}
        BY <1>4, <3>1 DEF IdsOf
    <3> QED
        BY <1>7, <1>11, <2>1, <3>2
  <2>2. CASE ~(b * FetchBatch + k <= n)
    <3>1. b # 0
      <4>1. ASSUME b = 0 PROVE FALSE
        <5>1. b * FetchBatch + k = k
            BY <1>8, <4>1
        <5> QED
            BY <1>8, <2>2, <5>1
      <4> QED
          BY <4>1
    <3> QED
        BY <1>5, <1>11, <2>2, <3>1
  <2> QED
      BY <2>1, <2>2
<1>13. ids \subseteq attempted /\ ids \subseteq Ids
  <2>1. attempted \subseteq Ids
      BY DEF SlotsInv, SlotsType
  <2> QED
      BY <1>5, <1>10, <1>12, <2>1
<1>14. ASSUME NEW id \in call.promised
       PROVE  \E k \in 1..n : slots[k] = id /\ (k <= (b + 1) * FetchBatch => id \in ids)
  <2>1. PICK k \in 1..n : slots[k] = id /\ (k <= b * FetchBatch => id \in call.ids)
      BY <1>5
  <2>2. ASSUME k <= (b + 1) * FetchBatch
        PROVE  id \in ids
    <3>1. CASE k <= b * FetchBatch
        BY <1>10, <2>1, <3>1
    <3>2. CASE k > b * FetchBatch
      <4>1. PICK l : l = k - b * FetchBatch
          OBVIOUS
      <4>2. l \in 1..FetchBatch /\ b * FetchBatch + l = k /\ k <= n
          BY <1>8, <1>9, <2>2, <3>2, <4>1
      <4>3. buffer[l] = id /\ id # Empty
          BY <1>5, <1>11, <2>1, <4>2, SlotsAssumption
      <4> QED
          BY <1>10, <4>2, <4>3
    <3> QED
        BY <1>8, <1>9, <3>1, <3>2
  <2> QED
      BY <2>1, <2>2
<1>15. readers' = [readers EXCEPT ![r] =
                     IF b + 1 = reads
                     THEN [op |-> "fetched", ids |-> ids, promised |-> call.promised]
                     ELSE [call EXCEPT !.batch = b + 1, !.buffer = buffer, !.ids = ids]]
    BY <1>1, <1>4, <1>10 DEF ScanRead
<1>16. CASE b + 1 = reads
  <2>1. PICK next : next = [op |-> "fetched", ids |-> ids, promised |-> call.promised]
      OBVIOUS
  <2>2. \A k \in 1..n : k <= (b + 1) * FetchBatch
      BY <1>8, <1>9, <1>16
  <2>3. call.promised \subseteq ids
      BY <1>14, <2>2
  <2>4. ReaderRight(next)
      BY <1>13, <2>1, <2>3 DEF ReaderRight, FetchedRight
  <2>5. readers' = [readers EXCEPT ![r] = next]
      BY <1>15, <1>16, <2>1
  <2> QED
      BY <1>2, <2>4, <2>5, ReaderStep
<1>17. CASE b + 1 # reads
  <2>1. PICK next : next = [call EXCEPT !.batch = b + 1, !.buffer = buffer, !.ids = ids]
      OBVIOUS
  <2>2. b + 1 \in Nat /\ b + 1 < reads
      BY <1>5, <1>9, <1>17
  <2>3. /\ next \in [op : {"scan"}, file : Nat, batch : Nat, buffer : {buffer},
                     ids : SUBSET Ids, promised : SUBSET Ids]
        /\ next.file = call.file /\ next.promised = call.promised /\ next.op = "scan"
        /\ next.batch = b + 1 /\ next.buffer = buffer /\ next.ids = ids
      BY <1>5, <1>13, <2>1, <2>2
  <2>4. InFile(next)
      BY <1>5, <2>3 DEF InFile
  <2>5. ScanRight(next)
      BY <1>1, <1>4, <1>12, <1>13, <1>14, <2>2, <2>3, <2>4 DEF ScanRight
  <2>6. ReaderRight(next)
      BY <2>5 DEF ReaderRight
  <2>7. readers' = [readers EXCEPT ![r] = next]
      BY <1>15, <1>17, <2>1
  <2> QED
      BY <1>2, <2>6, <2>7, ReaderStep
<1> QED
    BY <1>16, <1>17
-----------------------------------------------------------------------------
\* The writers
LEMMA AddStep ==
    ASSUME SlotsInv, NEW a \in Adders, NEW ids \in SUBSET Ids, Add(a, ids)
    PROVE  SlotsInv'
<1>1. /\ nslots' = nslots /\ nslots_used' = nslots_used /\ readers' = readers /\ alive /\ alive' = alive
      /\ acknowledged' = acknowledged /\ added' = added /\ attempted' = attempted \cup ids
      /\ apc' = [apc EXCEPT ![a] = "insert"]
      /\ adding' = [adding EXCEPT ![a] = [ids |-> ids, left |-> ids]]
      /\ \A b \in Adders : apc[b] = "idle"
    BY DEF Add, objectVars, WriteLocked
<1>2. SlotsType /\ FilesRight /\ ObjectRight /\ HistoryRight
    BY DEF SlotsInv
<1>3. /\ slotFiles' \in Seq(Seq(SlotValue)) /\ linked' \in 1..Len(slotFiles') /\ linked <= linked'
      /\ LinkedTable' = LinkedTable
      /\ \A f \in 1..Len(slotFiles') : slotFiles'[f] = << >> \/ (f \in 1..Len(slotFiles) /\ slotFiles'[f] = slotFiles[f])
      /\ \A f \in 1..linked : slotFiles'[f] = slotFiles[f]
  <2>1. CASE linked = 0
    <3>1. PICK n : n = Len(slotFiles)
        OBVIOUS
    <3>2. slotFiles' = Append(slotFiles, << >>) /\ linked' = Len(slotFiles') /\ << >> \in Seq(SlotValue)
        BY <2>1 DEF Add
    <3>3. /\ slotFiles' \in Seq(Seq(SlotValue)) /\ Len(slotFiles') = n + 1 /\ slotFiles'[n + 1] = << >>
          /\ \A f \in 1..n : slotFiles'[f] = slotFiles[f]
          /\ n \in Nat
        BY <1>2, <3>1, <3>2 DEF SlotsType
    <3>4. LinkedTable = << >> /\ LinkedTable' = << >>
        BY <2>1, <3>2, <3>3 DEF LinkedTable
    <3> QED
        BY <2>1, <3>1, <3>2, <3>3, <3>4
  <2>2. CASE linked # 0
    <3>1. slotFiles' = slotFiles /\ linked' = linked
        BY <2>2 DEF Add, fileVars
    <3> QED
        BY <1>2, <2>2, <3>1 DEF SlotsType, LinkedTable
  <2> QED
      BY <2>1, <2>2
<1>4. SlotsType'
    BY <1>1, <1>2, <1>3 DEF SlotsType
<1>5. FilesRight'
  <2>1. IdsOf(<< >>) = {} /\ TableRight(<< >>)
      BY DEF IdsOf, TableRight
  <2> QED
      BY <1>1, <1>2, <1>3, <2>1 DEF FilesRight
<1>6. ObjectRight' /\ HistoryRight'
    BY <1>1, <1>2, <1>3 DEF ObjectRight, HistoryRight
<1>7. WriterRight(a)'
  <2>1. apc'[a] = "insert" /\ adding'[a].ids = ids /\ adding'[a].left = ids
      BY <1>1, <1>2 DEF SlotsType
  <2>2. linked' # 0 /\ ids \subseteq attempted' /\ ids \ ids = {}
      BY <1>1, <1>3
  <2> QED
      BY <1>1, <2>1, <2>2 DEF WriterRight
<1>8. \A b \in Adders : b # a => apc'[b] = "idle"
    BY <1>1, <1>2 DEF SlotsType
<1>9. WritersRight'
    BY <1>7, <1>8 DEF WritersRight, WriterRight
<1>10. ReadersRight'
  <2>1. /\ linked' \in Nat /\ attempted \subseteq attempted' /\ attempted' \subseteq Ids
        /\ \A f \in 1..linked : Fills(slotFiles[f], slotFiles'[f])
      BY <1>1, <1>2, <1>3, <1>4 DEF SlotsType, Fills
  <2> QED
      BY <1>1, <1>3, <2>1, ReadersKept
<1> QED
    BY <1>4, <1>5, <1>6, <1>9, <1>10 DEF SlotsInv

LEMMA GrowStep ==
    ASSUME SlotsInv, NEW a \in Adders, Grow(a)
    PROVE  SlotsInv'
<1>1. /\ nslots' = nslots /\ linked' = linked /\ adding' = adding /\ readers' = readers /\ alive' = alive
      /\ acknowledged' = acknowledged /\ added' = added /\ attempted' = attempted
      /\ apc[a] = "insert" /\ apc' = [apc EXCEPT ![a] = "write"] /\ nslots_used' = Used
      /\ slotFiles' = SubSeq(slotFiles, 1, linked) \o << << >> >>
    BY DEF Grow, history
<1>2. SlotsType /\ FilesRight /\ ObjectRight /\ HistoryRight /\ WritersRight
    BY DEF SlotsInv
<1>3. /\ nslots = Len(LinkedTable) /\ linked # 0 /\ linked \in 1..Len(slotFiles)
      /\ slotFiles[linked] = LinkedTable
      /\ Used \in Nat /\ CountRight(Used, LinkedTable)
    BY <1>1, UsedRight
<1>4. /\ slotFiles' \in Seq(Seq(SlotValue)) /\ Len(slotFiles') = linked + 1
      /\ slotFiles'[linked + 1] = << >>
      /\ \A f \in 1..linked : slotFiles'[f] = slotFiles[f]
  <2>1. PICK kept : kept = SubSeq(slotFiles, 1, linked)
      OBVIOUS
  <2>2. slotFiles \in Seq(Seq(SlotValue)) /\ linked \in 1..Len(slotFiles) /\ << >> \in Seq(SlotValue)
      BY <1>2, <1>3 DEF SlotsType
  <2>3. kept \in Seq(Seq(SlotValue)) /\ Len(kept) = linked /\ \A f \in 1..linked : kept[f] = slotFiles[f]
      BY <2>1, <2>2
  <2>4. slotFiles' = kept \o << << >> >>
      BY <1>1, <2>1
  <2>5. << << >> >> \in Seq(Seq(SlotValue)) /\ Len(<< << >> >>) = 1 /\ << << >> >>[1] = << >>
      BY <2>2
  <2> QED
      BY <2>3, <2>4, <2>5
<1>5. LinkedTable' = LinkedTable /\ linked \in Nat
    BY <1>1, <1>2, <1>3, <1>4 DEF LinkedTable, SlotsType
<1>6. apc'[a] = "write" /\ \A b \in Adders : b # a => apc'[b] = apc[b]
    BY <1>1, <1>2 DEF SlotsType
<1>7. SlotsType'
    BY <1>1, <1>2, <1>3, <1>4, <1>5 DEF SlotsType
<1>8. FilesRight'
  <2>1. IdsOf(<< >>) = {} /\ TableRight(<< >>)
      BY DEF IdsOf, TableRight
  <2>2. \A f \in 1..linked + 1 : f = linked + 1 \/ (f \in 1..linked /\ f \in 1..Len(slotFiles))
      BY <1>2, <1>5 DEF SlotsType
  <2> QED
      BY <1>1, <1>2, <1>4, <2>1, <2>2 DEF FilesRight
<1>9. ObjectRight'
  <2>1. alive
      BY <1>1, <1>2 DEF WritersRight, WriterRight
  <2> QED
      BY <1>1, <1>2, <1>3, <1>5, <2>1 DEF ObjectRight
<1>10. HistoryRight'
    BY <1>1, <1>2, <1>5 DEF HistoryRight
<1>11. WriterRight(a)'
  <2>1. Used # Unknown
      BY <1>3 DEF Unknown
  <2>2. WriterRight(a)
      BY <1>2 DEF WritersRight
  <2> QED
      BY <1>1, <1>3, <1>4, <1>5, <1>6, <2>1, <2>2 DEF WriterRight
<1>12. \A b \in Adders : b # a => apc'[b] = "idle"
    BY <1>1, <1>2, <1>6 DEF WritersRight
<1>13. WritersRight'
    BY <1>11, <1>12 DEF WritersRight, WriterRight
<1>14. ReadersRight'
  <2>1. /\ linked' \in Nat /\ linked <= linked' /\ attempted \subseteq attempted' /\ attempted' \subseteq Ids
        /\ \A f \in 1..linked : Fills(slotFiles[f], slotFiles'[f])
      BY <1>1, <1>4, <1>5, <1>7 DEF SlotsType, Fills
  <2> QED
      BY <1>1, <2>1, ReadersKept
<1> QED
    BY <1>7, <1>8, <1>9, <1>10, <1>13, <1>14 DEF SlotsInv

\* The new table has the ids of the old one, an empty slot, and hardly more
\* slots in use than the count says.
LEMMA GrownRight ==
    ASSUME SlotsInv, NEW a \in Adders, apc[a] = "write",
           NEW table, table = Rehashed(IF nslots = 0 THEN << >> ELSE HandedOut(slotFiles[linked]), GrownSlots)
    PROVE  /\ TableRight(table) /\ table \in Seq(SlotValue) /\ Len(table) = GrownSlots
           /\ IdsOf(table) = IdsOf(LinkedTable) /\ CountRight(nslots_used, table)
<1>1. PICK old, n, used : old = LinkedTable /\ n = nslots /\ used = nslots_used
    OBVIOUS
<1>2. /\ n = Len(old) /\ slotFiles[linked] = old
      /\ old \in Seq(SlotValue) /\ n \in Nat /\ (old # << >> => TableSize(n))
      /\ used \in Nat /\ CountRight(used, old)
  <2>1. nslots_used # Unknown
      BY DEF SlotsInv, WritersRight, WriterRight
  <2>2. used \in Nat /\ CountRight(used, old)
      BY <1>1, <2>1 DEF SlotsInv, SlotsType, ObjectRight
  <2>3. n = Len(old) /\ slotFiles[linked] = old
      BY <1>1, UsedRight
  <2> QED
      BY <1>1, <2>2, <2>3, LinkedRight
<1>3. PICK handed, grown : /\ handed = IF n = 0 THEN << >> ELSE HandedOut(old)
                           /\ grown = IF n = 0 THEN InitialSlots ELSE 2 * n
    OBVIOUS
<1>4. table = Rehashed(handed, grown) /\ GrownSlots = grown
    BY <1>1, <1>2, <1>3 DEF GrownSlots
<1>5. PICK before, after : /\ before = Cardinality(TakenSlots(old))
                           /\ after = Cardinality(TakenSlots(handed))
    OBVIOUS
<1>6. InitialSlots \in Nat \ {0} /\ before \in Nat /\ before <= n
    BY <1>2, <1>5, SlotsAssumption, TakenCounted
<1>7. /\ handed \in Seq(SlotValue) /\ IdsOf(handed) = IdsOf(old)
      /\ TableSize(grown) /\ after \in Nat /\ after < grown
      /\ 2 * after <= 2 * used + Slack(grown)
  <2>1. CASE n = 0
    <3>1. old = << >> /\ handed = << >> /\ grown = InitialSlots
      <4>1. ~TableSize(n)
          BY <1>6, <2>1 DEF TableSize
      <4> QED
          BY <1>2, <1>3, <2>1, <4>1
    <3>2. << >> \in Seq(SlotValue) /\ TakenSlots(<< >>) = {}
        BY DEF TakenSlots
    <3>3. after = 0
        BY <1>5, <3>1, <3>2, FS_EmptySet
    <3>4. Slack(grown) = 0 /\ TableSize(grown)
        BY <1>6, <3>1 DEF Slack, TableSize
    <3> QED
        BY <1>2, <1>6, <3>1, <3>2, <3>3, <3>4
  <2>2. CASE n # 0
    <3>1. old # << >> /\ handed = HandedOut(old) /\ grown = 2 * n
        BY <1>2, <1>3, <2>2
    <3>2. TableSize(n)
        BY <1>2, <3>1
    <3>3. /\ handed \in Seq(SlotValue) /\ IdsOf(handed) = IdsOf(old)
          /\ after <= before + InitialSlots - 1
        BY <1>2, <1>5, <3>1, <3>2, HandedOutRight
    <3>4. after \in Nat
        BY <1>5, <3>3, TakenCounted
    <3>5. n = InitialSlots \/ n >= 2 * InitialSlots
        BY <3>2 DEF TableSize
    <3>6. after < grown /\ TableSize(grown)
        BY <1>2, <1>6, <3>1, <3>3, <3>4, <3>5 DEF TableSize
    <3>7. 2 * before <= 2 * used + Slack(n)
        BY <1>2, <1>5 DEF CountRight
    <3>8. Slack(grown) = 2 * n - 2
        BY <1>2, <1>6, <3>1, <3>5 DEF Slack
    <3>9. CASE n = InitialSlots
      <4>1. Slack(n) = 0
          BY <1>2, <1>6, <3>9 DEF Slack
      <4> QED
          BY <1>2, <1>6, <3>3, <3>4, <3>6, <3>7, <3>8, <3>9, <4>1
    <3>10. CASE n >= 2 * InitialSlots
      <4>1. Slack(n) = n - 2
          BY <1>2, <1>6, <3>10 DEF Slack
      <4> QED
          BY <1>2, <1>6, <3>3, <3>4, <3>6, <3>7, <3>8, <3>10, <4>1
    <3> QED
        BY <3>3, <3>4, <3>5, <3>6, <3>9, <3>10
  <2> QED
      BY <2>1, <2>2
<1>8. grown \in Nat \ {0}
    BY <1>6, <1>7 DEF TableSize
<1>9. /\ table \in Seq(SlotValue) /\ Len(table) = grown /\ Findable(table)
      /\ IdsOf(table) = IdsOf(handed)
      /\ Cardinality(TakenSlots(table)) <= after
      /\ \E k \in 1..grown : table[k] = Empty
    BY <1>4, <1>5, <1>7, <1>8, RehashedRight
<1>10. TableRight(table)
    BY <1>7, <1>9 DEF TableRight
<1>11. CountRight(used, table)
  <2>1. Cardinality(TakenSlots(table)) \in Nat /\ Slack(grown) \in Int
      BY <1>6, <1>8, <1>9, TakenCounted DEF Slack
  <2> QED
      BY <1>2, <1>7, <1>9, <2>1 DEF CountRight
<1> QED
    BY <1>1, <1>4, <1>7, <1>9, <1>10, <1>11

LEMMA GrowWriteStep ==
    ASSUME SlotsInv, NEW a \in Adders, GrowWrite(a)
    PROVE  SlotsInv'
<1>1. PICK table : table = Rehashed(IF nslots = 0 THEN << >> ELSE HandedOut(slotFiles[linked]), GrownSlots)
    OBVIOUS
<1>2. /\ linked' = linked /\ nslots' = nslots /\ nslots_used' = nslots_used /\ alive' = alive
      /\ adding' = adding /\ readers' = readers
      /\ acknowledged' = acknowledged /\ added' = added /\ attempted' = attempted
      /\ apc[a] = "write" /\ apc' = [apc EXCEPT ![a] = "move"]
      /\ slotFiles' = [slotFiles EXCEPT ![Len(slotFiles)] = table]
    BY <1>1 DEF GrowWrite, history, objectVars
<1>3. SlotsType /\ FilesRight /\ ObjectRight /\ HistoryRight /\ WritersRight
    BY DEF SlotsInv
<1>4. WriterRight(a) /\ Len(slotFiles) = linked + 1 /\ linked # 0 /\ linked \in Nat
    BY <1>2, <1>3 DEF WritersRight, WriterRight, SlotsType
<1>5. /\ TableRight(table) /\ table \in Seq(SlotValue) /\ Len(table) = GrownSlots
      /\ IdsOf(table) = IdsOf(LinkedTable) /\ CountRight(nslots_used, table)
    BY <1>1, <1>2, GrownRight
<1>6. /\ slotFiles' \in Seq(Seq(SlotValue)) /\ Len(slotFiles') = linked + 1
      /\ slotFiles'[linked + 1] = table
      /\ \A f \in 1..linked : slotFiles'[f] = slotFiles[f]
  <2>1. slotFiles \in Seq(Seq(SlotValue)) /\ linked + 1 \in 1..Len(slotFiles) /\ \A f \in 1..linked : f \in 1..Len(slotFiles) /\ f # linked + 1
      BY <1>3, <1>4 DEF SlotsType
  <2> QED
      BY <1>2, <1>4, <1>5, <2>1
<1>7. LinkedTable' = LinkedTable /\ GrownSlots' = GrownSlots
    BY <1>2, <1>4, <1>6 DEF LinkedTable, GrownSlots
<1>8. apc'[a] = "move" /\ \A b \in Adders : b # a => apc'[b] = apc[b]
    BY <1>2, <1>3 DEF SlotsType
<1>9. SlotsType'
    BY <1>2, <1>3, <1>4, <1>6 DEF SlotsType
<1>10. FilesRight'
  <2>1. \A f \in 1..linked + 1 : f = linked + 1 \/ (f \in 1..linked /\ f \in 1..Len(slotFiles))
      BY <1>4
  <2>2. IdsOf(table) \subseteq attempted
      BY <1>5, LinkedRight
  <2> QED
      BY <1>2, <1>3, <1>5, <1>6, <2>1, <2>2 DEF FilesRight
<1>11. ObjectRight' /\ HistoryRight'
    BY <1>2, <1>3, <1>7 DEF ObjectRight, HistoryRight
<1>12. WriterRight(a)'
    BY <1>2, <1>4, <1>5, <1>6, <1>7, <1>8 DEF WriterRight
<1>13. \A b \in Adders : b # a => apc'[b] = "idle"
    BY <1>2, <1>3, <1>8 DEF WritersRight
<1>14. WritersRight'
    BY <1>12, <1>13 DEF WritersRight, WriterRight
<1>15. ReadersRight'
  <2>1. /\ linked' \in Nat /\ linked <= linked' /\ attempted \subseteq attempted' /\ attempted' \subseteq Ids
        /\ \A f \in 1..linked : Fills(slotFiles[f], slotFiles'[f])
      BY <1>2, <1>4, <1>6, <1>9 DEF SlotsType, Fills
  <2> QED
      BY <1>2, <2>1, ReadersKept
<1> QED
    BY <1>9, <1>10, <1>11, <1>14, <1>15 DEF SlotsInv

LEMMA GrowMoveStep ==
    ASSUME SlotsInv, NEW a \in Adders, GrowMove(a)
    PROVE  SlotsInv'
<1>1. /\ linked' = Len(slotFiles) /\ nslots' = GrownSlots /\ nslots_used' = nslots_used /\ alive' = alive
      /\ adding' = adding /\ readers' = readers /\ slotFiles' = slotFiles
      /\ acknowledged' = acknowledged /\ added' = added /\ attempted' = attempted
      /\ apc[a] = "move" /\ apc' = [apc EXCEPT ![a] = "insert"]
    BY DEF GrowMove, history
<1>2. SlotsType /\ FilesRight /\ ObjectRight /\ HistoryRight /\ WritersRight
    BY DEF SlotsInv
<1>3. PICK table : table = slotFiles[linked + 1]
    OBVIOUS
<1>4. /\ alive /\ linked # 0 /\ linked \in Nat /\ Len(slotFiles) = linked + 1 /\ nslots_used # Unknown
      /\ adding[a].left \subseteq adding[a].ids /\ adding[a].ids \subseteq attempted
      /\ adding[a].ids \ adding[a].left \subseteq IdsOf(LinkedTable)
      /\ Len(table) = GrownSlots /\ IdsOf(table) = IdsOf(LinkedTable) /\ CountRight(nslots_used, table)
    BY <1>1, <1>2, <1>3 DEF WritersRight, WriterRight, SlotsType
<1>5. LinkedTable' = table /\ linked' = linked + 1
    BY <1>1, <1>3, <1>4 DEF LinkedTable
<1>6. apc'[a] = "insert" /\ \A b \in Adders : b # a => apc'[b] = apc[b]
    BY <1>1, <1>2 DEF SlotsType
<1>7. GrownSlots \in Nat
    BY <1>2, SlotsAssumption DEF GrownSlots, SlotsType
<1>8. SlotsType'
    BY <1>1, <1>2, <1>4, <1>7 DEF SlotsType
<1>9. FilesRight'
    BY <1>1, <1>2 DEF FilesRight
<1>10. ObjectRight'
    BY <1>1, <1>4, <1>5 DEF ObjectRight
<1>11. HistoryRight'
    BY <1>1, <1>2, <1>4, <1>5 DEF HistoryRight
<1>12. WriterRight(a)'
    BY <1>1, <1>4, <1>5, <1>6 DEF WriterRight
<1>13. \A b \in Adders : b # a => apc'[b] = "idle"
    BY <1>1, <1>2, <1>6 DEF WritersRight
<1>14. WritersRight'
    BY <1>12, <1>13 DEF WritersRight, WriterRight
<1>15. ReadersRight'
  <2>1. /\ linked' \in Nat /\ linked <= linked' /\ attempted \subseteq attempted' /\ attempted' \subseteq Ids
        /\ \A f \in 1..linked : Fills(slotFiles[f], slotFiles'[f])
      BY <1>1, <1>4, <1>5, <1>8 DEF SlotsType, Fills
  <2> QED
      BY <1>1, <2>1, ReadersKept
<1> QED
    BY <1>8, <1>9, <1>10, <1>11, <1>14, <1>15 DEF SlotsInv
LEMMA InsertStep ==
    ASSUME SlotsInv, NEW a \in Adders, NEW id \in Ids, Insert(a, id)
    PROVE  SlotsInv'
<1>1. PICK table, n, used : table = LinkedTable /\ n = nslots /\ used = Used
    OBVIOUS
<1>2. SlotsType /\ FilesRight /\ ObjectRight /\ HistoryRight /\ WritersRight
    BY DEF SlotsInv
<1>3. /\ apc[a] = "insert" /\ linked' = linked /\ nslots' = nslots /\ readers' = readers /\ alive' = alive
      /\ attempted' = attempted /\ acknowledged' = acknowledged
      /\ adding' = [adding EXCEPT ![a].left = @ \ {id}]
      /\ id \in adding[a].left /\ ~TooFull(used)
    BY <1>1 DEF Insert
<1>4. /\ n = Len(table) /\ linked # 0 /\ linked \in 1..Len(slotFiles) /\ slotFiles[linked] = table
      /\ used \in Nat /\ CountRight(used, table) /\ n \in Nat
      /\ TableRight(table) /\ table \in Seq(SlotValue) /\ IdsOf(table) \subseteq attempted
  <2>1. apc[a] # "idle"
      BY <1>3
  <2> QED
      BY <1>1, <2>1, UsedRight, LinkedRight
<1>5. 2 * (used + 1) <= n
    BY <1>1, <1>3, <1>4 DEF TooFull
<1>6. table # << >> /\ n \in Nat \ {0} /\ TableSize(n) /\ Findable(table)
  <2>1. n # 0
      BY <1>4, <1>5
  <2> QED
      BY <1>4, <2>1 DEF TableRight
<1>7. /\ alive /\ adding[a].left \subseteq adding[a].ids /\ adding[a].ids \subseteq attempted
      /\ adding[a].ids \ adding[a].left \subseteq IdsOf(table)
    BY <1>1, <1>2, <1>3 DEF WritersRight, WriterRight
<1>8. PICK stops : stops = Stops(table, id, 0..n - 1)
    OBVIOUS
<1>9. stops = {j \in 0..n - 1 : table[ProbeAt(id, j, n)] \in {id, Empty}}
    BY <1>4, <1>8 DEF Stops
<1>10. stops # {} /\ stops \subseteq Nat
  <2>1. \E i \in 0..n - 1 : table[ProbeAt(id, i, n)] = Empty
      BY <1>4, <1>6, SomeStop
  <2> QED
      BY <1>9, <2>1
<1>11. PICK s, slot : s = Min(stops) /\ slot = ProbeAt(id, s, n)
    OBVIOUS
<1>12. s \in 0..n - 1 /\ s \in Nat /\ table[slot] \in {id, Empty} /\ \A j \in stops : s <= j
    BY <1>9, <1>10, <1>11, MinRight
<1>13. \A j \in 0..s - 1 : table[ProbeAt(id, j, n)] \notin {id, Empty}
  <2> SUFFICES ASSUME NEW j \in 0..s - 1 PROVE table[ProbeAt(id, j, n)] \notin {id, Empty}
      OBVIOUS
  <2>1. j \in 0..n - 1 /\ ~(s <= j)
      BY <1>6, <1>12
  <2> QED
      BY <1>9, <1>12, <2>1
<1>14. table[slot] = id <=> id \in IdsOf(table)
    BY ZenonT(40), <1>4, <1>6, <1>11, <1>12, <1>13, FirstStop
<1>15. id # Empty /\ slot \in 1..n
    BY <1>6, <1>11, <1>12, ProbesOfId, SlotsAssumption
<1>16. \A x : x = Used => x = used
    BY <1>1
<1>17. PICK fuller : fuller = IF table[slot] = Empty THEN [table EXCEPT ![slot] = id] ELSE table
    OBVIOUS
<1>18. /\ apc' = apc
       /\ table[slot] = Empty =>
            /\ slotFiles' = [slotFiles EXCEPT ![linked] = fuller]
            /\ nslots_used' = used + 1 /\ added' = [added EXCEPT ![id] = @ + 1]
       /\ table[slot] # Empty =>
            slotFiles' = slotFiles /\ nslots_used' = used /\ added' = added
  <2>1. CASE table[slot] = Empty
      BY <1>1, <1>4, <1>8, <1>10, <1>11, <1>17, <2>1 DEF Insert
  <2>2. CASE table[slot] # Empty
      BY <1>1, <1>4, <1>8, <1>10, <1>11, <2>2 DEF Insert
  <2> QED
      BY <2>1, <2>2
<1>19. /\ fuller \in Seq(SlotValue) /\ Fills(table, fuller) /\ Len(fuller) = n /\ TableRight(fuller)
       /\ IdsOf(fuller) = IdsOf(table) \cup {id}
       /\ nslots_used' \in Nat /\ CountRight(nslots_used', fuller)
  <2>1. CASE table[slot] = Empty
    <3>1. /\ fuller \in Seq(SlotValue) /\ Fills(table, fuller) /\ Findable(fuller)
          /\ IdsOf(fuller) = IdsOf(table) \cup {id}
          /\ Cardinality(TakenSlots(fuller)) = Cardinality(TakenSlots(table)) + 1
      <4>1. \A j \in 0..s - 1 : table[ProbeAt(id, j, n)] # Empty
          BY <1>13
      <4>2. /\ Len(table) # 0 /\ s \in 0..Len(table) - 1 /\ table[ProbeAt(id, s, Len(table))] = Empty
            /\ \A j \in 0..s - 1 : table[ProbeAt(id, j, Len(table))] # Empty
            /\ fuller = [table EXCEPT ![ProbeAt(id, s, Len(table))] = id]
          BY <1>4, <1>6, <1>11, <1>12, <1>17, <2>1, <4>1
      <4>3. table \in Seq(SlotValue) /\ Findable(table)
          BY <1>4, <1>6
      <4> QED
          BY <4>2, <4>3, IdStored
    <3>2. Len(fuller) = n
        BY <1>4, <3>1 DEF Fills
    <3>3. PICK before : before = Cardinality(TakenSlots(table))
        OBVIOUS
    <3>4. before \in Nat /\ before <= n
        BY <1>4, <3>3, TakenCounted
    <3>5. 2 * before <= 2 * used + Slack(n)
        BY <1>4, <3>3 DEF CountRight
    <3>6. Slack(n) \in Int /\ Slack(n) <= n - 2
      <4>1. InitialSlots \in Nat \ {0} /\ n >= 2
          BY <1>4, <1>5, SlotsAssumption
      <4> QED
          BY <1>4, <4>1 DEF Slack
    <3>7. before + 1 < n
        BY <1>4, <1>5, <3>4, <3>5, <3>6
    <3>8. \E k \in 1..n : fuller[k] = Empty
        BY <3>1, <3>2, <3>3, <3>7, TakenCounted
    <3>9. TableRight(fuller)
        BY <1>6, <3>1, <3>2, <3>8 DEF TableRight
    <3>10. nslots_used' \in Nat /\ CountRight(nslots_used', fuller)
      <4>1. nslots_used' = used + 1
          BY <1>18, <2>1
      <4>2. 2 * (before + 1) <= 2 * (used + 1) + Slack(n)
          BY <1>4, <3>4, <3>5, <3>6
      <4>3. Cardinality(TakenSlots(fuller)) = before + 1
          BY <3>1, <3>3
      <4>4. CountRight(used + 1, fuller)
          BY <3>2, <4>2, <4>3 DEF CountRight
      <4> QED
          BY <1>4, <4>1, <4>4
    <3> QED
        BY <3>1, <3>2, <3>9, <3>10
  <2>2. CASE table[slot] # Empty
    <3>1. fuller = table /\ id \in IdsOf(table) /\ nslots_used' = used
        BY <1>12, <1>14, <1>17, <1>18, <2>2
    <3>2. Fills(table, table)
        BY DEF Fills
    <3> QED
        BY <1>4, <3>1, <3>2
  <2> QED
      BY <2>1, <2>2
<1>20. /\ slotFiles' \in Seq(Seq(SlotValue)) /\ Len(slotFiles') = Len(slotFiles)
       /\ slotFiles'[linked] = fuller
       /\ \A f \in 1..Len(slotFiles) : f # linked => slotFiles'[f] = slotFiles[f]
  <2>1. slotFiles \in Seq(Seq(SlotValue))
      BY <1>2 DEF SlotsType
  <2>2. CASE table[slot] = Empty
    <3>1. slotFiles' = [slotFiles EXCEPT ![linked] = fuller]
        BY <1>18, <2>2
    <3> QED
        BY <1>4, <1>19, <2>1, <3>1
  <2>3. CASE table[slot] # Empty
      BY <1>4, <1>17, <1>18, <2>1, <2>3
  <2> QED
      BY <2>2, <2>3
<1>21. LinkedTable' = fuller
    BY <1>3, <1>4, <1>20 DEF LinkedTable
<1>22. /\ adding'[a].ids = adding[a].ids /\ adding'[a].left = adding[a].left \ {id}
       /\ adding' \in [Adders -> [ids : SUBSET Ids, left : SUBSET Ids]]
    BY <1>2, <1>3 DEF SlotsType
<1>23. added' \in [Ids -> Nat]
    BY SMTT(30), <1>2, <1>18 DEF SlotsType
<1>24. SlotsType'
    BY <1>2, <1>3, <1>4, <1>18, <1>19, <1>20, <1>22, <1>23 DEF SlotsType
<1>25. FilesRight'
  <2>1. id \in attempted
      BY <1>3, <1>7
  <2> QED
      BY <1>2, <1>3, <1>4, <1>19, <1>20, <2>1 DEF FilesRight
<1>26. ObjectRight'
  <2>1. alive' /\ nslots' = Len(LinkedTable')
      BY <1>1, <1>3, <1>7, <1>19, <1>21
  <2>2. CountRight(nslots_used', LinkedTable')
      BY <1>19, <1>21
  <2> QED
      BY <2>1, <2>2 DEF ObjectRight
<1>27. HistoryRight'
  <2>1. IdsOf(table) \subseteq IdsOf(fuller) /\ id \in IdsOf(fuller)
      BY <1>19
  <2>2. \A i \in Ids : added[i] <= 1 /\ (added[i] = 1 => i \in IdsOf(table)) /\ added[i] \in Nat
      BY <1>1, <1>2 DEF HistoryRight, SlotsType
  <2>3. ASSUME NEW i \in Ids
        PROVE  added'[i] <= 1 /\ (added'[i] = 1 => i \in IdsOf(fuller))
    <3>1. CASE table[slot] = Empty /\ i = id
      <4>1. added[id] = 0
          BY <1>14, <1>15, <2>2, <3>1
      <4>2. added'[id] = 1
          BY <1>2, <1>18, <3>1, <4>1 DEF SlotsType
      <4> QED
          BY <2>1, <3>1, <4>2
    <3>2. CASE ~(table[slot] = Empty /\ i = id)
      <4>1. added'[i] = added[i]
          BY <1>2, <1>18, <3>2 DEF SlotsType
      <4> QED
          BY <2>1, <2>2, <4>1
    <3> QED
        BY <3>1, <3>2
  <2>4. acknowledged' \subseteq IdsOf(fuller)
      BY <1>1, <1>2, <1>3, <2>1 DEF HistoryRight
  <2> QED
      BY <1>21, <2>3, <2>4 DEF HistoryRight
<1>28. WriterRight(a)'
  <2>1. adding'[a].ids \ adding'[a].left \subseteq IdsOf(fuller)
      BY <1>7, <1>19, <1>22
  <2> QED
      BY <1>3, <1>4, <1>7, <1>18, <1>21, <1>22, <2>1 DEF WriterRight
<1>29. \A b \in Adders : b # a => apc'[b] = "idle"
    BY <1>2, <1>3, <1>18 DEF WritersRight
<1>30. WritersRight'
    BY <1>28, <1>29 DEF WritersRight, WriterRight
<1>31. ReadersRight'
  <2>1. ASSUME NEW f \in 1..linked
        PROVE  Fills(slotFiles[f], slotFiles'[f])
    <3>1. f \in 1..Len(slotFiles)
        BY <1>4
    <3>2. CASE f = linked
        BY <1>4, <1>19, <1>20, <3>2
    <3>3. CASE f # linked
        BY <1>20, <3>1, <3>3 DEF Fills
    <3> QED
        BY <3>2, <3>3
  <2>2. linked' \in Nat /\ linked <= linked' /\ attempted \subseteq attempted' /\ attempted' \subseteq Ids
      BY <1>2, <1>3 DEF SlotsType
  <2> QED
      BY <1>3, <2>1, <2>2, ReadersKept
<1> QED
    BY <1>24, <1>25, <1>26, <1>27, <1>30, <1>31 DEF SlotsInv

\* An end of a call that leaves the files alone
LEMMA CallEnds ==
    ASSUME SlotsInv, NEW a \in Adders, apc[a] # "idle",
           UNCHANGED <<fileVars, nslots, readers, alive, attempted, added>>,
           apc' = [apc EXCEPT ![a] = "idle"], adding' = [adding EXCEPT ![a] = NoAdd],
           nslots_used' = nslots_used \/ nslots_used' = Used,
           acknowledged' = acknowledged \/ acknowledged' = acknowledged \cup (adding[a].ids \ adding[a].left)
    PROVE  SlotsInv'
<1>1. SlotsType /\ FilesRight /\ ObjectRight /\ HistoryRight /\ WritersRight
    BY DEF SlotsInv
<1>2. /\ slotFiles' = slotFiles /\ linked' = linked /\ nslots' = nslots /\ readers' = readers
      /\ alive' = alive /\ attempted' = attempted /\ added' = added
    BY DEF fileVars
<1>3. LinkedTable' = LinkedTable
    BY <1>2 DEF LinkedTable
<1>4. /\ alive /\ adding[a].ids \ adding[a].left \subseteq IdsOf(LinkedTable)
      /\ Used \in Nat /\ CountRight(Used, LinkedTable)
    BY <1>1, UsedRight DEF WritersRight, WriterRight
<1>5. adding[a].ids \ adding[a].left \subseteq Ids
    BY <1>1 DEF SlotsType
<1>6. adding' \in [Adders -> [ids : SUBSET Ids, left : SUBSET Ids]]
    BY <1>1 DEF SlotsType, NoAdd
<1>7. SlotsType'
  <2>1. acknowledged' \subseteq Ids /\ nslots_used' \in Nat \cup {Unknown}
      BY <1>1, <1>4, <1>5 DEF SlotsType
  <2>2. apc' \in [Adders -> {"idle", "insert", "write", "move"}]
      BY <1>1 DEF SlotsType
  <2> QED
      BY <1>1, <1>2, <1>6, <2>1, <2>2 DEF SlotsType
<1>8. FilesRight' /\ ObjectRight'
    BY <1>1, <1>2, <1>3, <1>4 DEF FilesRight, ObjectRight
<1>9. HistoryRight'
    BY <1>1, <1>2, <1>3, <1>4 DEF HistoryRight
<1>10. \A b \in Adders : apc'[b] = "idle"
    BY <1>1 DEF SlotsType, WritersRight
<1>11. WritersRight'
    BY <1>10 DEF WritersRight, WriterRight
<1>12. ReadersRight'
  <2>1. /\ linked' \in Nat /\ linked <= linked' /\ attempted \subseteq attempted' /\ attempted' \subseteq Ids
        /\ \A f \in 1..linked : Fills(slotFiles[f], slotFiles'[f])
      BY <1>1, <1>2 DEF SlotsType, Fills
  <2> QED
      BY <1>2, <2>1, ReadersKept
<1> QED
    BY <1>7, <1>8, <1>9, <1>11, <1>12 DEF SlotsInv

LEMMA AddReturnsStep ==
    ASSUME SlotsInv, NEW a \in Adders, AddReturns(a)
    PROVE  SlotsInv'
<1>1. /\ apc[a] = "insert" /\ adding[a].left = {}
      /\ apc' = [apc EXCEPT ![a] = "idle"] /\ adding' = [adding EXCEPT ![a] = NoAdd]
      /\ acknowledged' = acknowledged \cup adding[a].ids /\ nslots_used' = nslots_used
      /\ UNCHANGED <<fileVars, nslots, readers, alive, attempted, added>>
    BY DEF AddReturns, objectVars
<1>2. adding[a].ids = adding[a].ids \ adding[a].left /\ apc[a] # "idle"
    BY <1>1
<1> QED
    BY <1>1, <1>2, CallEnds

LEMMA AddFailsStep ==
    ASSUME SlotsInv, NEW a \in Adders, AddFails(a)
    PROVE  SlotsInv'
<1>1. /\ apc[a] # "idle" /\ (nslots_used' = nslots_used \/ nslots_used' = Used)
      /\ apc' = [apc EXCEPT ![a] = "idle"] /\ adding' = [adding EXCEPT ![a] = NoAdd]
      /\ acknowledged' = acknowledged
      /\ UNCHANGED <<fileVars, nslots, readers, alive, attempted, added>>
    BY DEF AddFails, history
<1> QED
    BY <1>1, CallEnds

LEMMA CrashStep ==
    ASSUME SlotsInv, Crash
    PROVE  SlotsInv'
<1>1. SlotsType /\ FilesRight /\ HistoryRight
    BY DEF SlotsInv
<1>2. /\ slotFiles' = slotFiles /\ linked' = linked /\ nslots' = 0 /\ nslots_used' = Unknown /\ alive' = FALSE
      /\ apc' = [a \in Adders |-> "idle"] /\ adding' = [a \in Adders |-> NoAdd]
      /\ readers' = [r \in Readers |-> NoCall]
      /\ attempted' = attempted /\ acknowledged' = acknowledged /\ added' = added
    BY DEF Crash, fileVars, history
<1>3. LinkedTable' = LinkedTable
    BY <1>2 DEF LinkedTable
<1>4. SlotsType'
    BY <1>1, <1>2 DEF SlotsType, NoAdd
<1>5. FilesRight' /\ HistoryRight' /\ ObjectRight'
    BY <1>1, <1>2, <1>3 DEF FilesRight, HistoryRight, ObjectRight
<1>6. WritersRight'
    BY <1>2 DEF WritersRight, WriterRight
<1>7. ReadersRight'
    BY <1>2 DEF ReadersRight, ReaderRight
<1> QED
    BY <1>4, <1>5, <1>6, <1>7 DEF SlotsInv

LEMMA ReopenStep ==
    ASSUME SlotsInv, Reopen
    PROVE  SlotsInv'
<1>1. SlotsType /\ FilesRight /\ HistoryRight /\ ObjectRight /\ WritersRight
    BY DEF SlotsInv
<1>2. /\ slotFiles' = slotFiles /\ linked' = linked /\ nslots_used' = nslots_used /\ ~alive /\ alive' = TRUE
      /\ apc' = apc /\ adding' = adding /\ readers' = readers
      /\ attempted' = attempted /\ acknowledged' = acknowledged /\ added' = added
      /\ nslots' = IF linked = 0 THEN 0 ELSE Len(slotFiles[linked])
    BY DEF Reopen, fileVars, history
<1>3. LinkedTable' = LinkedTable /\ Len(LinkedTable) \in Nat
    BY <1>2, LinkedRight DEF LinkedTable
<1>4. nslots' = Len(LinkedTable)
    BY <1>2 DEF LinkedTable
<1>5. nslots_used = Unknown /\ \A a \in Adders : apc[a] = "idle"
    BY <1>1, <1>2 DEF ObjectRight, WritersRight, WriterRight
<1>6. SlotsType'
    BY <1>1, <1>2, <1>3, <1>4 DEF SlotsType
<1>7. FilesRight' /\ HistoryRight' /\ ObjectRight'
    BY <1>1, <1>2, <1>3, <1>4, <1>5 DEF FilesRight, HistoryRight, ObjectRight
<1>8. WritersRight'
    BY <1>2, <1>5 DEF WritersRight, WriterRight
<1>9. ReadersRight'
  <2>1. /\ linked' \in Nat /\ linked <= linked' /\ attempted \subseteq attempted' /\ attempted' \subseteq Ids
        /\ \A f \in 1..linked : Fills(slotFiles[f], slotFiles'[f])
      BY <1>1, <1>2 DEF SlotsType, Fills
  <2> QED
      BY <1>2, <2>1, ReadersKept
<1> QED
    BY <1>6, <1>7, <1>8, <1>9 DEF SlotsInv

LEMMA SlotsStart == SlotsInit => SlotsInv
<1> SUFFICES ASSUME SlotsInit PROVE SlotsInv
    OBVIOUS
<1>1. slotFiles = << >> /\ Len(slotFiles) = 0 /\ slotFiles \in Seq(Seq(SlotValue)) /\ LinkedTable = << >>
    BY DEF SlotsInit, LinkedTable
<1>2. SlotsType
    BY <1>1 DEF SlotsInit, SlotsType, NoAdd
<1>3. FilesRight /\ ObjectRight /\ HistoryRight
    BY <1>1 DEF SlotsInit, FilesRight, ObjectRight, HistoryRight
<1>4. WritersRight /\ ReadersRight
    BY DEF SlotsInit, WritersRight, WriterRight, ReadersRight, ReaderRight
<1> QED
    BY <1>2, <1>3, <1>4 DEF SlotsInv

LEMMA SlotsStep == SlotsInv /\ [SlotsNext]_slotVars => SlotsInv'
<1> SUFFICES ASSUME SlotsInv, [SlotsNext]_slotVars PROVE SlotsInv'
    OBVIOUS
<1>1. CASE UNCHANGED slotVars
  <2>1. /\ slotFiles' = slotFiles /\ linked' = linked /\ nslots' = nslots /\ nslots_used' = nslots_used
        /\ apc' = apc /\ adding' = adding /\ readers' = readers /\ alive' = alive
        /\ attempted' = attempted /\ acknowledged' = acknowledged /\ added' = added
      BY <1>1 DEF slotVars, fileVars, objectVars, history
  <2>2. LinkedTable' = LinkedTable /\ GrownSlots' = GrownSlots
      BY <2>1 DEF LinkedTable, GrownSlots
  <2>3. SlotsType' /\ FilesRight' /\ ObjectRight' /\ HistoryRight'
      BY <2>1, <2>2 DEF SlotsInv, SlotsType, FilesRight, ObjectRight, HistoryRight
  <2>4. \A a : WriterRight(a)' <=> WriterRight(a)
      BY <2>1, <2>2 DEF WriterRight
  <2>5. WritersRight'
      BY <2>1, <2>4 DEF SlotsInv, WritersRight
  <2>6. /\ linked' \in Nat /\ linked <= linked' /\ attempted \subseteq attempted' /\ attempted' \subseteq Ids
        /\ \A f \in 1..linked : Fills(slotFiles[f], slotFiles'[f])
      BY <2>1 DEF SlotsInv, SlotsType, Fills
  <2>7. ReadersRight'
      BY <2>1, <2>6, ReadersKept
  <2> QED
      BY <2>3, <2>5, <2>7 DEF SlotsInv
<1>2. ASSUME NEW a \in Adders, NEW ids \in SUBSET Ids \ {{}}, Add(a, ids) PROVE SlotsInv'
    BY <1>2, AddStep
<1>3. ASSUME NEW a \in Adders, NEW id \in Ids, Insert(a, id) PROVE SlotsInv'
    BY <1>3, InsertStep
<1>4. ASSUME NEW a \in Adders, Grow(a) \/ GrowWrite(a) \/ GrowMove(a) PROVE SlotsInv'
    BY <1>4, GrowStep, GrowWriteStep, GrowMoveStep
<1>5. ASSUME NEW a \in Adders, AddReturns(a) \/ AddFails(a) PROVE SlotsInv'
    BY <1>5, AddReturnsStep, AddFailsStep
<1>6. ASSUME NEW r \in Readers, NEW id \in Ids, HasRecordID(r, id) PROVE SlotsInv'
    BY <1>6, HasRecordIDStep
<1>7. ASSUME NEW r \in Readers, LookupRead(r) \/ FetchRecordIDs(r) \/ ScanRead(r) PROVE SlotsInv'
    BY <1>7, LookupReadStep, FetchRecordIDsStep, ScanReadStep
<1>8. CASE Crash
    BY <1>8, CrashStep
<1>9. CASE Reopen
    BY <1>9, ReopenStep
<1> QED
    BY <1>1, <1>2, <1>3, <1>4, <1>5, <1>6, <1>7, <1>8, <1>9 DEF SlotsNext

\* What an add has acknowledged every later call finds, whatever writers,
\* readers and crashes do in between: in tables of any size, with any hash and
\* for any number of ids, growths and readers (PersistentHashSet::insert,
\* lookup, scan, grow).
THEOREM SetRemembersHolds == SlotsSpec => []SetRemembers
<1>1. SlotsInv => SetRemembers
  <2> SUFFICES ASSUME SlotsInv PROVE SetRemembers
      OBVIOUS
  <2>1. \A a \in Adders : apc[a] # "full"
      BY DEF SlotsInv, SlotsType
  <2>2. ASSUME NEW r \in Readers
        PROVE  /\ readers[r].op # "full"
               /\ readers[r].op = "answered" =>
                    /\ readers[r].id \in readers[r].promised => readers[r].found
                    /\ readers[r].found => readers[r].id \in attempted
               /\ readers[r].op = "fetched" =>
                    /\ readers[r].promised \subseteq readers[r].ids
                    /\ readers[r].ids \subseteq attempted
    <3>1. ReaderRight(readers[r])
        BY DEF SlotsInv, ReadersRight
    <3> QED
        BY <3>1 DEF ReaderRight, NoCall, LookupRight, ScanRight, AnsweredRight, FetchedRight
  <2>3. \A id \in Ids : added[id] <= 1
      BY DEF SlotsInv, HistoryRight
  <2>4. acknowledged # {} => slotFiles[linked] # << >>
    <3>1. IdsOf(<< >>) = {}
        BY DEF IdsOf
    <3>2. acknowledged # {} => LinkedTable # << >>
        BY <3>1 DEF SlotsInv, HistoryRight
    <3> QED
        BY <3>2 DEF LinkedTable
  <2> QED
      BY <2>1, <2>2, <2>3, <2>4 DEF SetRemembers
<1> QED
    BY <1>1, SlotsStart, SlotsStep, PTL DEF SlotsSpec
=============================================================================
