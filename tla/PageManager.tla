---------------------------- MODULE PageManager ----------------------------
(***************************************************************************)
(* stx::io::PageManager, which hands out ranges of a file, and             *)
(* MmapPageManager, which maps the file into memory and extends it when a  *)
(* page behind its end is asked for.  The allocator and getPage() have a   *)
(* mutex each; shrinkFile() takes none, so that it runs beside getPage().  *)
(* Sizes are in bytes; the file grows in units of MmapBlock.               *)
(***************************************************************************)
EXTENDS Integers, Sequences, FiniteSets, SequencesExt

CONSTANTS
    BlockSizes,     \* block_size_: 1 of MmapPageManager, others of tests
    Sizes,          \* what allocPage() is asked for
    FileSizes,      \* sizes of a file when it is opened
    MmapBlock,      \* sys_page_size_ * kMmapSizeMultiplier
    MaxEnd,         \* bound: the file does not become longer
    MaxRefs,        \* bound: pages that are mapped at the same time
    NoMapping

ASSUME SizesAssumption ==
    /\ BlockSizes \subseteq Nat \ {0} /\ Sizes \subseteq Nat \ {0}
    /\ FileSizes \subseteq Nat /\ MmapBlock \in Nat \ {0}

VARIABLES
    block_size, end_pos, freelist,           \* of the allocator
    used_bytes, file_size, current_mapping,  \* of MmapPageManager; a mapping is its size
    disk,           \* the size that the file has
    pages,          \* pages that were handed out and not returned
    getting,        \* the page that getPage() is busy with, << >> if none
    shrinking,      \* << >>, or the used_bytes_ that shrinkFile() has read
    refs,           \* the PageRefs that are alive: [page, map]
    raced           \* history: shrinkFile() and getPage() have overlapped

allocVars == <<block_size, end_pos, freelist, pages>>
mmapVars == <<used_bytes, file_size, current_mapping, disk>>
pageVars == <<allocVars, mmapVars, getting, shrinking, refs, raced>>

LastByte(page) == page.offset + page.size
-----------------------------------------------------------------------------
Aligned(min_size) == ((min_size + block_size - 1) \div block_size) * block_size

\* findFreePage(): the first page of the free list that is large enough.
FindFreePage(min_size) ==
    SelectInSeq(freelist, LAMBDA page : page.size >= min_size)

AllocPage(min_size) ==
    /\ \E i \in {FindFreePage(Aligned(min_size))} :
         IF i # 0
         THEN /\ pages' = pages \cup {freelist[i]}
              /\ freelist' = RemoveAt(freelist, i)
              /\ UNCHANGED end_pos
         ELSE /\ pages' = pages \cup {[offset |-> end_pos, size |-> Aligned(min_size)]}
              /\ end_pos' = end_pos + Aligned(min_size)
              /\ end_pos' <= MaxEnd
              /\ UNCHANGED freelist
    /\ UNCHANGED <<block_size, mmapVars, getting, shrinking, refs, raced>>

FreePage(page) ==
    /\ \A ref \in refs : ref.page # page
    /\ <<page>> # getting
    /\ pages' = pages \ {page} /\ freelist' = Append(freelist, page)
    /\ UNCHANGED <<block_size, end_pos, mmapVars, getting, shrinking, refs, raced>>

\* The size that getPageImpl() gives to the file.
NewSize(last_byte, allow_padding) ==
    IF allow_padding THEN ((last_byte \div MmapBlock) + 1) * MmapBlock ELSE last_byte

\* getPageImpl() up to the end of truncate(); it holds mmap_mutex_.
GetPage(page, allow_padding) ==
    /\ getting = << >>
    /\ getting' = <<page>>
    /\ used_bytes' = IF LastByte(page) > used_bytes THEN LastByte(page) ELSE used_bytes
    /\ IF LastByte(page) > file_size
       THEN /\ disk' = NewSize(LastByte(page), allow_padding)
            /\ file_size' = disk'
       ELSE UNCHANGED <<disk, file_size>>
    /\ raced' = (raced \/ shrinking # << >>)
    /\ UNCHANGED <<allocVars, current_mapping, shrinking, refs>>

\* A mapping that is kept as long as the file does not grow.
MapPageStale ==
    /\ getting # << >>
    /\ current_mapping' =
         IF current_mapping = NoMapping \/ LastByte(getting[1]) > file_size
         THEN disk ELSE current_mapping
    /\ refs' = refs \cup {[page |-> getting[1], map |-> current_mapping']}
    /\ getting' = << >>
    /\ UNCHANGED <<allocVars, used_bytes, file_size, disk, shrinking, raced>>

\* getMmappedFile(), and the PageRef that keeps the mapping alive.
MapPage ==
    /\ getting # << >>
    /\ current_mapping' =
         IF current_mapping = NoMapping \/ LastByte(getting[1]) > current_mapping
         THEN disk ELSE current_mapping
    /\ refs' = refs \cup {[page |-> getting[1], map |-> current_mapping']}
    /\ getting' = << >>
    /\ UNCHANGED <<allocVars, used_bytes, file_size, disk, shrinking, raced>>

\* ~MmappedPageRef()
DropRef(ref) ==
    /\ refs' = refs \ {ref}
    /\ UNCHANGED <<allocVars, mmapVars, getting, shrinking, raced>>

\* shrinkFile(): used_bytes_ is read for truncate() ...
Shrink ==
    /\ shrinking = << >>
    /\ shrinking' = <<used_bytes>>
    /\ raced' = (raced \/ getting # << >>)
    /\ UNCHANGED <<allocVars, mmapVars, getting, refs>>

\* ... and read again for file_size_.
ShrinkTruncate ==
    /\ shrinking # << >>
    /\ disk' = shrinking[1]
    /\ file_size' = used_bytes
    /\ shrinking' = << >>
    /\ UNCHANGED <<allocVars, used_bytes, current_mapping, getting, refs, raced>>
-----------------------------------------------------------------------------
\* The constructor, for a file of this size.
PagesInit ==
    /\ block_size \in BlockSizes /\ freelist = << >> /\ pages = {}
    /\ end_pos \in FileSizes
    /\ used_bytes = end_pos /\ file_size = end_pos /\ disk = end_pos
    /\ current_mapping = NoMapping
    /\ getting = << >> /\ shrinking = << >> /\ refs = {} /\ raced = FALSE

PagesNext ==
    \/ \E size \in Sizes : AllocPage(size)
    \/ \E page \in pages : FreePage(page)
    \/ \E page \in pages, pad \in BOOLEAN :
         Cardinality(refs) < MaxRefs /\ GetPage(page, pad)
    \/ MapPage
    \/ \E ref \in refs : DropRef(ref)
    \/ Shrink \/ ShrinkTruncate

PagesSpec == PagesInit /\ [][PagesNext]_pageVars
-----------------------------------------------------------------------------
Disjoint(a, b) == LastByte(a) <= b.offset \/ LastByte(b) <= a.offset

\* No byte belongs to two pages, a page is handed out or free and is in the
\* free list once, however pages are freed and reused (PageManager::allocPage,
\* freePage); and the page behind every PageRef lies inside its mapping and
\* inside the file, also when the file has been cut off to what is used since
\* it was mapped (MmapPageManager::shrinkFile), unless shrinkFile() has run
\* beside a getPage() of another thread.
PagesUsable ==
    /\ \A a, b \in pages \cup Range(freelist) : a = b \/ Disjoint(a, b)
    /\ pages \cap Range(freelist) = {}
    /\ \A i, j \in 1..Len(freelist) : freelist[i] = freelist[j] => i = j
    /\ \A ref \in refs : ~raced => LastByte(ref.page) <= ref.map /\ LastByte(ref.page) <= disk
=============================================================================
