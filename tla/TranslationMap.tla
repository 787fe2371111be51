--------------------------- MODULE TranslationMap ---------------------------
(***************************************************************************)
(* Page directories and page tables (vm_translation_map.c), the page       *)
(* frames they are made of (vm_page.c) and the bitmap of address space     *)
(* identifiers (util.c), used by several hardware threads.  A part of the  *)
(* code under a spin lock is one step.  A region stands for what one page  *)
(* table covers, with one page in it.  Of the kernel's regions only those  *)
(* that boot_setup_page_tables maps something in have a page table in the  *)
(* kernel's own directory, which nothing adds to later: the 16 MB heap and *)
(* the 8 MB ramdisk reach into regions that have none.  vm_allocate_page   *)
(* panics without a free frame; here there is no such step.                *)
(***************************************************************************)
EXTENDS Integers, Sequences, FiniteSets, FiniteSetsExt, SequencesExt, Functions

CONSTANTS
    HwThreads,
    Maps,           \* struct vm_translation_map, from a slab
    NUM_FRAMES,     \* page frames on the free list after boot
    MAX_ASIDS,
    UserRegions, KernelRegions,
    BootRegions,    \* the kernel's regions that have a page table from boot on
    PhysicalAddresses       \* physical addresses that are mapped

Frames == 1 .. NUM_FRAMES
BootTable(r) == -r       \* not a frame: never on the free list
Regions == UserRegions \cup KernelRegions

ASSUME TranslationAssumption ==
    /\ {NUM_FRAMES, MAX_ASIDS} \subseteq Nat \ {0}
    /\ BootRegions \subseteq KernelRegions
    /\ UserRegions \cap KernelRegions = {}
    /\ Regions \subseteq Nat \ {0}
    /\ 0 \notin PhysicalAddresses \cup Maps

VARIABLES
    free_page_list, ref_count,
    kernel_dir,       \* kernel_map's directory: region -> table, 0 if not present
    dir,              \* the same for each map
    dir_frame,        \* the frame that holds it
    entry,            \* what a page table holds: table -> physical address or 0;
                      \* table 0 is the page at physical address 0, of the kernel
    asid, asid_alloc, \* identifiers of the maps, and the bitmap
    map_list,
    cpu,              \* [at, map, word, frames]: a call in progress
    kernel_mapped, user_mapped,   \* history: what vm_map_page was asked for
    kernel_tables,    \* history: the frames it took for tables of the kernel
    raced             \* history: bitmap_free overlapped another change of the bitmap

mapVars == <<kernel_dir, dir, dir_frame, entry, asid, map_list>>
pageVars == <<free_page_list, ref_count>>
translationVars ==
    <<pageVars, mapVars, asid_alloc, cpu, kernel_mapped, user_mapped, kernel_tables, raced>>

NoDir == [r \in Regions |-> 0]
NoCall == [at |-> "idle", map |-> 0, word |-> {}, frames |-> << >>]

TranslationInit ==
    /\ free_page_list = [i \in Frames |-> i]
    /\ ref_count = [f \in Frames |-> 0]
    /\ kernel_dir = [r \in KernelRegions |-> IF r \in BootRegions THEN BootTable(r) ELSE 0]
    /\ dir = [m \in Maps |-> NoDir]
    /\ dir_frame = [m \in Maps |-> 0]
    /\ entry = [t \in Frames \cup {0} \cup {BootTable(r) : r \in BootRegions} |-> 0]
    /\ asid = [m \in Maps |-> -1]
    /\ asid_alloc = {} /\ map_list = {}
    /\ cpu = [c \in HwThreads |-> NoCall]
    /\ kernel_mapped = [r \in KernelRegions |-> 0]
    /\ user_mapped = [m \in Maps |-> [r \in UserRegions |-> 0]]
    /\ kernel_tables = {} /\ raced = FALSE

Busy == {cpu[c].map : c \in HwThreads}
Live == map_list \ Busy

-----------------------------------------------------------------------------
\* vm_allocate_page: the head of the list, cleared.
Takes ==
    /\ free_page_list # << >>
    /\ free_page_list' = Tail(free_page_list)
    /\ ref_count' = [ref_count EXCEPT ![Head(free_page_list)] = 1]
NewFrame == Head(free_page_list)

\* create_translation_map: a map from the slab and a cleared directory ...
AllocateMap(c, m) ==
    /\ cpu[c] = NoCall /\ m \notin map_list \cup Busy
    /\ Takes
    /\ dir' = [dir EXCEPT ![m] = NoDir]
    /\ dir_frame' = [dir_frame EXCEPT ![m] = NewFrame]
    /\ entry' = [entry EXCEPT ![NewFrame] = 0]
    /\ cpu' = [cpu EXCEPT ![c] = [NoCall EXCEPT !.at = "create", !.map = m]]
    /\ UNCHANGED <<kernel_dir, asid, map_list, asid_alloc, kernel_mapped, user_mapped, kernel_tables, raced>>

\* bitmap_alloc: the first clear bit, or -1.
FreeAsids == 0 .. MAX_ASIDS - 1 \ asid_alloc
bitmap_alloc_first == IF FreeAsids = {} THEN -1 ELSE 0                   \* mutant
bitmap_alloc == IF FreeAsids = {} THEN -1 ELSE Min(FreeAsids)

\* The kernel's part of the new directory is the kernel's own.
KernelCopied_none(m) == dir[m]                                           \* mutant
KernelCopied(m) == [r \in Regions |-> IF r \in KernelRegions THEN kernel_dir[r] ELSE dir[m][r]]

\* ... then, with kernel_space_lock, the kernel's tables, an identifier and
\* the list.  A bitmap_free that is under way has read the bitmap before.
InstallMap(c) ==
    LET m == cpu[c].map IN
    /\ cpu[c].at = "create"
    /\ dir' = [dir EXCEPT ![m] = KernelCopied(m)]
    /\ asid' = [asid EXCEPT ![m] = bitmap_alloc]
    /\ asid_alloc' = asid_alloc \cup ({bitmap_alloc} \ {-1})
    /\ map_list' = map_list \cup {m}
    /\ cpu' = [cpu EXCEPT ![c] = NoCall]
    /\ user_mapped' = [user_mapped EXCEPT ![m] = [r \in UserRegions |-> 0]]
    /\ raced' = (raced \/ \E d \in HwThreads : cpu[d].at = "clear")
    /\ UNCHANGED <<pageVars, kernel_dir, dir_frame, entry, kernel_mapped, kernel_tables>>

\* destroy_translation_map: off the list with the lock ...
RemoveMap(c, m) ==
    /\ cpu[c] = NoCall /\ m \in Live
    /\ map_list' = map_list \ {m}
    /\ cpu' = [cpu EXCEPT ![c] = [NoCall EXCEPT !.at = IF asid[m] >= 0 THEN "free_asid" ELSE "tables",
                                              !.map = m]]
    /\ UNCHANGED <<pageVars, kernel_dir, dir, dir_frame, entry, asid, asid_alloc, kernel_mapped,
                   user_mapped, kernel_tables, raced>>

\* ... bitmap_free without it, a load and a store of the word ...
ReadBitmap(c) ==
    /\ cpu[c].at = "free_asid"
    /\ cpu' = [cpu EXCEPT ![c].at = "clear", ![c].word = asid_alloc]
    /\ raced' = (raced \/ \E d \in HwThreads : cpu[d].at = "clear")
    /\ UNCHANGED <<pageVars, mapVars, asid_alloc, kernel_mapped, user_mapped, kernel_tables>>

WriteBitmap(c) ==
    /\ cpu[c].at = "clear"
    /\ asid_alloc' = cpu[c].word \ {asid[cpu[c].map]}
    /\ cpu' = [cpu EXCEPT ![c].at = "tables", ![c].word = {}]
    /\ UNCHANGED <<pageVars, mapVars, kernel_mapped, user_mapped, kernel_tables, raced>>

\* ... then the page tables of the user's part and the directory.
UserTables(m) == {dir[m][r] : r \in UserRegions} \cap Frames

FindTables(c) ==
    LET m == cpu[c].map IN
    /\ cpu[c].at = "tables"
    /\ cpu' = [cpu EXCEPT ![c].at = "drop", ![c].frames = Append(SetToSeq(UserTables(m)), dir_frame[m])]
    /\ UNCHANGED <<pageVars, mapVars, asid_alloc, kernel_mapped, user_mapped, kernel_tables, raced>>

\* dec_page_ref: the count is atomic, the list has its lock.
DropRef(c) ==
    /\ cpu[c].at = "drop" /\ cpu[c].frames # << >>
    /\ LET f == Head(cpu[c].frames) IN
         /\ ref_count' = [ref_count EXCEPT ![f] = @ - 1]
         /\ cpu' = IF ref_count[f] = 1 THEN [cpu EXCEPT ![c].at = "list"]
                   ELSE [cpu EXCEPT ![c].frames = Tail(@)]
    /\ UNCHANGED <<free_page_list, mapVars, asid_alloc, kernel_mapped, user_mapped, kernel_tables, raced>>

FreePage(c) ==
    /\ cpu[c].at = "list"
    /\ free_page_list' = << Head(cpu[c].frames) >> \o free_page_list
    /\ cpu' = [cpu EXCEPT ![c].at = "drop", ![c].frames = Tail(@)]
    /\ UNCHANGED <<ref_count, mapVars, asid_alloc, kernel_mapped, user_mapped, kernel_tables, raced>>

\* slab_free of the map.
FreeMap(c) ==
    /\ cpu[c].at = "drop" /\ cpu[c].frames = << >>
    /\ LET m == cpu[c].map IN
         /\ dir' = [dir EXCEPT ![m] = NoDir]
         /\ dir_frame' = [dir_frame EXCEPT ![m] = 0]
         /\ asid' = [asid EXCEPT ![m] = -1]
         /\ user_mapped' = [user_mapped EXCEPT ![m] = [r \in UserRegions |-> 0]]
    /\ cpu' = [cpu EXCEPT ![c] = NoCall]
    /\ UNCHANGED <<pageVars, kernel_dir, entry, map_list, asid_alloc, kernel_mapped, kernel_tables, raced>>

-----------------------------------------------------------------------------
\* vm_map_page of a user's page, with the map's lock.
MapUserPage(c, m, r, pa) ==
    /\ cpu[c] = NoCall /\ m \in Live
    /\ \/ /\ dir[m][r] # 0
          /\ entry' = [entry EXCEPT ![dir[m][r]] = pa]
          /\ UNCHANGED <<pageVars, dir>>
       \/ /\ dir[m][r] = 0 /\ Takes
          /\ dir' = [dir EXCEPT ![m][r] = NewFrame]
          /\ entry' = [entry EXCEPT ![NewFrame] = pa]
    /\ user_mapped' = [user_mapped EXCEPT ![m][r] = pa]
    /\ UNCHANGED <<kernel_dir, dir_frame, asid, map_list, asid_alloc, cpu, kernel_mapped,
                   kernel_tables, raced>>

\* vm_map_page of a kernel page, with kernel_space_lock.  When the kernel's own
\* directory has no table for it a new one is put into the directories on
\* map_list, in place of what they had, but not into the kernel's.  With no map
\* on the list pgdir is still the kernel's directory: its entry is 0 and the
\* mapping goes to the page at physical address 0.
MapKernelPage(c, r, pa) ==
    /\ cpu[c] = NoCall
    /\ \/ /\ kernel_dir[r] # 0
          /\ entry' = [entry EXCEPT ![kernel_dir[r]] = pa]
          /\ UNCHANGED <<pageVars, dir, kernel_tables>>
       \/ /\ kernel_dir[r] = 0 /\ Takes
          /\ dir' = [m \in Maps |-> IF m \in map_list THEN [dir[m] EXCEPT ![r] = NewFrame] ELSE dir[m]]
          /\ entry' = IF map_list = {} THEN [entry EXCEPT ![NewFrame] = 0, ![0] = pa]
                      ELSE [entry EXCEPT ![NewFrame] = pa]
          /\ kernel_tables' = kernel_tables \cup {NewFrame}
    /\ kernel_mapped' = [kernel_mapped EXCEPT ![r] = pa]
    /\ UNCHANGED <<kernel_dir, dir_frame, asid, map_list, asid_alloc, cpu, user_mapped, raced>>

TranslationNext ==
    \E c \in HwThreads :
        \/ \E m \in Maps : AllocateMap(c, m) \/ RemoveMap(c, m)
        \/ InstallMap(c) \/ ReadBitmap(c) \/ WriteBitmap(c) \/ FindTables(c)
        \/ DropRef(c) \/ FreePage(c) \/ FreeMap(c)
        \/ \E pa \in PhysicalAddresses :
             \/ \E m \in Maps, r \in UserRegions : MapUserPage(c, m, r, pa)
             \/ \E r \in KernelRegions : MapKernelPage(c, r, pa)

TranslationSpec == TranslationInit /\ [][TranslationNext]_translationVars

-----------------------------------------------------------------------------
\* query_translation_map, on what the hardware walks.
Translates(table) == IF table = 0 THEN 0 ELSE entry[table]

\* Every address space sees what was mapped: a user's mapping only in its own
\* map, though frames go from one map's tables to another's, and a mapping of
\* the kernel in a region with a page table from boot in every map on the list
\* and in the kernel's own.  In a kernel region without one a map on the list
\* sees the latest mapping or none (KernelMappingsShared), but never what is
\* in a table that was freed or is another's.
MappingsSeen ==
    /\ \A m \in map_list, r \in UserRegions : Translates(dir[m][r]) = user_mapped[m][r]
    /\ \A r \in BootRegions :
         /\ Translates(kernel_dir[r]) = kernel_mapped[r]
         /\ \A m \in map_list : Translates(dir[m][r]) = kernel_mapped[r]
    /\ \A m \in map_list, r \in KernelRegions \ BootRegions :
         Translates(dir[m][r]) \in {0, kernel_mapped[r]}

\* What vm_map_page says of kernel pages: "The page tables for kernel space are
\* shared by all page directories ... If not, allocate a new one and stick it
\* into all page directories."  Every map on the list sees every mapping of the
\* kernel, also in a region that boot_setup_page_tables made no table for.
KernelMappingsShared ==
    \A m \in map_list, r \in KernelRegions : Translates(dir[m][r]) = kernel_mapped[r]

\* Maps that are on the list have different address space identifiers, as
\* long as there are enough and no bitmap_free has overlapped another change of
\* the bitmap; and no frame is used twice or freed while in use, while several
\* hardware threads create and destroy maps.  The only frames that are lost are
\* those vm_map_page took for tables of the kernel, which are never freed.
AsidsAndFramesExact ==
    LET own(m) == UserTables(m) \cup {dir_frame[m]}
        used == {dir_frame[m] : m \in Maps} \cup UNION {UserTables(m) : m \in Maps}
        freed == ToSet(free_page_list)
    IN  /\ ~raced => \A m, n \in map_list : m # n /\ asid[m] >= 0 => asid[m] # asid[n]
        /\ \A f \in freed : ref_count[f] = 0
        /\ IsInjective(free_page_list)
        /\ \A m, n \in map_list : m # n => own(m) \cap own(n) = {}
        /\ \A m \in map_list : own(m) \cap (freed \cup kernel_tables) = {}
        /\ freed \cap kernel_tables = {}
        /\ \A f \in Frames : f \notin freed => f \in used \cup kernel_tables

=============================================================================
