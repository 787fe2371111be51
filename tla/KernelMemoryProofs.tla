------------------------- MODULE KernelMemoryProofs -------------------------
(***************************************************************************)
(* Proofs about the kernel's memory: address translation, area maps and    *)
(* the heap, for every number of hardware threads, maps, frames, addresses *)
(* and sizes.                                                              *)
(***************************************************************************)
EXTENDS TranslationMap, VmAreaMap, KernelHeap, QueueTheorems

(***************************************************************************)
(* Address translation.                                                    *)
(***************************************************************************)
BootTables == {BootTable(r) : r \in BootRegions}
\* The kernel's regions without one.
LateRegions == KernelRegions \ BootRegions

Asids == 0 .. MAX_ASIDS - 1

Calls == [at : {"idle", "create", "free_asid", "clear", "tables", "drop", "list"},
          map : Maps \cup {0}, word : SUBSET Asids, frames : Seq(Frames)]

TranslationTypeOK ==
    /\ free_page_list \in Seq(Frames)
    /\ ref_count \in [Frames -> Nat]
    /\ kernel_dir = [r \in KernelRegions |-> IF r \in BootRegions THEN BootTable(r) ELSE 0]
    /\ dir \in [Maps -> [Regions -> Frames \cup BootTables \cup {0}]]
    /\ dir_frame \in [Maps -> Frames \cup {0}]
    /\ entry \in [Frames \cup {0} \cup BootTables -> PhysicalAddresses \cup {0}]
    /\ asid \in [Maps -> Asids \cup {-1}]
    /\ asid_alloc \subseteq Asids
    /\ map_list \subseteq Maps
    /\ cpu \in [HwThreads -> Calls]
    /\ kernel_mapped \in [KernelRegions -> PhysicalAddresses \cup {0}]
    /\ user_mapped \in [Maps -> [UserRegions -> PhysicalAddresses \cup {0}]]
    /\ kernel_tables \subseteq Frames
    /\ raced \in BOOLEAN

\* A call in progress has a map of its own that is on no list.
CallsOK ==
    /\ \A c \in HwThreads :
         /\ cpu[c].at = "idle" <=> cpu[c].map = 0
         /\ cpu[c].at # "clear" => cpu[c].word = {}
         /\ cpu[c].at \notin {"drop", "list"} => cpu[c].frames = << >>
         /\ cpu[c].at = "list" => cpu[c].frames # << >>
         /\ cpu[c].map \notin map_list
    /\ \A c, d \in HwThreads : c # d /\ cpu[c].map = cpu[d].map => cpu[c].map = 0

\* The frames of a map's directory and user tables.
Own(m) == UserTables(m) \cup ({dir_frame[m]} \cap Frames)

\* A map that is neither on the list nor in a call is free; one that is
\* created has an empty directory.
MapsOK ==
    /\ \A m \in Maps : m \notin map_list \cup Busy => dir[m] = NoDir /\ dir_frame[m] = 0
    /\ \A m \in map_list \cup (Busy \ {0}) : dir_frame[m] \in Frames
    /\ \A c \in HwThreads : cpu[c].at = "create" => dir[cpu[c].map] = NoDir
    /\ \A m \in map_list : \A r \in BootRegions : dir[m][r] = kernel_dir[r]
    /\ \A m \in map_list : \A r \in LateRegions : dir[m][r] \in kernel_tables \cup {0}
    /\ \A m \in Maps :
         /\ \A r \in UserRegions : dir[m][r] \in Frames \cup {0}
         /\ \A r, q \in UserRegions : r # q /\ dir[m][r] = dir[m][q] => dir[m][r] = 0
         /\ \A r \in UserRegions : dir[m][r] # 0 => dir[m][r] # dir_frame[m]

\* The maps whose frames are being freed; the frames each other map keeps, and
\* those each hardware thread has yet to free.
Dropping == {cpu[c].map : c \in {d \in HwThreads : cpu[d].at \in {"drop", "list"}}}
Kept(m) == IF m \in Dropping THEN {} ELSE Own(m)
Pending(c) == ToSet(cpu[c].frames)
Freed == ToSet(free_page_list)

\* A frame is on the free list, kept by one map, about to be freed by one
\* hardware thread, or in a table of the kernel's, and no two of these.
FramesOK ==
    /\ IsInjective(free_page_list)
    /\ \A c \in HwThreads : IsInjective(cpu[c].frames)
    /\ \A c \in HwThreads, m \in Maps :
         cpu[c].at \in {"drop", "list"} /\ cpu[c].map = m => Pending(c) \subseteq Own(m)
    /\ \A m, n \in Maps : m # n => Kept(m) \cap Kept(n) = {}
    /\ \A c, d \in HwThreads : c # d => Pending(c) \cap Pending(d) = {}
    /\ \A m \in Maps, c \in HwThreads : Kept(m) \cap Pending(c) = {}
    /\ \A m \in Maps : Kept(m) \cap Freed = {}
    /\ \A c \in HwThreads : Pending(c) \cap Freed = {}
    /\ \A f \in Frames :
         \/ f \in Freed \/ f \in kernel_tables
         \/ (\E m \in Maps : f \in Kept(m)) \/ (\E c \in HwThreads : f \in Pending(c))
    /\ \A m \in Maps : Kept(m) \cap kernel_tables = {}
    /\ \A c \in HwThreads : Pending(c) \cap kernel_tables = {}
    /\ Freed \cap kernel_tables = {}

\* A frame has one reference, until dec_page_ref drops it.
RefsOK ==
    /\ \A f \in Freed : ref_count[f] = 0
    /\ \A m \in Maps : \A f \in Kept(m) : ref_count[f] = 1
    /\ \A c \in HwThreads : \A i \in DOMAIN cpu[c].frames :
         ref_count[cpu[c].frames[i]] = IF i = 1 /\ cpu[c].at = "list" THEN 0 ELSE 1

\* The maps that have an identifier that is theirs alone.
Identified ==
    map_list \cup {cpu[c].map : c \in {d \in HwThreads : cpu[d].at \in {"free_asid", "clear"}}}

AsidsOK ==
    /\ \A c \in HwThreads : cpu[c].at \in {"free_asid", "clear"} => asid[cpu[c].map] # -1
    /\ ~raced =>
         /\ \A m \in Identified : asid[m] \in asid_alloc \cup {-1}
         /\ \A m, n \in Identified : m # n /\ asid[m] # -1 => asid[m] # asid[n]
         /\ \A c \in HwThreads : cpu[c].at = "clear" => cpu[c].word = asid_alloc
         /\ \A c, d \in HwThreads : cpu[c].at = "clear" /\ cpu[d].at = "clear" => c = d

\* The page tables hold what vm_map_page was asked for.
EntriesOK ==
    /\ \A m \in map_list, r \in UserRegions :
         user_mapped[m][r] = IF dir[m][r] = 0 THEN 0 ELSE entry[dir[m][r]]
    /\ \A r \in BootRegions : kernel_mapped[r] = entry[BootTable(r)]
    /\ \A m \in map_list, r \in LateRegions : dir[m][r] # 0 => entry[dir[m][r]] = kernel_mapped[r]

TranslationIInv ==
    TranslationTypeOK /\ CallsOK /\ MapsOK /\ FramesOK /\ RefsOK /\ AsidsOK /\ EntriesOK

-----------------------------------------------------------------------------
LEMMA ToSetIsRange == ASSUME NEW s PROVE ToSet(s) = Range(s)
BY DEF ToSet, Range

\* What is put in front of a list.
LEMMA PushQueue ==
    ASSUME NEW S, NEW s \in Seq(S), NEW x \in S
    PROVE  /\ << x >> \o s \in Seq(S)
           /\ << x >> \o s # << >>
           /\ ToSet(<< x >> \o s) = ToSet(s) \cup {x}
           /\ IsInjective(s) /\ x \notin ToSet(s) => IsInjective(<< x >> \o s)
<1> DEFINE t == << x >> \o s
<1>1. /\ t \in Seq(S) /\ Len(s) \in Nat /\ Len(t) = Len(s) + 1
      /\ DOMAIN s = 1 .. Len(s) /\ DOMAIN t = 1 .. Len(s) + 1
      /\ t[1] = x /\ \A i \in 1 .. Len(s) : t[i + 1] = s[i]
  OBVIOUS
<1>2. \A i \in DOMAIN t : i = 1 \/ (i - 1 \in DOMAIN s /\ t[i] = s[i - 1])
  <2> TAKE i \in DOMAIN t
  <2>1. CASE i # 1
    <3>1. i - 1 \in 1 .. Len(s) /\ (i - 1) + 1 = i
      BY <1>1, <2>1
    <3> QED
      BY <1>1, <3>1
  <2> QED
    BY <2>1
<1>3. ToSet(t) = ToSet(s) \cup {x}
  <2>1. ToSet(t) \subseteq ToSet(s) \cup {x}
    BY <1>1, <1>2 DEF ToSet
  <2>2. x \in ToSet(t)
    BY <1>1 DEF ToSet
  <2>3. ASSUME NEW i \in DOMAIN s PROVE s[i] \in ToSet(t)
    <3>1. i + 1 \in DOMAIN t /\ t[i + 1] = s[i]
      BY <1>1
    <3> QED
      BY <3>1 DEF ToSet
  <2> QED
    BY <2>1, <2>2, <2>3 DEF ToSet
<1>4. ASSUME IsInjective(s), x \notin ToSet(s), NEW i \in DOMAIN t, NEW j \in DOMAIN t, t[i] = t[j]
      PROVE  i = j
  BY <1>1, <1>2, <1>4 DEF IsInjective, ToSet
<1> HIDE DEF t
<1>5. IsInjective(s) /\ x \notin ToSet(s) => IsInjective(t)
  BY <1>4 DEF IsInjective
<1>6. t # << >>
  BY <1>1
<1> QED
  BY <1>1, <1>3, <1>5, <1>6 DEF t

\* A list of a finite set's elements.
LEMMA SetToSeqQueue ==
    ASSUME NEW S, IsFiniteSet(S)
    PROVE  /\ SetToSeq(S) \in Seq(S)
           /\ IsInjective(SetToSeq(S))
           /\ ToSet(SetToSeq(S)) = S
<1> DEFINE n == Cardinality(S)
<1>1. n \in Nat /\ ExistsBijection(1 .. n, S)
  BY FS_CardinalityType
<1>2. PICK g \in Bijection(1 .. n, S) : TRUE
  BY <1>1 DEF ExistsBijection
<1>3. g \in [1 .. n -> S] /\ IsInjective(g)
  BY <1>2 DEF Bijection, Injection, IsInjective
<1>4. SetToSeq(S) \in [1 .. n -> S] /\ IsInjective(SetToSeq(S))
  BY <1>3 DEF SetToSeq
<1> DEFINE s == SetToSeq(S)
<1>5. s \in Seq(S)
  BY <1>1, <1>4
<1>6. Cardinality(Range(s)) = n
  <2>1. Len(s) = n
    BY <1>1, <1>4, <1>5
  <2> QED
    BY <1>4, <1>5, <2>1, QueueLength
<1>7. Range(s) \subseteq S
  BY <1>4 DEF Range
<1>8. Range(s) = S
  BY <1>6, <1>7, FS_Subset
<1> QED
  BY <1>4, <1>5, <1>8, ToSetIsRange

-----------------------------------------------------------------------------
\* vm_allocate_page takes a frame that is on the free list.
LEMMA TakesFrame ==
    ASSUME TranslationTypeOK, FramesOK, Takes
    PROVE  /\ NewFrame \in Frames /\ NewFrame \in Freed
           /\ free_page_list' \in Seq(Frames) /\ IsInjective(free_page_list')
           /\ Freed' = Freed \ {NewFrame}
           /\ ref_count' = [ref_count EXCEPT ![NewFrame] = 1]
<1> USE DEF TranslationTypeOK, FramesOK, Takes, NewFrame, Freed
<1>1. /\ Head(free_page_list) \in Frames
      /\ Head(free_page_list) \in Range(free_page_list)
      /\ Tail(free_page_list) \in Seq(Frames)
      /\ Range(Tail(free_page_list)) = Range(free_page_list) \ {Head(free_page_list)}
      /\ IsInjective(Tail(free_page_list))
  BY TailQueue
<1> QED
  BY <1>1, ToSetIsRange

LEMMA BitmapAlloc ==
    ASSUME TranslationTypeOK
    PROVE  /\ bitmap_alloc \in Asids \cup {-1}
           /\ bitmap_alloc \notin asid_alloc
<1>1. FreeAsids \subseteq Nat /\ FreeAsids = Asids \ asid_alloc
  BY TranslationAssumption DEF FreeAsids, Asids
<1>2. CASE FreeAsids = {}
  BY <1>1, <1>2 DEF bitmap_alloc, Asids, TranslationTypeOK
<1>3. CASE FreeAsids # {}
  <2>1. Min(FreeAsids) \in FreeAsids
    BY <1>1, <1>3, LeastElement
  <2> QED
    BY <1>1, <1>3, <2>1 DEF bitmap_alloc
<1> QED
  BY <1>2, <1>3

\* The list of the frames that destroy_translation_map frees.
LEMMA DropList ==
    ASSUME TranslationTypeOK, MapsOK, NEW m \in Maps, dir_frame[m] \in Frames
    PROVE  LET s == Append(SetToSeq(UserTables(m)), dir_frame[m])
           IN  /\ s \in Seq(Frames) /\ s # << >> /\ IsInjective(s)
               /\ ToSet(s) = Own(m)
<1> DEFINE u == SetToSeq(UserTables(m))
<1>1. IsFiniteSet(UserTables(m)) /\ UserTables(m) \subseteq Frames
  <2>1. IsFiniteSet(Frames)
    BY TranslationAssumption, FS_Interval DEF Frames
  <2> QED
    BY <2>1, FS_Subset DEF UserTables
<1>2. u \in Seq(UserTables(m)) /\ IsInjective(u) /\ ToSet(u) = UserTables(m)
  BY <1>1, SetToSeqQueue
<1>3. u \in Seq(Frames) /\ Range(u) = UserTables(m)
  BY <1>1, <1>2, ToSetIsRange
<1>4. dir_frame[m] \notin UserTables(m)
  BY DEF UserTables, MapsOK, Frames
<1> HIDE DEF u
<1> QED
  BY <1>2, <1>3, <1>4, AppendQueue, ToSetIsRange DEF Own, u

-----------------------------------------------------------------------------
LEMMA BootTablesApart ==
    /\ 0 \notin Frames /\ 0 \notin BootTables /\ Frames \cap BootTables = {}
    /\ \A r, q \in BootRegions : BootTable(r) = BootTable(q) => r = q
    /\ \A r \in KernelRegions : BootTable(r) # 0
BY TranslationAssumption DEF Frames, BootTables, BootTable, Regions

LEMMA TranslationInitIInv ==
    ASSUME TranslationInit
    PROVE  TranslationIInv
<1> USE TranslationAssumption DEF TranslationInit
<1>1. TranslationTypeOK
  <2>1. free_page_list \in Seq(Frames)
    BY DEF Frames
  <2> QED
    <3>1. cpu \in [HwThreads -> Calls]
      BY DEF NoCall, Calls
    <3>2. dir \in [Maps -> [Regions -> Frames \cup BootTables \cup {0}]]
      BY DEF NoDir
    <3>3. entry \in [Frames \cup {0} \cup BootTables -> PhysicalAddresses \cup {0}]
      BY DEF BootTables
    <3>4. asid \in [Maps -> Asids \cup {-1}] /\ raced \in BOOLEAN
      OBVIOUS
    <3> QED
      BY <2>1, <3>1, <3>2, <3>3, <3>4 DEF TranslationTypeOK
<1>2. CallsOK
  BY DEF CallsOK, NoCall
<1>3. Busy \subseteq {0} /\ Dropping = {} /\ Identified = {}
  BY DEF Busy, Dropping, Identified, NoCall
<1>4. MapsOK
  BY <1>3 DEF MapsOK, NoCall, NoDir, Regions
<1>5. \A m \in Maps : Own(m) = {} /\ Kept(m) = {}
  BY <1>3, BootTablesApart DEF Own, Kept, UserTables, NoDir, Regions
<1>6. \A c \in HwThreads : Pending(c) = {} /\ cpu[c].frames = << >> /\ IsInjective(cpu[c].frames)
  BY DEF Pending, NoCall, ToSet, IsInjective
<1>7. Freed = Frames /\ IsInjective(free_page_list)
  BY DEF Freed, ToSet, Frames, IsInjective
<1>8. FramesOK
  BY <1>5, <1>6, <1>7 DEF FramesOK, NoCall
<1>9. RefsOK
  BY <1>5, <1>6, <1>7 DEF RefsOK
<1>10. AsidsOK
  BY <1>3 DEF AsidsOK, NoCall
<1>11. EntriesOK
  BY BootTablesApart DEF EntriesOK, BootTables
<1> QED
  BY <1>1, <1>2, <1>4, <1>8, <1>9, <1>10, <1>11 DEF TranslationIInv

LEMMA CallMap ==
    ASSUME TranslationTypeOK, CallsOK, MapsOK, NEW c \in HwThreads, cpu[c].at # "idle"
    PROVE  cpu[c].map \in Maps /\ cpu[c].map \in Busy \ {0} /\ dir_frame[cpu[c].map] \in Frames
<1>1. cpu[c] \in Calls
  BY DEF TranslationTypeOK
<1>2. cpu[c].map \in Maps /\ cpu[c].map # 0
  BY <1>1, TranslationAssumption DEF CallsOK, Calls
<1> QED
  BY <1>2 DEF MapsOK, Busy

\* A call in progress, and one after a step.
LEMMA CallType ==
    ASSUME TranslationTypeOK, NEW c \in HwThreads
    PROVE  /\ cpu[c] \in Calls
           /\ cpu[c].at \in {"idle", "create", "free_asid", "clear", "tables", "drop", "list"}
           /\ cpu[c].map \in Maps \cup {0}
           /\ cpu[c].word \in SUBSET Asids
           /\ cpu[c].frames \in Seq(Frames)
           /\ \A x \in Calls : [cpu EXCEPT ![c] = x] \in [HwThreads -> Calls]
BY DEF TranslationTypeOK, Calls

LEMMA CallUpdate ==
    ASSUME NEW r \in Calls
    PROVE  /\ \A w \in SUBSET Asids, a \in {"clear", "tables"} :
                [r EXCEPT !.at = a, !.word = w] \in Calls
           /\ \A s \in Seq(Frames) : [r EXCEPT !.at = "drop", !.frames = s] \in Calls
           /\ [r EXCEPT !.at = "list"] \in Calls
BY DEF Calls

LEMMA TranslationTypeStep ==
    ASSUME TranslationIInv, TranslationNext
    PROVE  TranslationTypeOK'
<1> USE TranslationAssumption DEF TranslationIInv
<1>0. TranslationTypeOK
  OBVIOUS
<1>1. ASSUME NEW c \in HwThreads, NEW m \in Maps, AllocateMap(c, m) PROVE TranslationTypeOK'
  <2>1. NewFrame \in Frames /\ free_page_list' \in Seq(Frames) /\ ref_count' = [ref_count EXCEPT ![NewFrame] = 1]
    BY <1>1, TakesFrame DEF AllocateMap
  <2> QED
    <3>1. cpu' \in [HwThreads -> Calls]
      BY <1>0, <1>1, CallType DEF AllocateMap, NoCall, Calls
    <3>2. dir' \in [Maps -> [Regions -> Frames \cup BootTables \cup {0}]]
      BY <1>0, <1>1 DEF TranslationTypeOK, AllocateMap, NoDir
    <3> QED
      BY <1>0, <1>1, <2>1, <3>1, <3>2 DEF TranslationTypeOK, AllocateMap
<1>2. ASSUME NEW c \in HwThreads, NEW m \in Maps, RemoveMap(c, m) PROVE TranslationTypeOK'
  <2>1. cpu' \in [HwThreads -> Calls]
    BY <1>0, <1>2, CallType DEF RemoveMap, NoCall, Calls
  <2> QED
    BY <1>0, <1>2, <2>1 DEF TranslationTypeOK, RemoveMap, pageVars
<1>3. ASSUME NEW c \in HwThreads, InstallMap(c) PROVE TranslationTypeOK'
  <2>1. cpu[c].map \in Maps
    BY <1>3, CallMap DEF InstallMap
  <2>2. KernelCopied(cpu[c].map) \in [Regions -> Frames \cup BootTables \cup {0}]
    BY <1>0, <2>1 DEF KernelCopied, TranslationTypeOK, BootTables
  <2>3. bitmap_alloc \in Asids \cup {-1}
    BY BitmapAlloc
  <2> QED
    <3>1. cpu' \in [HwThreads -> Calls]
      BY <1>0, <1>3, CallType DEF InstallMap, NoCall, Calls
    <3>2. user_mapped' \in [Maps -> [UserRegions -> PhysicalAddresses \cup {0}]]
      BY <1>0, <1>3 DEF TranslationTypeOK, InstallMap
    <3>3. raced' \in BOOLEAN
      BY <1>3 DEF InstallMap
    <3> QED
      BY <1>0, <1>3, <2>1, <2>2, <2>3, <3>1, <3>2, <3>3 DEF TranslationTypeOK, InstallMap, pageVars
<1>4. ASSUME NEW c \in HwThreads, ReadBitmap(c) PROVE TranslationTypeOK'
  <2>1. cpu' \in [HwThreads -> Calls]
    <3> DEFINE x == [cpu[c] EXCEPT !.at = "clear", !.word = asid_alloc]
    <3>a. x \in Calls
      BY <1>0, CallType, CallUpdate, TranslationAssumption DEF TranslationTypeOK
    <3>b. cpu' = [cpu EXCEPT ![c] = x]
      BY <1>0, <1>4, CallType DEF ReadBitmap, Calls, TranslationTypeOK
    <3> QED
      BY <1>0, <3>a, <3>b, CallType
  <2>2. raced' \in BOOLEAN
    BY <1>4 DEF ReadBitmap
  <2> QED
    BY <1>0, <1>4, <2>1, <2>2 DEF TranslationTypeOK, ReadBitmap, pageVars, mapVars
<1>5. ASSUME NEW c \in HwThreads, WriteBitmap(c) PROVE TranslationTypeOK'
  <2>1. cpu' \in [HwThreads -> Calls]
    <3> DEFINE x == [cpu[c] EXCEPT !.at = "tables", !.word = {}]
    <3>a. x \in Calls
      BY <1>0, CallType, CallUpdate, TranslationAssumption DEF TranslationTypeOK
    <3>b. cpu' = [cpu EXCEPT ![c] = x]
      BY <1>0, <1>5, CallType DEF WriteBitmap, Calls, TranslationTypeOK
    <3> QED
      BY <1>0, <3>a, <3>b, CallType
  <2>2. asid_alloc' \subseteq Asids
    BY <1>0, <1>5, CallType DEF WriteBitmap
  <2> QED
    BY <1>0, <1>5, <2>1, <2>2 DEF TranslationTypeOK, WriteBitmap, pageVars, mapVars
<1>6. ASSUME NEW c \in HwThreads, FindTables(c) PROVE TranslationTypeOK'
  <2>1. cpu[c].map \in Maps /\ dir_frame[cpu[c].map] \in Frames
    BY <1>6, CallMap DEF FindTables
  <2>2. Append(SetToSeq(UserTables(cpu[c].map)), dir_frame[cpu[c].map]) \in Seq(Frames)
    BY <2>1, DropList
  <2> QED
    <3>1. cpu' \in [HwThreads -> Calls]
      <4> DEFINE x == [cpu[c] EXCEPT !.at = "drop", !.frames = Append(SetToSeq(UserTables(cpu[c].map)), dir_frame[cpu[c].map])]
      <4>a. x \in Calls
        BY <1>0, CallType, CallUpdate, <2>2, TranslationAssumption DEF TranslationTypeOK
      <4>b. cpu' = [cpu EXCEPT ![c] = x]
        BY <1>0, <1>6, <2>2, CallType DEF FindTables, Calls, TranslationTypeOK
      <4> QED
        BY <1>0, <4>a, <4>b, CallType
    <3> QED
      BY <1>0, <1>6, <2>2, <3>1 DEF TranslationTypeOK, FindTables, pageVars, mapVars
<1>7. ASSUME NEW c \in HwThreads, DropRef(c) PROVE TranslationTypeOK'
  <2> DEFINE f == Head(cpu[c].frames)
  <2>1. /\ cpu[c].frames \in Seq(Frames) /\ cpu[c].frames # << >>
        /\ f \in Frames /\ Tail(cpu[c].frames) \in Seq(Frames)
    BY <1>0, <1>7, CallType DEF DropRef
  <2>2. ref_count[f] = 1
    BY <1>7, <2>1 DEF DropRef, RefsOK
  <2> HIDE DEF f
  <2>3. ref_count' = [ref_count EXCEPT ![f] = 0] /\ cpu' = [cpu EXCEPT ![c].at = "list"]
    BY <1>0, <1>7, <2>1, <2>2 DEF DropRef, TranslationTypeOK, f
  <2> QED
    <3>1. cpu' \in [HwThreads -> Calls]
      <4> DEFINE x == [cpu[c] EXCEPT !.at = "list"]
      <4>a. x \in Calls
        BY <1>0, CallType, CallUpdate, <2>3, TranslationAssumption DEF TranslationTypeOK
      <4>b. cpu' = [cpu EXCEPT ![c] = x]
        BY <1>0, <1>7, <2>3, CallType DEF DropRef, Calls, TranslationTypeOK
      <4> QED
        BY <1>0, <4>a, <4>b, CallType
    <3> QED
      <4>1. ref_count' \in [Frames -> Nat]
        BY <1>0, <2>1, <2>3 DEF TranslationTypeOK
      <4> QED
        BY <1>0, <1>7, <3>1, <4>1 DEF TranslationTypeOK, DropRef, mapVars
<1>8. ASSUME NEW c \in HwThreads, FreePage(c) PROVE TranslationTypeOK'
  <2>1. /\ cpu[c].frames \in Seq(Frames) /\ cpu[c].frames # << >>
        /\ Head(cpu[c].frames) \in Frames /\ Tail(cpu[c].frames) \in Seq(Frames)
    BY <1>0, <1>8, CallType DEF FreePage, CallsOK
  <2>2. free_page_list' \in Seq(Frames)
    BY <1>0, <1>8, <2>1 DEF FreePage, TranslationTypeOK
  <2> QED
    <3>1. cpu' \in [HwThreads -> Calls]
      <4> DEFINE x == [cpu[c] EXCEPT !.at = "drop", !.frames = Tail(@)]
      <4>a. x \in Calls
        BY <1>0, CallType, CallUpdate, <2>1, TranslationAssumption DEF TranslationTypeOK
      <4>b. cpu' = [cpu EXCEPT ![c] = x]
        BY <1>0, <1>8, <2>1, CallType DEF FreePage, Calls, TranslationTypeOK
      <4> QED
        BY <1>0, <4>a, <4>b, CallType
    <3> QED
      BY <1>0, <1>8, <2>1, <2>2, <3>1 DEF TranslationTypeOK, FreePage, mapVars
<1>9. ASSUME NEW c \in HwThreads, FreeMap(c) PROVE TranslationTypeOK'
  <2>1. cpu[c].map \in Maps
    BY <1>9, CallMap DEF FreeMap
  <2> QED
    <3>1. cpu' \in [HwThreads -> Calls]
      BY <1>0, <1>9, CallType DEF FreeMap, NoCall, Calls
    <3>2. dir' \in [Maps -> [Regions -> Frames \cup BootTables \cup {0}]]
      BY <1>0, <1>9 DEF TranslationTypeOK, FreeMap, NoDir
    <3>3. user_mapped' \in [Maps -> [UserRegions -> PhysicalAddresses \cup {0}]]
      BY <1>0, <1>9 DEF TranslationTypeOK, FreeMap
    <3> QED
      BY <1>0, <1>9, <2>1, <3>1, <3>2, <3>3 DEF TranslationTypeOK, FreeMap, pageVars
<1>10. ASSUME NEW c \in HwThreads, NEW pa \in PhysicalAddresses, NEW m \in Maps, NEW r \in UserRegions,
              MapUserPage(c, m, r, pa)
       PROVE  TranslationTypeOK'
  <2>1. CASE dir[m][r] # 0
    <3>1. user_mapped' \in [Maps -> [UserRegions -> PhysicalAddresses \cup {0}]]
      BY <1>0, <1>10 DEF TranslationTypeOK, MapUserPage
    <3>2. entry' \in [Frames \cup {0} \cup BootTables -> PhysicalAddresses \cup {0}]
      BY <1>0, <1>10, <2>1 DEF TranslationTypeOK, MapUserPage
    <3> QED
      BY <1>0, <1>10, <2>1, <3>1, <3>2 DEF TranslationTypeOK, MapUserPage, pageVars
  <2>2. CASE dir[m][r] = 0
    <3>1. NewFrame \in Frames /\ free_page_list' \in Seq(Frames) /\ ref_count' = [ref_count EXCEPT ![NewFrame] = 1]
      BY <1>10, <2>2, TakesFrame DEF MapUserPage
    <3> QED
      <4>1. user_mapped' \in [Maps -> [UserRegions -> PhysicalAddresses \cup {0}]]
        BY <1>0, <1>10 DEF TranslationTypeOK, MapUserPage
      <4>2. entry' \in [Frames \cup {0} \cup BootTables -> PhysicalAddresses \cup {0}]
        <5>1. entry' = [entry EXCEPT ![NewFrame] = pa]
          BY <1>10, <2>2 DEF MapUserPage
        <5> QED
          BY <1>0, <3>1, <5>1 DEF TranslationTypeOK
      <4>3. dir' \in [Maps -> [Regions -> Frames \cup BootTables \cup {0}]]
        <5>1. dir' = [dir EXCEPT ![m] = [dir[m] EXCEPT ![r] = NewFrame]] /\ r \in Regions
          BY <1>0, <1>10, <2>2 DEF TranslationTypeOK, MapUserPage, Regions
        <5> QED
          BY <1>0, <3>1, <5>1 DEF TranslationTypeOK
      <4> QED
        BY <1>0, <1>10, <2>2, <3>1, <4>1, <4>2, <4>3 DEF TranslationTypeOK, MapUserPage
  <2> QED
    BY <2>1, <2>2
<1>11. ASSUME NEW c \in HwThreads, NEW pa \in PhysicalAddresses, NEW r \in KernelRegions, MapKernelPage(c, r, pa)
       PROVE  TranslationTypeOK'
  <2>1. kernel_mapped' \in [KernelRegions -> PhysicalAddresses \cup {0}]
    BY <1>0, <1>11 DEF TranslationTypeOK, MapKernelPage
  <2>2. CASE kernel_dir[r] # 0
    <3>1. kernel_dir[r] \in BootTables
      BY <1>0, <2>2 DEF TranslationTypeOK, BootTables
    <3>2. entry' \in [Frames \cup {0} \cup BootTables -> PhysicalAddresses \cup {0}]
      BY <1>0, <1>11, <2>2, <3>1 DEF TranslationTypeOK, MapKernelPage
    <3> QED
      BY <1>0, <1>11, <2>1, <2>2, <3>2 DEF TranslationTypeOK, MapKernelPage, pageVars
  <2>3. CASE kernel_dir[r] = 0
    <3>1. NewFrame \in Frames /\ free_page_list' \in Seq(Frames) /\ ref_count' = [ref_count EXCEPT ![NewFrame] = 1]
      BY <1>11, <2>3, TakesFrame DEF MapKernelPage
    <3>2. entry' \in [Frames \cup {0} \cup BootTables -> PhysicalAddresses \cup {0}]
      <4>1. entry' = IF map_list = {} THEN [entry EXCEPT ![NewFrame] = 0, ![0] = pa]
                     ELSE [entry EXCEPT ![NewFrame] = pa]
        BY <1>11, <2>3 DEF MapKernelPage
      <4>2. entry \in [Frames \cup {0} \cup BootTables -> PhysicalAddresses \cup {0}]
        BY <1>0 DEF TranslationTypeOK
      <4> QED
        BY <3>1, <4>1, <4>2
    <3>3. dir' \in [Maps -> [Regions -> Frames \cup BootTables \cup {0}]]
      <4>1. dir' = [m \in Maps |-> IF m \in map_list THEN [dir[m] EXCEPT ![r] = NewFrame] ELSE dir[m]]
        BY <1>11, <2>3 DEF MapKernelPage
      <4>2. dir \in [Maps -> [Regions -> Frames \cup BootTables \cup {0}]] /\ r \in Regions
        BY <1>0 DEF TranslationTypeOK, Regions
      <4> QED
        BY <3>1, <4>1, <4>2
    <3>4. kernel_tables' \subseteq Frames
      BY <1>0, <1>11, <2>3, <3>1 DEF MapKernelPage, TranslationTypeOK
    <3>5. ref_count' \in [Frames -> Nat]
      BY <1>0, <3>1 DEF TranslationTypeOK
    <3> QED
      BY <1>0, <1>11, <2>1, <3>1, <3>2, <3>3, <3>4, <3>5 DEF TranslationTypeOK, MapKernelPage
  <2> QED
    BY <2>2, <2>3
<1> QED
  BY <1>1, <1>2, <1>3, <1>4, <1>5, <1>6, <1>7, <1>8, <1>9, <1>10, <1>11 DEF TranslationNext

-----------------------------------------------------------------------------
\* A step of one hardware thread leaves the calls of the others alone.
LEMMA OtherCalls ==
    ASSUME TranslationTypeOK, NEW c \in HwThreads, NEW x, cpu' = [cpu EXCEPT ![c] = x]
    PROVE  cpu'[c] = x /\ \A d \in HwThreads : d # c => cpu'[d] = cpu[d]
BY DEF TranslationTypeOK

LEMMA KeptFrames == \A m \in Maps : Own(m) \subseteq Frames /\ Kept(m) \subseteq Frames
BY DEF Kept, Own, UserTables

LEMMA NoCallFields ==
    /\ NoCall \in Calls
    /\ NoCall.at = "idle" /\ NoCall.map = 0 /\ NoCall.word = {} /\ NoCall.frames = << >>
BY DEF NoCall, Calls

LEMMA NewCall ==
    ASSUME NEW m \in Maps, NEW a
    PROVE  LET x == [NoCall EXCEPT !.at = a, !.map = m]
           IN  x.at = a /\ x.map = m /\ x.word = {} /\ x.frames = << >>
BY NoCallFields DEF Calls

\* A page table of the kernel's that a map on the list has is a frame that is
\* never freed.
LEMMA KernelTableUsed ==
    ASSUME TranslationTypeOK, MapsOK, FramesOK, NEW m \in map_list, NEW r \in LateRegions, dir[m][r] # 0
    PROVE  dir[m][r] \in kernel_tables /\ dir[m][r] \in Frames /\ dir[m][r] \notin Freed
<1>1. dir[m][r] \in kernel_tables
  BY DEF MapsOK
<1>2. dir[m][r] \in Frames
  BY <1>1 DEF TranslationTypeOK
<1> QED
  BY <1>1, <1>2 DEF FramesOK

LEMMA AllocateMapStep ==
    ASSUME TranslationIInv, TranslationTypeOK', NEW c \in HwThreads, NEW m \in Maps, AllocateMap(c, m)
    PROVE  CallsOK' /\ MapsOK' /\ FramesOK' /\ RefsOK' /\ AsidsOK' /\ EntriesOK'
<1> DEFINE f == NewFrame
<1>0. TranslationTypeOK /\ CallsOK /\ MapsOK /\ FramesOK /\ RefsOK /\ AsidsOK /\ EntriesOK
  BY DEF TranslationIInv
<1>1. /\ f \in Frames /\ f \in Freed
      /\ IsInjective(free_page_list') /\ Freed' = Freed \ {f}
      /\ ref_count' = [ref_count EXCEPT ![f] = 1]
  BY <1>0, TakesFrame DEF AllocateMap
<1> HIDE DEF f
<1>2. /\ cpu'[c].at = "create" /\ cpu'[c].map = m /\ cpu'[c].word = {} /\ cpu'[c].frames = << >>
      /\ cpu[c].at = "idle" /\ cpu[c].map = 0 /\ cpu[c].word = {} /\ cpu[c].frames = << >>
      /\ \A d \in HwThreads : d # c => cpu'[d] = cpu[d]
  <2>1. cpu' = [cpu EXCEPT ![c] = [NoCall EXCEPT !.at = "create", !.map = m]] /\ cpu[c] = NoCall
    BY DEF AllocateMap
  <2>2. cpu'[c] = [NoCall EXCEPT !.at = "create", !.map = m] /\ \A d \in HwThreads : d # c => cpu'[d] = cpu[d]
    BY <1>0, <2>1, OtherCalls
  <2>3. cpu'[c].at = "create" /\ cpu'[c].map = m /\ cpu'[c].word = {} /\ cpu'[c].frames = << >>
    BY <2>2, NewCall
  <2> QED
    BY <2>1, <2>2, <2>3, NoCallFields
<1>3. /\ m \notin map_list /\ map_list' = map_list
      /\ \A d \in HwThreads : cpu[d].map # m
  BY DEF AllocateMap, Busy
<1>4. /\ dir'[m] = NoDir /\ dir_frame'[m] = f /\ dir[m] = NoDir /\ dir_frame[m] = 0
      /\ \A n \in Maps : n # m => dir'[n] = dir[n] /\ dir_frame'[n] = dir_frame[n]
      /\ kernel_dir' = kernel_dir /\ asid' = asid /\ asid_alloc' = asid_alloc
      /\ user_mapped' = user_mapped /\ kernel_mapped' = kernel_mapped /\ kernel_tables' = kernel_tables /\ raced' = raced
  <2>1. dir[m] = NoDir /\ dir_frame[m] = 0
    BY <1>0, <1>3 DEF MapsOK, Busy
  <2> QED
    BY <1>0, <2>1 DEF AllocateMap, TranslationTypeOK, f
<1>5. /\ Busy' \subseteq Busy \cup {m} /\ Busy \subseteq Busy' \cup {0} /\ m \notin Busy
      /\ Dropping' = Dropping /\ m \notin Dropping /\ Identified' = Identified
  BY <1>2, <1>3 DEF Busy, Dropping, Identified
<1>6. /\ Own(m) = {} /\ Own(m)' = {f}
      /\ \A n \in Maps : n # m => Own(n)' = Own(n)
  BY <1>1, <1>4, BootTablesApart DEF Own, UserTables, NoDir, Regions
<1>7. /\ Kept(m) = {} /\ Kept(m)' = {f}
      /\ \A n \in Maps : n # m => Kept(n)' = Kept(n)
      /\ \A d \in HwThreads : Pending(d)' = Pending(d) /\ cpu'[d].frames = cpu[d].frames
  BY <1>2, <1>5, <1>6 DEF Kept, Pending
<1>8. CallsOK'
  BY <1>0, <1>2, <1>3, TranslationAssumption DEF CallsOK
<1>9. MapsOK'
  <2>1. \A n \in Maps : n \notin map_list' \cup Busy' => dir'[n] = NoDir /\ dir_frame'[n] = 0
    BY <1>0, <1>2, <1>3, <1>4, TranslationAssumption DEF MapsOK, Busy
  <2>2. \A n \in map_list' \cup (Busy' \ {0}) : dir_frame'[n] \in Frames
    <3>1. \A n \in map_list \cup (Busy \ {0}) : n \in Maps
      BY <1>0, CallType DEF TranslationTypeOK, Busy
    <3> QED
      BY <1>0, <1>1, <1>3, <1>4, <1>5, <3>1 DEF MapsOK
  <2>3. \A d \in HwThreads : cpu'[d].at = "create" => dir'[cpu'[d].map] = NoDir
    <3> SUFFICES ASSUME NEW d \in HwThreads, cpu'[d].at = "create" PROVE dir'[cpu'[d].map] = NoDir
      OBVIOUS
    <3>1. CASE d = c
      BY <1>2, <1>4, <3>1
    <3>2. CASE d # c
      BY <1>0, <1>2, <1>3, <1>4, <3>2, CallMap DEF MapsOK
    <3> QED
      BY <3>1, <3>2
  <2>4. \A n \in map_list' : \A r \in BootRegions : dir'[n][r] = kernel_dir'[r]
    <3>1. \A n \in map_list : n \in Maps /\ n # m
      BY <1>0, <1>3 DEF TranslationTypeOK
    <3> QED
      BY <1>0, <1>3, <1>4, <3>1 DEF MapsOK
  <2>l. \A n \in map_list' : \A r \in LateRegions : dir'[n][r] \in kernel_tables' \cup {0}
    <3>1. \A n \in map_list : n \in Maps /\ n # m
      BY <1>0, <1>3 DEF TranslationTypeOK
    <3> QED
      BY <1>0, <1>3, <1>4, <3>1 DEF MapsOK
  <2>5. \A n \in Maps :
         /\ \A r \in UserRegions : dir'[n][r] \in Frames \cup {0}
         /\ \A r, q \in UserRegions : r # q /\ dir'[n][r] = dir'[n][q] => dir'[n][r] = 0
         /\ \A r \in UserRegions : dir'[n][r] # 0 => dir'[n][r] # dir_frame'[n]
    <3> TAKE n \in Maps
    <3>1. CASE n = m
      BY <1>4, <3>1 DEF NoDir, Regions
    <3>2. CASE n # m
      BY <1>0, <1>4, <3>2 DEF MapsOK
    <3> QED
      BY <3>1, <3>2
  <2> QED
    BY <2>1, <2>2, <2>3, <2>4, <2>5, <2>l DEF MapsOK, NoDir
<1>10. FramesOK'
  <2>1. /\ \A d \in HwThreads : IsInjective(cpu'[d].frames)
        /\ \A d \in HwThreads, n \in Maps :
             cpu'[d].at \in {"drop", "list"} /\ cpu'[d].map = n => Pending(d)' \subseteq Own(n)'
    BY <1>0, <1>2, <1>3, <1>6, <1>7 DEF FramesOK
  <2>2. /\ \A n, k \in Maps : n # k => Kept(n)' \cap Kept(k)' = {}
        /\ \A n \in Maps, d \in HwThreads : Kept(n)' \cap Pending(d)' = {}
        /\ \A n \in Maps : Kept(n)' \cap Freed' = {} /\ Kept(n)' \cap kernel_tables' = {}
    BY <1>0, <1>1, <1>4, <1>7 DEF FramesOK
  <2>3. /\ \A d, e \in HwThreads : d # e => Pending(d)' \cap Pending(e)' = {}
        /\ \A d \in HwThreads : Pending(d)' \cap Freed' = {} /\ Pending(d)' \cap kernel_tables' = {}
        /\ Freed' \cap kernel_tables' = {}
    BY <1>0, <1>1, <1>4, <1>7 DEF FramesOK
  <2>4. \A g \in Frames :
          g \in Freed' \/ g \in kernel_tables' \/ (\E n \in Maps : g \in Kept(n)') \/ (\E d \in HwThreads : g \in Pending(d)')
    BY <1>0, <1>1, <1>4, <1>7 DEF FramesOK
  <2> QED
    BY <1>1, <2>1, <2>2, <2>3, <2>4 DEF FramesOK
<1>11. RefsOK'
  <2>1. \A g \in Freed' : ref_count'[g] = 0
    BY <1>0, <1>1 DEF RefsOK, TranslationTypeOK
  <2>2. ref_count'[f] = 1 /\ \A g \in Frames : g # f => ref_count'[g] = ref_count[g]
    BY <1>0, <1>1 DEF TranslationTypeOK
  <2>3. \A n \in Maps : \A g \in Kept(n)' : ref_count'[g] = 1
    BY <1>0, <1>1, <1>7, <2>2, KeptFrames DEF RefsOK, FramesOK
  <2>4. \A d \in HwThreads : \A i \in DOMAIN cpu'[d].frames :
          ref_count'[cpu'[d].frames[i]] = IF i = 1 /\ cpu'[d].at = "list" THEN 0 ELSE 1
    <3> TAKE d \in HwThreads
    <3> TAKE i \in DOMAIN cpu'[d].frames
    <3>1. d # c /\ i \in DOMAIN cpu[d].frames
      BY <1>2
    <3>2. cpu[d].frames[i] \in Pending(d) /\ cpu[d].frames[i] \in Frames /\ cpu[d].frames[i] # f
      BY <1>0, <1>1, <3>1, CallType DEF Pending, ToSet, FramesOK
    <3> QED
      BY <1>0, <1>2, <2>2, <3>1, <3>2 DEF RefsOK
  <2> QED
    BY <2>1, <2>3, <2>4 DEF RefsOK
<1>12. AsidsOK'
  <2>1. \A d \in HwThreads : cpu'[d].at \in {"free_asid", "clear"} => asid'[cpu'[d].map] # -1
    BY <1>0, <1>2, <1>4 DEF AsidsOK
  <2> QED
    BY <1>0, <1>2, <1>4, <1>5, <2>1 DEF AsidsOK
<1>13. EntriesOK'
  <2>1. \A t \in Frames \cup {0} \cup BootTables : t # f => entry'[t] = entry[t]
    BY <1>0 DEF AllocateMap, TranslationTypeOK, f
  <2>2. ASSUME NEW n \in map_list, NEW r \in UserRegions
        PROVE  user_mapped'[n][r] = IF dir'[n][r] = 0 THEN 0 ELSE entry'[dir'[n][r]]
    <3>1. n \in Maps /\ n # m /\ dir[n][r] \in Frames \cup {0}
      BY <1>0, <1>3 DEF TranslationTypeOK, MapsOK
    <3>2. dir[n][r] # f
      <4>1. n \notin Dropping
        BY <1>0 DEF Dropping, CallsOK
      <4>2. dir[n][r] # 0 => dir[n][r] \in Kept(n)
        BY <3>1, <4>1 DEF Kept, Own, UserTables
      <4> QED
        BY <1>0, <1>1, <3>1, <4>2, BootTablesApart DEF FramesOK
    <3> QED
      BY <1>0, <1>4, <2>1, <3>1, <3>2 DEF EntriesOK
  <2>3. \A r \in BootRegions : BootTable(r) \in BootTables /\ BootTable(r) # f
    BY <1>1, BootTablesApart DEF BootTables
  <2> QED
    <3>1. ASSUME NEW n \in map_list, NEW r \in LateRegions, dir'[n][r] # 0
          PROVE  entry'[dir'[n][r]] = kernel_mapped'[r]
      <4>1. n \in Maps /\ n # m
        BY <1>0, <1>3 DEF TranslationTypeOK
      <4>2. dir'[n][r] = dir[n][r] /\ dir[n][r] # 0
        BY <1>4, <3>1, <4>1
      <4>3. dir[n][r] \in Frames /\ dir[n][r] # f
        BY <1>0, <1>1, <4>2, KernelTableUsed
      <4> QED
        BY <1>0, <1>4, <2>1, <4>2, <4>3 DEF EntriesOK
    <3> QED
      BY <1>0, <1>3, <1>4, <2>1, <2>2, <2>3, <3>1 DEF EntriesOK
<1> QED
  BY <1>8, <1>9, <1>10, <1>11, <1>12, <1>13

\* A step that moves no frame keeps what is said of the frames.
LEMMA SameFrames ==
    ASSUME FramesOK, RefsOK, free_page_list' = free_page_list, ref_count' = ref_count, kernel_tables' = kernel_tables,
           \A m \in Maps : Own(m)' = Own(m) /\ Kept(m)' = Kept(m),
           \A d \in HwThreads :
             /\ cpu'[d].frames = cpu[d].frames
             /\ cpu'[d].at = "list" <=> cpu[d].at = "list"
             /\ cpu'[d].at \in {"drop", "list"} => cpu[d].at \in {"drop", "list"} /\ cpu'[d].map = cpu[d].map
    PROVE  FramesOK' /\ RefsOK'
<1>1. Freed' = Freed /\ \A d \in HwThreads : Pending(d)' = Pending(d)
  BY DEF Freed, Pending
<1>2. \A d \in HwThreads, n \in Maps :
        cpu'[d].at \in {"drop", "list"} /\ cpu'[d].map = n => Pending(d)' \subseteq Own(n)'
  BY <1>1 DEF FramesOK
<1>3. FramesOK'
  BY <1>1, <1>2 DEF FramesOK
<1>4. RefsOK'
  BY <1>1 DEF RefsOK
<1> QED
  BY <1>3, <1>4

LEMMA RemoveMapStep ==
    ASSUME TranslationIInv, TranslationTypeOK', NEW c \in HwThreads, NEW m \in Maps, RemoveMap(c, m)
    PROVE  CallsOK' /\ MapsOK' /\ FramesOK' /\ RefsOK' /\ AsidsOK' /\ EntriesOK'
<1> DEFINE a == IF asid[m] >= 0 THEN "free_asid" ELSE "tables"
<1>0. TranslationTypeOK /\ CallsOK /\ MapsOK /\ FramesOK /\ RefsOK /\ AsidsOK /\ EntriesOK
  BY DEF TranslationIInv
<1>1. a \in {"free_asid", "tables"} /\ (a = "free_asid" <=> asid[m] # -1)
  BY <1>0 DEF TranslationTypeOK, Asids
<1>2. /\ cpu'[c].at = a /\ cpu'[c].map = m /\ cpu'[c].word = {} /\ cpu'[c].frames = << >>
      /\ cpu[c].at = "idle" /\ cpu[c].map = 0 /\ cpu[c].word = {} /\ cpu[c].frames = << >>
      /\ \A d \in HwThreads : d # c => cpu'[d] = cpu[d]
  <2>1. cpu' = [cpu EXCEPT ![c] = [NoCall EXCEPT !.at = a, !.map = m]] /\ cpu[c] = NoCall
    BY DEF RemoveMap
  <2>2. cpu'[c] = [NoCall EXCEPT !.at = a, !.map = m] /\ \A d \in HwThreads : d # c => cpu'[d] = cpu[d]
    BY <1>0, <2>1, OtherCalls
  <2> HIDE DEF a
  <2>3. cpu'[c].at = a /\ cpu'[c].map = m /\ cpu'[c].word = {} /\ cpu'[c].frames = << >>
    BY <2>2, NewCall
  <2> QED
    BY <2>1, <2>2, <2>3, NoCallFields
<1> HIDE DEF a
<1>3. /\ m \in map_list /\ map_list' = map_list \ {m}
      /\ \A d \in HwThreads : cpu[d].map # m
      /\ free_page_list' = free_page_list /\ ref_count' = ref_count
      /\ dir' = dir /\ dir_frame' = dir_frame /\ entry' = entry
      /\ kernel_dir' = kernel_dir /\ asid' = asid /\ asid_alloc' = asid_alloc
      /\ user_mapped' = user_mapped /\ kernel_mapped' = kernel_mapped /\ kernel_tables' = kernel_tables /\ raced' = raced
  BY DEF RemoveMap, Live, Busy, pageVars
<1>4. /\ Busy' \subseteq Busy \cup {m} /\ Busy \subseteq Busy' \cup {0} /\ m \in Busy'
      /\ Dropping' = Dropping /\ Identified' \subseteq Identified
  <2>1. Dropping' = Dropping
    BY <1>1, <1>2, <1>3 DEF Dropping
  <2>2. Identified' \subseteq Identified
    BY <1>1, <1>2, <1>3 DEF Identified
  <2> QED
    BY <1>2, <2>1, <2>2 DEF Busy
<1>5. \A n \in Maps : Own(n)' = Own(n) /\ Kept(n)' = Kept(n)
  BY <1>3, <1>4 DEF Own, UserTables, Kept
<1>6. \A d \in HwThreads :
        /\ cpu'[d].frames = cpu[d].frames
        /\ cpu'[d].at = "list" <=> cpu[d].at = "list"
        /\ cpu'[d].at \in {"drop", "list"} => cpu[d].at \in {"drop", "list"} /\ cpu'[d].map = cpu[d].map
        /\ cpu'[d].at = "create" => cpu[d].at = "create" /\ cpu'[d].map = cpu[d].map
        /\ cpu'[d].at = "clear" => cpu[d].at = "clear" /\ cpu'[d].word = cpu[d].word
  BY <1>1, <1>2
<1>7. CallsOK'
  BY <1>0, <1>1, <1>2, <1>3, TranslationAssumption DEF CallsOK
<1>8. MapsOK'
  <2>1. \A n \in Maps : n \notin map_list' \cup Busy' => dir'[n] = NoDir /\ dir_frame'[n] = 0
    BY <1>0, <1>3, <1>4, TranslationAssumption DEF MapsOK
  <2>2. \A n \in map_list' \cup (Busy' \ {0}) : dir_frame'[n] \in Frames
    BY <1>0, <1>3, <1>4 DEF MapsOK
  <2>3. \A d \in HwThreads : cpu'[d].at = "create" => dir'[cpu'[d].map] = NoDir
    BY <1>0, <1>3, <1>6 DEF MapsOK
  <2> QED
    BY <1>0, <1>3, <2>1, <2>2, <2>3 DEF MapsOK, NoDir
<1>9. FramesOK' /\ RefsOK'
  BY <1>0, <1>3, <1>5, <1>6, SameFrames
<1>10. AsidsOK'
  <2>1. \A d \in HwThreads : cpu'[d].at \in {"free_asid", "clear"} => asid'[cpu'[d].map] # -1
    BY <1>0, <1>1, <1>2, <1>3 DEF AsidsOK
  <2> QED
    BY <1>0, <1>3, <1>4, <1>6, <2>1 DEF AsidsOK
<1>11. EntriesOK'
  BY <1>0, <1>3 DEF EntriesOK
<1> QED
  BY <1>7, <1>8, <1>9, <1>10, <1>11

LEMMA InstallMapStep ==
    ASSUME TranslationIInv, TranslationTypeOK', NEW c \in HwThreads, InstallMap(c)
    PROVE  CallsOK' /\ MapsOK' /\ FramesOK' /\ RefsOK' /\ AsidsOK' /\ EntriesOK'
<1> DEFINE m == cpu[c].map
           b == bitmap_alloc
<1>0. TranslationTypeOK /\ CallsOK /\ MapsOK /\ FramesOK /\ RefsOK /\ AsidsOK /\ EntriesOK
  BY DEF TranslationIInv
<1>1. /\ cpu[c].at = "create" /\ m \in Maps /\ m # 0 /\ dir_frame[m] \in Frames /\ dir[m] = NoDir
      /\ m \notin map_list /\ m \in Busy
      /\ \A d \in HwThreads : d # c => cpu[d].map # m
      /\ cpu[c].word = {} /\ cpu[c].frames = << >>
  <2>1. cpu[c].at = "create"
    BY DEF InstallMap
  <2> QED
    BY <1>0, <2>1, CallMap, TranslationAssumption DEF CallsOK, MapsOK
<1>2. /\ cpu'[c].at = "idle" /\ cpu'[c].map = 0 /\ cpu'[c].word = {} /\ cpu'[c].frames = << >>
      /\ \A d \in HwThreads : d # c => cpu'[d] = cpu[d]
  <2>1. cpu' = [cpu EXCEPT ![c] = NoCall]
    BY DEF InstallMap
  <2> QED
    BY <1>0, <2>1, OtherCalls, NoCallFields
<1>3. /\ map_list' = map_list \cup {m}
      /\ free_page_list' = free_page_list /\ ref_count' = ref_count
      /\ dir_frame' = dir_frame /\ entry' = entry /\ kernel_dir' = kernel_dir /\ kernel_mapped' = kernel_mapped /\ kernel_tables' = kernel_tables
      /\ asid_alloc' = asid_alloc \cup ({b} \ {-1})
      /\ ~raced' => ~raced /\ \A d \in HwThreads : cpu[d].at # "clear"
  BY DEF InstallMap, pageVars
<1>4. /\ \A r \in UserRegions : dir'[m][r] = 0 /\ dir[m][r] = 0 /\ user_mapped'[m][r] = 0
      /\ \A r \in KernelRegions : dir'[m][r] = kernel_dir[r]
      /\ asid'[m] = b
      /\ \A n \in Maps : n # m => dir'[n] = dir[n] /\ user_mapped'[n] = user_mapped[n] /\ asid'[n] = asid[n]
  <2>1. /\ dir'[m] = KernelCopied(m) /\ asid'[m] = b /\ user_mapped'[m] = [r \in UserRegions |-> 0]
        /\ \A n \in Maps : n # m => dir'[n] = dir[n] /\ user_mapped'[n] = user_mapped[n] /\ asid'[n] = asid[n]
    BY <1>0, <1>1 DEF InstallMap, TranslationTypeOK
  <2>2. \A r \in UserRegions : KernelCopied(m)[r] = 0
    BY <1>1, TranslationAssumption DEF KernelCopied, Regions, NoDir
  <2>3. \A r \in KernelRegions : KernelCopied(m)[r] = kernel_dir[r]
    BY TranslationAssumption DEF KernelCopied, Regions
  <2> QED
    BY <1>1, <2>1, <2>2, <2>3 DEF NoDir, Regions
<1>5. b \in Asids \cup {-1} /\ b \notin asid_alloc
  BY <1>0, BitmapAlloc
<1> HIDE DEF m, b
<1>6. /\ Busy' \subseteq Busy \cup {0} /\ Busy \subseteq Busy' \cup {m}
      /\ Dropping' = Dropping /\ Identified' = Identified \cup {m} /\ m \notin Identified
  <2>1. Dropping' = Dropping
    BY <1>1, <1>2 DEF Dropping
  <2>2. Identified' = Identified \cup {m} /\ m \notin Identified
    BY <1>1, <1>2, <1>3 DEF Identified
  <2>3. Busy' \subseteq Busy \cup {0} /\ Busy \subseteq Busy' \cup {m}
    BY <1>2 DEF Busy, m
  <2> QED
    BY <2>1, <2>2, <2>3
<1>7. \A n \in Maps : Own(n)' = Own(n) /\ Kept(n)' = Kept(n)
  <2>1. \A n \in Maps, r \in UserRegions : dir'[n][r] = dir[n][r]
    BY <1>4
  <2>2. \A n \in Maps : UserTables(n)' = UserTables(n)
    BY <2>1 DEF UserTables
  <2> QED
    BY <1>3, <1>6, <2>2 DEF Own, Kept
<1>8. \A d \in HwThreads :
        /\ cpu'[d].frames = cpu[d].frames
        /\ cpu'[d].at = "list" <=> cpu[d].at = "list"
        /\ cpu'[d].at \in {"drop", "list"} => cpu[d].at \in {"drop", "list"} /\ cpu'[d].map = cpu[d].map
  BY <1>1, <1>2
<1>9. CallsOK'
  <2>1. 0 \notin map_list'
    BY <1>0, <1>1, <1>3, TranslationAssumption DEF TranslationTypeOK
  <2> QED
    BY <1>0, <1>1, <1>2, <1>3, <2>1 DEF CallsOK
<1>10. MapsOK'
  <2>1. \A n \in Maps : n \notin map_list' \cup Busy' => dir'[n] = NoDir /\ dir_frame'[n] = 0
    BY <1>0, <1>3, <1>4, <1>6 DEF MapsOK
  <2>2. \A n \in map_list' \cup (Busy' \ {0}) : dir_frame'[n] \in Frames
    BY <1>0, <1>1, <1>3, <1>6 DEF MapsOK
  <2>3. \A d \in HwThreads : cpu'[d].at = "create" => dir'[cpu'[d].map] = NoDir
    <3> SUFFICES ASSUME NEW d \in HwThreads, cpu'[d].at = "create" PROVE dir'[cpu'[d].map] = NoDir
      OBVIOUS
    <3>1. d # c /\ cpu'[d] = cpu[d] /\ cpu[d].at # "idle"
      BY <1>2
    <3>2. cpu[d].map \in Maps /\ cpu[d].map # m
      BY <1>0, <1>1, <3>1, CallMap
    <3> QED
      BY <1>0, <1>4, <3>1, <3>2 DEF MapsOK
  <2>4. \A n \in map_list' : \A r \in BootRegions : dir'[n][r] = kernel_dir'[r]
    <3>1. \A n \in map_list : n \in Maps /\ n # m
      BY <1>0, <1>1 DEF TranslationTypeOK
    <3> QED
      BY <1>0, <1>3, <1>4, <3>1, TranslationAssumption DEF MapsOK
  <2>l. \A n \in map_list' : \A r \in LateRegions : dir'[n][r] \in kernel_tables' \cup {0}
    <3>1. \A n \in map_list : n \in Maps /\ n # m
      BY <1>0, <1>1 DEF TranslationTypeOK
    <3>2. \A r \in LateRegions : dir'[m][r] = 0
      BY <1>0, <1>4 DEF LateRegions, TranslationTypeOK
    <3> QED
      BY <1>0, <1>3, <1>4, <3>1, <3>2 DEF MapsOK
  <2>5. \A n \in Maps :
         /\ \A r \in UserRegions : dir'[n][r] = dir[n][r]
         /\ dir_frame'[n] = dir_frame[n]
    BY <1>3, <1>4
  <2>6. \A n \in Maps :
         /\ \A r \in UserRegions : dir'[n][r] \in Frames \cup {0}
         /\ \A r, q \in UserRegions : r # q /\ dir'[n][r] = dir'[n][q] => dir'[n][r] = 0
         /\ \A r \in UserRegions : dir'[n][r] # 0 => dir'[n][r] # dir_frame'[n]
    BY <1>0, <2>5 DEF MapsOK
  <2> QED
    BY <2>1, <2>2, <2>3, <2>4, <2>6, <2>l DEF MapsOK, NoDir
<1>11. FramesOK' /\ RefsOK'
  BY <1>0, <1>3, <1>7, <1>8, SameFrames
<1>12. AsidsOK'
  <2>1. \A d \in HwThreads : cpu'[d].at \in {"free_asid", "clear"} => asid'[cpu'[d].map] # -1
    <3> SUFFICES ASSUME NEW d \in HwThreads, cpu'[d].at \in {"free_asid", "clear"}
                 PROVE  asid'[cpu'[d].map] # -1
      OBVIOUS
    <3>1. d # c /\ cpu'[d] = cpu[d] /\ cpu[d].at # "idle"
      BY <1>2
    <3>2. cpu[d].map \in Maps /\ cpu[d].map # m
      BY <1>0, <1>1, <3>1, CallMap
    <3> QED
      BY <1>0, <1>4, <3>1, <3>2 DEF AsidsOK
  <2>2. Identified \subseteq Maps
    BY <1>0, CallMap DEF Identified, TranslationTypeOK
  <2>3. \A d \in HwThreads : ~raced' => cpu'[d].at # "clear"
    BY <1>2, <1>3
  <2>4. ASSUME ~raced' PROVE \A n \in Identified' : asid'[n] \in asid_alloc' \cup {-1}
    BY <1>0, <1>3, <1>4, <1>6, <2>2, <2>4 DEF AsidsOK
  <2>5. ASSUME ~raced', NEW n \in Identified', NEW k \in Identified', n # k, asid'[n] # -1
        PROVE  asid'[n] # asid'[k]
    BY <1>0, <1>3, <1>4, <1>5, <1>6, <2>2, <2>5 DEF AsidsOK
  <2> QED
    BY <2>1, <2>3, <2>4, <2>5 DEF AsidsOK
<1>13. EntriesOK'
  <2>1. \A n \in map_list', r \in UserRegions :
          user_mapped'[n][r] = IF dir'[n][r] = 0 THEN 0 ELSE entry'[dir'[n][r]]
    BY <1>0, <1>3, <1>4 DEF EntriesOK, TranslationTypeOK
  <2> QED
    <3>1. \A n \in map_list : n \in Maps /\ n # m
      BY <1>0, <1>1 DEF TranslationTypeOK
    <3>2. \A r \in LateRegions : dir'[m][r] = 0
      BY <1>0, <1>4 DEF LateRegions, TranslationTypeOK
    <3>3. \A n \in map_list', r \in LateRegions : dir'[n][r] # 0 => entry'[dir'[n][r]] = kernel_mapped'[r]
      BY <1>0, <1>3, <1>4, <3>1, <3>2 DEF EntriesOK
    <3> QED
      BY <1>0, <1>3, <2>1, <3>3 DEF EntriesOK
<1> QED
  BY <1>9, <1>10, <1>11, <1>12, <1>13

\* bitmap_free's two steps change only the bitmap and the call.
LEMMA BitmapStep ==
    ASSUME TranslationIInv, TranslationTypeOK', NEW c \in HwThreads, ReadBitmap(c) \/ WriteBitmap(c)
    PROVE  /\ CallsOK' /\ MapsOK' /\ FramesOK' /\ RefsOK' /\ EntriesOK'
           /\ cpu'[c].map = cpu[c].map
           /\ ReadBitmap(c) => cpu'[c].at = "clear" /\ cpu'[c].word = asid_alloc
           /\ WriteBitmap(c) => cpu'[c].at = "tables"
           /\ \A d \in HwThreads : d # c => cpu'[d] = cpu[d]
<1>0. TranslationTypeOK /\ CallsOK /\ MapsOK /\ FramesOK /\ RefsOK /\ AsidsOK /\ EntriesOK
  BY DEF TranslationIInv
<1>1. /\ cpu'[c].map = cpu[c].map /\ cpu'[c].frames = cpu[c].frames
      /\ ReadBitmap(c) => cpu'[c].at = "clear" /\ cpu'[c].word = asid_alloc
      /\ WriteBitmap(c) => cpu'[c].at = "tables" /\ cpu'[c].word = {}
      /\ \A d \in HwThreads : d # c => cpu'[d] = cpu[d]
  <2>1. cpu[c] \in Calls
    BY <1>0, CallType
  <2> QED
    BY <1>0, <2>1 DEF ReadBitmap, WriteBitmap, TranslationTypeOK, Calls
<1>2. cpu[c].at \in {"free_asid", "clear"} /\ cpu'[c].at \in {"clear", "tables"} /\ cpu[c].frames = << >>
  BY <1>0, <1>1 DEF ReadBitmap, WriteBitmap, CallsOK
<1>3. /\ map_list' = map_list
      /\ free_page_list' = free_page_list /\ ref_count' = ref_count
      /\ dir' = dir /\ dir_frame' = dir_frame /\ entry' = entry
      /\ kernel_dir' = kernel_dir /\ user_mapped' = user_mapped /\ kernel_mapped' = kernel_mapped /\ kernel_tables' = kernel_tables
  BY DEF ReadBitmap, WriteBitmap, pageVars, mapVars
<1>4. \A d \in HwThreads :
        /\ cpu'[d].map = cpu[d].map /\ cpu'[d].frames = cpu[d].frames
        /\ cpu'[d].at = "list" <=> cpu[d].at = "list"
        /\ cpu'[d].at = "drop" <=> cpu[d].at = "drop"
        /\ cpu'[d].at = "create" => cpu[d].at = "create"
  BY <1>1, <1>2
<1>5. Busy' = Busy /\ Dropping' = Dropping
  <2>1. Busy' = Busy
    BY <1>4 DEF Busy
  <2>2. Dropping' = Dropping
    BY <1>4 DEF Dropping
  <2> QED
    BY <2>1, <2>2
<1>6. \A n \in Maps : Own(n)' = Own(n) /\ Kept(n)' = Kept(n)
  BY <1>3, <1>5 DEF Own, UserTables, Kept
<1>7. CallsOK'
  BY <1>0, <1>1, <1>2, <1>3, <1>4 DEF CallsOK, ReadBitmap, WriteBitmap
<1>8. MapsOK'
  BY <1>0, <1>3, <1>4, <1>5 DEF MapsOK, NoDir
<1>9. FramesOK' /\ RefsOK'
  BY <1>0, <1>3, <1>4, <1>6, SameFrames
<1>10. EntriesOK'
  BY <1>0, <1>3 DEF EntriesOK
<1> QED
  BY <1>1, <1>7, <1>8, <1>9, <1>10

LEMMA ReadBitmapStep ==
    ASSUME TranslationIInv, TranslationTypeOK', NEW c \in HwThreads, ReadBitmap(c)
    PROVE  AsidsOK'
<1>0. AsidsOK
  BY DEF TranslationIInv
<1>1. /\ cpu[c].at = "free_asid"
      /\ cpu'[c].map = cpu[c].map /\ cpu'[c].at = "clear" /\ cpu'[c].word = asid_alloc
      /\ \A d \in HwThreads : d # c => cpu'[d] = cpu[d]
  BY BitmapStep DEF ReadBitmap
<1>2. /\ map_list' = map_list /\ asid' = asid /\ asid_alloc' = asid_alloc
      /\ ~raced' => ~raced /\ \A d \in HwThreads : cpu[d].at # "clear"
  BY DEF ReadBitmap, mapVars
<1>3. Identified' = Identified
  BY <1>1, <1>2 DEF Identified
<1> QED
  BY <1>0, <1>1, <1>2, <1>3 DEF AsidsOK

LEMMA WriteBitmapStep ==
    ASSUME TranslationIInv, TranslationTypeOK', NEW c \in HwThreads, WriteBitmap(c)
    PROVE  AsidsOK'
<1> DEFINE m == cpu[c].map
<1>0. TranslationTypeOK /\ CallsOK /\ AsidsOK
  BY DEF TranslationIInv
<1>1. /\ cpu[c].at = "clear"
      /\ cpu'[c].at = "tables" /\ cpu'[c].map = m
      /\ \A d \in HwThreads : d # c => cpu'[d] = cpu[d]
  BY BitmapStep DEF WriteBitmap
<1>2. /\ map_list' = map_list /\ asid' = asid /\ asid_alloc' = cpu[c].word \ {asid[m]} /\ raced' = raced
  BY DEF WriteBitmap, mapVars
<1>3. m # 0 /\ m \notin map_list /\ asid[m] # -1 /\ \A d \in HwThreads : d # c => cpu[d].map # m
  BY <1>0, <1>1 DEF CallsOK, AsidsOK
<1> HIDE DEF m
<1>4. Identified' = Identified \ {m} /\ m \in Identified
  <2>1. m \in Identified
    BY <1>1 DEF Identified, m
  <2> QED
    BY <1>1, <1>2, <1>3, <2>1 DEF Identified, m
<1>5. \A d \in HwThreads : cpu'[d].at \in {"free_asid", "clear"} => asid'[cpu'[d].map] # -1
  BY <1>0, <1>1, <1>2 DEF AsidsOK
<1>6. ASSUME ~raced' PROVE \A d \in HwThreads : cpu'[d].at # "clear"
  BY <1>0, <1>1, <1>2, <1>6 DEF AsidsOK
<1>7. ASSUME ~raced' PROVE asid_alloc' = asid_alloc \ {asid[m]}
  BY <1>0, <1>1, <1>2, <1>7 DEF AsidsOK
<1>8. ASSUME ~raced', NEW n \in Identified' PROVE asid'[n] \in asid_alloc' \cup {-1}
  BY <1>0, <1>2, <1>3, <1>4, <1>7, <1>8 DEF AsidsOK
<1>9. ASSUME ~raced', NEW n \in Identified', NEW k \in Identified', n # k, asid'[n] # -1
      PROVE  asid'[n] # asid'[k]
  BY <1>0, <1>2, <1>4, <1>9 DEF AsidsOK
<1> QED
  BY <1>5, <1>6, <1>8, <1>9 DEF AsidsOK

LEMMA FindTablesStep ==
    ASSUME TranslationIInv, TranslationTypeOK', NEW c \in HwThreads, FindTables(c)
    PROVE  CallsOK' /\ MapsOK' /\ FramesOK' /\ RefsOK' /\ AsidsOK' /\ EntriesOK'
<1>0. TranslationTypeOK /\ CallsOK /\ MapsOK /\ FramesOK /\ RefsOK /\ AsidsOK /\ EntriesOK
  BY DEF TranslationIInv
<1>m. PICK m \in Maps : m = cpu[c].map
  BY <1>0, CallMap DEF FindTables
<1>1. /\ cpu[c].at = "tables" /\ m # 0 /\ dir_frame[m] \in Frames
      /\ \A d \in HwThreads : d # c => cpu[d].map # m
      /\ cpu[c].word = {} /\ cpu[c].frames = << >>
  <2>1. cpu[c].at = "tables"
    BY DEF FindTables
  <2> QED
    BY <1>0, <1>m, <2>1, CallMap, TranslationAssumption DEF CallsOK
<1> DEFINE s == Append(SetToSeq(UserTables(m)), dir_frame[m])
<1>2. s \in Seq(Frames) /\ s # << >> /\ IsInjective(s) /\ ToSet(s) = Own(m)
  BY <1>0, <1>1, DropList
<1>3. /\ cpu'[c].at = "drop" /\ cpu'[c].map = m /\ cpu'[c].word = {} /\ cpu'[c].frames = s
      /\ \A d \in HwThreads : d # c => cpu'[d] = cpu[d]
  <2>1. cpu[c] \in Calls /\ cpu' = [cpu EXCEPT ![c].at = "drop", ![c].frames = s]
    BY <1>0, <1>m, CallType DEF FindTables
  <2> HIDE DEF s
  <2> QED
    BY <1>0, <1>1, <1>m, <2>1 DEF TranslationTypeOK, Calls
<1>4. /\ map_list' = map_list
      /\ free_page_list' = free_page_list /\ ref_count' = ref_count
      /\ dir' = dir /\ dir_frame' = dir_frame /\ entry' = entry
      /\ kernel_dir' = kernel_dir /\ asid' = asid /\ asid_alloc' = asid_alloc
      /\ user_mapped' = user_mapped /\ kernel_mapped' = kernel_mapped /\ kernel_tables' = kernel_tables /\ raced' = raced
  BY DEF FindTables, pageVars, mapVars
<1> HIDE DEF s
<1>5. \A d \in HwThreads :
        /\ cpu'[d].map = cpu[d].map /\ cpu'[d].word = cpu[d].word
        /\ cpu'[d].at = "create" <=> cpu[d].at = "create"
        /\ cpu'[d].at \in {"free_asid", "clear"} <=> cpu[d].at \in {"free_asid", "clear"}
        /\ cpu'[d].at = "clear" <=> cpu[d].at = "clear"
  BY <1>1, <1>3, <1>m
<1>6. /\ Busy' = Busy /\ Identified' = Identified
      /\ Dropping' = Dropping \cup {m} /\ m \notin Dropping
  <2>1. Busy' = Busy
    BY <1>5 DEF Busy
  <2>2. Identified' = Identified
    BY <1>4, <1>5 DEF Identified
  <2>3. Dropping' = Dropping \cup {m} /\ m \notin Dropping
    BY <1>1, <1>3, <1>m DEF Dropping
  <2> QED
    BY <2>1, <2>2, <2>3
<1>7. /\ \A n \in Maps : Own(n)' = Own(n)
      /\ Kept(m) = Own(m) /\ Kept(m)' = {}
      /\ \A n \in Maps : n # m => Kept(n)' = Kept(n)
  BY <1>1, <1>4, <1>6 DEF Own, UserTables, Kept
<1>8. /\ Pending(c) = {} /\ Pending(c)' = Own(m) /\ Freed' = Freed
      /\ \A d \in HwThreads : d # c => Pending(d)' = Pending(d)
  BY <1>1, <1>2, <1>3, <1>4 DEF Pending, Freed, ToSet
<1>9. CallsOK'
  BY <1>0, <1>1, <1>3, <1>4, <1>5, <1>m DEF CallsOK
<1>10. MapsOK'
  BY <1>0, <1>4, <1>5, <1>6 DEF MapsOK, NoDir
<1>11. FramesOK'
  <2>1. /\ \A d \in HwThreads : IsInjective(cpu'[d].frames)
        /\ \A d \in HwThreads, n \in Maps :
             cpu'[d].at \in {"drop", "list"} /\ cpu'[d].map = n => Pending(d)' \subseteq Own(n)'
    BY <1>0, <1>2, <1>3, <1>7, <1>8 DEF FramesOK
  <2>2. /\ \A n, k \in Maps : n # k => Kept(n)' \cap Kept(k)' = {}
        /\ \A n \in Maps, d \in HwThreads : Kept(n)' \cap Pending(d)' = {}
        /\ \A n \in Maps : Kept(n)' \cap Freed' = {} /\ Kept(n)' \cap kernel_tables' = {}
    BY <1>0, <1>1, <1>4, <1>7, <1>8 DEF FramesOK
  <2>3. /\ \A d, e \in HwThreads : d # e => Pending(d)' \cap Pending(e)' = {}
        /\ \A d \in HwThreads : Pending(d)' \cap Freed' = {} /\ Pending(d)' \cap kernel_tables' = {}
        /\ Freed' \cap kernel_tables' = {}
    BY <1>0, <1>1, <1>4, <1>7, <1>8 DEF FramesOK
  <2>4. \A g \in Frames :
          g \in Freed' \/ g \in kernel_tables' \/ (\E n \in Maps : g \in Kept(n)') \/ (\E d \in HwThreads : g \in Pending(d)')
    BY <1>0, <1>1, <1>4, <1>7, <1>8 DEF FramesOK
  <2> QED
    BY <1>0, <1>4, <2>1, <2>2, <2>3, <2>4 DEF FramesOK
<1>12. RefsOK'
  <2>1. \A n \in Maps : \A g \in Kept(n)' : ref_count'[g] = 1
    BY <1>0, <1>4, <1>7 DEF RefsOK
  <2>2. \A d \in HwThreads : \A i \in DOMAIN cpu'[d].frames :
          ref_count'[cpu'[d].frames[i]] = IF i = 1 /\ cpu'[d].at = "list" THEN 0 ELSE 1
    <3> TAKE d \in HwThreads
    <3> TAKE i \in DOMAIN cpu'[d].frames
    <3>1. CASE d = c
      <4>1. s[i] \in Kept(m)
        BY <1>2, <1>3, <1>7, <3>1 DEF ToSet
      <4> QED
        BY <1>0, <1>1, <1>3, <1>4, <3>1, <4>1 DEF RefsOK
    <3>2. CASE d # c
      BY <1>0, <1>3, <1>4, <3>2 DEF RefsOK
    <3> QED
      BY <3>1, <3>2
  <2> QED
    BY <1>0, <1>4, <1>8, <2>1, <2>2 DEF RefsOK
<1>13. AsidsOK'
  BY <1>0, <1>4, <1>5, <1>6 DEF AsidsOK
<1>14. EntriesOK'
  BY <1>0, <1>4 DEF EntriesOK
<1> QED
  BY <1>9, <1>10, <1>11, <1>12, <1>13, <1>14

\* dec_page_ref moves one frame from a call to the free list, in two steps
\* that leave the maps alone.
LEMMA DecPageRef ==
    ASSUME TranslationIInv, TranslationTypeOK', NEW c \in HwThreads, DropRef(c) \/ FreePage(c)
    PROVE  /\ CallsOK' /\ MapsOK' /\ AsidsOK' /\ EntriesOK'
           /\ cpu[c].frames \in Seq(Frames) /\ cpu[c].frames # << >>
           /\ \A n \in Maps : Own(n)' = Own(n) /\ Kept(n)' = Kept(n)
           /\ DropRef(c) =>
                /\ cpu'[c].at = "list" /\ cpu'[c].frames = cpu[c].frames
                /\ ref_count' = [ref_count EXCEPT ![Head(cpu[c].frames)] = 0]
           /\ FreePage(c) => cpu'[c].at = "drop" /\ cpu'[c].frames = Tail(cpu[c].frames)
           /\ \A d \in HwThreads : d # c => cpu'[d] = cpu[d]
           /\ \A d \in HwThreads : cpu'[d].map = cpu[d].map
           /\ \A d \in HwThreads : cpu'[d].at \in {"drop", "list"} <=> cpu[d].at \in {"drop", "list"}
<1>0. TranslationTypeOK /\ CallsOK /\ MapsOK /\ FramesOK /\ RefsOK /\ AsidsOK /\ EntriesOK
  BY DEF TranslationIInv
<1>1. cpu[c] \in Calls /\ cpu[c].frames \in Seq(Frames) /\ cpu[c].frames # << >> /\ cpu[c].at \in {"drop", "list"}
  BY <1>0, CallType DEF DropRef, FreePage, CallsOK
<1>2. ASSUME DropRef(c)
      PROVE  /\ ref_count' = [ref_count EXCEPT ![Head(cpu[c].frames)] = 0]
             /\ cpu' = [cpu EXCEPT ![c].at = "list"]
  <2> DEFINE f == Head(cpu[c].frames)
  <2>1. f \in Frames /\ f = cpu[c].frames[1] /\ 1 \in DOMAIN cpu[c].frames
    BY <1>1
  <2>2. ref_count[f] = 1
    BY <1>0, <1>2, <2>1 DEF DropRef, RefsOK
  <2> HIDE DEF f
  <2> QED
    BY <1>0, <1>2, <2>1, <2>2 DEF DropRef, TranslationTypeOK, f
<1>3. FreePage(c) => cpu' = [cpu EXCEPT ![c].at = "drop", ![c].frames = Tail(@)]
  BY DEF FreePage
<1>4. /\ cpu'[c].map = cpu[c].map /\ cpu'[c].word = cpu[c].word
      /\ DropRef(c) => cpu'[c].at = "list" /\ cpu'[c].frames = cpu[c].frames
      /\ FreePage(c) => cpu'[c].at = "drop" /\ cpu'[c].frames = Tail(cpu[c].frames)
      /\ \A d \in HwThreads : d # c => cpu'[d] = cpu[d]
  BY <1>0, <1>1, <1>2, <1>3 DEF TranslationTypeOK, Calls
<1>5. /\ map_list' = map_list
      /\ dir' = dir /\ dir_frame' = dir_frame /\ entry' = entry
      /\ kernel_dir' = kernel_dir /\ asid' = asid /\ asid_alloc' = asid_alloc
      /\ user_mapped' = user_mapped /\ kernel_mapped' = kernel_mapped /\ kernel_tables' = kernel_tables /\ raced' = raced
  BY DEF DropRef, FreePage, mapVars
<1>6. \A d \in HwThreads :
        /\ cpu'[d].map = cpu[d].map /\ cpu'[d].word = cpu[d].word
        /\ cpu'[d].at \in {"drop", "list"} <=> cpu[d].at \in {"drop", "list"}
        /\ cpu'[d].at = "create" <=> cpu[d].at = "create"
        /\ cpu'[d].at \in {"free_asid", "clear"} <=> cpu[d].at \in {"free_asid", "clear"}
        /\ cpu'[d].at = "clear" <=> cpu[d].at = "clear"
        /\ cpu'[d].at = "idle" <=> cpu[d].at = "idle"
  BY <1>1, <1>4
<1>7. Busy' = Busy /\ Identified' = Identified /\ Dropping' = Dropping
  <2>1. Busy' = Busy
    BY <1>6 DEF Busy
  <2>2. Identified' = Identified
    BY <1>5, <1>6 DEF Identified
  <2>3. Dropping' = Dropping
    BY <1>6 DEF Dropping
  <2> QED
    BY <2>1, <2>2, <2>3
<1>8. \A n \in Maps : Own(n)' = Own(n) /\ Kept(n)' = Kept(n)
  BY <1>5, <1>7 DEF Own, UserTables, Kept
<1>9. CallsOK'
  BY <1>0, <1>1, <1>4, <1>5, <1>6 DEF CallsOK
<1>10. MapsOK'
  BY <1>0, <1>5, <1>6, <1>7 DEF MapsOK, NoDir
<1>11. AsidsOK'
  BY <1>0, <1>5, <1>6, <1>7 DEF AsidsOK
<1>12. EntriesOK'
  BY <1>0, <1>5 DEF EntriesOK
<1> QED
  BY <1>1, <1>2, <1>4, <1>6, <1>8, <1>9, <1>10, <1>11, <1>12

LEMMA DropRefStep ==
    ASSUME TranslationIInv, TranslationTypeOK', NEW c \in HwThreads, DropRef(c)
    PROVE  FramesOK' /\ RefsOK'
<1> DEFINE s == cpu[c].frames
           f == Head(s)
<1>0. TranslationTypeOK /\ CallsOK /\ FramesOK /\ RefsOK
  BY DEF TranslationIInv
<1>1. /\ s \in Seq(Frames) /\ s # << >> /\ cpu[c].at = "drop"
      /\ \A n \in Maps : Own(n)' = Own(n) /\ Kept(n)' = Kept(n)
      /\ cpu'[c].at = "list" /\ cpu'[c].frames = s
      /\ ref_count' = [ref_count EXCEPT ![f] = 0] /\ free_page_list' = free_page_list
      /\ kernel_tables' = kernel_tables
      /\ \A d \in HwThreads : d # c => cpu'[d] = cpu[d]
      /\ \A d \in HwThreads : cpu'[d].map = cpu[d].map /\ cpu'[d].frames = cpu[d].frames
      /\ \A d \in HwThreads : cpu'[d].at \in {"drop", "list"} <=> cpu[d].at \in {"drop", "list"}
  BY DecPageRef DEF DropRef
<1>2. f = s[1] /\ 1 \in DOMAIN s /\ f \in Frames /\ f \in Pending(c) /\ IsInjective(s)
  BY <1>0, <1>1 DEF Pending, ToSet, FramesOK
<1> HIDE DEF s, f
<1>3. Freed' = Freed /\ \A d \in HwThreads : Pending(d)' = Pending(d)
  BY <1>1 DEF Freed, Pending
<1>4. FramesOK'
  <2>1. \A d \in HwThreads, n \in Maps :
          cpu'[d].at \in {"drop", "list"} /\ cpu'[d].map = n => Pending(d)' \subseteq Own(n)'
    BY <1>0, <1>1, <1>3 DEF FramesOK
  <2> QED
    BY <1>0, <1>1, <1>3, <2>1 DEF FramesOK
<1>5. ref_count'[f] = 0 /\ \A g \in Frames : g # f => ref_count'[g] = ref_count[g]
  BY <1>0, <1>1, <1>2 DEF TranslationTypeOK
<1>6. RefsOK'
  <2>1. \A g \in Freed' : ref_count'[g] = 0
    BY <1>0, <1>3, <1>5, <1>1 DEF RefsOK, Freed, TranslationTypeOK, ToSet
  <2>2. \A n \in Maps : \A g \in Kept(n)' : ref_count'[g] = 1
    BY <1>0, <1>1, <1>2, <1>5, KeptFrames DEF RefsOK, FramesOK
  <2>3. \A d \in HwThreads : \A i \in DOMAIN cpu'[d].frames :
          ref_count'[cpu'[d].frames[i]] = IF i = 1 /\ cpu'[d].at = "list" THEN 0 ELSE 1
    <3> TAKE d \in HwThreads
    <3> TAKE i \in DOMAIN cpu'[d].frames
    <3>1. /\ i \in DOMAIN cpu[d].frames
          /\ cpu[d].frames[i] \in Pending(d) /\ cpu[d].frames[i] \in Frames
      BY <1>0, <1>1, CallType DEF Pending, ToSet
    <3>2. CASE d = c /\ i = 1
      BY <1>1, <1>2, <1>5, <3>2
    <3>3. CASE d = c /\ i # 1
      <4>1. s[i] # f /\ s[i] \in Frames /\ ref_count[s[i]] = 1
        BY <1>0, <1>2, <3>1, <3>3 DEF IsInjective, RefsOK, s
      <4> QED
        BY <1>1, <1>5, <3>3, <4>1
    <3>4. CASE d # c
      <4>1. cpu[d].frames[i] # f
        BY <1>0, <1>2, <3>1, <3>4 DEF FramesOK
      <4> QED
        BY <1>0, <1>1, <1>5, <3>1, <3>4, <4>1 DEF RefsOK
    <3> QED
      BY <3>2, <3>3, <3>4
  <2> QED
    BY <2>1, <2>2, <2>3 DEF RefsOK
<1> QED
  BY <1>4, <1>6

LEMMA FreePageStep ==
    ASSUME TranslationIInv, TranslationTypeOK', NEW c \in HwThreads, FreePage(c)
    PROVE  FramesOK' /\ RefsOK'
<1> DEFINE s == cpu[c].frames
           f == Head(s)
<1>0. TranslationTypeOK /\ CallsOK /\ FramesOK /\ RefsOK
  BY DEF TranslationIInv
<1>1. /\ s \in Seq(Frames) /\ s # << >> /\ cpu[c].at = "list"
      /\ \A n \in Maps : Own(n)' = Own(n) /\ Kept(n)' = Kept(n)
      /\ cpu'[c].at = "drop" /\ cpu'[c].frames = Tail(s)
      /\ ref_count' = ref_count /\ free_page_list' = << f >> \o free_page_list
      /\ kernel_tables' = kernel_tables
      /\ \A d \in HwThreads : d # c => cpu'[d] = cpu[d]
      /\ \A d \in HwThreads : cpu'[d].map = cpu[d].map
      /\ \A d \in HwThreads : cpu'[d].at \in {"drop", "list"} <=> cpu[d].at \in {"drop", "list"}
  BY DecPageRef DEF FreePage
<1>2. f = s[1] /\ 1 \in DOMAIN s /\ f \in Frames /\ f \in Pending(c) /\ IsInjective(s)
  BY <1>0, <1>1 DEF Pending, ToSet, FramesOK
<1>3. IsInjective(Tail(s)) /\ ToSet(Tail(s)) = Pending(c) \ {f}
  BY <1>1, <1>2, TailQueue, ToSetIsRange DEF Pending
<1>4. IsInjective(free_page_list') /\ Freed' = Freed \cup {f}
  <2>1. f \notin Freed /\ IsInjective(free_page_list) /\ free_page_list \in Seq(Frames)
    BY <1>0, <1>2 DEF FramesOK, TranslationTypeOK
  <2> QED
    BY <1>1, <1>2, <2>1, PushQueue DEF Freed
<1>5. \A i \in DOMAIN Tail(s) : i + 1 \in DOMAIN s /\ i + 1 # 1 /\ Tail(s)[i] = s[i + 1]
  BY <1>1
<1> HIDE DEF s, f
<1>6. /\ Pending(c)' = Pending(c) \ {f}
      /\ \A d \in HwThreads : d # c => Pending(d)' = Pending(d)
  BY <1>1, <1>3 DEF Pending
<1>7. FramesOK'
  <2>1. \A d \in HwThreads :
          /\ IsInjective(cpu'[d].frames)
          /\ \A n \in Maps :
               cpu'[d].at \in {"drop", "list"} /\ cpu'[d].map = n => Pending(d)' \subseteq Own(n)'
    <3> TAKE d \in HwThreads
    <3>1. Pending(d)' \subseteq Pending(d)
      BY <1>6
    <3>2. IsInjective(cpu'[d].frames)
      BY <1>0, <1>1, <1>3 DEF FramesOK
    <3> QED
      BY <1>0, <1>1, <3>1, <3>2 DEF FramesOK
  <2>2. /\ \A n, k \in Maps : n # k => Kept(n)' \cap Kept(k)' = {}
        /\ \A n \in Maps, d \in HwThreads : Kept(n)' \cap Pending(d)' = {}
        /\ \A n \in Maps : Kept(n)' \cap Freed' = {} /\ Kept(n)' \cap kernel_tables' = {}
    <3>1. \A n, k \in Maps : n # k => Kept(n)' \cap Kept(k)' = {}
      BY <1>0, <1>1 DEF FramesOK
    <3>2. \A n \in Maps, d \in HwThreads : Kept(n)' \cap Pending(d)' = {}
      BY <1>0, <1>1, <1>6 DEF FramesOK
    <3>3. \A n \in Maps : Kept(n)' \cap Freed' = {} /\ Kept(n)' \cap kernel_tables' = {}
      BY <1>0, <1>1, <1>2, <1>4 DEF FramesOK
    <3> QED
      BY <3>1, <3>2, <3>3
  <2>3. /\ \A d, e \in HwThreads : d # e => Pending(d)' \cap Pending(e)' = {}
        /\ \A d \in HwThreads : Pending(d)' \cap Freed' = {} /\ Pending(d)' \cap kernel_tables' = {}
        /\ Freed' \cap kernel_tables' = {}
    <3>1. Freed' \cap kernel_tables' = {}
      BY <1>0, <1>1, <1>2, <1>4 DEF FramesOK
    <3>2. \A d \in HwThreads : Pending(d)' \subseteq Pending(d) /\ f \notin Pending(d)'
      BY <1>0, <1>2, <1>6 DEF FramesOK
    <3>3. \A d \in HwThreads : Pending(d)' \cap Freed' = {} /\ Pending(d)' \cap kernel_tables' = {}
      BY <1>0, <1>1, <1>4, <3>2 DEF FramesOK
    <3> QED
      BY <1>0, <3>1, <3>2, <3>3 DEF FramesOK
  <2>4. \A g \in Frames :
          g \in Freed' \/ g \in kernel_tables' \/ (\E n \in Maps : g \in Kept(n)') \/ (\E d \in HwThreads : g \in Pending(d)')
    <3>1. \A d \in HwThreads : Pending(d) \subseteq Pending(d)' \cup {f}
      BY <1>6
    <3> QED
      BY <1>0, <1>1, <1>4, <3>1 DEF FramesOK
  <2> QED
    BY <1>4, <2>1, <2>2, <2>3, <2>4 DEF FramesOK
<1>8. RefsOK'
  <2>1. \A g \in Freed' : ref_count'[g] = 0
    BY <1>0, <1>1, <1>2, <1>4 DEF RefsOK, s
  <2>2. \A n \in Maps : \A g \in Kept(n)' : ref_count'[g] = 1
    BY <1>0, <1>1 DEF RefsOK
  <2>3. \A d \in HwThreads : \A i \in DOMAIN cpu'[d].frames :
          ref_count'[cpu'[d].frames[i]] = IF i = 1 /\ cpu'[d].at = "list" THEN 0 ELSE 1
    <3>1. \A i \in DOMAIN s : i # 1 => ref_count[s[i]] = 1
      BY <1>0 DEF RefsOK, s
    <3>2. \A i \in DOMAIN Tail(s) : ref_count[Tail(s)[i]] = 1
      BY <1>5, <3>1
    <3> TAKE d \in HwThreads
    <3>3. CASE d = c
      BY <1>1, <3>2, <3>3
    <3>4. CASE d # c
      BY <1>0, <1>1, <3>4 DEF RefsOK
    <3> QED
      BY <3>3, <3>4
  <2> QED
    BY <2>1, <2>2, <2>3 DEF RefsOK
<1> QED
  BY <1>7, <1>8

LEMMA FreeMapStep ==
    ASSUME TranslationIInv, TranslationTypeOK', NEW c \in HwThreads, FreeMap(c)
    PROVE  CallsOK' /\ MapsOK' /\ FramesOK' /\ RefsOK' /\ AsidsOK' /\ EntriesOK'
<1>0. TranslationTypeOK /\ CallsOK /\ MapsOK /\ FramesOK /\ RefsOK /\ AsidsOK /\ EntriesOK
  BY DEF TranslationIInv
<1>m. PICK m \in Maps : m = cpu[c].map
  BY <1>0, CallMap DEF FreeMap
<1>1. /\ cpu[c].at = "drop" /\ m # 0 /\ m \notin map_list
      /\ \A d \in HwThreads : d # c => cpu[d].map # m
      /\ cpu[c].word = {} /\ cpu[c].frames = << >>
  <2>1. cpu[c].at = "drop" /\ cpu[c].frames = << >>
    BY DEF FreeMap
  <2> QED
    BY <1>0, <1>m, <2>1, TranslationAssumption DEF CallsOK
<1>2. /\ cpu'[c].at = "idle" /\ cpu'[c].map = 0 /\ cpu'[c].word = {} /\ cpu'[c].frames = << >>
      /\ \A d \in HwThreads : d # c => cpu'[d] = cpu[d]
  <2>1. cpu' = [cpu EXCEPT ![c] = NoCall]
    BY DEF FreeMap
  <2> QED
    BY <1>0, <2>1, OtherCalls, NoCallFields
<1>3. /\ map_list' = map_list
      /\ free_page_list' = free_page_list /\ ref_count' = ref_count
      /\ entry' = entry /\ kernel_dir' = kernel_dir /\ kernel_mapped' = kernel_mapped /\ kernel_tables' = kernel_tables
      /\ asid_alloc' = asid_alloc /\ raced' = raced
  BY DEF FreeMap, pageVars
<1>4. /\ dir'[m] = NoDir /\ dir_frame'[m] = 0
      /\ \A n \in Maps : n # m => /\ dir'[n] = dir[n] /\ dir_frame'[n] = dir_frame[n]
                                  /\ user_mapped'[n] = user_mapped[n] /\ asid'[n] = asid[n]
  BY <1>0, <1>m DEF FreeMap, TranslationTypeOK
<1>l. \A n \in map_list : dir'[n] = dir[n] /\ user_mapped'[n] = user_mapped[n]
  BY <1>0, <1>1, <1>4 DEF TranslationTypeOK
<1>5. /\ Busy' \subseteq Busy \cup {0} /\ Busy \subseteq Busy' \cup {m} /\ m \notin Busy'
      /\ Dropping' = Dropping \ {m} /\ m \in Dropping
      /\ Identified' = Identified /\ m \notin Identified
  <2>1. m \in Dropping
    BY <1>1, <1>m DEF Dropping
  <2>2. Dropping' = Dropping \ {m}
    BY <1>1, <1>2, <1>m, <2>1 DEF Dropping
  <2>3. Identified' = Identified /\ m \notin Identified
    BY <1>1, <1>2, <1>3, <1>m DEF Identified
  <2>4. Busy' \subseteq Busy \cup {0} /\ Busy \subseteq Busy' \cup {m} /\ m \notin Busy'
    BY <1>1, <1>2, <1>m DEF Busy
  <2> QED
    BY <2>1, <2>2, <2>3, <2>4
<1>6. /\ Own(m)' = {}
      /\ \A n \in Maps : n # m => Own(n)' = Own(n)
      /\ \A n \in Maps : Kept(n)' = Kept(n)
  <2>1. Own(m)' = {}
    BY <1>4, BootTablesApart DEF Own, UserTables, NoDir, Regions
  <2>2. \A n \in Maps : n # m => Own(n)' = Own(n)
    BY <1>4 DEF Own, UserTables
  <2> QED
    BY <1>5, <2>1, <2>2 DEF Kept
<1>7. Freed' = Freed /\ \A d \in HwThreads : Pending(d)' = Pending(d) /\ cpu'[d].frames = cpu[d].frames
  BY <1>1, <1>2, <1>3 DEF Pending, Freed
<1>8. CallsOK'
  <2>1. 0 \notin map_list'
    BY <1>0, <1>3, TranslationAssumption DEF TranslationTypeOK
  <2> QED
    BY <1>0, <1>1, <1>2, <1>3, <2>1 DEF CallsOK
<1>9. MapsOK'
  <2>1. \A n \in Maps : n \notin map_list' \cup Busy' => dir'[n] = NoDir /\ dir_frame'[n] = 0
    BY <1>0, <1>3, <1>4, <1>5 DEF MapsOK
  <2>2. \A n \in map_list' \cup (Busy' \ {0}) : n # m /\ n \in Maps /\ dir_frame'[n] \in Frames
    <3>1. \A n \in map_list \cup (Busy \ {0}) : n \in Maps
      BY <1>0, CallType DEF TranslationTypeOK, Busy
    <3> QED
      BY <1>0, <1>1, <1>3, <1>4, <1>5, <3>1 DEF MapsOK
  <2>3. \A d \in HwThreads : cpu'[d].at = "create" => dir'[cpu'[d].map] = NoDir
    <3> SUFFICES ASSUME NEW d \in HwThreads, cpu'[d].at = "create" PROVE dir'[cpu'[d].map] = NoDir
      OBVIOUS
    <3>1. d # c /\ cpu'[d] = cpu[d] /\ cpu[d].at # "idle"
      BY <1>2
    <3>2. cpu[d].map \in Maps /\ cpu[d].map # m
      BY <1>0, <1>1, <3>1, CallMap
    <3> QED
      BY <1>0, <1>4, <3>1, <3>2 DEF MapsOK
  <2>4. \A n \in map_list' : \A r \in BootRegions : dir'[n][r] = kernel_dir'[r]
    BY <1>0, <1>3, <1>l DEF MapsOK
  <2>l. \A n \in map_list' : \A r \in LateRegions : dir'[n][r] \in kernel_tables' \cup {0}
    BY <1>0, <1>3, <1>l DEF MapsOK
  <2>5. \A n \in Maps :
         /\ \A r \in UserRegions : dir'[n][r] \in Frames \cup {0}
         /\ \A r, q \in UserRegions : r # q /\ dir'[n][r] = dir'[n][q] => dir'[n][r] = 0
         /\ \A r \in UserRegions : dir'[n][r] # 0 => dir'[n][r] # dir_frame'[n]
    <3> TAKE n \in Maps
    <3>1. CASE n = m
      BY <1>4, <3>1 DEF NoDir, Regions
    <3>2. CASE n # m
      BY <1>0, <1>4, <3>2 DEF MapsOK
    <3> QED
      BY <3>1, <3>2
  <2> QED
    BY <2>1, <2>2, <2>3, <2>4, <2>5, <2>l DEF MapsOK, NoDir
<1>10. FramesOK'
  <2>1. \A d \in HwThreads, n \in Maps :
          cpu'[d].at \in {"drop", "list"} /\ cpu'[d].map = n => Pending(d)' \subseteq Own(n)'
    BY <1>0, <1>1, <1>2, <1>6, <1>7 DEF FramesOK
  <2> QED
    BY <1>0, <1>3, <1>6, <1>7, <2>1 DEF FramesOK
<1>11. RefsOK'
  <2>1. \A d \in HwThreads : \A i \in DOMAIN cpu'[d].frames :
          ref_count'[cpu'[d].frames[i]] = IF i = 1 /\ cpu'[d].at = "list" THEN 0 ELSE 1
    BY <1>0, <1>2, <1>3 DEF RefsOK
  <2> QED
    BY <1>0, <1>3, <1>6, <1>7, <2>1 DEF RefsOK
<1>12. AsidsOK'
  <2>1. \A d \in HwThreads : cpu'[d].at \in {"free_asid", "clear"} => asid'[cpu'[d].map] # -1
    <3> SUFFICES ASSUME NEW d \in HwThreads, cpu'[d].at \in {"free_asid", "clear"}
                 PROVE  asid'[cpu'[d].map] # -1
      OBVIOUS
    <3>1. d # c /\ cpu'[d] = cpu[d] /\ cpu[d].at # "idle"
      BY <1>2
    <3>2. cpu[d].map \in Maps /\ cpu[d].map # m
      BY <1>0, <1>1, <3>1, CallMap
    <3> QED
      BY <1>0, <1>4, <3>1, <3>2 DEF AsidsOK
  <2>2. Identified \subseteq Maps
    BY <1>0, CallMap DEF Identified, TranslationTypeOK
  <2>3. \A n \in Identified : asid'[n] = asid[n]
    BY <1>4, <1>5, <2>2
  <2>4. \A d \in HwThreads : cpu'[d].at = "clear" => cpu[d].at = "clear" /\ cpu'[d].word = cpu[d].word
    BY <1>2
  <2> QED
    BY <1>0, <1>3, <1>5, <2>1, <2>3, <2>4 DEF AsidsOK
<1>13. EntriesOK'
  <2>1. \A n \in map_list', r \in UserRegions :
          user_mapped'[n][r] = IF dir'[n][r] = 0 THEN 0 ELSE entry'[dir'[n][r]]
    BY <1>0, <1>3, <1>l DEF EntriesOK
  <2>2. \A n \in map_list', r \in LateRegions : dir'[n][r] # 0 => entry'[dir'[n][r]] = kernel_mapped'[r]
    BY <1>0, <1>3, <1>l DEF EntriesOK
  <2> QED
    BY <1>0, <1>3, <2>1, <2>2 DEF EntriesOK
<1> QED
  BY <1>8, <1>9, <1>10, <1>11, <1>12, <1>13

\* A user's page tables are frames of its map alone.
LEMMA UserTableIsOwn ==
    ASSUME TranslationTypeOK, CallsOK, MapsOK, FramesOK, NEW n \in map_list, NEW q \in UserRegions, dir[n][q] # 0
    PROVE  /\ n \in Maps /\ dir[n][q] \in Frames /\ dir[n][q] \in Kept(n) /\ dir[n][q] \notin Freed
           /\ dir[n][q] \notin BootTables /\ dir[n][q] \notin kernel_tables
           /\ \A m \in map_list, r \in UserRegions : dir[m][r] = dir[n][q] => m = n /\ r = q
<1>1. \A m \in map_list : m \in Maps /\ m \notin Dropping
  BY DEF CallsOK, TranslationTypeOK, Dropping
<1>2. \A m \in map_list, r \in UserRegions : dir[m][r] # 0 => dir[m][r] \in Frames /\ dir[m][r] \in Kept(m)
  <2> TAKE m \in map_list, r \in UserRegions
  <2>1. dir[m][r] # 0 => dir[m][r] \in Frames
    BY <1>1 DEF MapsOK
  <2> QED
    BY <1>1, <2>1 DEF Kept, Own, UserTables
<1>3. dir[n][q] \notin Freed /\ dir[n][q] \notin kernel_tables
  BY <1>1, <1>2 DEF FramesOK
<1>4. \A m \in map_list, r \in UserRegions : dir[m][r] = dir[n][q] => m = n /\ r = q
  <2> SUFFICES ASSUME NEW m \in map_list, NEW r \in UserRegions, dir[m][r] = dir[n][q]
               PROVE  m = n /\ r = q
    OBVIOUS
  <2>1. m = n
    BY <1>1, <1>2 DEF FramesOK
  <2> QED
    BY <1>1, <2>1 DEF MapsOK
<1> QED
  BY <1>1, <1>2, <1>3, <1>4, BootTablesApart

\* vm_map_page makes no call that another hardware thread could see half done.
LEMMA MappingKeepsCalls ==
    ASSUME CallsOK, AsidsOK, cpu' = cpu, map_list' = map_list, asid' = asid, asid_alloc' = asid_alloc,
           raced' = raced
    PROVE  CallsOK' /\ AsidsOK' /\ Busy' = Busy /\ Dropping' = Dropping
<1>1. Identified' = Identified /\ Busy' = Busy /\ Dropping' = Dropping
  BY DEF Identified, Busy, Dropping
<1>2. CallsOK'
  BY DEF CallsOK
<1>3. AsidsOK'
  BY <1>1 DEF AsidsOK
<1> QED
  BY <1>1, <1>2, <1>3

LEMMA MapUserPageStep ==
    ASSUME TranslationIInv, TranslationTypeOK', NEW c \in HwThreads, NEW m \in Maps,
           NEW r \in UserRegions, NEW pa \in PhysicalAddresses, MapUserPage(c, m, r, pa)
    PROVE  CallsOK' /\ MapsOK' /\ FramesOK' /\ RefsOK' /\ AsidsOK' /\ EntriesOK'
<1> DEFINE f == NewFrame
<1>0. TranslationTypeOK /\ CallsOK /\ MapsOK /\ FramesOK /\ RefsOK /\ AsidsOK /\ EntriesOK
  BY DEF TranslationIInv
<1>1. /\ m \in map_list /\ m \notin Busy
      /\ map_list' = map_list /\ cpu' = cpu /\ dir_frame' = dir_frame /\ asid' = asid /\ asid_alloc' = asid_alloc
      /\ kernel_dir' = kernel_dir /\ kernel_mapped' = kernel_mapped /\ kernel_tables' = kernel_tables /\ raced' = raced
  BY DEF MapUserPage, Live
<1>2. CallsOK' /\ AsidsOK' /\ Busy' = Busy /\ Dropping' = Dropping
  BY <1>0, <1>1, MappingKeepsCalls
<1>3. /\ user_mapped'[m][r] = pa
      /\ \A n \in Maps, q \in UserRegions : n # m \/ q # r => user_mapped'[n][q] = user_mapped[n][q]
  BY <1>0 DEF MapUserPage, TranslationTypeOK
<1>4. pa # 0 /\ \A n \in map_list : n \in Maps
  BY <1>0, TranslationAssumption DEF TranslationTypeOK
<1>5. \A q \in BootRegions : BootTable(q) \in BootTables
  BY DEF BootTables
<1>6. CASE dir[m][r] # 0
  <2>1. dir' = dir /\ free_page_list' = free_page_list /\ ref_count' = ref_count
    BY <1>6 DEF MapUserPage, pageVars
  <2>2. entry'[dir[m][r]] = pa /\ \A t \in Frames \cup {0} \cup BootTables : t # dir[m][r] => entry'[t] = entry[t]
    <3>1. dir[m][r] \in Frames
      BY <1>0, <1>1, <1>6, UserTableIsOwn
    <3> QED
      BY <1>0, <1>6, <3>1 DEF MapUserPage, TranslationTypeOK
  <2>3. MapsOK'
    BY <1>0, <1>1, <1>2, <2>1 DEF MapsOK, NoDir
  <2>4. \A n \in Maps : Own(n)' = Own(n) /\ Kept(n)' = Kept(n)
    BY <1>1, <1>2, <2>1 DEF Own, UserTables, Kept
  <2>5. FramesOK' /\ RefsOK'
    BY <1>0, <1>1, <2>1, <2>4, SameFrames
  <2>6. ASSUME NEW n \in map_list, NEW q \in UserRegions
        PROVE  user_mapped'[n][q] = IF dir'[n][q] = 0 THEN 0 ELSE entry'[dir'[n][q]]
    <3>1. CASE n = m /\ q = r
      BY <1>3, <1>6, <2>1, <2>2, <3>1
    <3>2. CASE (n # m \/ q # r) /\ dir[n][q] = 0
      BY <1>0, <1>3, <1>4, <2>1, <3>2 DEF EntriesOK
    <3>3. CASE (n # m \/ q # r) /\ dir[n][q] # 0
      <4>1. dir[n][q] \in Frames /\ dir[n][q] # dir[m][r]
        BY <1>0, <1>1, <3>3, UserTableIsOwn
      <4> QED
        BY <1>0, <1>3, <1>4, <2>1, <2>2, <3>3, <4>1 DEF EntriesOK
    <3> QED
      BY <3>1, <3>2, <3>3
  <2>7. \A q \in BootRegions : kernel_mapped'[q] = entry'[BootTable(q)]
    <3>1. dir[m][r] \notin BootTables
      BY <1>0, <1>1, <1>6, UserTableIsOwn
    <3> QED
      BY <1>0, <1>1, <1>5, <2>2, <3>1 DEF EntriesOK
  <2>l. ASSUME NEW n \in map_list, NEW q \in LateRegions, dir'[n][q] # 0
        PROVE  entry'[dir'[n][q]] = kernel_mapped'[q]
    <3>1. dir[n][q] # 0 /\ dir[n][q] \in Frames /\ dir[n][q] \in kernel_tables
      BY <1>0, <2>1, <2>l, KernelTableUsed
    <3>2. dir[n][q] # dir[m][r]
      BY <1>0, <1>1, <1>6, <3>1, UserTableIsOwn
    <3> QED
      BY <1>0, <1>1, <2>1, <2>2, <3>1, <3>2 DEF EntriesOK
  <2>8. EntriesOK'
    BY <1>1, <2>6, <2>7, <2>l DEF EntriesOK
  <2> QED
    BY <1>2, <2>3, <2>5, <2>8
<1>7. CASE dir[m][r] = 0
  <2>1. /\ f \in Frames /\ f \in Freed
        /\ IsInjective(free_page_list') /\ Freed' = Freed \ {f}
        /\ ref_count' = [ref_count EXCEPT ![f] = 1]
    BY <1>0, <1>7, TakesFrame DEF MapUserPage
  <2> HIDE DEF f
  <2>2. /\ dir'[m][r] = f /\ dir'[m] \in [Regions -> Frames \cup BootTables \cup {0}]
        /\ \A q \in Regions : q # r => dir'[m][q] = dir[m][q]
        /\ \A n \in Maps : n # m => dir'[n] = dir[n]
    <3>1. dir' = [dir EXCEPT ![m] = [dir[m] EXCEPT ![r] = f]] /\ r \in Regions
      BY <1>0, <1>7 DEF MapUserPage, TranslationTypeOK, Regions, f
    <3> QED
      BY <1>0, <3>1 DEF TranslationTypeOK
  <2>3. entry'[f] = pa /\ \A t \in Frames \cup {0} \cup BootTables : t # f => entry'[t] = entry[t]
    BY <1>0, <1>7, <2>1 DEF MapUserPage, TranslationTypeOK, f
  <2>4. /\ \A q \in UserRegions : q # r => dir'[m][q] = dir[m][q]
        /\ \A q \in KernelRegions : dir'[m][q] = dir[m][q]
    BY <2>2, TranslationAssumption DEF Regions
  <2>5. UserTables(m)' = UserTables(m) \cup {f} /\ \A n \in Maps : n # m => UserTables(n)' = UserTables(n)
    <3>1. UserTables(m)' = UserTables(m) \cup {f}
      <4>1. UserTables(m)' \subseteq UserTables(m) \cup {f}
        BY <2>2, <2>4 DEF UserTables
      <4>2. f \in UserTables(m)'
        BY <2>1, <2>2 DEF UserTables
      <4>3. UserTables(m) \subseteq UserTables(m)'
        BY <1>7, <2>4, BootTablesApart DEF UserTables
      <4> QED
        BY <4>1, <4>2, <4>3
    <3> QED
      BY <2>2, <3>1 DEF UserTables
  <2>6. /\ m \notin Dropping
        /\ Own(m)' = Own(m) \cup {f} /\ \A n \in Maps : n # m => Own(n)' = Own(n)
        /\ Kept(m)' = Kept(m) \cup {f} /\ \A n \in Maps : n # m => Kept(n)' = Kept(n)
    <3>1. m \notin Dropping
      BY <1>1 DEF Dropping, Busy
    <3>2. Own(m)' = Own(m) \cup {f} /\ \A n \in Maps : n # m => Own(n)' = Own(n)
      BY <1>1, <2>5 DEF Own
    <3> QED
      BY <1>2, <3>1, <3>2 DEF Kept
  <2>7. \A d \in HwThreads : Pending(d)' = Pending(d)
    BY <1>1 DEF Pending
  <2>8. f \notin Own(m) /\ f # dir_frame[m]
    <3>1. f \notin Own(m)
      BY <1>0, <2>1, <2>6 DEF FramesOK, Kept
    <3> QED
      BY <2>1, <3>1 DEF Own
  <2>9. MapsOK'
    <3>1. \A n \in Maps : n \notin map_list' \cup Busy' => dir'[n] = NoDir /\ dir_frame'[n] = 0
      BY <1>0, <1>1, <1>2, <2>2 DEF MapsOK
    <3>2. \A n \in map_list' \cup (Busy' \ {0}) : dir_frame'[n] \in Frames
      BY <1>0, <1>1, <1>2 DEF MapsOK
    <3>3. \A d \in HwThreads : cpu'[d].at = "create" => dir'[cpu'[d].map] = NoDir
      <4> SUFFICES ASSUME NEW d \in HwThreads, cpu[d].at = "create" PROVE dir'[cpu[d].map] = NoDir
        BY <1>1
      <4>1. cpu[d].map \in Maps /\ cpu[d].map # m
        BY <1>0, <1>1, CallMap DEF Busy
      <4> QED
        BY <1>0, <2>2, <4>1 DEF MapsOK
    <3>4. \A n \in map_list' : \A q \in BootRegions : dir'[n][q] = kernel_dir'[q]
      BY <1>0, <1>1, <1>4, <2>2, <2>4, TranslationAssumption DEF MapsOK
    <3>l. \A n \in map_list' : \A q \in LateRegions : dir'[n][q] \in kernel_tables' \cup {0}
      BY <1>0, <1>1, <1>4, <2>2, <2>4 DEF MapsOK, LateRegions
    <3>5. \A n \in Maps :
           /\ \A q \in UserRegions : dir'[n][q] \in Frames \cup {0}
           /\ \A p, q \in UserRegions : p # q /\ dir'[n][p] = dir'[n][q] => dir'[n][p] = 0
           /\ \A q \in UserRegions : dir'[n][q] # 0 => dir'[n][q] # dir_frame'[n]
      <4> TAKE n \in Maps
      <4>1. CASE n = m
        <5>1. \A q \in UserRegions : dir[m][q] \in Frames => dir[m][q] # f
          BY <2>8 DEF Own, UserTables
        <5>2. \A q \in UserRegions : dir[m][q] \in Frames \cup {0}
          BY <1>0 DEF MapsOK
        <5>3. \A q \in UserRegions : dir'[m][q] \in Frames \cup {0}
          BY <2>1, <2>2, <2>4, <5>2
        <5>4. \A p, q \in UserRegions : p # q /\ dir'[m][p] = dir'[m][q] => dir'[m][p] = 0
          BY <1>0, <2>1, <2>2, <2>4, <5>1, <5>2, BootTablesApart DEF MapsOK
        <5>5. \A q \in UserRegions : dir'[m][q] # 0 => dir'[m][q] # dir_frame'[m]
          BY <1>0, <1>1, <2>2, <2>4, <2>8 DEF MapsOK
        <5> QED
          BY <4>1, <5>3, <5>4, <5>5
      <4>2. CASE n # m
        BY <1>0, <1>1, <2>2, <4>2 DEF MapsOK
      <4> QED
        BY <4>1, <4>2
    <3> QED
      BY <3>1, <3>2, <3>3, <3>4, <3>5, <3>l DEF MapsOK, NoDir
  <2>10. FramesOK'
    <3>1. /\ \A d \in HwThreads : IsInjective(cpu'[d].frames)
          /\ \A d \in HwThreads, n \in Maps :
               cpu'[d].at \in {"drop", "list"} /\ cpu'[d].map = n => Pending(d)' \subseteq Own(n)'
      BY <1>0, <1>1, <2>6, <2>7 DEF FramesOK
    <3>2. /\ \A n, k \in Maps : n # k => Kept(n)' \cap Kept(k)' = {}
          /\ \A n \in Maps, d \in HwThreads : Kept(n)' \cap Pending(d)' = {}
          /\ \A n \in Maps : Kept(n)' \cap Freed' = {} /\ Kept(n)' \cap kernel_tables' = {}
      BY <1>0, <1>1, <2>1, <2>6, <2>7 DEF FramesOK
    <3>3. /\ \A d, e \in HwThreads : d # e => Pending(d)' \cap Pending(e)' = {}
          /\ \A d \in HwThreads : Pending(d)' \cap Freed' = {} /\ Pending(d)' \cap kernel_tables' = {}
          /\ Freed' \cap kernel_tables' = {}
      BY <1>0, <1>1, <2>1, <2>7 DEF FramesOK
    <3>4. \A g \in Frames :
            g \in Freed' \/ g \in kernel_tables' \/ (\E n \in Maps : g \in Kept(n)') \/ (\E d \in HwThreads : g \in Pending(d)')
      BY <1>0, <1>1, <2>1, <2>6, <2>7 DEF FramesOK
    <3> QED
      BY <2>1, <3>1, <3>2, <3>3, <3>4 DEF FramesOK
  <2>11. RefsOK'
    <3>1. ref_count'[f] = 1 /\ \A g \in Frames : g # f => ref_count'[g] = ref_count[g]
      BY <1>0, <2>1 DEF TranslationTypeOK
    <3>2. \A g \in Freed' : ref_count'[g] = 0
      BY <1>0, <2>1 DEF RefsOK, TranslationTypeOK
    <3>3. \A n \in Maps : \A g \in Kept(n)' : ref_count'[g] = 1
      BY <1>0, <2>1, <2>6, <3>1, KeptFrames DEF RefsOK, FramesOK
    <3>4. \A d \in HwThreads : \A i \in DOMAIN cpu'[d].frames :
            ref_count'[cpu'[d].frames[i]] = IF i = 1 /\ cpu'[d].at = "list" THEN 0 ELSE 1
      <4> SUFFICES ASSUME NEW d \in HwThreads, NEW i \in DOMAIN cpu[d].frames
                   PROVE  ref_count'[cpu[d].frames[i]] = IF i = 1 /\ cpu[d].at = "list" THEN 0 ELSE 1
        BY <1>1
      <4>1. cpu[d].frames[i] \in Pending(d) /\ cpu[d].frames[i] \in Frames /\ cpu[d].frames[i] # f
        BY <1>0, <2>1, CallType DEF Pending, ToSet, FramesOK
      <4> QED
        BY <1>0, <3>1, <4>1 DEF RefsOK
    <3> QED
      BY <3>2, <3>3, <3>4 DEF RefsOK
  <2>12. ASSUME NEW n \in map_list, NEW q \in UserRegions
         PROVE  user_mapped'[n][q] = IF dir'[n][q] = 0 THEN 0 ELSE entry'[dir'[n][q]]
    <3>1. CASE n = m /\ q = r
      BY <1>3, <2>1, <2>2, <2>3, <3>1, BootTablesApart
    <3>2. ASSUME n # m \/ q # r PROVE dir'[n][q] = dir[n][q] /\ user_mapped'[n][q] = user_mapped[n][q]
      BY <1>3, <1>4, <2>2, <2>4, <3>2
    <3>3. CASE (n # m \/ q # r) /\ dir[n][q] = 0
      BY <1>0, <3>2, <3>3 DEF EntriesOK
    <3>4. CASE (n # m \/ q # r) /\ dir[n][q] # 0
      <4>1. dir[n][q] \in Frames /\ dir[n][q] # f
        BY <1>0, <2>1, <3>4, UserTableIsOwn
      <4> QED
        BY <1>0, <2>3, <3>2, <3>4, <4>1 DEF EntriesOK
    <3> QED
      BY <3>1, <3>3, <3>4
  <2>13. \A q \in BootRegions : kernel_mapped'[q] = entry'[BootTable(q)]
    BY <1>0, <1>1, <1>5, <2>1, <2>3, BootTablesApart DEF EntriesOK
  <2>l. ASSUME NEW n \in map_list, NEW q \in LateRegions, dir'[n][q] # 0
        PROVE  entry'[dir'[n][q]] = kernel_mapped'[q]
    <3>1. dir'[n][q] = dir[n][q]
      BY <1>4, <2>2, <2>4 DEF LateRegions
    <3>2. dir[n][q] # 0 /\ dir[n][q] \in Frames /\ dir[n][q] # f
      BY <1>0, <2>1, <2>l, <3>1, KernelTableUsed
    <3> QED
      BY <1>0, <1>1, <2>3, <3>1, <3>2 DEF EntriesOK
  <2>14. EntriesOK'
    BY <1>1, <2>12, <2>13, <2>l DEF EntriesOK
  <2> QED
    BY <1>2, <2>9, <2>10, <2>11, <2>14
<1> QED
  BY <1>6, <1>7

\* In a region with a page table from boot on.
LEMMA MapBootPageStep ==
    ASSUME TranslationIInv, TranslationTypeOK', NEW c \in HwThreads,
           NEW r \in BootRegions, NEW pa \in PhysicalAddresses, MapKernelPage(c, r, pa)
    PROVE  CallsOK' /\ MapsOK' /\ FramesOK' /\ RefsOK' /\ AsidsOK' /\ EntriesOK'
<1>0. TranslationTypeOK /\ CallsOK /\ MapsOK /\ FramesOK /\ RefsOK /\ AsidsOK /\ EntriesOK
  BY DEF TranslationIInv
<1>r. r \in KernelRegions /\ r \notin LateRegions
  BY TranslationAssumption DEF LateRegions
<1>1. kernel_dir[r] = BootTable(r) /\ BootTable(r) \in BootTables /\ BootTable(r) # 0
  BY <1>0, <1>r, BootTablesApart DEF TranslationTypeOK, BootTables
<1>2. /\ entry' = [entry EXCEPT ![BootTable(r)] = pa]
      /\ kernel_mapped' = [kernel_mapped EXCEPT ![r] = pa] /\ kernel_tables' = kernel_tables
      /\ map_list' = map_list /\ cpu' = cpu /\ dir_frame' = dir_frame /\ asid' = asid /\ asid_alloc' = asid_alloc
      /\ kernel_dir' = kernel_dir /\ user_mapped' = user_mapped /\ raced' = raced
      /\ dir' = dir /\ free_page_list' = free_page_list /\ ref_count' = ref_count
  BY <1>1 DEF MapKernelPage, pageVars
<1>3. CallsOK' /\ AsidsOK' /\ Busy' = Busy /\ Dropping' = Dropping
  BY <1>0, <1>2, MappingKeepsCalls
<1>4. MapsOK'
  BY <1>0, <1>2, <1>3 DEF MapsOK, NoDir
<1>5. \A n \in Maps : Own(n)' = Own(n) /\ Kept(n)' = Kept(n)
  BY <1>2, <1>3 DEF Own, UserTables, Kept
<1>6. FramesOK' /\ RefsOK'
  BY <1>0, <1>2, <1>5, SameFrames
<1>7. /\ entry'[BootTable(r)] = pa
      /\ \A t \in Frames \cup {0} \cup BootTables : t # BootTable(r) => entry'[t] = entry[t]
  BY <1>0, <1>1, <1>2 DEF TranslationTypeOK
<1>k. kernel_mapped'[r] = pa /\ \A q \in KernelRegions : q # r => kernel_mapped'[q] = kernel_mapped[q]
  BY <1>0, <1>2, <1>r DEF TranslationTypeOK
<1>8. \A q \in BootRegions : kernel_mapped'[q] = entry'[BootTable(q)]
  <2>1. \A q \in BootRegions : BootTable(q) \in BootTables /\ q \in KernelRegions
    BY TranslationAssumption DEF BootTables
  <2> QED
    BY <1>0, <1>7, <1>k, <2>1, BootTablesApart DEF EntriesOK
<1>9. ASSUME NEW n \in map_list, NEW q \in UserRegions
      PROVE  user_mapped'[n][q] = IF dir'[n][q] = 0 THEN 0 ELSE entry'[dir'[n][q]]
  <2>1. CASE dir[n][q] = 0
    BY <1>0, <1>2, <2>1 DEF EntriesOK
  <2>2. CASE dir[n][q] # 0
    <3>1. dir[n][q] \in Frames /\ dir[n][q] \notin BootTables
      BY <1>0, <2>2, UserTableIsOwn
    <3> QED
      BY <1>0, <1>1, <1>2, <1>7, <2>2, <3>1 DEF EntriesOK
  <2> QED
    BY <2>1, <2>2
<1>10. ASSUME NEW n \in map_list, NEW q \in LateRegions, dir'[n][q] # 0
       PROVE  entry'[dir'[n][q]] = kernel_mapped'[q]
  <2>1. dir[n][q] # 0 /\ dir[n][q] \in Frames
    BY <1>0, <1>2, <1>10, KernelTableUsed
  <2>2. dir[n][q] # BootTable(r) /\ q # r /\ q \in KernelRegions
    BY <1>1, <1>r, <2>1, BootTablesApart DEF LateRegions
  <2> QED
    BY <1>0, <1>2, <1>7, <1>k, <2>1, <2>2 DEF EntriesOK
<1>11. EntriesOK'
  BY <1>2, <1>8, <1>9, <1>10 DEF EntriesOK
<1> QED
  BY <1>3, <1>4, <1>6, <1>11

\* In one without: a new table for every map on the list, or none.
LEMMA MapLatePageStep ==
    ASSUME TranslationIInv, TranslationTypeOK', NEW c \in HwThreads,
           NEW r \in LateRegions, NEW pa \in PhysicalAddresses, MapKernelPage(c, r, pa)
    PROVE  CallsOK' /\ MapsOK' /\ FramesOK' /\ RefsOK' /\ AsidsOK' /\ EntriesOK'
<1> DEFINE f == NewFrame
<1>0. TranslationTypeOK /\ CallsOK /\ MapsOK /\ FramesOK /\ RefsOK /\ AsidsOK /\ EntriesOK
  BY DEF TranslationIInv
<1>r. r \in KernelRegions /\ r \notin BootRegions /\ r \notin UserRegions /\ r \in Regions
  BY TranslationAssumption DEF LateRegions, Regions
<1>1. kernel_dir[r] = 0
  BY <1>0, <1>r DEF TranslationTypeOK
<1>2. /\ f \in Frames /\ f \in Freed
      /\ IsInjective(free_page_list') /\ Freed' = Freed \ {f}
      /\ ref_count' = [ref_count EXCEPT ![f] = 1]
  BY <1>0, <1>1, TakesFrame DEF MapKernelPage
<1>3. /\ dir' = [m \in Maps |-> IF m \in map_list THEN [dir[m] EXCEPT ![r] = f] ELSE dir[m]]
      /\ entry' = IF map_list = {} THEN [entry EXCEPT ![f] = 0, ![0] = pa] ELSE [entry EXCEPT ![f] = pa]
      /\ kernel_tables' = kernel_tables \cup {f}
      /\ kernel_mapped' = [kernel_mapped EXCEPT ![r] = pa]
      /\ map_list' = map_list /\ cpu' = cpu /\ dir_frame' = dir_frame /\ asid' = asid /\ asid_alloc' = asid_alloc
      /\ kernel_dir' = kernel_dir /\ user_mapped' = user_mapped /\ raced' = raced
  BY <1>1 DEF MapKernelPage
<1> HIDE DEF f
<1>4. CallsOK' /\ AsidsOK' /\ Busy' = Busy /\ Dropping' = Dropping
  BY <1>0, <1>3, MappingKeepsCalls
<1>l. \A n \in map_list : n \in Maps
  BY <1>0 DEF TranslationTypeOK
<1>5. /\ \A n \in map_list : dir'[n][r] = f
      /\ \A n \in map_list : \A q \in Regions : q # r => dir'[n][q] = dir[n][q]
      /\ \A n \in Maps : n \notin map_list => dir'[n] = dir[n]
  BY <1>0, <1>3, <1>l, <1>r DEF TranslationTypeOK
<1>6. /\ \A n \in Maps, q \in UserRegions : dir'[n][q] = dir[n][q]
      /\ \A n \in map_list, q \in BootRegions : dir'[n][q] = dir[n][q]
  BY <1>5, <1>r, TranslationAssumption DEF Regions
<1>7. /\ map_list # {} => entry'[f] = pa
      /\ \A t \in Frames \cup BootTables : t # f => entry'[t] = entry[t]
  <2>1. entry \in [Frames \cup {0} \cup BootTables -> PhysicalAddresses \cup {0}]
    BY <1>0 DEF TranslationTypeOK
  <2> QED
    BY <1>2, <1>3, <2>1, BootTablesApart
<1>8. \A n \in Maps : Own(n)' = Own(n) /\ Kept(n)' = Kept(n)
  <2>1. \A n \in Maps : UserTables(n)' = UserTables(n)
    BY <1>6 DEF UserTables
  <2> QED
    BY <1>3, <1>4, <2>1 DEF Own, Kept
<1>9. \A d \in HwThreads : Pending(d)' = Pending(d)
  BY <1>3 DEF Pending
<1>10. MapsOK'
  <2>1. \A n \in Maps : n \notin map_list' \cup Busy' => dir'[n] = NoDir /\ dir_frame'[n] = 0
    BY <1>0, <1>3, <1>4, <1>5 DEF MapsOK
  <2>2. \A n \in map_list' \cup (Busy' \ {0}) : dir_frame'[n] \in Frames
    BY <1>0, <1>3, <1>4 DEF MapsOK
  <2>3. \A d \in HwThreads : cpu'[d].at = "create" => dir'[cpu'[d].map] = NoDir
    <3> SUFFICES ASSUME NEW d \in HwThreads, cpu[d].at = "create" PROVE dir'[cpu[d].map] = NoDir
      BY <1>3
    <3>1. cpu[d].map \in Maps /\ cpu[d].map \notin map_list
      BY <1>0, CallMap DEF CallsOK
    <3> QED
      BY <1>0, <1>5, <3>1 DEF MapsOK
  <2>4. \A n \in map_list' : \A q \in BootRegions : dir'[n][q] = kernel_dir'[q]
    BY <1>0, <1>3, <1>6 DEF MapsOK
  <2>5. \A n \in map_list' : \A q \in LateRegions : dir'[n][q] \in kernel_tables' \cup {0}
    <3> SUFFICES ASSUME NEW n \in map_list, NEW q \in LateRegions
                 PROVE  dir'[n][q] \in kernel_tables' \cup {0}
      BY <1>3
    <3>1. CASE q = r
      BY <1>3, <1>5, <3>1
    <3>2. CASE q # r
      <4>1. dir'[n][q] = dir[n][q]
        BY <1>5, <3>2 DEF LateRegions, Regions
      <4> QED
        BY <1>0, <1>3, <4>1 DEF MapsOK
    <3> QED
      BY <3>1, <3>2
  <2>6. \A n \in Maps :
         /\ \A p \in UserRegions : dir'[n][p] \in Frames \cup {0}
         /\ \A p, q \in UserRegions : p # q /\ dir'[n][p] = dir'[n][q] => dir'[n][p] = 0
         /\ \A p \in UserRegions : dir'[n][p] # 0 => dir'[n][p] # dir_frame'[n]
    BY <1>0, <1>3, <1>6 DEF MapsOK
  <2> QED
    BY <2>1, <2>2, <2>3, <2>4, <2>5, <2>6 DEF MapsOK, NoDir
<1>11. FramesOK'
  <2>1. /\ \A d \in HwThreads : IsInjective(cpu'[d].frames)
        /\ \A d \in HwThreads, n \in Maps :
             cpu'[d].at \in {"drop", "list"} /\ cpu'[d].map = n => Pending(d)' \subseteq Own(n)'
    BY <1>0, <1>3, <1>8, <1>9 DEF FramesOK
  <2>2. /\ \A n, k \in Maps : n # k => Kept(n)' \cap Kept(k)' = {}
        /\ \A n \in Maps, d \in HwThreads : Kept(n)' \cap Pending(d)' = {}
        /\ \A n \in Maps : Kept(n)' \cap Freed' = {} /\ Kept(n)' \cap kernel_tables' = {}
    BY <1>0, <1>2, <1>3, <1>8, <1>9 DEF FramesOK
  <2>3. /\ \A d, e \in HwThreads : d # e => Pending(d)' \cap Pending(e)' = {}
        /\ \A d \in HwThreads : Pending(d)' \cap Freed' = {} /\ Pending(d)' \cap kernel_tables' = {}
        /\ Freed' \cap kernel_tables' = {}
    BY <1>0, <1>2, <1>3, <1>9 DEF FramesOK
  <2>4. \A g \in Frames :
          g \in Freed' \/ g \in kernel_tables' \/ (\E n \in Maps : g \in Kept(n)') \/ (\E d \in HwThreads : g \in Pending(d)')
    BY <1>0, <1>2, <1>3, <1>8, <1>9 DEF FramesOK
  <2> QED
    BY <1>2, <2>1, <2>2, <2>3, <2>4 DEF FramesOK
<1>12. RefsOK'
  <2>1. ref_count'[f] = 1 /\ \A g \in Frames : g # f => ref_count'[g] = ref_count[g]
    BY <1>0, <1>2 DEF TranslationTypeOK
  <2>2. \A g \in Freed' : ref_count'[g] = 0
    BY <1>0, <1>2 DEF RefsOK, TranslationTypeOK
  <2>3. \A n \in Maps : \A g \in Kept(n)' : ref_count'[g] = 1
    BY <1>0, <1>2, <1>8, <2>1, KeptFrames DEF RefsOK, FramesOK
  <2>4. \A d \in HwThreads : \A i \in DOMAIN cpu'[d].frames :
          ref_count'[cpu'[d].frames[i]] = IF i = 1 /\ cpu'[d].at = "list" THEN 0 ELSE 1
    <3> SUFFICES ASSUME NEW d \in HwThreads, NEW i \in DOMAIN cpu[d].frames
                 PROVE  ref_count'[cpu[d].frames[i]] = IF i = 1 /\ cpu[d].at = "list" THEN 0 ELSE 1
      BY <1>3
    <3>1. cpu[d].frames[i] \in Pending(d) /\ cpu[d].frames[i] \in Frames /\ cpu[d].frames[i] # f
      BY <1>0, <1>2, CallType DEF Pending, ToSet, FramesOK
    <3> QED
      BY <1>0, <2>1, <3>1 DEF RefsOK
  <2> QED
    BY <2>2, <2>3, <2>4 DEF RefsOK
<1>13. ASSUME NEW n \in map_list, NEW q \in UserRegions
       PROVE  user_mapped'[n][q] = IF dir'[n][q] = 0 THEN 0 ELSE entry'[dir'[n][q]]
  <2>0. dir'[n][q] = dir[n][q]
    BY <1>6, <1>l
  <2>1. CASE dir[n][q] = 0
    BY <1>0, <1>3, <2>0, <2>1 DEF EntriesOK
  <2>2. CASE dir[n][q] # 0
    <3>1. dir[n][q] \in Frames /\ dir[n][q] # f
      BY <1>0, <1>2, <2>2, UserTableIsOwn
    <3> QED
      BY <1>0, <1>3, <1>7, <2>0, <2>2, <3>1 DEF EntriesOK
  <2> QED
    BY <2>1, <2>2
<1>k. kernel_mapped'[r] = pa /\ \A q \in KernelRegions : q # r => kernel_mapped'[q] = kernel_mapped[q]
  BY <1>0, <1>3, <1>r DEF TranslationTypeOK
<1>14. \A q \in BootRegions : kernel_mapped'[q] = entry'[BootTable(q)]
  <2>1. \A q \in BootRegions : BootTable(q) \in BootTables /\ q \in KernelRegions /\ q # r
    BY <1>r, TranslationAssumption DEF BootTables
  <2> QED
    BY <1>0, <1>2, <1>7, <1>k, <2>1, BootTablesApart DEF EntriesOK
<1>15. ASSUME NEW n \in map_list, NEW q \in LateRegions, dir'[n][q] # 0
       PROVE  entry'[dir'[n][q]] = kernel_mapped'[q]
  <2>1. CASE q = r
    BY <1>5, <1>7, <1>k, <2>1
  <2>2. CASE q # r
    <3>1. dir'[n][q] = dir[n][q] /\ dir[n][q] # 0 /\ q \in KernelRegions
      BY <1>5, <1>15, <2>2 DEF LateRegions, Regions
    <3>2. dir[n][q] \in Frames /\ dir[n][q] # f
      BY <1>0, <1>2, <3>1, KernelTableUsed
    <3> QED
      BY <1>0, <1>7, <1>k, <2>2, <3>1, <3>2 DEF EntriesOK
  <2> QED
    BY <2>1, <2>2
<1>16. EntriesOK'
  BY <1>3, <1>13, <1>14, <1>15 DEF EntriesOK
<1> QED
  BY <1>4, <1>10, <1>11, <1>12, <1>16

LEMMA TranslationStepIInv ==
    ASSUME TranslationIInv, [TranslationNext]_translationVars
    PROVE  TranslationIInv'
<1>1. CASE TranslationNext
  <2>1. TranslationTypeOK'
    BY <1>1, TranslationTypeStep
  <2>2. ASSUME NEW c \in HwThreads, NEW m \in Maps, AllocateMap(c, m) PROVE TranslationIInv'
    BY <2>1, <2>2, AllocateMapStep DEF TranslationIInv
  <2>3. ASSUME NEW c \in HwThreads, NEW m \in Maps, RemoveMap(c, m) PROVE TranslationIInv'
    BY <2>1, <2>3, RemoveMapStep DEF TranslationIInv
  <2>4. ASSUME NEW c \in HwThreads, InstallMap(c) PROVE TranslationIInv'
    BY <2>1, <2>4, InstallMapStep DEF TranslationIInv
  <2>5. ASSUME NEW c \in HwThreads, ReadBitmap(c) PROVE TranslationIInv'
    BY <2>1, <2>5, BitmapStep, ReadBitmapStep DEF TranslationIInv
  <2>6. ASSUME NEW c \in HwThreads, WriteBitmap(c) PROVE TranslationIInv'
    BY <2>1, <2>6, BitmapStep, WriteBitmapStep DEF TranslationIInv
  <2>7. ASSUME NEW c \in HwThreads, FindTables(c) PROVE TranslationIInv'
    BY <2>1, <2>7, FindTablesStep DEF TranslationIInv
  <2>8. ASSUME NEW c \in HwThreads, DropRef(c) PROVE TranslationIInv'
    BY <2>1, <2>8, DecPageRef, DropRefStep DEF TranslationIInv
  <2>9. ASSUME NEW c \in HwThreads, FreePage(c) PROVE TranslationIInv'
    BY <2>1, <2>9, DecPageRef, FreePageStep DEF TranslationIInv
  <2>10. ASSUME NEW c \in HwThreads, FreeMap(c) PROVE TranslationIInv'
    BY <2>1, <2>10, FreeMapStep DEF TranslationIInv
  <2>11. ASSUME NEW c \in HwThreads, NEW pa \in PhysicalAddresses, NEW m \in Maps, NEW r \in UserRegions,
                MapUserPage(c, m, r, pa)
         PROVE  TranslationIInv'
    BY <2>1, <2>11, MapUserPageStep DEF TranslationIInv
  <2>12. ASSUME NEW c \in HwThreads, NEW pa \in PhysicalAddresses, NEW r \in KernelRegions,
                MapKernelPage(c, r, pa)
         PROVE  TranslationIInv'
    <3>1. CASE r \in BootRegions
      BY <2>1, <2>12, <3>1, MapBootPageStep DEF TranslationIInv
    <3>2. CASE r \in LateRegions
      BY <2>1, <2>12, <3>2, MapLatePageStep DEF TranslationIInv
    <3> QED
      BY <3>1, <3>2 DEF LateRegions
  <2> QED
    BY <1>1, <2>2, <2>3, <2>4, <2>5, <2>6, <2>7, <2>8, <2>9, <2>10, <2>11, <2>12 DEF TranslationNext
<1>2. CASE UNCHANGED translationVars
  <2>1. /\ map_list' = map_list /\ cpu' = cpu
        /\ free_page_list' = free_page_list /\ ref_count' = ref_count
        /\ dir' = dir /\ dir_frame' = dir_frame /\ entry' = entry
        /\ kernel_dir' = kernel_dir /\ asid' = asid /\ asid_alloc' = asid_alloc
        /\ user_mapped' = user_mapped /\ kernel_mapped' = kernel_mapped /\ kernel_tables' = kernel_tables /\ raced' = raced
    BY <1>2 DEF translationVars, pageVars, mapVars
  <2>2. CallsOK' /\ AsidsOK' /\ Busy' = Busy /\ Dropping' = Dropping
    BY <2>1, MappingKeepsCalls DEF TranslationIInv
  <2>3. MapsOK'
    BY <2>1, <2>2 DEF MapsOK, NoDir, TranslationIInv
  <2>4. \A n \in Maps : Own(n)' = Own(n) /\ Kept(n)' = Kept(n)
    BY <2>1, <2>2 DEF Own, UserTables, Kept
  <2>5. FramesOK' /\ RefsOK'
    BY <2>1, <2>4, SameFrames DEF TranslationIInv
  <2>6. TranslationTypeOK' /\ EntriesOK'
    BY <2>1 DEF TranslationTypeOK, EntriesOK, TranslationIInv
  <2> QED
    BY <2>2, <2>3, <2>5, <2>6 DEF TranslationIInv
<1> QED
  BY <1>1, <1>2

LEMMA TranslationIInvImplies ==
    ASSUME TranslationIInv
    PROVE  AsidsAndFramesExact /\ MappingsSeen
<1>0. TranslationTypeOK /\ CallsOK /\ MapsOK /\ FramesOK /\ RefsOK /\ AsidsOK /\ EntriesOK
  BY DEF TranslationIInv
<1>1. \A m \in map_list : /\ m \in Maps /\ m \notin Dropping /\ m \in Identified
                          /\ dir_frame[m] \in Frames
  BY <1>0 DEF TranslationTypeOK, CallsOK, Dropping, Identified, MapsOK
<1>2. \A m \in map_list : UserTables(m) \cup {dir_frame[m]} = Kept(m)
  BY <1>1 DEF Kept, Own
<1>3. ASSUME ~raced, NEW m \in map_list, NEW n \in map_list, m # n, asid[m] >= 0
      PROVE  asid[m] # asid[n]
  <2>1. asid[m] # -1
    BY <1>3
  <2> QED
    BY <1>0, <1>1, <1>3, <2>1 DEF AsidsOK
<1>4. \A m, n \in map_list : m # n =>
        (UserTables(m) \cup {dir_frame[m]}) \cap (UserTables(n) \cup {dir_frame[n]}) = {}
  BY <1>0, <1>1, <1>2 DEF FramesOK
<1>5. ASSUME NEW f \in Frames, f \notin Freed, f \notin kernel_tables
      PROVE  f \in {dir_frame[m] : m \in Maps} \cup UNION {UserTables(m) : m \in Maps}
  <2>1. PICK m \in Maps : f \in Own(m)
    <3>1. CASE \E m \in Maps : f \in Kept(m)
      BY <3>1 DEF Kept
    <3>2. CASE \E c \in HwThreads : f \in Pending(c)
      <4>1. PICK c \in HwThreads : f \in Pending(c)
        BY <3>2
      <4>2. cpu[c].frames # << >>
        BY <4>1 DEF Pending, ToSet
      <4>3. cpu[c].at \in {"drop", "list"}
        BY <1>0, <4>2 DEF CallsOK
      <4>4. cpu[c].map \in Maps
        BY <1>0, <4>3, CallMap
      <4> QED
        BY <1>0, <4>1, <4>3, <4>4 DEF FramesOK
    <3> QED
      BY <1>0, <1>5, <3>1, <3>2 DEF FramesOK
  <2> QED
    BY <2>1 DEF Own
<1>o. /\ \A m \in map_list : (UserTables(m) \cup {dir_frame[m]}) \cap (Freed \cup kernel_tables) = {}
      /\ Freed \cap kernel_tables = {}
  BY <1>0, <1>1, <1>2 DEF FramesOK
<1>f. IsInjective(free_page_list) /\ \A f \in Freed : ref_count[f] = 0
  BY <1>0 DEF FramesOK, RefsOK
<1>6. AsidsAndFramesExact
  BY <1>3, <1>4, <1>5, <1>o, <1>f DEF AsidsAndFramesExact, Freed
<1>7. MappingsSeen
  <2>1. \A m \in map_list, r \in UserRegions : Translates(dir[m][r]) = user_mapped[m][r]
    BY <1>0 DEF EntriesOK, Translates
  <2>2. \A r \in BootRegions : kernel_dir[r] = BootTable(r) /\ BootTable(r) # 0
    BY <1>0, BootTablesApart, TranslationAssumption DEF TranslationTypeOK
  <2>3. \A r \in BootRegions : Translates(kernel_dir[r]) = kernel_mapped[r]
    BY <1>0, <2>2 DEF EntriesOK, Translates
  <2>4. \A m \in map_list, r \in BootRegions : Translates(dir[m][r]) = kernel_mapped[r]
    BY <1>0, <2>3 DEF MapsOK
  <2>5. \A m \in map_list, r \in KernelRegions \ BootRegions : Translates(dir[m][r]) \in {0, kernel_mapped[r]}
    BY <1>0 DEF EntriesOK, Translates, LateRegions
  <2> QED
    BY <2>1, <2>3, <2>4, <2>5 DEF MappingsSeen
<1> QED
  BY <1>6, <1>7

\* The inductive invariant of create_translation_map, destroy_translation_map
\* and vm_map_page, whichever kernel regions have a page table from boot on.
THEOREM TranslationInvariance ==
    TranslationSpec => []TranslationIInv
<1>1. TranslationInit => TranslationIInv
  BY TranslationInitIInv
<1>2. TranslationIInv /\ [TranslationNext]_translationVars => TranslationIInv'
  BY TranslationStepIInv
<1> QED
  BY <1>1, <1>2, PTL DEF TranslationSpec

\* However many hardware threads create and destroy address spaces at once, no
\* page frame is used twice or freed while referenced, and none is lost but the
\* tables that vm_map_page makes for kernel regions without one from boot on;
\* maps on the list have identifiers of their own unless a bitmap_free was
\* overlapped.
THEOREM FramesConserved ==
    TranslationSpec => []AsidsAndFramesExact
<1>1. TranslationIInv => AsidsAndFramesExact
  BY TranslationIInvImplies
<1> QED
  BY <1>1, TranslationInvariance, PTL

\* vm_map_page's mappings are what the page tables of every map hold, though
\* tables are freed and used again by others: a program's exactly, the kernel's
\* exactly in regions with a page table from boot on.  In the others a map sees
\* the latest mapping or none.
THEOREM MappingsAreSeen ==
    TranslationSpec => []MappingsSeen
<1>1. TranslationIInv => MappingsSeen
  BY TranslationIInvImplies
<1> QED
  BY <1>1, TranslationInvariance, PTL

(***************************************************************************)
(* The kernel heap and the slab allocators.                                *)
(***************************************************************************)
HeapAddresses == HEAP_BASE .. HeapEnd

\* The memory of m words from a and that of n words from b.
Apart(a, m, b, n) == a + m <= b \/ b + n <= a

HeapTypeOK ==
    /\ wilderness_ptr \in HeapAddresses
    /\ free_list \in Seq(HeapAddresses)
    /\ size_at \in [HeapAddresses -> Nat]
    /\ blocks \subseteq [base : HeapAddresses, size : Nat \ {0}]
    /\ in_use \subseteq [slab : DOMAIN Slabs, base : Nat]
    /\ slab \in [DOMAIN Slabs -> [free : Seq(Nat), base : Nat, offset : 0 .. SLAB_SIZE]]

\* A size field is written once, when the heap grows, and the ranges it was
\* written for are apart.  A piece left by a split has no size, and a range
\* with a size is on the list at most once.
RangesOK ==
    /\ \A i \in DOMAIN free_list : free_list[i] < wilderness_ptr
    /\ \A x \in HeapAddresses : size_at[x] # 0 => x + size_at[x] <= wilderness_ptr
    /\ \A x, y \in HeapAddresses : size_at[x] # 0 /\ size_at[y] # 0 /\ x < y => x + size_at[x] <= y
    /\ \A i, j \in DOMAIN free_list : i # j /\ free_list[i] = free_list[j] => size_at[free_list[i]] = 0

BlocksOK ==
    /\ \A b \in blocks : b.base + b.size <= wilderness_ptr
    /\ \A b, d \in blocks : b # d => Apart(b.base, b.size, d.base, d.size)
    /\ \A b \in blocks, i \in DOMAIN free_list :
         size_at[free_list[i]] # 0 => Apart(b.base, b.size, free_list[i], size_at[free_list[i]])

\* The objects of a slab allocator: in use or on its free list.
Held(s, a) == [slab |-> s, base |-> a] \in in_use \/ a \in ToSet(slab[s].free)

ObjectsOK ==
    /\ \A s, t \in DOMAIN Slabs, a, b \in Nat :
         Held(s, a) /\ Held(t, b) /\ (s # t \/ a # b) => Apart(a, Slabs[s], b, Slabs[t])
    /\ \A s \in DOMAIN Slabs, a \in Nat :
         Held(s, a) => \E b \in blocks : b.base <= a /\ a + Slabs[s] <= b.base + b.size
    /\ \A s \in DOMAIN Slabs : IsInjective(slab[s].free)
    /\ \A s \in DOMAIN Slabs : \A a \in ToSet(slab[s].free) : [slab |-> s, base |-> a] \notin in_use

\* The slab an allocator cuts objects from is a block of its own, and nothing
\* above the offset has been handed out.
SlabsOK ==
    /\ \A s \in DOMAIN Slabs : slab[s].base # 0 => [base |-> slab[s].base, size |-> SLAB_SIZE] \in blocks
    /\ \A s, t \in DOMAIN Slabs : s # t /\ slab[s].base = slab[t].base => slab[s].base = 0
    /\ \A s, t \in DOMAIN Slabs, a \in Nat :
         slab[s].base # 0 /\ Held(t, a) =>
             a + Slabs[t] <= slab[s].base + slab[s].offset \/ slab[s].base + SLAB_SIZE <= a

HeapIInv == HeapTypeOK /\ RangesOK /\ BlocksOK /\ ObjectsOK /\ SlabsOK

-----------------------------------------------------------------------------
LEMMA RemoveAtList ==
    ASSUME NEW S, NEW s \in Seq(S), NEW i \in DOMAIN s
    PROVE  /\ RemoveAt(s, i) \in Seq(S)
           /\ DOMAIN RemoveAt(s, i) = 1 .. Len(s) - 1
           /\ \A k \in 1 .. Len(s) - 1 : RemoveAt(s, i)[k] = s[IF k < i THEN k ELSE k + 1]
<1>1. Len(s) \in Nat /\ i \in 1 .. Len(s) /\ \A k \in 1 .. Len(s) : s[k] \in S
  OBVIOUS
<1> DEFINE u == SubSeq(s, 1, i - 1)
           v == SubSeq(s, i + 1, Len(s))
<1>2. u \in Seq(S) /\ Len(u) = i - 1 /\ \A k \in 1 .. i - 1 : u[k] = s[k]
  BY <1>1, SubSeqProperties
<1>3. v \in Seq(S) /\ Len(v) = Len(s) - i /\ \A k \in 1 .. Len(s) - i : v[k] = s[i + k]
  BY <1>1, SubSeqProperties
<1> HIDE DEF u, v
<1>4. /\ u \o v \in Seq(S) /\ Len(u \o v) = Len(s) - 1
      /\ \A k \in 1 .. Len(s) - 1 : (u \o v)[k] = IF k <= i - 1 THEN u[k] ELSE v[k - (i - 1)]
  <2>1. /\ u \o v \in Seq(S) /\ Len(u \o v) = Len(u) + Len(v)
        /\ \A k \in 1 .. Len(u) + Len(v) : (u \o v)[k] = IF k <= Len(u) THEN u[k] ELSE v[k - Len(u)]
    BY <1>2, <1>3, ConcatProperties
  <2>2. Len(u) + Len(v) = Len(s) - 1
    BY <1>1, <1>2, <1>3
  <2> QED
    BY <1>2, <2>1, <2>2
<1>5. \A k \in 1 .. Len(s) - 1 : (u \o v)[k] = s[IF k < i THEN k ELSE k + 1]
  <2> TAKE k \in 1 .. Len(s) - 1
  <2>1. CASE k < i
    BY <1>1, <1>2, <1>4, <2>1
  <2>2. CASE ~(k < i)
    <3>1. k - (i - 1) \in 1 .. Len(s) - i /\ i + (k - (i - 1)) = k + 1
      BY <1>1, <2>2
    <3>2. v[k - (i - 1)] = s[k + 1] /\ ~(k <= i - 1)
      BY <1>1, <1>3, <2>2, <3>1
    <3>3. (u \o v)[k] = v[k - (i - 1)]
      BY <1>4, <3>2
    <3> QED
      BY <2>2, <3>2, <3>3
  <2> QED
    BY <2>1, <2>2
<1>6. RemoveAt(s, i) = u \o v
  BY DEF RemoveAt, u, v
<1>7. DOMAIN (u \o v) = 1 .. Len(s) - 1
  BY <1>4
<1> QED
  BY <1>4, <1>5, <1>6, <1>7

LEMMA HeapNumbers ==
    /\ HEAP_BASE \in Nat \ {0} /\ HeapEnd \in Nat /\ SLAB_SIZE \in Nat \ {0}
    /\ HeapAddresses \subseteq Nat \ {0}
    /\ \A size \in Nat \ {0} : GrowSize(size) \in Nat /\ GrowSize(size) > size
    /\ \A s \in DOMAIN Slabs : Slabs[s] \in Nat /\ Slabs[s] > 0 /\ Slabs[s] <= SLAB_SIZE
BY HeapAssumption DEF HeapEnd, HeapAddresses, GrowSize

\* kmalloc's first fit exists.
LEMMA CandidateFits ==
    ASSUME HeapTypeOK, NEW size, Fits(size) # {}
    PROVE  Candidate(size) \in Fits(size)
<1>1. Fits(size) \subseteq Nat
  BY DEF Fits, HeapTypeOK
<1>2. \E i \in Fits(size) : \A j \in Fits(size) : i <= j
  BY <1>1, LeastElement
<1> QED
  BY <1>2 DEF Candidate

\* When the heap grows, insert_free_range finds the new range above all others
\* and apart from them: it becomes the last one, merged with none.
LEMMA GrownRange ==
    ASSUME HeapTypeOK, RangesOK, NEW size \in Nat \ {0}, wilderness_ptr + GrowSize(size) <= HeapEnd
    PROVE  LET r == wilderness_ptr + size
               sizes == [size_at EXCEPT ![r] = GrowSize(size) - size]
           IN  /\ r \in HeapAddresses
               /\ Inserted(free_list, sizes, r).list = Append(free_list, r)
               /\ Inserted(free_list, sizes, r).sizes = sizes
<1> DEFINE r == wilderness_ptr + size
           sizes == [size_at EXCEPT ![r] = GrowSize(size) - size]
           n == Len(free_list)
           between == {i \in 1 .. n - 1 : free_list[i] < r /\ r < free_list[i + 1]}
           place == IF n = 0 \/ r < free_list[1] THEN 0 ELSE Min({n} \cup between)
           lower == SubSeq(free_list, 1, place)
           upper == SubSeq(free_list, place + 1, n)
<1>0. /\ wilderness_ptr \in Nat /\ wilderness_ptr \in HeapAddresses /\ r \in Nat /\ wilderness_ptr < r
      /\ GrowSize(size) \in Nat /\ GrowSize(size) > size
  BY HeapNumbers DEF HeapTypeOK
<1>2. r \in HeapAddresses
  BY <1>0, HeapNumbers DEF HeapAddresses
<1>1. n \in Nat /\ DOMAIN free_list = 1 .. n /\ \A i \in 1 .. n : free_list[i] \in HeapAddresses /\ free_list[i] < r
  <2>1. n \in Nat /\ DOMAIN free_list = 1 .. n /\ \A i \in 1 .. n : free_list[i] \in HeapAddresses
    BY DEF HeapTypeOK
  <2>2. \A x \in HeapAddresses : x < wilderness_ptr => x < r
    BY <1>0, HeapNumbers
  <2> HIDE DEF r
  <2> QED
    BY <2>1, <2>2 DEF RangesOK
<1>3. between = {}
  <2>1. \A i \in 1 .. n - 1 : i + 1 \in 1 .. n
    BY <1>1
  <2>2. \A x \in HeapAddresses : x < r => ~(r < x)
    <3> HIDE DEF r
    <3>1. \A x, y \in Nat : x < y => ~(y < x)
      OBVIOUS
    <3> QED
      BY <1>0, <3>1, HeapNumbers
  <2> QED
    BY <1>1, <2>1, <2>2
<1>4. place = n
  <2>1. CASE n = 0
    BY <2>1
  <2>2. CASE n # 0
    <3>1. ~(r < free_list[1])
      <4>1. 1 \in 1 .. n
        BY <1>1, <2>2
      <4>2. free_list[1] \in Nat /\ r \in Nat /\ free_list[1] < r
        BY <1>1, <1>2, <4>1, HeapNumbers
      <4> HIDE DEF r
      <4> QED
        BY <4>2
    <3>2. Min({n} \cup between) = n
      <4>1. {n} \cup between = {n} /\ {n} \in SUBSET Nat /\ {n} # {}
        BY <1>1, <1>3
      <4>2. Min({n}) \in {n}
        BY <4>1, LeastElement
      <4> HIDE DEF between
      <4> QED
        BY <4>1, <4>2
    <3> QED
      BY <2>2, <3>1, <3>2
  <2> QED
    BY <2>1, <2>2
<1> HIDE DEF place
<1>5. lower = free_list /\ upper = << >>
  <2>1. lower = free_list
    <3>1. free_list \in Seq(HeapAddresses) /\ lower = SubSeq(free_list, 1, Len(free_list))
      BY <1>4 DEF HeapTypeOK
    <3> QED
      BY <3>1, SubSeqFull
  <2>2. upper = << >>
    BY <1>1, <1>4, SubSeqEmpty
  <2> QED
    BY <2>1, <2>2
<1>6. ~(lower # << >> /\ Last(lower) + sizes[Last(lower)] = r)
  <2> SUFFICES ASSUME lower # << >>, Last(lower) + sizes[Last(lower)] = r PROVE FALSE
    OBVIOUS
  <2> DEFINE x == Last(lower)
  <2>1. x = free_list[n] /\ n \in 1 .. n
    <3>1. x = free_list[n] /\ free_list # << >> /\ free_list \in Seq(HeapAddresses)
      BY <1>5 DEF Last, HeapTypeOK
    <3> QED
      BY <3>1
  <2>2. x \in HeapAddresses /\ x < wilderness_ptr /\ x # r
    <3>1. x \in HeapAddresses /\ x < wilderness_ptr
      BY <1>1, <2>1 DEF RangesOK
    <3> QED
      BY <1>0, <3>1, HeapNumbers
  <2>3. sizes[x] = size_at[x] /\ size_at[x] \in Nat
    BY <2>2 DEF HeapTypeOK
  <2>4. x + size_at[x] <= wilderness_ptr
    <3>1. CASE size_at[x] = 0
      <4>1. x \in Nat
        BY <2>2, HeapNumbers
      <4> HIDE DEF x
      <4> QED
        BY <1>0, <2>2, <3>1, <4>1
    <3>2. CASE size_at[x] # 0
      BY <2>2, <3>2 DEF RangesOK
    <3> QED
      BY <3>1, <3>2
  <2>5. wilderness_ptr \in Nat /\ x \in Nat /\ x + size_at[x] = wilderness_ptr + size
    <3>1. x + sizes[x] = r
      OBVIOUS
    <3> QED
      BY <1>0, <2>2, <2>3, <3>1, HeapNumbers
  <2> HIDE DEF x
  <2> QED
    BY <2>3, <2>4, <2>5
<1>7. lower \o << r >> \o upper = Append(free_list, r)
  <2>1. Append(free_list, r) \in Seq(HeapAddresses) /\ free_list \o << r >> = Append(free_list, r)
    BY <1>2 DEF HeapTypeOK
  <2>2. Append(free_list, r) \o << >> = Append(free_list, r)
    BY <2>1, ConcatEmptySeq
  <2> HIDE DEF r, lower, upper
  <2> QED
    BY <1>5, <2>1, <2>2
<1>8. Inserted(free_list, sizes, r) = [list |-> lower \o << r >> \o upper, sizes |-> sizes]
  <2> HIDE DEF lower, upper, sizes, r
  <2>1. upper = << >>
    BY <1>5
  <2> QED
    BY <1>6, <2>1 DEF Inserted, place, between, lower, upper
<1> HIDE DEF lower, upper, sizes, r
<1>9. Inserted(free_list, sizes, r).list = Append(free_list, r) /\ Inserted(free_list, sizes, r).sizes = sizes
  BY <1>7, <1>8
<1> QED
  BY <1>2, <1>9 DEF sizes, r

\* A block from a range that is free: what stays on the list is other ranges,
\* and at most one piece without a size.
LEMMA KmallocFromRange ==
    ASSUME HeapTypeOK, RangesOK, NEW size \in Nat \ {0}, Allocates(size), Fits(size) # {}
    PROVE  \E i \in DOMAIN free_list :
             /\ kmalloc(size).block = free_list[i] /\ size_at[free_list[i]] >= size
             /\ size_at' = size_at /\ wilderness_ptr' = wilderness_ptr
             /\ free_list' \in Seq(HeapAddresses)
             /\ \A k \in DOMAIN free_list' : free_list'[k] < wilderness_ptr
             /\ \A k \in DOMAIN free_list' : size_at[free_list'[k]] # 0 =>
                  \E j \in DOMAIN free_list : j # i /\ free_list'[k] = free_list[j]
             /\ \A k, l \in DOMAIN free_list' :
                  k # l /\ free_list'[k] = free_list'[l] => size_at[free_list'[k]] = 0
<1> DEFINE i == Candidate(size)
           x == free_list[i]
<1>1. i \in DOMAIN free_list /\ size_at[x] >= size
  BY CandidateFits DEF Fits
<1>2. /\ kmalloc(size).block = x /\ size_at' = size_at /\ wilderness_ptr' = wilderness_ptr
      /\ free_list' = IF size_at[x] = size THEN RemoveAt(free_list, i)
                      ELSE [free_list EXCEPT ![i] = Remainder(i, size)]
  BY DEF Allocates, kmalloc
<1> HIDE DEF i
<1>3. /\ x \in HeapAddresses /\ x \in Nat /\ size_at[x] \in Nat /\ size_at[x] # 0 /\ size_at[x] >= size
      /\ x + size_at[x] <= wilderness_ptr /\ wilderness_ptr \in HeapAddresses /\ wilderness_ptr \in Nat
  <2>1. x \in HeapAddresses /\ size_at[x] \in Nat /\ wilderness_ptr \in HeapAddresses
    BY <1>1 DEF HeapTypeOK
  <2>2. size_at[x] # 0
    BY <1>1, <2>1
  <2> QED
    BY <1>1, <2>1, <2>2, HeapNumbers DEF RangesOK
<1>4. /\ free_list \in Seq(HeapAddresses) /\ Len(free_list) \in Nat /\ DOMAIN free_list = 1 .. Len(free_list)
      /\ i \in 1 .. Len(free_list)
      /\ \A j \in DOMAIN free_list : free_list[j] \in HeapAddresses /\ free_list[j] < wilderness_ptr
  BY <1>1 DEF HeapTypeOK, RangesOK
<1> SUFFICES /\ free_list' \in Seq(HeapAddresses)
             /\ \A k \in DOMAIN free_list' : free_list'[k] < wilderness_ptr
             /\ \A k \in DOMAIN free_list' : size_at[free_list'[k]] # 0 =>
                  \E j \in DOMAIN free_list : j # i /\ free_list'[k] = free_list[j]
             /\ \A k, l \in DOMAIN free_list' :
                  k # l /\ free_list'[k] = free_list'[l] => size_at[free_list'[k]] = 0
  BY <1>1, <1>2
<1>5. CASE size_at[x] = size
  <2> DEFINE J(k) == IF k < i THEN k ELSE k + 1
  <2>1. /\ free_list' \in Seq(HeapAddresses) /\ DOMAIN free_list' = 1 .. Len(free_list) - 1
        /\ \A k \in DOMAIN free_list' : free_list'[k] = free_list[J(k)]
    BY <1>2, <1>4, <1>5, RemoveAtList
  <2>2. \A k \in 1 .. Len(free_list) - 1 : J(k) \in DOMAIN free_list /\ J(k) # i
    BY <1>4
  <2>3. \A k, l \in 1 .. Len(free_list) - 1 : k # l => J(k) # J(l)
    BY <1>4
  <2> HIDE DEF J
  <2>4. \A k, l \in DOMAIN free_list' :
          k # l /\ free_list'[k] = free_list'[l] => size_at[free_list'[k]] = 0
    BY <2>1, <2>2, <2>3 DEF RangesOK
  <2> QED
    BY <1>4, <2>1, <2>2, <2>4
<1>6. CASE size_at[x] # size
  <2> DEFINE y == x + size
  <2>1. y \in HeapAddresses /\ y < wilderness_ptr /\ x < y /\ y < x + size_at[x]
    <3>1. y \in Nat /\ x < y /\ y < x + size_at[x] /\ y < wilderness_ptr
      BY <1>3, <1>6
    <3> QED
      BY <1>3, <3>1, HeapNumbers DEF HeapAddresses
  <2>2. size_at[y] = 0
    <3> SUFFICES ASSUME size_at[y] # 0 PROVE FALSE
      OBVIOUS
    <3>1. x + size_at[x] <= y
      BY <1>3, <2>1 DEF RangesOK
    <3>2. y \in Nat
      BY <2>1, HeapNumbers
    <3> HIDE DEF y
    <3> QED
      BY <1>3, <2>1, <3>1, <3>2
  <2>3. free_list' = [free_list EXCEPT ![i] = y]
    BY <1>2, <1>6 DEF Remainder
  <2> HIDE DEF x, y
  <2>4. /\ free_list' \in Seq(HeapAddresses) /\ DOMAIN free_list' = DOMAIN free_list
        /\ free_list'[i] = y /\ \A k \in DOMAIN free_list : k # i => free_list'[k] = free_list[k]
    BY <1>4, <2>1, <2>3
  <2>5. \A k \in DOMAIN free_list' : free_list'[k] < wilderness_ptr
    BY <1>4, <2>1, <2>4
  <2>6. \A k \in DOMAIN free_list' : size_at[free_list'[k]] # 0 => k # i
    BY <2>2, <2>4
  <2>7. \A k, l \in DOMAIN free_list' :
          k # l /\ free_list'[k] = free_list'[l] => size_at[free_list'[k]] = 0
    BY <2>2, <2>4 DEF RangesOK
  <2> QED
    BY <2>4, <2>5, <2>6, <2>7
<1> QED
  BY <1>5, <1>6

\* A block from memory that the heap has just grown by.
LEMMA KmallocFromWilderness ==
    ASSUME HeapTypeOK, RangesOK, NEW size \in Nat \ {0}, Allocates(size), Fits(size) = {}
    PROVE  LET r == wilderness_ptr + size
           IN  /\ kmalloc(size).block = wilderness_ptr
               /\ r \in HeapAddresses /\ r < wilderness_ptr' /\ wilderness_ptr' <= HeapEnd
               /\ wilderness_ptr' = wilderness_ptr + GrowSize(size)
               /\ free_list' = Append(free_list, r)
               /\ size_at' = [size_at EXCEPT ![r] = GrowSize(size) - size]
<1> DEFINE r == wilderness_ptr + size
           sizes == [size_at EXCEPT ![r] = GrowSize(size) - size]
<1>1. wilderness_ptr + GrowSize(size) <= HeapEnd
  BY DEF Allocates, HasRoom
<1>2. /\ r \in HeapAddresses
      /\ Inserted(free_list, sizes, r).list = Append(free_list, r)
      /\ Inserted(free_list, sizes, r).sizes = sizes
  BY <1>1, GrownRange
<1>3. /\ kmalloc(size).block = wilderness_ptr
      /\ wilderness_ptr' = wilderness_ptr + GrowSize(size)
      /\ free_list' = Inserted(free_list, sizes, r).list
      /\ size_at' = Inserted(free_list, sizes, r).sizes
  BY DEF Allocates, kmalloc
<1>4. r < wilderness_ptr + GrowSize(size)
  BY HeapNumbers DEF HeapTypeOK
<1> HIDE DEF sizes, r
<1>5. free_list' = Append(free_list, r) /\ size_at' = sizes
  BY <1>2, <1>3
<1> QED
  BY <1>1, <1>2, <1>3, <1>4, <1>5 DEF sizes, r

LEMMA NewBlock ==
    ASSUME NEW B, NEW x \in HeapAddresses, NEW size \in Nat \ {0},
           B \subseteq [base : HeapAddresses, size : Nat \ {0}]
    PROVE  LET n == [base |-> x, size |-> size]
           IN  /\ n.base = x /\ n.size = size
               /\ B \cup {n} \subseteq [base : HeapAddresses, size : Nat \ {0}]
OBVIOUS

\* kmalloc gives out memory that no block and no free range holds.
LEMMA AllocatesStep ==
    ASSUME HeapTypeOK, RangesOK, BlocksOK, NEW size \in Nat \ {0}, Allocates(size)
    PROVE  /\ kmalloc(size).block \in HeapAddresses
           /\ wilderness_ptr' \in HeapAddresses
           /\ free_list' \in Seq(HeapAddresses)
           /\ size_at' \in [HeapAddresses -> Nat]
           /\ blocks' \subseteq [base : HeapAddresses, size : Nat \ {0}]
           /\ RangesOK' /\ BlocksOK'
           /\ blocks' = blocks \cup {[base |-> kmalloc(size).block, size |-> size]}
           /\ \A b \in blocks : Apart(b.base, b.size, kmalloc(size).block, size)
<1> DEFINE x == kmalloc(size).block
           new == [base |-> x, size |-> size]
<1>0. /\ wilderness_ptr \in HeapAddresses /\ wilderness_ptr \in Nat
      /\ \A y \in HeapAddresses : y \in Nat /\ size_at[y] \in Nat
      /\ \A b \in blocks : b.base \in HeapAddresses /\ b.base \in Nat /\ b.size \in Nat \ {0}
      /\ free_list \in Seq(HeapAddresses)
      /\ \A j \in DOMAIN free_list : free_list[j] \in HeapAddresses
  <2>1. /\ wilderness_ptr \in HeapAddresses
        /\ \A y \in HeapAddresses : y \in Nat /\ size_at[y] \in Nat
    BY HeapNumbers DEF HeapTypeOK
  <2>2. /\ free_list \in Seq(HeapAddresses)
        /\ \A j \in DOMAIN free_list : free_list[j] \in HeapAddresses
    BY DEF HeapTypeOK
  <2>3. \A b \in blocks : b.base \in HeapAddresses /\ b.size \in Nat \ {0}
    BY DEF HeapTypeOK
  <2> QED
    BY <2>1, <2>2, <2>3
<1>1. blocks' = blocks \cup {new}
  BY DEF Allocates
<1>2. CASE Fits(size) # {}
  <2>1. PICK i \in DOMAIN free_list :
          /\ x = free_list[i] /\ size_at[free_list[i]] >= size
          /\ size_at' = size_at /\ wilderness_ptr' = wilderness_ptr
          /\ free_list' \in Seq(HeapAddresses)
          /\ \A k \in DOMAIN free_list' : free_list'[k] < wilderness_ptr
          /\ \A k \in DOMAIN free_list' : size_at[free_list'[k]] # 0 =>
               \E j \in DOMAIN free_list : j # i /\ free_list'[k] = free_list[j]
          /\ \A k, l \in DOMAIN free_list' :
               k # l /\ free_list'[k] = free_list'[l] => size_at[free_list'[k]] = 0
    BY <1>2, KmallocFromRange
  <2> HIDE DEF x
  <2>2. x \in HeapAddresses /\ x \in Nat /\ size_at[x] \in Nat /\ size_at[x] # 0 /\ size <= size_at[x]
    <3>1. x \in HeapAddresses /\ size_at[x] >= size
      BY <1>0, <2>1
    <3>2. x \in Nat /\ size_at[x] \in Nat
      BY <1>0, <3>1
    <3> QED
      BY <3>1, <3>2
  <2>3. x + size <= wilderness_ptr
    <3>1. x + size_at[x] <= wilderness_ptr
      BY <2>2 DEF RangesOK
    <3> QED
      BY <1>0, <2>2, <3>1
  <2>4. \A b \in blocks : Apart(b.base, b.size, x, size)
    <3> TAKE b \in blocks
    <3>1. Apart(b.base, b.size, x, size_at[x])
      BY <2>1, <2>2 DEF BlocksOK
    <3> QED
      <4>1. b.base \in Nat /\ b.size \in Nat
        BY <1>0
      <4> QED
        BY <2>2, <3>1, <4>1 DEF Apart
  <2>5. RangesOK'
    BY <2>1 DEF RangesOK
  <2>6. new.base = x /\ new.size = size /\ blocks' \subseteq [base : HeapAddresses, size : Nat \ {0}]
    BY <1>1, <2>2, NewBlock DEF HeapTypeOK
  <2> HIDE DEF new
  <2>7. \A j \in DOMAIN free_list : j # i /\ size_at[free_list[j]] # 0 =>
          Apart(x, size, free_list[j], size_at[free_list[j]])
    <3> SUFFICES ASSUME NEW j \in DOMAIN free_list, j # i, size_at[free_list[j]] # 0
                 PROVE  Apart(x, size, free_list[j], size_at[free_list[j]])
      OBVIOUS
    <3>1. PICK y \in HeapAddresses : y = free_list[j]
      BY <1>0
    <3>2. y # x
      BY <2>1, <2>2, <3>1 DEF RangesOK
    <3>3. (x < y => x + size_at[x] <= y) /\ (y < x => y + size_at[y] <= x)
      BY <2>2, <3>1 DEF RangesOK
    <3>4. y \in Nat /\ size_at[y] \in Nat
      BY <1>0, <3>1
    <3> QED
      BY <2>2, <3>1, <3>2, <3>3, <3>4 DEF Apart
  <2>8. BlocksOK'
    <3>1. \A b \in blocks' : b.base + b.size <= wilderness_ptr'
      BY <1>1, <2>1, <2>3, <2>6 DEF BlocksOK
    <3>2. \A b, d \in blocks' : b # d => Apart(b.base, b.size, d.base, d.size)
      BY <1>1, <2>4, <2>6 DEF BlocksOK, Apart
    <3>3. \A b \in blocks', k \in DOMAIN free_list' :
            size_at'[free_list'[k]] # 0 => Apart(b.base, b.size, free_list'[k], size_at'[free_list'[k]])
      <4> SUFFICES ASSUME NEW b \in blocks', NEW k \in DOMAIN free_list', size_at[free_list'[k]] # 0
                   PROVE  Apart(b.base, b.size, free_list'[k], size_at[free_list'[k]])
        BY <2>1
      <4>1. PICK j \in DOMAIN free_list : j # i /\ free_list'[k] = free_list[j]
        BY <2>1
      <4> QED
        BY <1>1, <2>6, <2>7, <4>1 DEF BlocksOK
    <3> QED
      BY <3>1, <3>2, <3>3 DEF BlocksOK
  <2> QED
    BY <1>1, <2>1, <2>2, <2>4, <2>5, <2>6, <2>8 DEF HeapTypeOK, x, new
<1>3. CASE Fits(size) = {}
  <2> DEFINE r == wilderness_ptr + size
             g == GrowSize(size)
  <2>1. /\ x = wilderness_ptr
        /\ r \in HeapAddresses /\ r < wilderness_ptr' /\ wilderness_ptr' <= HeapEnd
        /\ wilderness_ptr' = wilderness_ptr + g
        /\ free_list' = Append(free_list, r)
        /\ size_at' = [size_at EXCEPT ![r] = g - size]
    BY <1>3, KmallocFromWilderness
  <2> HIDE DEF x
  <2>2. /\ g \in Nat /\ g > size /\ r \in Nat /\ g - size \in Nat /\ wilderness_ptr' \in Nat
        /\ wilderness_ptr < r /\ wilderness_ptr < wilderness_ptr'
        /\ r + (g - size) = wilderness_ptr'
    <3>1. g \in Nat /\ g > size
      BY HeapNumbers
    <3>2. wilderness_ptr \in Nat /\ wilderness_ptr' = wilderness_ptr + g
      BY <1>0, <2>1
    <3> HIDE DEF g
    <3> QED
      BY <3>1, <3>2
  <2>3. wilderness_ptr' \in HeapAddresses
    BY <1>0, <2>1, <2>2, HeapNumbers DEF HeapAddresses
  <2>d. r = wilderness_ptr + size
    OBVIOUS
  <2> HIDE DEF r, g
  <2>4. /\ free_list' \in Seq(HeapAddresses) /\ DOMAIN free_list' = 1 .. Len(free_list) + 1
        /\ Len(free_list) \in Nat /\ DOMAIN free_list = 1 .. Len(free_list)
        /\ free_list'[Len(free_list) + 1] = r
        /\ \A k \in DOMAIN free_list : free_list'[k] = free_list[k]
    BY <1>0, <2>1
  <2>5. \A k \in DOMAIN free_list' : (k \in DOMAIN free_list /\ k # Len(free_list) + 1) \/ k = Len(free_list) + 1
    BY <2>4
  <2>6. /\ size_at' \in [HeapAddresses -> Nat] /\ size_at'[r] = g - size
        /\ \A y \in HeapAddresses : y # r => size_at'[y] = size_at[y]
    BY <2>1, <2>2 DEF HeapTypeOK
  <2>7. \A j \in DOMAIN free_list :
          /\ free_list[j] < wilderness_ptr /\ free_list[j] < r /\ free_list[j] # r
          /\ size_at'[free_list[j]] = size_at[free_list[j]]
    <3> TAKE j \in DOMAIN free_list
    <3>1. free_list[j] < wilderness_ptr /\ free_list[j] \in HeapAddresses
      BY <1>0 DEF RangesOK
    <3>2. free_list[j] < r /\ free_list[j] # r
      <4>1. free_list[j] \in Nat /\ wilderness_ptr \in Nat
        BY <1>0, <3>1
      <4> QED
        BY <2>2, <3>1, <4>1
    <3> QED
      BY <2>6, <3>1, <3>2
  <2>8. \A y \in HeapAddresses : y # r /\ size_at'[y] # 0 => y + size_at'[y] <= wilderness_ptr
    BY <2>6 DEF RangesOK
  <2>9. RangesOK'
    <3>1. \A k \in DOMAIN free_list' : free_list'[k] < wilderness_ptr'
      <4> TAKE k \in DOMAIN free_list'
      <4>1. CASE k \in DOMAIN free_list
        <5>1. free_list[k] \in Nat /\ free_list[k] < wilderness_ptr /\ wilderness_ptr \in Nat
          BY <1>0, <2>7, <4>1
        <5> QED
          BY <2>2, <2>4, <4>1, <5>1
      <4> QED
        BY <2>1, <2>4, <2>5, <4>1
    <3>2. \A y \in HeapAddresses : size_at'[y] # 0 => y + size_at'[y] <= wilderness_ptr'
      <4> SUFFICES ASSUME NEW y \in HeapAddresses, size_at'[y] # 0 PROVE y + size_at'[y] <= wilderness_ptr'
        OBVIOUS
      <4>1. y \in Nat /\ size_at'[y] \in Nat
        BY <1>0, <2>6
      <4>2. CASE y = r
        BY <2>2, <2>6, <4>2
      <4>3. CASE y # r
        BY <1>0, <2>2, <2>8, <4>1, <4>3
      <4> QED
        BY <4>2, <4>3
    <3>3. \A y, z \in HeapAddresses : size_at'[y] # 0 /\ size_at'[z] # 0 /\ y < z => y + size_at'[y] <= z
      <4> SUFFICES ASSUME NEW y \in HeapAddresses, NEW z \in HeapAddresses,
                          size_at'[y] # 0, size_at'[z] # 0, y < z
                   PROVE  y + size_at'[y] <= z
        OBVIOUS
      <4>1. y \in Nat /\ size_at'[y] \in Nat /\ z \in Nat /\ size_at'[z] \in Nat
        BY <1>0, <2>6
      <4>2. CASE y = r
        <5>1. z # r /\ z + size_at'[z] <= wilderness_ptr
          BY <2>2, <2>8, <4>1, <4>2
        <5> QED
          BY <1>0, <2>2, <4>1, <4>2, <5>1
      <4>3. CASE z = r
        <5>1. y + size_at'[y] <= wilderness_ptr
          BY <2>2, <2>8, <4>1, <4>3
        <5> QED
          BY <1>0, <2>2, <4>1, <4>3, <5>1
      <4>4. CASE y # r /\ z # r
        BY <2>6, <4>4 DEF RangesOK
      <4> QED
        BY <4>2, <4>3, <4>4
    <3>4. \A k, l \in DOMAIN free_list' : k # l /\ free_list'[k] = free_list'[l] => size_at'[free_list'[k]] = 0
      BY <2>4, <2>5, <2>7 DEF RangesOK
    <3> QED
      BY <3>1, <3>2, <3>3, <3>4 DEF RangesOK
  <2>10. \A b \in blocks : Apart(b.base, b.size, x, size) /\ b.base + b.size <= wilderness_ptr
    BY <1>0, <2>1 DEF BlocksOK, Apart
  <2>11. new.base = x /\ new.size = size /\ blocks' \subseteq [base : HeapAddresses, size : Nat \ {0}]
    BY <1>0, <1>1, <2>1, NewBlock DEF HeapTypeOK
  <2> HIDE DEF new
  <2>12. BlocksOK'
    <3>1. \A b \in blocks' : b.base + b.size <= r /\ b.base + b.size <= wilderness_ptr'
      <4> TAKE b \in blocks'
      <4>1. CASE b \in blocks
        BY <1>0, <2>2, <2>10, <4>1
      <4>2. CASE b = new
        BY <1>0, <2>1, <2>2, <2>d, <2>11, <4>2
      <4> QED
        BY <1>1, <4>1, <4>2
    <3>2. \A b, d \in blocks' : b # d => Apart(b.base, b.size, d.base, d.size)
      BY <1>1, <2>10, <2>11 DEF BlocksOK, Apart
    <3>3. \A b \in blocks', k \in DOMAIN free_list' :
            size_at'[free_list'[k]] # 0 => Apart(b.base, b.size, free_list'[k], size_at'[free_list'[k]])
      <4> SUFFICES ASSUME NEW b \in blocks', NEW k \in DOMAIN free_list', size_at'[free_list'[k]] # 0
                   PROVE  Apart(b.base, b.size, free_list'[k], size_at'[free_list'[k]])
        OBVIOUS
      <4>1. CASE k = Len(free_list) + 1
        BY <2>4, <3>1, <4>1 DEF Apart
      <4>2. CASE k \in DOMAIN free_list /\ b \in blocks
        BY <2>4, <2>7, <4>2 DEF BlocksOK
      <4>3. CASE k \in DOMAIN free_list /\ b = new
        <5>1. free_list[k] + size_at[free_list[k]] <= x
          BY <1>0, <2>1, <2>4, <2>7, <2>8, <4>3
        <5> QED
          BY <2>4, <2>7, <2>11, <4>3, <5>1 DEF Apart
      <4> QED
        BY <1>1, <2>5, <4>1, <4>2, <4>3
    <3> QED
      BY <3>1, <3>2, <3>3 DEF BlocksOK
  <2> QED
    BY <1>0, <1>1, <2>1, <2>3, <2>4, <2>6, <2>9, <2>10, <2>11, <2>12 DEF x, new
<1> QED
  BY <1>2, <1>3

-----------------------------------------------------------------------------
LEMMA SlabType ==
    ASSUME HeapTypeOK, NEW s \in DOMAIN Slabs
    PROVE  /\ slab[s] \in [free : Seq(Nat), base : Nat, offset : 0 .. SLAB_SIZE]
           /\ slab[s].free \in Seq(Nat) /\ slab[s].base \in Nat /\ slab[s].offset \in 0 .. SLAB_SIZE
           /\ \A a \in ToSet(slab[s].free) : a \in Nat
<1>1. slab[s] \in [free : Seq(Nat), base : Nat, offset : 0 .. SLAB_SIZE]
  BY DEF HeapTypeOK
<1>2. slab[s].free \in Seq(Nat) /\ slab[s].base \in Nat /\ slab[s].offset \in 0 .. SLAB_SIZE
  BY <1>1
<1> QED
  BY <1>1, <1>2 DEF ToSet

LEMMA SameObject ==
    ASSUME NEW s, NEW t, NEW a, NEW b
    PROVE  [slab |-> s, base |-> a] = [slab |-> t, base |-> b] <=> s = t /\ a = b
<1>1. ASSUME [slab |-> s, base |-> a] = [slab |-> t, base |-> b] PROVE s = t /\ a = b
  <2>1. [slab |-> s, base |-> a].slab = s /\ [slab |-> t, base |-> b].slab = t
    OBVIOUS
  <2>2. [slab |-> s, base |-> a].base = a /\ [slab |-> t, base |-> b].base = b
    OBVIOUS
  <2> QED
    BY <1>1, <2>1, <2>2
<1> QED
  BY <1>1

\* slab_alloc and slab_free change one allocator.
LEMMA SlabUpdate ==
    ASSUME HeapTypeOK, NEW s \in DOMAIN Slabs, NEW q \in Seq(Nat), NEW x \in Nat, NEW n \in 0 .. SLAB_SIZE,
           \/ slab' = [slab EXCEPT ![s].free = q] /\ x = slab[s].base /\ n = slab[s].offset
           \/ slab' = [slab EXCEPT ![s].base = x, ![s].offset = n] /\ q = slab[s].free
    PROVE  /\ slab' \in [DOMAIN Slabs -> [free : Seq(Nat), base : Nat, offset : 0 .. SLAB_SIZE]]
           /\ slab'[s].free = q /\ slab'[s].base = x /\ slab'[s].offset = n
           /\ \A t \in DOMAIN Slabs : t # s => slab'[t] = slab[t]
<1>1. /\ slab'[s].free = q /\ slab'[s].base = x /\ slab'[s].offset = n
      /\ \A t \in DOMAIN Slabs : t # s => slab'[t] = slab[t]
  BY SlabType DEF HeapTypeOK
<1>2. slab' \in [DOMAIN Slabs -> [free : Seq(Nat), base : Nat, offset : 0 .. SLAB_SIZE]]
  <2> DEFINE R == [free : Seq(Nat), base : Nat, offset : 0 .. SLAB_SIZE]
  <2>1. \A y \in R : [slab EXCEPT ![s] = y] \in [DOMAIN Slabs -> R]
    BY DEF HeapTypeOK
  <2>2. slab[s] \in R
    BY SlabType
  <2>3. CASE slab' = [slab EXCEPT ![s].free = q]
    <3> DEFINE y == [slab[s] EXCEPT !.free = q]
    <3>1. y \in R
      BY <2>2
    <3>2. slab' = [slab EXCEPT ![s] = y]
      BY <2>3
    <3> QED
      BY <2>1, <3>1, <3>2
  <2>4. CASE slab' = [slab EXCEPT ![s].base = x, ![s].offset = n]
    <3> DEFINE y == [slab[s] EXCEPT !.base = x, !.offset = n]
    <3>1. y \in R
      BY <2>2
    <3>2. slab' = [slab EXCEPT ![s] = y]
      BY <2>4 DEF HeapTypeOK
    <3> QED
      BY <2>1, <3>1, <3>2
  <2> QED
    BY <2>3, <2>4
<1> QED
  BY <1>1, <1>2

LEMMA OffsetUpdate ==
    ASSUME HeapTypeOK, NEW s \in DOMAIN Slabs, NEW n \in 0 .. SLAB_SIZE, slab' = [slab EXCEPT ![s].offset = n]
    PROVE  /\ slab' \in [DOMAIN Slabs -> [free : Seq(Nat), base : Nat, offset : 0 .. SLAB_SIZE]]
           /\ slab'[s].free = slab[s].free /\ slab'[s].base = slab[s].base /\ slab'[s].offset = n
           /\ \A t \in DOMAIN Slabs : t # s => slab'[t] = slab[t]
<1> DEFINE R == [free : Seq(Nat), base : Nat, offset : 0 .. SLAB_SIZE]
           y == [slab[s] EXCEPT !.offset = n]
<1>1. \A z \in R : [slab EXCEPT ![s] = z] \in [DOMAIN Slabs -> R]
  BY DEF HeapTypeOK
<1>2. slab[s] \in R
  BY SlabType
<1>3. y \in R /\ y.free = slab[s].free /\ y.base = slab[s].base /\ y.offset = n
  BY <1>2
<1>4. slab' = [slab EXCEPT ![s] = y]
  OBVIOUS
<1> HIDE DEF R, y
<1>5. slab' \in [DOMAIN Slabs -> R]
  BY <1>1, <1>3, <1>4
<1>6. slab'[s] = y /\ \A t \in DOMAIN Slabs : t # s => slab'[t] = slab[t]
  BY <1>4 DEF HeapTypeOK
<1> QED
  BY <1>3, <1>5, <1>6 DEF R

\* Objects that stay with their allocator stay apart, whatever kmalloc adds.
LEMMA SameObjects ==
    ASSUME ObjectsOK, blocks \subseteq blocks',
           \A t \in DOMAIN Slabs, b \in Nat : Held(t, b)' <=> Held(t, b)
    PROVE  /\ \A s, t \in DOMAIN Slabs, a, b \in Nat :
                Held(s, a)' /\ Held(t, b)' /\ (s # t \/ a # b) => Apart(a, Slabs[s], b, Slabs[t])
           /\ \A s \in DOMAIN Slabs, a \in Nat :
                Held(s, a)' => \E b \in blocks' : b.base <= a /\ a + Slabs[s] <= b.base + b.size
BY DEF ObjectsOK

LEMMA SameSlabs ==
    ASSUME SlabsOK, blocks \subseteq blocks',
           \A t \in DOMAIN Slabs, b \in Nat : Held(t, b)' <=> Held(t, b),
           \A t \in DOMAIN Slabs : slab'[t].base = slab[t].base /\ slab'[t].offset = slab[t].offset
    PROVE  SlabsOK'
BY DEF SlabsOK

LEMMA AllocateDirectoryStep ==
    ASSUME HeapIInv, NEW size \in DirectorySizes, AllocateDirectory(size)
    PROVE  HeapIInv'
<1>0. HeapTypeOK /\ RangesOK /\ BlocksOK /\ ObjectsOK /\ SlabsOK
  BY DEF HeapIInv
<1>1. size \in Nat \ {0} /\ Allocates(size) /\ slab' = slab /\ in_use' = in_use
  BY HeapAssumption DEF AllocateDirectory
<1>2. /\ wilderness_ptr' \in HeapAddresses
      /\ free_list' \in Seq(HeapAddresses)
      /\ size_at' \in [HeapAddresses -> Nat]
      /\ blocks' \subseteq [base : HeapAddresses, size : Nat \ {0}]
      /\ RangesOK' /\ BlocksOK' /\ blocks \subseteq blocks'
  BY <1>0, <1>1, AllocatesStep
<1>3. \A t \in DOMAIN Slabs, b \in Nat : Held(t, b)' <=> Held(t, b)
  BY <1>1 DEF Held
<1>4. HeapTypeOK'
  BY <1>0, <1>1, <1>2 DEF HeapTypeOK
<1>5. ObjectsOK'
  BY <1>0, <1>1, <1>2, <1>3, SameObjects DEF ObjectsOK
<1>6. SlabsOK'
  BY <1>0, <1>1, <1>2, <1>3, SameSlabs
<1> QED
  BY <1>2, <1>4, <1>5, <1>6 DEF HeapIInv

\* slab_alloc of an object that was freed.
LEMMA SlabReuse ==
    ASSUME HeapIInv, NEW s \in DOMAIN Slabs, slab[s].free # << >>,
           slab' = [slab EXCEPT ![s].free = Tail(@)], Hands(s, Head(slab[s].free)),
           UNCHANGED <<free_list, size_at, wilderness_ptr, blocks>>
    PROVE  HeapIInv'
<1> DEFINE q == slab[s].free
           x == Head(q)
<1>0. HeapTypeOK /\ RangesOK /\ BlocksOK /\ ObjectsOK /\ SlabsOK
  BY DEF HeapIInv
<1>1. q \in Seq(Nat) /\ q # << >> /\ IsInjective(q)
  BY <1>0, SlabType DEF ObjectsOK
<1>2. /\ x \in Nat /\ x \in ToSet(q) /\ Tail(q) \in Seq(Nat)
      /\ ToSet(Tail(q)) = ToSet(q) \ {x} /\ IsInjective(Tail(q))
  BY <1>1, TailQueue, ToSetIsRange
<1>3. /\ slab' \in [DOMAIN Slabs -> [free : Seq(Nat), base : Nat, offset : 0 .. SLAB_SIZE]]
      /\ slab'[s].free = Tail(q) /\ slab'[s].base = slab[s].base /\ slab'[s].offset = slab[s].offset
      /\ \A t \in DOMAIN Slabs : t # s => slab'[t] = slab[t]
  <2>1. slab' = [slab EXCEPT ![s].free = Tail(q)]
    BY <1>0 DEF HeapTypeOK
  <2> QED
    BY <1>0, <1>2, <2>1, SlabType, SlabUpdate
<1>4. in_use' = in_use \cup {[slab |-> s, base |-> x]} /\ blocks' = blocks
  BY DEF Hands
<1> HIDE DEF x
<1>5. \A t \in DOMAIN Slabs, b \in Nat : Held(t, b)' <=> Held(t, b)
  <2> TAKE t \in DOMAIN Slabs, b \in Nat
  <2>1. CASE t # s
    <3>1. [slab |-> t, base |-> b] # [slab |-> s, base |-> x]
      BY <2>1, SameObject
    <3> QED
      BY <1>3, <1>4, <2>1, <3>1 DEF Held
  <2>2. CASE t = s /\ b # x
    <3>1. [slab |-> t, base |-> b] # [slab |-> s, base |-> x]
      BY <2>2, SameObject
    <3> QED
      BY <1>2, <1>3, <1>4, <2>2, <3>1 DEF Held
  <2>3. CASE t = s /\ b = x
    BY <1>2, <1>4, <2>3 DEF Held
  <2> QED
    BY <2>1, <2>2, <2>3
<1>6. HeapTypeOK'
  <2>1. in_use' \subseteq [slab : DOMAIN Slabs, base : Nat]
    BY <1>0, <1>2, <1>4 DEF HeapTypeOK
  <2> QED
    BY <1>0, <1>3, <2>1 DEF HeapTypeOK
<1>7. RangesOK' /\ BlocksOK'
  BY <1>0 DEF RangesOK, BlocksOK
<1>8. ObjectsOK'
  <2>1. \A t \in DOMAIN Slabs : IsInjective(slab'[t].free)
    BY <1>0, <1>2, <1>3 DEF ObjectsOK
  <2>2. \A t \in DOMAIN Slabs : \A a \in ToSet(slab'[t].free) : [slab |-> t, base |-> a] \notin in_use'
    <3> SUFFICES ASSUME NEW t \in DOMAIN Slabs, NEW a \in ToSet(slab'[t].free)
                 PROVE  [slab |-> t, base |-> a] \notin in_use'
      BY Zenon
    <3>1. a \in ToSet(slab[t].free) /\ (t # s \/ a # x)
      BY <1>2, <1>3
    <3>2. [slab |-> t, base |-> a] # [slab |-> s, base |-> x]
      BY <3>1, SameObject
    <3> QED
      BY <1>0, <1>4, <3>1, <3>2 DEF ObjectsOK
  <2>3. blocks \subseteq blocks'
    BY <1>4
  <2> QED
    BY <1>0, <1>5, <2>1, <2>2, <2>3, SameObjects DEF ObjectsOK
<1>9. SlabsOK'
  <2>1. blocks \subseteq blocks' /\ \A t \in DOMAIN Slabs : slab'[t].base = slab[t].base /\ slab'[t].offset = slab[t].offset
    BY <1>3, <1>4
  <2> QED
    BY <1>0, <1>5, <2>1, SameSlabs
<1> QED
  BY <1>6, <1>7, <1>8, <1>9 DEF HeapIInv

\* slab_free puts an object that is in use on the list of its allocator.
LEMMA SlabFreeStep ==
    ASSUME HeapIInv, NEW o \in in_use, slab_free(o)
    PROVE  HeapIInv'
<1>0. HeapTypeOK /\ RangesOK /\ BlocksOK /\ ObjectsOK /\ SlabsOK
  BY DEF HeapIInv
<1>1. PICK s \in DOMAIN Slabs, x \in Nat : o = [slab |-> s, base |-> x] /\ o.slab = s /\ o.base = x
  BY <1>0 DEF HeapTypeOK
<1> DEFINE q == slab[s].free
           p == << x >> \o q
<1>2. q \in Seq(Nat) /\ IsInjective(q) /\ x \notin ToSet(q)
  BY <1>0, <1>1, SlabType DEF ObjectsOK
<1>3. p \in Seq(Nat) /\ ToSet(p) = ToSet(q) \cup {x} /\ IsInjective(p)
  BY <1>2, PushQueue
<1>4. /\ slab' \in [DOMAIN Slabs -> [free : Seq(Nat), base : Nat, offset : 0 .. SLAB_SIZE]]
      /\ slab'[s].free = p /\ slab'[s].base = slab[s].base /\ slab'[s].offset = slab[s].offset
      /\ \A t \in DOMAIN Slabs : t # s => slab'[t] = slab[t]
  <2>1. slab' = [slab EXCEPT ![s].free = p]
    BY <1>0, <1>1 DEF HeapTypeOK, slab_free
  <2> QED
    BY <1>0, <1>3, <2>1, SlabType, SlabUpdate
<1>5. in_use' = in_use \ {[slab |-> s, base |-> x]} /\ blocks' = blocks
  BY <1>1 DEF slab_free
<1> HIDE DEF p
<1>6. \A t \in DOMAIN Slabs, b \in Nat : Held(t, b)' <=> Held(t, b)
  <2> TAKE t \in DOMAIN Slabs, b \in Nat
  <2>1. CASE t # s
    <3>1. [slab |-> t, base |-> b] # [slab |-> s, base |-> x]
      BY <2>1, SameObject
    <3> QED
      BY <1>4, <1>5, <2>1, <3>1 DEF Held
  <2>2. CASE t = s /\ b # x
    <3>1. [slab |-> t, base |-> b] # [slab |-> s, base |-> x]
      BY <2>2, SameObject
    <3> QED
      BY <1>3, <1>4, <1>5, <2>2, <3>1 DEF Held
  <2>3. CASE t = s /\ b = x
    BY <1>1, <1>3, <1>4, <2>3 DEF Held
  <2> QED
    BY <2>1, <2>2, <2>3
<1>7. HeapTypeOK'
  BY <1>0, <1>4, <1>5 DEF HeapTypeOK, slab_free
<1>8. RangesOK' /\ BlocksOK'
  BY <1>0 DEF RangesOK, BlocksOK, slab_free
<1>9. ObjectsOK'
  <2>1. \A t \in DOMAIN Slabs : IsInjective(slab'[t].free)
    BY <1>0, <1>3, <1>4 DEF ObjectsOK
  <2>2. \A t \in DOMAIN Slabs : \A a \in ToSet(slab'[t].free) : [slab |-> t, base |-> a] \notin in_use'
    <3> SUFFICES ASSUME NEW t \in DOMAIN Slabs, NEW a \in ToSet(slab'[t].free)
                 PROVE  [slab |-> t, base |-> a] \notin in_use'
      BY Zenon
    <3>1. a \in ToSet(slab[t].free) \/ (t = s /\ a = x)
      BY <1>3, <1>4
    <3> QED
      BY <1>0, <1>5, <3>1 DEF ObjectsOK
  <2>3. blocks \subseteq blocks'
    BY <1>5
  <2> QED
    BY <1>0, <1>6, <2>1, <2>2, <2>3, SameObjects DEF ObjectsOK
<1>10. SlabsOK'
  <2>1. blocks \subseteq blocks' /\ \A t \in DOMAIN Slabs : slab'[t].base = slab[t].base /\ slab'[t].offset = slab[t].offset
    BY <1>4, <1>5
  <2> QED
    BY <1>0, <1>6, <2>1, SameSlabs
<1> QED
  BY <1>7, <1>8, <1>9, <1>10 DEF HeapIInv

\* An object that is handed out for the first time.
LEMMA SlabNewObject ==
    ASSUME HeapTypeOK, ObjectsOK, NEW s \in DOMAIN Slabs, NEW x \in Nat, blocks \subseteq blocks',
           slab[s].free = << >>, \A t \in DOMAIN Slabs : slab'[t].free = slab[t].free,
           in_use' = in_use \cup {[slab |-> s, base |-> x]},
           \A t \in DOMAIN Slabs, b \in Nat : Held(t, b) => Apart(x, Slabs[s], b, Slabs[t]),
           \E b \in blocks' : b.base <= x /\ x + Slabs[s] <= b.base + b.size
    PROVE  /\ ObjectsOK'
           /\ \A t \in DOMAIN Slabs, b \in Nat : Held(t, b)' => Held(t, b) \/ (t = s /\ b = x)
           /\ in_use' \subseteq [slab : DOMAIN Slabs, base : Nat]
<1>1. \A t \in DOMAIN Slabs, b \in Nat : Held(t, b)' => Held(t, b) \/ (t = s /\ b = x)
  BY SameObject DEF Held
<1>2. in_use' \subseteq [slab : DOMAIN Slabs, base : Nat]
  BY DEF HeapTypeOK
<1>3. ASSUME NEW t \in DOMAIN Slabs, NEW u \in DOMAIN Slabs, NEW a \in Nat, NEW b \in Nat,
             Held(t, a)', Held(u, b)', t # u \/ a # b
      PROVE  Apart(a, Slabs[t], b, Slabs[u])
  <2>1. CASE Held(t, a) /\ Held(u, b)
    BY <1>3, <2>1 DEF ObjectsOK
  <2>2. CASE Held(t, a) /\ u = s /\ b = x
    BY <2>2 DEF Apart
  <2>3. CASE Held(u, b) /\ t = s /\ a = x
    BY <2>3
  <2> QED
    BY <1>1, <1>3, <2>1, <2>2, <2>3
<1>4. ASSUME NEW t \in DOMAIN Slabs, NEW a \in Nat, Held(t, a)'
      PROVE  \E b \in blocks' : b.base <= a /\ a + Slabs[t] <= b.base + b.size
  <2>1. CASE Held(t, a)
    BY <2>1 DEF ObjectsOK
  <2>2. CASE t = s /\ a = x
    BY <2>2
  <2> QED
    BY <1>1, <1>4, <2>1, <2>2
<1>5. \A t \in DOMAIN Slabs : IsInjective(slab'[t].free)
  BY DEF ObjectsOK
<1>6. \A t \in DOMAIN Slabs : \A a \in ToSet(slab'[t].free) : [slab |-> t, base |-> a] \notin in_use'
  <2> SUFFICES ASSUME NEW t \in DOMAIN Slabs, NEW a \in ToSet(slab'[t].free)
               PROVE  [slab |-> t, base |-> a] \notin in_use'
    BY Zenon
  <2>1. a \in ToSet(slab[t].free)
    OBVIOUS
  <2>2. t # s
    BY <2>1 DEF ToSet
  <2>3. [slab |-> t, base |-> a] # [slab |-> s, base |-> x]
    BY <2>2, SameObject
  <2> QED
    BY <2>1, <2>3 DEF ObjectsOK
<1>7. ObjectsOK'
  BY <1>3, <1>4, <1>5, <1>6 DEF ObjectsOK
<1> QED
  BY <1>1, <1>2, <1>7

\* Where the objects of a slab lie.
LEMMA CutApart ==
    ASSUME NEW p \in Nat, NEW n \in Nat, NEW k \in Nat, NEW l \in Nat, NEW b \in Nat, NEW m \in Nat,
           n + k <= l, b + m <= p + n \/ p + l <= b
    PROVE  Apart(p + n, k, b, m)
BY DEF Apart

LEMMA CutAbove ==
    ASSUME NEW p \in Nat, NEW n \in Nat, NEW k \in Nat, NEW l \in Nat, NEW c \in Nat, NEW z \in Nat,
           n + k <= l, Apart(c, l, p, l)
    PROVE  (p + n) + k <= c + z \/ c + l <= p + n
BY DEF Apart

\* slab_alloc that takes a new slab from the heap.
LEMMA SlabGrow ==
    ASSUME HeapIInv, NEW s \in DOMAIN Slabs, slab[s].free = << >>, Allocates(SLAB_SIZE),
           slab' = [slab EXCEPT ![s].base = kmalloc(SLAB_SIZE).block, ![s].offset = Slabs[s]],
           Hands(s, kmalloc(SLAB_SIZE).block)
    PROVE  HeapIInv'
<1> DEFINE y == kmalloc(SLAB_SIZE).block
<1>0. HeapTypeOK /\ RangesOK /\ BlocksOK /\ ObjectsOK /\ SlabsOK
  BY DEF HeapIInv
<1>1. /\ y \in HeapAddresses
      /\ wilderness_ptr' \in HeapAddresses
      /\ free_list' \in Seq(HeapAddresses)
      /\ size_at' \in [HeapAddresses -> Nat]
      /\ blocks' \subseteq [base : HeapAddresses, size : Nat \ {0}]
      /\ RangesOK' /\ BlocksOK'
      /\ blocks' = blocks \cup {[base |-> y, size |-> SLAB_SIZE]}
      /\ \A b \in blocks : Apart(b.base, b.size, y, SLAB_SIZE)
  BY <1>0, AllocatesStep, HeapNumbers
<1>2. PICK x \in HeapAddresses : x = y
  BY <1>1
<1>3. x \in Nat /\ x # 0 /\ SLAB_SIZE \in Nat /\ \A t \in DOMAIN Slabs : Slabs[t] \in Nat /\ Slabs[t] > 0 /\ Slabs[t] <= SLAB_SIZE
  BY HeapNumbers
<1>4. /\ slab' \in [DOMAIN Slabs -> [free : Seq(Nat), base : Nat, offset : 0 .. SLAB_SIZE]]
      /\ slab'[s].free = slab[s].free /\ slab'[s].base = x /\ slab'[s].offset = Slabs[s]
      /\ \A t \in DOMAIN Slabs : t # s => slab'[t] = slab[t]
  <2>1. Slabs[s] \in 0 .. SLAB_SIZE /\ slab[s].free \in Seq(Nat)
    BY <1>0, <1>3, SlabType
  <2>2. slab' = [slab EXCEPT ![s].base = x, ![s].offset = Slabs[s]]
    BY <1>2
  <2> QED
    BY <1>0, <1>3, <2>1, <2>2, SlabUpdate
<1>5. in_use' = in_use \cup {[slab |-> s, base |-> x]}
  BY <1>2 DEF Hands
<1> HIDE DEF y
<1>6. /\ [base |-> x, size |-> SLAB_SIZE] \in blocks' /\ blocks \subseteq blocks'
      /\ \A b \in blocks : Apart(b.base, b.size, x, SLAB_SIZE)
  BY <1>1, <1>2
<1>7. \A b \in blocks : b.base \in Nat /\ b.size \in Nat
  BY <1>0, HeapNumbers DEF HeapTypeOK
<1>8. \A t \in DOMAIN Slabs, b \in Nat : Held(t, b) => Apart(x, SLAB_SIZE, b, Slabs[t])
  <2> SUFFICES ASSUME NEW t \in DOMAIN Slabs, NEW b \in Nat, Held(t, b) PROVE Apart(x, SLAB_SIZE, b, Slabs[t])
    OBVIOUS
  <2>1. PICK d \in blocks : d.base <= b /\ b + Slabs[t] <= d.base + d.size
    BY <1>0 DEF ObjectsOK
  <2>2. Apart(d.base, d.size, x, SLAB_SIZE) /\ d.base \in Nat /\ d.size \in Nat
    BY <1>6, <1>7
  <2> QED
    BY <1>3, <2>1, <2>2 DEF Apart
<1>9. \A t \in DOMAIN Slabs, b \in Nat : Held(t, b) => Apart(x, Slabs[s], b, Slabs[t])
  BY <1>3, <1>8 DEF Apart
<1>10. \E b \in blocks' : b.base <= x /\ x + Slabs[s] <= b.base + b.size
  <2> DEFINE n == [base |-> x, size |-> SLAB_SIZE]
  <2>1. n \in blocks' /\ n.base = x /\ n.size = SLAB_SIZE
    BY <1>6
  <2> HIDE DEF n
  <2> QED
    BY <1>3, <2>1
<1>11. /\ ObjectsOK'
       /\ \A t \in DOMAIN Slabs, b \in Nat : Held(t, b)' => Held(t, b) \/ (t = s /\ b = x)
       /\ in_use' \subseteq [slab : DOMAIN Slabs, base : Nat]
  <2>1. \A t \in DOMAIN Slabs : slab'[t].free = slab[t].free
    BY <1>4
  <2> QED
    BY <1>0, <1>3, <1>5, <1>6, <1>9, <1>10, <2>1, SlabNewObject
<1>12. HeapTypeOK'
  BY <1>1, <1>4, <1>11 DEF HeapTypeOK
<1>13. ASSUME NEW t \in DOMAIN Slabs, t # s, slab[t].base # 0
       PROVE  slab[t].base \in Nat /\ slab[t].offset \in Nat /\ Apart(slab[t].base, SLAB_SIZE, x, SLAB_SIZE)
  <2> DEFINE d == [base |-> slab[t].base, size |-> SLAB_SIZE]
  <2>1. d \in blocks /\ d.base = slab[t].base /\ d.size = SLAB_SIZE
    BY <1>0, <1>13 DEF SlabsOK
  <2>2. slab[t].base \in Nat /\ slab[t].offset \in Nat
    BY <1>0, <1>3, SlabType
  <2> HIDE DEF d
  <2> QED
    BY <1>6, <2>1, <2>2
<1>14. SlabsOK'
  <2>1. \A t \in DOMAIN Slabs : slab'[t].base # 0 => [base |-> slab'[t].base, size |-> SLAB_SIZE] \in blocks'
    BY <1>0, <1>4, <1>6 DEF SlabsOK
  <2>2. \A t \in DOMAIN Slabs : t # s => slab[t].base # x
    BY <1>3, <1>13 DEF Apart
  <2>3. \A t, u \in DOMAIN Slabs : t # u /\ slab'[t].base = slab'[u].base => slab'[t].base = 0
    BY <1>0, <1>4, <2>2 DEF SlabsOK
  <2>4. ASSUME NEW t \in DOMAIN Slabs, NEW u \in DOMAIN Slabs, NEW a \in Nat, slab'[t].base # 0, Held(u, a)'
        PROVE  a + Slabs[u] <= slab'[t].base + slab'[t].offset \/ slab'[t].base + SLAB_SIZE <= a
    <3>1. CASE t = s /\ Held(u, a)
      BY <1>3, <1>4, <1>8, <3>1 DEF Apart
    <3>2. CASE t = s /\ u = s /\ a = x
      BY <1>3, <1>4, <3>2
    <3>3. CASE t # s /\ Held(u, a)
      BY <1>0, <1>4, <2>4, <3>3 DEF SlabsOK
    <3>4. CASE t # s /\ u = s /\ a = x
      <4>1. slab'[t] = slab[t] /\ slab[t].base # 0
        BY <1>4, <2>4, <3>4
      <4>2. slab[t].base \in Nat /\ slab[t].offset \in Nat /\ Apart(slab[t].base, SLAB_SIZE, x, SLAB_SIZE)
        BY <1>13, <3>4, <4>1
      <4>3. Slabs[u] \in Nat /\ Slabs[u] <= SLAB_SIZE
        BY <1>3
      <4>4. a + Slabs[u] <= slab[t].base + slab[t].offset \/ slab[t].base + SLAB_SIZE <= a
        <5>1. (x + 0) + Slabs[u] <= slab[t].base + slab[t].offset \/ slab[t].base + SLAB_SIZE <= x + 0
          <6>1. 0 + Slabs[u] <= SLAB_SIZE /\ 0 \in Nat
            BY <4>3
          <6> QED
            BY <1>3, <4>2, <4>3, <6>1, CutAbove
        <5>2. x + 0 = x
          BY <1>3
        <5> QED
          BY <3>4, <5>1, <5>2
      <4> QED
        BY <4>1, <4>4
    <3> QED
      BY <1>11, <2>4, <3>1, <3>2, <3>3, <3>4
  <2> QED
    BY <2>1, <2>3, <2>4 DEF SlabsOK
<1> QED
  BY <1>1, <1>11, <1>12, <1>14 DEF HeapIInv

\* slab_alloc that cuts an object from the current slab.
LEMMA SlabCut ==
    ASSUME HeapIInv, NEW s \in DOMAIN Slabs, slab[s].free = << >>, ~Full(s),
           slab' = [slab EXCEPT ![s].offset = @ + Slabs[s]],
           Hands(s, slab[s].base + slab[s].offset),
           UNCHANGED <<free_list, size_at, wilderness_ptr, blocks>>
    PROVE  HeapIInv'
<1>0. HeapTypeOK /\ RangesOK /\ BlocksOK /\ ObjectsOK /\ SlabsOK
  BY DEF HeapIInv
<1>1. PICK p \in Nat, n \in Nat : p = slab[s].base /\ n = slab[s].offset
  BY <1>0, SlabType, HeapNumbers
<1>2. PICK x \in Nat : x = p + n
  OBVIOUS
<1>3. /\ p # 0 /\ n + Slabs[s] <= SLAB_SIZE /\ SLAB_SIZE \in Nat
      /\ \A t \in DOMAIN Slabs : Slabs[t] \in Nat /\ Slabs[t] > 0 /\ Slabs[t] <= SLAB_SIZE
  <2>1. /\ SLAB_SIZE \in Nat
        /\ \A t \in DOMAIN Slabs : Slabs[t] \in Nat /\ Slabs[t] > 0 /\ Slabs[t] <= SLAB_SIZE
    BY HeapNumbers
  <2>2. p # 0 /\ ~(n + Slabs[s] > SLAB_SIZE)
    BY <1>1 DEF Full
  <2>3. Slabs[s] \in Nat
    BY <2>1
  <2> QED
    BY <2>1, <2>2, <2>3
<1>4. /\ slab' \in [DOMAIN Slabs -> [free : Seq(Nat), base : Nat, offset : 0 .. SLAB_SIZE]]
      /\ slab'[s].free = slab[s].free /\ slab'[s].base = p /\ slab'[s].offset = n + Slabs[s]
      /\ \A t \in DOMAIN Slabs : t # s => slab'[t] = slab[t]
  <2>1. n + Slabs[s] \in 0 .. SLAB_SIZE /\ slab[s].free \in Seq(Nat)
    BY <1>0, <1>1, <1>3, SlabType
  <2>2. PICK k \in 0 .. SLAB_SIZE : k = n + Slabs[s]
    BY <2>1
  <2>3. slab' = [slab EXCEPT ![s].offset = k]
    BY <1>0, <1>1, <2>2 DEF HeapTypeOK
  <2>4. /\ slab' \in [DOMAIN Slabs -> [free : Seq(Nat), base : Nat, offset : 0 .. SLAB_SIZE]]
        /\ slab'[s].free = slab[s].free /\ slab'[s].base = slab[s].base /\ slab'[s].offset = k
        /\ \A t \in DOMAIN Slabs : t # s => slab'[t] = slab[t]
    BY <1>0, <2>3, OffsetUpdate
  <2> QED
    BY <1>1, <2>2, <2>4
<1>5. in_use' = in_use \cup {[slab |-> s, base |-> x]} /\ blocks' = blocks /\ blocks \subseteq blocks'
  BY <1>1, <1>2 DEF Hands
<1>6. \A t \in DOMAIN Slabs, b \in Nat : Held(t, b) => Apart(x, Slabs[s], b, Slabs[t])
  <2> SUFFICES ASSUME NEW t \in DOMAIN Slabs, NEW b \in Nat, Held(t, b) PROVE Apart(x, Slabs[s], b, Slabs[t])
    OBVIOUS
  <2>1. b + Slabs[t] <= p + n \/ p + SLAB_SIZE <= b
    BY <1>0, <1>1, <1>3 DEF SlabsOK
  <2>2. Slabs[t] \in Nat /\ Slabs[s] \in Nat
    BY <1>3
  <2> QED
    BY <1>2, <1>3, <2>1, <2>2, CutApart
<1> DEFINE d == [base |-> p, size |-> SLAB_SIZE]
<1>7. d \in blocks /\ d.base = p /\ d.size = SLAB_SIZE
  BY <1>0, <1>1, <1>3 DEF SlabsOK
<1> HIDE DEF d
<1>8. \E b \in blocks' : b.base <= x /\ x + Slabs[s] <= b.base + b.size
  BY <1>2, <1>3, <1>5, <1>7
<1>9. /\ ObjectsOK'
      /\ \A t \in DOMAIN Slabs, b \in Nat : Held(t, b)' => Held(t, b) \/ (t = s /\ b = x)
      /\ in_use' \subseteq [slab : DOMAIN Slabs, base : Nat]
  <2>1. \A t \in DOMAIN Slabs : slab'[t].free = slab[t].free
    BY <1>4
  <2> QED
    BY <1>0, <1>5, <1>6, <1>8, <2>1, SlabNewObject
<1>10. HeapTypeOK'
  BY <1>0, <1>4, <1>9 DEF HeapTypeOK
<1>11. RangesOK' /\ BlocksOK'
  BY <1>0 DEF RangesOK, BlocksOK
<1>12. ASSUME NEW t \in DOMAIN Slabs, t # s, slab[t].base # 0
       PROVE  slab[t].base \in Nat /\ slab[t].offset \in Nat /\ Apart(slab[t].base, SLAB_SIZE, p, SLAB_SIZE)
  <2> DEFINE e == [base |-> slab[t].base, size |-> SLAB_SIZE]
  <2>1. e \in blocks /\ e.base = slab[t].base /\ e.size = SLAB_SIZE
    BY <1>0, <1>12 DEF SlabsOK
  <2>2. slab[t].base \in Nat /\ slab[t].offset \in Nat
    BY <1>0, <1>3, SlabType
  <2> HIDE DEF e
  <2>3. e # d
    BY <1>0, <1>1, <1>7, <1>12, <2>1 DEF SlabsOK
  <2> QED
    BY <1>0, <1>7, <2>1, <2>2, <2>3 DEF BlocksOK
<1>13. SlabsOK'
  <2>0. \A t \in DOMAIN Slabs : slab'[t].base = slab[t].base
    BY <1>1, <1>4
  <2>1. \A t \in DOMAIN Slabs : slab'[t].base # 0 => [base |-> slab'[t].base, size |-> SLAB_SIZE] \in blocks'
    BY <1>0, <1>5, <2>0 DEF SlabsOK
  <2>2. \A t, u \in DOMAIN Slabs : t # u /\ slab'[t].base = slab'[u].base => slab'[t].base = 0
    BY <1>0, <2>0 DEF SlabsOK
  <2>3. ASSUME NEW t \in DOMAIN Slabs, NEW u \in DOMAIN Slabs, NEW a \in Nat, slab'[t].base # 0, Held(u, a)'
        PROVE  a + Slabs[u] <= slab'[t].base + slab'[t].offset \/ slab'[t].base + SLAB_SIZE <= a
    <3>1. CASE t = s /\ Held(u, a)
      <4>1. a + Slabs[u] <= p + n \/ p + SLAB_SIZE <= a
        BY <1>0, <1>1, <1>3, <3>1 DEF SlabsOK
      <4> QED
        BY <1>3, <1>4, <3>1, <4>1
    <3>2. CASE t = s /\ u = s /\ a = x
      BY <1>2, <1>3, <1>4, <3>2
    <3>3. CASE t # s /\ Held(u, a)
      BY <1>0, <1>4, <2>3, <3>3 DEF SlabsOK
    <3>4. CASE t # s /\ u = s /\ a = x
      <4>1. slab'[t] = slab[t] /\ slab[t].base # 0
        BY <1>4, <2>3, <3>4
      <4>2. slab[t].base \in Nat /\ slab[t].offset \in Nat /\ Apart(slab[t].base, SLAB_SIZE, p, SLAB_SIZE)
        BY <1>12, <3>4, <4>1
      <4>3. Slabs[u] \in Nat /\ x = p + n /\ n + Slabs[u] <= SLAB_SIZE
        BY <1>2, <1>3, <3>4
      <4>4. a + Slabs[u] <= slab[t].base + slab[t].offset \/ slab[t].base + SLAB_SIZE <= a
        BY <1>3, <3>4, <4>2, <4>3, CutAbove
      <4> QED
        BY <4>1, <4>4
    <3> QED
      BY <1>9, <2>3, <3>1, <3>2, <3>3, <3>4
  <2> QED
    BY <2>1, <2>2, <2>3 DEF SlabsOK
<1> QED
  BY <1>9, <1>10, <1>11, <1>13 DEF HeapIInv

LEMMA HeapInitIInv == HeapInit => HeapIInv
<1> SUFFICES ASSUME HeapInit PROVE HeapIInv
  OBVIOUS
<1> USE DEF HeapInit
<1>1. HeapTypeOK
  <2>1. wilderness_ptr \in HeapAddresses
    <3>1. HEAP_BASE \in Nat /\ HEAP_SIZE \in Nat
      BY HeapAssumption
    <3> QED
      BY <3>1 DEF HeapAddresses, HeapEnd
  <2>2. slab \in [DOMAIN Slabs -> [free : Seq(Nat), base : Nat, offset : 0 .. SLAB_SIZE]]
    BY HeapNumbers
  <2> QED
    BY <2>1, <2>2 DEF HeapTypeOK, HeapAddresses
<1>2. RangesOK /\ BlocksOK
  BY DEF RangesOK, BlocksOK, HeapAddresses
<1>3. \A s \in DOMAIN Slabs, a \in Nat : ~Held(s, a)
  BY DEF Held, ToSet
<1>4. ObjectsOK /\ SlabsOK
  BY <1>3 DEF ObjectsOK, SlabsOK, IsInjective, ToSet
<1> QED
  BY <1>1, <1>2, <1>4 DEF HeapIInv

LEMMA HeapStepIInv == HeapIInv /\ [HeapNext]_heapVars => HeapIInv'
<1> SUFFICES ASSUME HeapIInv, [HeapNext]_heapVars PROVE HeapIInv'
  OBVIOUS
<1>1. ASSUME NEW size \in DirectorySizes, AllocateDirectory(size) PROVE HeapIInv'
  BY <1>1, AllocateDirectoryStep
<1>2. ASSUME NEW s \in DOMAIN Slabs, slab_alloc(s) PROVE HeapIInv'
  BY <1>2, SlabReuse, SlabGrow, SlabCut DEF slab_alloc
<1>3. ASSUME NEW o \in in_use, slab_free(o) PROVE HeapIInv'
  BY <1>3, SlabFreeStep
<1>4. CASE UNCHANGED heapVars
  <2> USE <1>4 DEF heapVars
  <2>1. HeapTypeOK' /\ RangesOK' /\ BlocksOK'
    BY DEF HeapIInv, HeapTypeOK, RangesOK, BlocksOK
  <2>2. \A t \in DOMAIN Slabs, b \in Nat : Held(t, b)' <=> Held(t, b)
    BY DEF Held
  <2>3. ObjectsOK' /\ SlabsOK'
    BY <2>2 DEF HeapIInv, ObjectsOK, SlabsOK
  <2> QED
    BY <2>1, <2>3 DEF HeapIInv
<1> QED
  BY <1>1, <1>2, <1>3, <1>4 DEF HeapNext

LEMMA ApartCells ==
    ASSUME NEW a \in Nat, NEW m \in Nat, NEW b \in Nat, NEW n \in Nat, Apart(a, m, b, n)
    PROVE  Cells(a, m) \cap Cells(b, n) = {}
BY DEF Apart, Cells

LEMMA HeapIInvImplies == HeapIInv => AllocationsDisjoint
<1> SUFFICES ASSUME HeapIInv PROVE AllocationsDisjoint
  OBVIOUS
<1>0. HeapTypeOK /\ RangesOK /\ BlocksOK /\ ObjectsOK /\ SlabsOK
  BY DEF HeapIInv
<1>1. \A b \in blocks : b.base \in Nat /\ b.size \in Nat /\ b.base >= HEAP_BASE /\ b.base + b.size <= wilderness_ptr
  BY <1>0, HeapNumbers DEF HeapTypeOK, BlocksOK, HeapAddresses
<1>2. \A i \in DOMAIN free_list :
        /\ free_list[i] \in HeapAddresses /\ free_list[i] \in Nat /\ size_at[free_list[i]] \in Nat
        /\ size_at[free_list[i]] = 0 => RangeCells(i) = {}
  <2> TAKE i \in DOMAIN free_list
  <2>1. free_list[i] \in HeapAddresses /\ size_at[free_list[i]] \in Nat
    BY <1>0 DEF HeapTypeOK
  <2>2. free_list[i] \in Nat
    BY <2>1, HeapNumbers
  <2>3. \A x \in Nat : Cells(x, 0) = {}
    BY DEF Cells
  <2> QED
    BY <2>1, <2>2, <2>3 DEF RangeCells
<1>3. \A b, d \in blocks : b # d => BlockCells(b) \cap BlockCells(d) = {}
  BY <1>0, <1>1, ApartCells DEF BlocksOK, BlockCells
<1>4. ASSUME NEW i \in DOMAIN free_list, NEW b \in blocks
      PROVE  RangeCells(i) \cap BlockCells(b) = {}
  <2>1. CASE size_at[free_list[i]] = 0
    BY <1>2, <2>1
  <2>2. CASE size_at[free_list[i]] # 0
    <3>1. Apart(b.base, b.size, free_list[i], size_at[free_list[i]])
      BY <1>0, <2>2 DEF BlocksOK
    <3>2. Cells(b.base, b.size) \cap Cells(free_list[i], size_at[free_list[i]]) = {}
      BY <1>1, <1>2, <3>1, ApartCells
    <3> QED
      BY <3>2 DEF RangeCells, BlockCells
  <2> QED
    BY <2>1, <2>2
<1>5. ASSUME NEW i \in DOMAIN free_list, NEW j \in DOMAIN free_list, i # j
      PROVE  RangeCells(i) \cap RangeCells(j) = {}
  <2>1. CASE size_at[free_list[i]] = 0 \/ size_at[free_list[j]] = 0
    BY <1>2, <2>1
  <2>2. CASE size_at[free_list[i]] # 0 /\ size_at[free_list[j]] # 0
    <3>1. free_list[i] # free_list[j]
      BY <1>0, <1>5, <2>2 DEF RangesOK
    <3>2. Apart(free_list[i], size_at[free_list[i]], free_list[j], size_at[free_list[j]])
      BY <1>0, <1>2, <2>2, <3>1 DEF RangesOK, Apart
    <3> QED
      BY <1>2, <3>2, ApartCells DEF RangeCells
  <2> QED
    BY <2>1, <2>2
<1>6. ASSUME NEW o \in in_use
      PROVE  \E s \in DOMAIN Slabs, a \in Nat :
               Held(s, a) /\ o = [slab |-> s, base |-> a] /\ ObjectCells(o) = Cells(a, Slabs[s])
  <2>1. PICK s \in DOMAIN Slabs, a \in Nat : o = [slab |-> s, base |-> a] /\ o.slab = s /\ o.base = a
    BY <1>0 DEF HeapTypeOK
  <2>2. Held(s, a)
    BY <2>1 DEF Held
  <2> QED
    BY <2>1, <2>2 DEF ObjectCells
<1>7. ASSUME NEW o \in in_use, NEW p \in in_use, o # p
      PROVE  ObjectCells(o) \cap ObjectCells(p) = {}
  <2>1. PICK s \in DOMAIN Slabs, a \in Nat :
          Held(s, a) /\ o = [slab |-> s, base |-> a] /\ ObjectCells(o) = Cells(a, Slabs[s])
    BY <1>6
  <2>2. PICK t \in DOMAIN Slabs, b \in Nat :
          Held(t, b) /\ p = [slab |-> t, base |-> b] /\ ObjectCells(p) = Cells(b, Slabs[t])
    BY <1>6
  <2>3. s # t \/ a # b
    BY <1>7, <2>1, <2>2
  <2>4. Apart(a, Slabs[s], b, Slabs[t])
    BY <1>0, <2>1, <2>2, <2>3 DEF ObjectsOK
  <2>5. Slabs[s] \in Nat /\ Slabs[t] \in Nat
    BY HeapNumbers
  <2> QED
    BY <2>1, <2>2, <2>4, <2>5, ApartCells
<1>8. ASSUME NEW o \in in_use PROVE \E b \in blocks : ObjectCells(o) \subseteq BlockCells(b)
  <2>1. PICK s \in DOMAIN Slabs, a \in Nat :
          Held(s, a) /\ o = [slab |-> s, base |-> a] /\ ObjectCells(o) = Cells(a, Slabs[s])
    BY <1>6
  <2>2. PICK b \in blocks : b.base <= a /\ a + Slabs[s] <= b.base + b.size
    BY <1>0, <2>1 DEF ObjectsOK
  <2>3. Slabs[s] \in Nat /\ b.base \in Nat /\ b.size \in Nat
    BY <1>1, HeapNumbers
  <2>4. \A z, k, l, m \in Nat : l <= z /\ z + k <= l + m => Cells(z, k) \subseteq Cells(l, m)
    BY DEF Cells
  <2>5. Cells(a, Slabs[s]) \subseteq Cells(b.base, b.size)
    BY <2>1, <2>2, <2>3, <2>4
  <2> QED
    BY <2>1, <2>5 DEF BlockCells
<1>9. \A b \in blocks : BlockCells(b) \subseteq HEAP_BASE .. wilderness_ptr - 1
  <2>1. wilderness_ptr \in Nat /\ HEAP_BASE \in Nat
    BY <1>0, HeapNumbers DEF HeapTypeOK
  <2> QED
    BY <1>1, <2>1 DEF Cells, BlockCells
<1>10. \A s \in DOMAIN Slabs : \A a \in ToSet(slab[s].free) : [slab |-> s, base |-> a] \notin in_use
  BY <1>0, Zenon DEF ObjectsOK
<1> QED
  BY <1>3, <1>4, <1>5, <1>7, <1>8, <1>9, <1>10 DEF AllocationsDisjoint

\* kmalloc, slab_alloc and slab_free, in any order and for any sizes, never
\* give memory that is in use to another: no two objects, blocks or free ranges
\* and no block and free range overlap, though a split leaves a range whose size field
\* was never written (kernel_heap.c:67).
THEOREM AllocationsNeverOverlap == HeapSpec => []AllocationsDisjoint
<1>1. HeapSpec => []HeapIInv
  BY HeapInitIInv, HeapStepIInv, PTL DEF HeapSpec
<1> QED
  BY <1>1, HeapIInvImplies, PTL


-----------------------------------------------------------------------------
(***************************************************************************)
(* Area maps.  Addresses are sums of pages: everything but the placement   *)
(* itself follows from what a number that is a multiple of the page size   *)
(* is, so that the lemmas about such numbers come first.                   *)
(***************************************************************************)
Aligned(x) == x \in Int /\ x % PAGE_SIZE = 0

\* An area on page boundaries inside the map.
PageArea(a) ==
    /\ LOW <= a.low /\ a.low < a.high /\ a.high <= HIGH
    /\ Aligned(a.low) /\ Aligned(a.high + 1)

AreasOK(L) ==
    /\ L \in Seq(Area)
    /\ \A i \in 1 .. Len(L) : PageArea(L[i])
    /\ \A i, j \in 1 .. Len(L) : i < j => L[i].high < L[j].low

\* Where a search puts an area there is nothing, and it is in order there.
Placed(L, new) ==
    /\ new.index \in 1 .. Len(L) + 1
    /\ new.area \in Area /\ PageArea(new.area)
    /\ \A j \in 1 .. Len(L) : j < new.index => L[j].high < new.area.low
    /\ \A j \in 1 .. Len(L) : j >= new.index => new.area.high < L[j].low

\* What an area of this size could be put at.
FreeAt(L, s, size) ==
    /\ s \in Nat /\ LOW <= s /\ Aligned(s) /\ s + size - 1 <= HIGH
    /\ \A j \in 1 .. Len(L) : s + size - 1 < L[j].low \/ L[j].high < s

AreaIInv == map \in DOMAIN Requests /\ AreasOK(area_list)

-----------------------------------------------------------------------------
LEMMA QuotientOf ==
    ASSUME NEW p \in Nat, p > 0, NEW x \in Int, NEW y \in Int, y = x % p
    PROVE  x - y = p * (x \div p)
BY Z3

LEMMA Quotient ==
    ASSUME NEW p \in Nat, p > 0, NEW x \in Int
    PROVE  \E q \in Int, r \in 0 .. p - 1 : r = x % p /\ x = p * q + r
<1>1. x % p \in 0 .. p - 1 /\ x \div p \in Int
  OBVIOUS
<1> DEFINE q == x \div p
           y == x % p
<1>2. x - y = p * q
  BY QuotientOf, <1>1
<1> HIDE DEF q, y
<1>3. x = p * q + y /\ q \in Int
  BY <1>1, <1>2 DEF q, y
<1>4. y \in 0 .. p - 1 /\ y = x % p
  BY <1>1 DEF y
<1> QED
  BY <1>3, <1>4

LEMMA RemainderOf ==
    ASSUME NEW p \in Nat, p > 0, NEW x \in Int, NEW q \in Int, NEW r \in 0 .. p - 1, x = p * q + r
    PROVE  x % p = r
OBVIOUS

\* Multiples of the page size are closed under addition and subtraction, and
\* two different ones are a page apart.
LEMMA Multiple ==
    ASSUME NEW x, Aligned(x)
    PROVE  \E q \in Int : x = PAGE_SIZE * q
<1>1. x \in Int /\ x % PAGE_SIZE = 0 /\ PAGE_SIZE \in Nat /\ PAGE_SIZE > 0
  BY WordAssumption DEF Aligned
<1>2. PICK q \in Int, r \in 0 .. PAGE_SIZE - 1 : r = x % PAGE_SIZE /\ x = PAGE_SIZE * q + r
  BY <1>1, Quotient
<1> QED
  BY <1>1, <1>2

LEMMA MultipleAligned ==
    ASSUME NEW q \in Int, NEW x \in Int, x = PAGE_SIZE * q
    PROVE  Aligned(x)
<1>1. PAGE_SIZE \in Nat /\ PAGE_SIZE > 0 /\ 0 \in 0 .. PAGE_SIZE - 1 /\ x = PAGE_SIZE * q + 0
  BY WordAssumption
<1> QED
  BY <1>1, RemainderOf DEF Aligned

LEMMA AlignedSums ==
    ASSUME NEW x, NEW y, Aligned(x), Aligned(y)
    PROVE  /\ x \in Int /\ y \in Int
           /\ Aligned(x + y) /\ Aligned(x - y)
           /\ x < y => x + PAGE_SIZE <= y
<1>1. PICK q \in Int : x = PAGE_SIZE * q
  BY Multiple
<1>2. PICK k \in Int : y = PAGE_SIZE * k
  BY Multiple
<1>3. PAGE_SIZE \in Nat /\ PAGE_SIZE > 0
  BY WordAssumption
<1>4. x \in Int /\ y \in Int
  BY DEF Aligned
<1>5. x + y = PAGE_SIZE * (q + k) /\ x - y = PAGE_SIZE * (q - k)
  BY <1>1, <1>2, <1>3
<1>6. q + k \in Int /\ q - k \in Int /\ x + y \in Int /\ x - y \in Int
  BY <1>4
<1>7. Aligned(x + y)
  BY <1>5, <1>6, MultipleAligned
<1>8. Aligned(x - y)
  BY <1>5, <1>6, MultipleAligned
<1>9. ASSUME x < y PROVE x + PAGE_SIZE <= y
  <2>1. q + 1 <= k
    BY <1>1, <1>2, <1>3, <1>9
  <2>2. PAGE_SIZE * (q + 1) <= PAGE_SIZE * k
    BY <2>1, <1>3
  <2> QED
    BY <2>2, <1>1, <1>2, <1>3
<1> QED
  BY <1>4, <1>7, <1>8, <1>9

\* The last address of a page.
LEMMA AlignedEnd ==
    ASSUME NEW x \in Int
    PROVE  x % PAGE_SIZE = PAGE_SIZE - 1 <=> Aligned(x + 1)
<1>1. PAGE_SIZE \in Nat /\ PAGE_SIZE > 0 /\ PAGE_SIZE - 1 \in 0 .. PAGE_SIZE - 1 /\ x + 1 \in Int
  BY WordAssumption
<1>2. ASSUME x % PAGE_SIZE = PAGE_SIZE - 1 PROVE Aligned(x + 1)
  <2>1. PICK q \in Int, r \in 0 .. PAGE_SIZE - 1 : r = x % PAGE_SIZE /\ x = PAGE_SIZE * q + r
    BY <1>1, Quotient
  <2>2. x + 1 = PAGE_SIZE * (q + 1) /\ q + 1 \in Int
    BY <1>1, <1>2, <2>1
  <2> QED
    BY <1>1, <2>2, MultipleAligned
<1>3. ASSUME Aligned(x + 1) PROVE x % PAGE_SIZE = PAGE_SIZE - 1
  <2>1. PICK q \in Int : x + 1 = PAGE_SIZE * q
    BY <1>3, Multiple
  <2>2. x = PAGE_SIZE * (q - 1) + (PAGE_SIZE - 1) /\ q - 1 \in Int
    BY <1>1, <2>1
  <2> QED
    BY <1>1, <2>2, RemainderOf
<1> QED
  BY <1>2, <1>3

LEMMA PageAlign ==
    ASSUME NEW x \in Nat
    PROVE  /\ Aligned(PAGE_ALIGN(x)) /\ PAGE_ALIGN(x) \in Nat
           /\ PAGE_ALIGN(x) <= x /\ x < PAGE_ALIGN(x) + PAGE_SIZE
<1>1. PAGE_SIZE \in Nat /\ PAGE_SIZE > 0
  BY WordAssumption
<1>2. PICK q \in Int, r \in 0 .. PAGE_SIZE - 1 : r = x % PAGE_SIZE /\ x = PAGE_SIZE * q + r
  BY <1>1, Quotient
<1> DEFINE y == x - r
<1>3. y = PAGE_SIZE * q /\ y \in Int /\ y <= x /\ x < y + PAGE_SIZE
  BY <1>1, <1>2
<1>4. PAGE_ALIGN(x) = y
  BY <1>2 DEF PAGE_ALIGN
<1> HIDE DEF y
<1>5. Aligned(y)
  BY <1>3, MultipleAligned
<1>6. y >= 0
  <2>1. CASE q <= -1
    <3>1. PAGE_SIZE * q <= -PAGE_SIZE
      BY <1>1, <2>1
    <3> QED
      BY <1>1, <1>3, <3>1
  <2>2. CASE q >= 0
    BY <1>1, <1>3, <2>2
  <2> QED
    BY <2>1, <2>2
<1> QED
  BY <1>3, <1>4, <1>5, <1>6

LEMMA PageNumbers ==
    /\ PAGE_SIZE \in Nat /\ PAGE_SIZE > 1 /\ WORD \in Nat
    /\ Aligned(PAGE_SIZE) /\ Aligned(WORD) /\ Aligned(0)
<1>1. PAGE_SIZE \in Nat /\ PAGE_SIZE > 1 /\ WORD \in Nat /\ WORD % PAGE_SIZE = 0
  BY WordAssumption
<1>2. ASSUME NEW p \in Nat, p > 0 PROVE p % p = 0 /\ 0 % p = 0
  BY <1>2
<1>3. PAGE_SIZE % PAGE_SIZE = 0 /\ 0 % PAGE_SIZE = 0
  BY <1>1, <1>2
<1> QED
  BY <1>1, <1>3 DEF Aligned

\* A sum or difference that leaves the machine words comes back into them.
LEMMA Wraps ==
    ASSUME NEW a \in Int, NEW b \in Int, WORD > 0
    PROVE  /\ a + b \in 0 .. WORD - 1 => Plus(a, b) = a + b
           /\ a + b = WORD => Plus(a, b) = 0
           /\ a - b \in 0 .. WORD - 1 => Minus(a, b) = a - b
           /\ a - b = -1 => Minus(a, b) = WORD - 1
<1>1. WORD \in Nat
  BY WordAssumption
<1>2. ASSUME NEW x \in Int
      PROVE  /\ x \in 0 .. WORD - 1 => x % WORD = x
             /\ x = WORD => x % WORD = 0
             /\ x = -1 => x % WORD = WORD - 1
  BY <1>1
<1>3. a + b \in Int /\ a - b \in Int
  OBVIOUS
<1> QED
  BY <1>2, <1>3 DEF Plus, Minus

\* The greatest member of a finite set of numbers.
LEMMA GreatestElement ==
    ASSUME NEW n \in Nat, NEW S \in SUBSET (0 .. n), S # {}
    PROVE  Max(S) \in S /\ \A x \in S : x <= Max(S)
<1> DEFINE T == {n - x : x \in S}
<1>1. T \in SUBSET Nat /\ T # {}
  <2>1. \A x \in S : n - x \in Nat
    OBVIOUS
  <2>2. PICK x \in S : TRUE
    OBVIOUS
  <2>3. n - x \in T
    OBVIOUS
  <2> QED
    BY <2>1, <2>3
<1>2. Min(T) \in T /\ \A y \in T : Min(T) <= y
  BY <1>1, LeastElement
<1>3. PICK m \in S : Min(T) = n - m
  BY <1>2
<1>4. \A x \in S : x <= m
  <2> TAKE x \in S
  <2>1. n - x \in T
    OBVIOUS
  <2>2. n - m <= n - x
    BY <1>2, <1>3, <2>1
  <2> QED
    BY <2>2
<1> QED
  BY <1>4 DEF Max

LEMMA InsertAtList ==
    ASSUME NEW S, NEW s \in Seq(S), NEW i \in 1 .. Len(s) + 1, NEW e \in S
    PROVE  /\ InsertAt(s, i, e) \in Seq(S) /\ Len(InsertAt(s, i, e)) = Len(s) + 1
           /\ InsertAt(s, i, e)[i] = e
           /\ \A k \in 1 .. Len(s) + 1 :
                 k # i => InsertAt(s, i, e)[k] = s[IF k < i THEN k ELSE k - 1]
<1>1. Len(s) \in Nat /\ i \in Nat /\ \A k \in 1 .. Len(s) : s[k] \in S
  OBVIOUS
<1> DEFINE u == SubSeq(s, 1, i - 1)
           v == SubSeq(s, i, Len(s))
<1>2. u \in Seq(S) /\ Len(u) = i - 1 /\ \A k \in 1 .. i - 1 : u[k] = s[k]
  BY <1>1, SubSeqProperties
<1>3. v \in Seq(S) /\ Len(v) = Len(s) - i + 1 /\ \A k \in 1 .. Len(s) - i + 1 : v[k] = s[i + k - 1]
  BY <1>1, SubSeqProperties
<1> HIDE DEF u, v
<1> DEFINE w == u \o << e >>
<1>4. /\ w \in Seq(S) /\ Len(w) = i
      /\ \A k \in 1 .. i : w[k] = IF k < i THEN s[k] ELSE e
  <2>1. /\ << e >> \in Seq(S) /\ Len(<< e >>) = 1 /\ << e >>[1] = e
    OBVIOUS
  <2>2. /\ w \in Seq(S) /\ Len(w) = Len(u) + 1
        /\ \A k \in 1 .. Len(u) + 1 : w[k] = IF k <= Len(u) THEN u[k] ELSE << e >>[k - Len(u)]
    BY <1>2, <2>1, ConcatProperties
  <2> HIDE DEF w
  <2>3. Len(u) + 1 = i
    BY <1>1, <1>2
  <2>4. ASSUME NEW k \in 1 .. i PROVE w[k] = IF k < i THEN s[k] ELSE e
    <3>1. CASE k < i
      BY <1>2, <2>2, <2>3, <3>1
    <3>2. CASE k = i
      <4>1. k - Len(u) = 1 /\ ~(k <= Len(u))
        BY <1>2, <3>2
      <4> QED
        BY <2>1, <2>2, <2>3, <3>2, <4>1
    <3> QED
      BY <3>1, <3>2
  <2> QED
    BY <2>2, <2>3, <2>4
<1> HIDE DEF w
<1>5. /\ w \o v \in Seq(S) /\ Len(w \o v) = Len(s) + 1
      /\ \A k \in 1 .. Len(s) + 1 : (w \o v)[k] = IF k <= i THEN w[k] ELSE v[k - i]
  <2>1. /\ w \o v \in Seq(S) /\ Len(w \o v) = Len(w) + Len(v)
        /\ \A k \in 1 .. Len(w) + Len(v) : (w \o v)[k] = IF k <= Len(w) THEN w[k] ELSE v[k - Len(w)]
    BY <1>3, <1>4, ConcatProperties
  <2>2. Len(w) + Len(v) = Len(s) + 1
    BY <1>1, <1>3, <1>4
  <2> QED
    BY <1>4, <2>1, <2>2
<1>6. ASSUME NEW k \in 1 .. Len(s) + 1
      PROVE  /\ k = i => (w \o v)[k] = e
             /\ k # i => (w \o v)[k] = s[IF k < i THEN k ELSE k - 1]
  <2>1. CASE k <= i
    BY <1>1, <1>4, <1>5, <2>1
  <2>2. CASE k > i
    <3>1. k - i \in 1 .. Len(s) - i + 1 /\ i + (k - i) - 1 = k - 1
      BY <1>1, <2>2
    <3>2. v[k - i] = s[k - 1] /\ ~(k <= i) /\ ~(k < i) /\ k # i
      BY <1>1, <1>3, <2>2, <3>1
    <3> QED
      BY <1>5, <3>2
  <2>3. k <= i \/ k > i
    BY <1>1
  <2> QED
    BY <2>1, <2>2, <2>3
<1>7. InsertAt(s, i, e) = w \o v
  BY DEF InsertAt, u, v, w
<1> QED
  BY <1>5, <1>6, <1>7

LEMMA MapFacts ==
    ASSUME map \in DOMAIN Requests
    PROVE  /\ LOW \in Nat /\ HIGH \in Nat /\ 0 < LOW /\ LOW < HIGH /\ HIGH < WORD
           /\ Aligned(LOW) /\ Aligned(HIGH + 1)
           /\ Word = 0 .. WORD - 1 /\ WORD > 0
<1>1. map \in Area /\ map.low < map.high /\ map.low > 0
  BY MapAssumption, CallersAssumption
<1>2. map.low % PAGE_SIZE = 0 /\ map.high % PAGE_SIZE = PAGE_SIZE - 1
  BY MapAssumption
<1>3. WORD \in Nat
  BY WordAssumption
<1>4. LOW \in Nat /\ HIGH \in Nat /\ 0 < LOW /\ LOW < HIGH /\ HIGH < WORD
  BY <1>1, <1>3 DEF Area, Word, LOW, HIGH
<1>5. Aligned(LOW)
  BY <1>2, <1>4 DEF Aligned, LOW
<1>6. Aligned(HIGH + 1)
  BY <1>2, <1>4, AlignedEnd DEF HIGH
<1> QED
  BY <1>3, <1>4, <1>5, <1>6 DEF Word

\* An area put between two neighbours is in order with the whole list.
LEMMA PlacedBetween ==
    ASSUME map \in DOMAIN Requests, NEW L, AreasOK(L), NEW i \in 1 .. Len(L) + 1,
           NEW low, NEW size, Aligned(low), Aligned(size), size > 0,
           LOW <= low, low + size - 1 <= HIGH,
           i > 1 => L[i - 1].high < low,
           i <= Len(L) => low + size - 1 < L[i].low
    PROVE  /\ Placed(L, Insert(i, low, size)) /\ Insert(i, low, size) # Fail
           /\ Insert(i, low, size).area.low = low /\ Insert(i, low, size).area.high = low + size - 1
<1>1. low \in Int /\ size \in Int /\ PAGE_SIZE <= size /\ Aligned(low + size) /\ PAGE_SIZE > 1
      /\ PAGE_SIZE \in Nat
  BY AlignedSums, PageNumbers
<1>2. /\ LOW \in Nat /\ HIGH \in Nat /\ 0 < LOW /\ LOW < HIGH /\ HIGH < WORD /\ WORD \in Nat
      /\ Word = 0 .. WORD - 1 /\ WORD > 0
  BY MapFacts, PageNumbers
<1>3. alloc_area(low, size) = [low |-> low, high |-> low + size - 1]
  <2>1. CASE low + size = WORD
    <3>1. Plus(low, size) = 0
      BY <1>1, <1>2, <2>1, Wraps
    <3>2. Minus(0, 1) = WORD - 1
      <4>1. \A a, b \in Int : a - b = -1 => Minus(a, b) = WORD - 1
        BY <1>2, Wraps
      <4>2. 0 \in Int /\ 1 \in Int /\ 0 - 1 = -1
        OBVIOUS
      <4> QED
        BY <4>1, <4>2
    <3> QED
      BY <1>1, <1>2, <2>1, <3>1, <3>2 DEF alloc_area
  <2>2. CASE low + size # WORD
    <3>1. low + size \in 0 .. WORD - 1 /\ (low + size) - 1 \in 0 .. WORD - 1
      BY <1>1, <1>2, <2>2
    <3>2. Plus(low, size) = low + size
      BY <1>1, <1>2, <3>1, Wraps
    <3>3. Minus(low + size, 1) = low + size - 1
      BY <1>1, <1>2, <3>1, Wraps
    <3> QED
      BY <3>2, <3>3 DEF alloc_area
  <2> QED
    BY <2>1, <2>2
<1> DEFINE new == Insert(i, low, size)
           h == low + size - 1
<1>4. new.index = i /\ new.area = [low |-> low, high |-> h]
  BY <1>3 DEF Insert
<1>5. h \in Int /\ low < h /\ h <= HIGH /\ h + 1 = low + size
  BY <1>1, <1>2
<1>6. new.area.low = low /\ new.area.high = h
  BY <1>4
<1>7. new.area \in Area
  BY <1>1, <1>2, <1>4, <1>5 DEF Area
<1>8. PageArea(new.area)
  BY <1>1, <1>5, <1>6 DEF PageArea
<1>9. L \in Seq(Area) /\ Len(L) \in Nat /\ \A j \in 1 .. Len(L) : L[j].low \in Int /\ L[j].high \in Int
                                                              /\ L[j].low < L[j].high
  <2>1. L \in Seq(Area)
    BY DEF AreasOK
  <2>2. \A j \in 1 .. Len(L) : L[j] \in Area /\ PageArea(L[j])
    BY <2>1 DEF AreasOK
  <2> QED
    BY <1>2, <2>1, <2>2 DEF Area, PageArea
<1> HIDE DEF new, h
<1>10. ASSUME NEW j \in 1 .. Len(L), j < i PROVE L[j].high < low
  <2>1. CASE j = i - 1
    BY <1>10, <2>1
  <2>2. CASE j # i - 1
    <3>1. i - 1 \in 1 .. Len(L) /\ j < i - 1
      BY <1>9, <1>10, <2>2
    <3>2. L[j].high < L[i - 1].low /\ L[i - 1].high < low
      BY <3>1, <1>9 DEF AreasOK
    <3> QED
      BY <1>1, <1>9, <3>1, <3>2
  <2> QED
    BY <2>1, <2>2
<1>11. ASSUME NEW j \in 1 .. Len(L), j >= i PROVE h < L[j].low
  <2>0. i \in 1 .. Len(L) /\ h < L[i].low
    BY <1>9, <1>11 DEF h
  <2>1. CASE j = i
    BY <2>0, <2>1
  <2>2. CASE j # i
    <3>1. L[i].high < L[j].low
      BY <1>11, <2>0, <2>2 DEF AreasOK
    <3> QED
      BY <1>5, <1>9, <2>0, <3>1
  <2> QED
    BY <2>1, <2>2
<1>12. Placed(L, new)
  BY <1>4, <1>6, <1>7, <1>8, <1>10, <1>11 DEF Placed
<1>13. new # Fail
  <2>1. Fail.index = 0 /\ new.index # 0
    BY <1>4 DEF Fail
  <2> QED
    BY <2>1
<1> QED
  BY <1>6, <1>12, <1>13 DEF new, h

LEMMA AreaFacts ==
    ASSUME map \in DOMAIN Requests, NEW L, AreasOK(L)
    PROVE  /\ Len(L) \in Nat
           /\ \A j \in 1 .. Len(L) :
                 /\ L[j].low \in Nat /\ L[j].high \in Nat /\ L[j].low < L[j].high
                 /\ LOW <= L[j].low /\ L[j].high <= HIGH
                 /\ Aligned(L[j].low) /\ Aligned(L[j].high + 1)
           /\ \A i, j \in 1 .. Len(L) : i < j => L[i].high < L[j].low
<1>1. L \in Seq(Area) /\ Len(L) \in Nat
  BY DEF AreasOK
<1>2. \A j \in 1 .. Len(L) : L[j] \in Area /\ PageArea(L[j])
  BY <1>1 DEF AreasOK
<1>3. Word \subseteq Nat
  BY MapFacts
<1> QED
  BY <1>1, <1>2, <1>3 DEF Area, PageArea, AreasOK

\* insert_fixed compares with the last address of the area before and with the
\* last one of the new area, one too few each: on page boundaries it is right.
LEMMA InsertFixedPlaced ==
    ASSUME map \in DOMAIN Requests, NEW L, AreasOK(L), NEW address \in Word, NEW size \in Nat,
           Aligned(address), Aligned(size), size > 0, size < WORD,
           insert_fixed(L, address, size) # Fail
    PROVE  /\ Placed(L, insert_fixed(L, address, size))
           /\ insert_fixed(L, address, size).area.low = address
           /\ insert_fixed(L, address, size).area.high = address + size - 1
<1> DEFINE n == Len(L)
           high == Minus(Plus(address, size), 1)
           hole_start(i) == IF i = 1 THEN LOW ELSE L[i - 1].high
           covered == {i \in 1 .. n : hole_start(i) > address}
           fits == {i \in 1 .. n : hole_start(i) <= address /\ Before(address, high, L[i].low)}
           S == {n + 1} \cup covered \cup fits
           stop == Min(S)
<1>1. ~(address < LOW \/ high > HIGH \/ high < address)
  BY DEF insert_fixed
<1>2. stop \notin covered /\ (n = 0 \/ hole_start(stop) <= address)
      /\ insert_fixed(L, address, size) = Insert(stop, address, size)
  BY <1>1 DEF insert_fixed
<1>3. /\ LOW \in Nat /\ HIGH \in Nat /\ HIGH < WORD /\ WORD \in Nat /\ WORD > 0
      /\ address \in Nat /\ address < WORD
  BY MapFacts, PageNumbers
<1>4. address + size - 1 = high
  <2>1. address + size = WORD \/ address + size < WORD \/ address + size > WORD
    BY <1>3
  <2>2. CASE address + size < WORD
    <3>1. address + size \in 0 .. WORD - 1 /\ (address + size) - 1 \in 0 .. WORD - 1
          /\ address + size \in Int /\ 1 \in Int
      BY <1>3, <2>2
    <3>2. Plus(address, size) = address + size
      BY <1>3, <3>1, Wraps
    <3>3. Minus(address + size, 1) = (address + size) - 1
      BY <1>3, <3>1, Wraps
    <3>4. high = (address + size) - 1
      BY <3>2, <3>3
    <3> QED
      BY <1>3, <3>4
  <2>3. CASE address + size = WORD
    <3>1. Plus(address, size) = 0
      BY <1>3, <2>3, Wraps
    <3>2. \A a, b \in Int : a - b = -1 => Minus(a, b) = WORD - 1
      BY <1>3, Wraps
    <3>3. 0 \in Int /\ 1 \in Int /\ 0 - 1 = -1
      OBVIOUS
    <3>4. Minus(0, 1) = WORD - 1
      BY <3>2, <3>3
    <3> QED
      BY <1>3, <2>3, <3>1, <3>4
  <2>4. CASE address + size > WORD
    <3>1. (address + size) - WORD \in 1 .. WORD - 1
      BY <1>3, <2>4
    <3>2. Plus(address, size) = (address + size) - WORD
      BY <1>3, <3>1 DEF Plus
    <3>3. ((address + size) - WORD) - 1 \in 0 .. WORD - 1 /\ (address + size) - WORD \in Int
      BY <1>3, <3>1
    <3>4. high = (address + size) - WORD - 1
      BY <1>3, <3>2, <3>3, Wraps
    <3> QED
      BY <1>1, <1>3, <3>4
  <2> QED
    BY <2>1, <2>2, <2>3, <2>4
<1> HIDE DEF high
<1>5. LOW <= address /\ address + size - 1 <= HIGH
  BY <1>1, <1>3, <1>4
<1>6. n \in Nat
  BY AreaFacts
<1>7. S \in SUBSET Nat /\ S # {} /\ n + 1 \in S
  BY <1>6
<1>8. stop \in S /\ stop \in 1 .. n + 1
  <2>1. S \subseteq 1 .. n + 1
    BY <1>6
  <2>2. stop \in S
    <3> HIDE DEF S
    <3> QED
      BY <1>7, LeastElement
  <2> HIDE DEF S
  <2> QED
    BY <2>1, <2>2
<1> HIDE DEF stop
<1>9. ASSUME stop > 1 PROVE L[stop - 1].high < address
  <2>1. stop - 1 \in 1 .. n /\ stop # 1 /\ n # 0
    BY <1>6, <1>8, <1>9
  <2>2. L[stop - 1].high <= address
    BY <1>2, <2>1
  <2>3. L[stop - 1].high \in Nat /\ Aligned(L[stop - 1].high + 1)
    BY <2>1, AreaFacts
  <2>4. L[stop - 1].high # address
    <3> SUFFICES ASSUME L[stop - 1].high = address PROVE FALSE
      OBVIOUS
    <3>1. Aligned(address + 1) /\ address < address + 1
      BY <1>3, <2>3
    <3>2. address + PAGE_SIZE <= address + 1
      BY <3>1, AlignedSums
    <3> QED
      BY <1>3, <3>2, PageNumbers
  <2> QED
    BY <1>3, <2>2, <2>3, <2>4
<1>10. ASSUME stop <= Len(L) PROVE address + size - 1 < L[stop].low
  <2>1. stop \in 1 .. n /\ stop # n + 1
    BY <1>6, <1>8, <1>10
  <2>2. stop \in fits
    BY <1>2, <1>8, <2>1
  <2>3. L[stop].low >= high
    BY <2>2 DEF Before
  <2>4. L[stop].low \in Nat /\ Aligned(L[stop].low)
    BY <2>1, AreaFacts
  <2>5. Aligned(address + size)
    BY AlignedSums
  <2>6. L[stop].low # high
    <3> SUFFICES ASSUME L[stop].low = high PROVE FALSE
      OBVIOUS
    <3>1. L[stop].low < address + size
      BY <1>3, <1>4, <2>4
    <3>2. L[stop].low + PAGE_SIZE <= address + size
      BY <2>4, <2>5, <3>1, AlignedSums
    <3> QED
      BY <1>3, <1>4, <2>4, <3>2, PageNumbers
  <2> QED
    BY <1>3, <1>4, <2>3, <2>4, <2>6
<1>11. /\ Placed(L, Insert(stop, address, size)) /\ Insert(stop, address, size).area.low = address
       /\ Insert(stop, address, size).area.high = address + size - 1
  BY <1>5, <1>8, <1>9, <1>10, PlacedBetween
<1> QED
  BY <1>2, <1>11

\* search_up takes the first hole that is large enough: it lies inside the map
\* and between two neighbours, and no block that is free is lower.
LEMMA SearchUpFits ==
    ASSUME map \in DOMAIN Requests, NEW L, AreasOK(L), NEW addr \in Word, NEW size \in Nat,
           Aligned(size), size > 0, size <= HIGH - LOW + 1,
           addr + size <= HIGH, HIGH < WORD - 1 \/ addr <= LOW
    PROVE  LET found == search_up(L, addr, size) IN
           /\ found # Fail => /\ Placed(L, found) /\ found.area.high = found.area.low + size - 1
                              /\ PAGE_ALIGN(addr) <= found.area.low
           /\ \A s : FreeAt(L, s, size) /\ PAGE_ALIGN(addr) <= s =>
                    found # Fail /\ found.area.low <= s
<1> DEFINE a0 == IF addr < LOW THEN LOW ELSE addr
           address == PAGE_ALIGN(a0)
           n == Len(L)
           S == {n + 1} \cup {i \in 1 .. n : L[i].low >= address}
           start == Min(S)
           after(i) == IF i = 1 THEN LOW ELSE Plus(L[i - 1].high, 1)
           hole_start(i) == IF i = start THEN HoleFrom(after(i), address) ELSE after(i)
           fits == {i \in start .. n : Minus(L[i].low, hole_start(i)) >= size}
           found == search_up(L, addr, size)
<1>1. /\ LOW \in Nat /\ HIGH \in Nat /\ 0 < LOW /\ LOW < HIGH /\ HIGH < WORD /\ WORD \in Nat
      /\ Aligned(LOW) /\ Aligned(HIGH + 1) /\ WORD > 0 /\ addr \in Nat /\ addr < WORD
      /\ PAGE_SIZE \in Nat /\ PAGE_SIZE > 1
  BY MapFacts, PageNumbers
<1>2. /\ n \in Nat
      /\ \A j \in 1 .. n :
            /\ L[j].low \in Nat /\ L[j].high \in Nat /\ L[j].low < L[j].high
            /\ LOW <= L[j].low /\ L[j].high <= HIGH
            /\ Aligned(L[j].low) /\ Aligned(L[j].high + 1)
      /\ \A i, j \in 1 .. n : i < j => L[i].high < L[j].low
  BY AreaFacts
<1>3. ~(Plus(addr, size) > HIGH)
  <2>1. addr + size \in 0 .. WORD - 1 /\ addr \in Int /\ size \in Int
    BY <1>1
  <2>2. Plus(addr, size) = addr + size
    BY <1>1, <2>1, Wraps
  <2> QED
    BY <1>1, <2>2
<1>4. \/ n = 0 /\ found = Insert(1, address, size)
      \/ n # 0 /\ fits # {} /\ found = Insert(Min(fits), hole_start(Min(fits)), size)
      \/ n # 0 /\ fits = {} /\ Plus(Minus(HIGH, hole_start(n + 1)), 1) >= size
         /\ found = Insert(n + 1, hole_start(n + 1), size)
      \/ n # 0 /\ fits = {} /\ ~(Plus(Minus(HIGH, hole_start(n + 1)), 1) >= size) /\ found = Fail
  BY <1>3 DEF search_up
<1> HIDE DEF found
<1>5. /\ Aligned(address) /\ address \in Nat /\ LOW <= address /\ address + size <= HIGH + 1
      /\ addr <= LOW => address = LOW
      /\ PAGE_ALIGN(addr) <= address /\ (address = LOW \/ address = PAGE_ALIGN(addr))
  <2>0. /\ addr < LOW => a0 = LOW /\ PAGE_ALIGN(addr) <= addr /\ PAGE_ALIGN(addr) \in Nat
        /\ ~(addr < LOW) => address = PAGE_ALIGN(addr)
    BY <1>1, PageAlign
  <2>1. a0 \in Nat /\ LOW <= a0 /\ a0 + size <= HIGH + 1 /\ (addr <= LOW => a0 = LOW)
    BY <1>1
  <2> HIDE DEF a0
  <2>2. Aligned(address) /\ address \in Nat /\ address <= a0 /\ a0 < address + PAGE_SIZE
    BY <2>1, PageAlign
  <2> HIDE DEF address
  <2>3. LOW <= address
    <3> SUFFICES ASSUME address < LOW PROVE FALSE
      BY <1>1, <2>2
    <3>1. address + PAGE_SIZE <= LOW
      BY <1>1, <2>2, AlignedSums
    <3> QED
      BY <1>1, <2>1, <2>2, <3>1
  <2>4. addr <= LOW => address = LOW
    BY <1>1, <2>1, <2>2, <2>3
  <2>5. PAGE_ALIGN(addr) <= address /\ (address = LOW \/ address = PAGE_ALIGN(addr))
    <3>1. CASE addr < LOW
      BY <1>1, <2>0, <2>4, <3>1
    <3>2. CASE ~(addr < LOW)
      BY <2>0, <2>2, <3>2
    <3> QED
      BY <3>1, <3>2
  <2> QED
    BY <1>1, <2>1, <2>2, <2>3, <2>4, <2>5
<1> HIDE DEF a0, address
<1>6. /\ start \in 1 .. n + 1
      /\ \A i \in 1 .. n : i < start => L[i].low < address
      /\ start <= n => address <= L[start].low
  <2>1. S \in SUBSET Nat /\ S # {} /\ S \subseteq 1 .. n + 1
    BY <1>2
  <2>2. start \in S /\ \A i \in S : start <= i
    <3> HIDE DEF S
    <3> QED
      BY <2>1, LeastElement
  <2>3. start \in 1 .. n + 1
    <3> HIDE DEF S, start
    <3> QED
      BY <2>1, <2>2
  <2> HIDE DEF start
  <2>4. ASSUME NEW i \in 1 .. n, i < start PROVE L[i].low < address
    <3>1. ~(start <= i)
      BY <1>2, <2>3, <2>4
    <3>2. i \notin S
      BY <2>2, <3>1
    <3> QED
      BY <1>2, <1>5, <3>2
  <2>5. ASSUME start <= n PROVE address <= L[start].low
    <3>1. start # n + 1 /\ start \in 1 .. n
      BY <1>2, <2>3, <2>5
    <3> QED
      BY <1>2, <1>5, <2>2, <3>1
  <2> QED
    BY <2>3, <2>4, <2>5
<1> HIDE DEF S, start
\* The address after an area wraps only past the end of the last one.
<1>7. /\ after(1) = LOW
      /\ \A i \in 2 .. n + 1 : L[i - 1].high + 1 < WORD => after(i) = L[i - 1].high + 1
      /\ \A i \in 2 .. n + 1 : L[i - 1].high + 1 = WORD => after(i) = 0
  <2>1. ASSUME NEW i \in 2 .. n + 1
        PROVE  /\ L[i - 1].high + 1 < WORD => after(i) = L[i - 1].high + 1
               /\ L[i - 1].high + 1 = WORD => after(i) = 0
    <3>1. i - 1 \in 1 .. n /\ i # 1
      BY <1>2, <2>1
    <3>2. L[i - 1].high \in Nat
      BY <1>2, <3>1
    <3> DEFINE h == L[i - 1].high
    <3>3. after(i) = Plus(h, 1)
      BY <3>1
    <3> HIDE DEF h
    <3>4. h \in Int /\ 1 \in Int /\ h \in Nat
      BY <3>2 DEF h
    <3>5. /\ h + 1 \in 0 .. WORD - 1 => Plus(h, 1) = h + 1
          /\ h + 1 = WORD => Plus(h, 1) = 0
      BY <1>1, <3>4, Wraps
    <3>6. h + 1 < WORD => h + 1 \in 0 .. WORD - 1
      BY <1>1, <3>4
    <3>7. /\ h + 1 < WORD => after(i) = h + 1
          /\ h + 1 = WORD => after(i) = 0
      BY <3>3, <3>5, <3>6
    <3> QED
      BY <3>7 DEF h
  <2> QED
    BY <2>1
<1> HIDE DEF after
\* A hole that starts at or after start.
<1>8. ASSUME NEW i \in start .. n + 1, i > 1 => L[i - 1].high + 1 < WORD
      PROVE  /\ hole_start(i) \in Nat /\ Aligned(hole_start(i)) /\ LOW <= hole_start(i)
             /\ i > 1 => L[i - 1].high < hole_start(i)
             /\ hole_start(i) <= HIGH + 1
             /\ i <= n => hole_start(i) <= L[i].low
             /\ address <= hole_start(i) /\ hole_start(i) \in {after(i), address}
  <2>1. i \in 1 .. n + 1 /\ i \in Nat
    BY <1>2, <1>6
  <2>2. /\ after(i) \in Nat /\ Aligned(after(i)) /\ LOW <= after(i) /\ after(i) <= HIGH + 1
        /\ i > 1 => L[i - 1].high < after(i)
        /\ i <= n => after(i) <= L[i].low
    <3>1. CASE i = 1
      BY <1>1, <1>2, <1>7, <2>1, <3>1
    <3>2. CASE i > 1
      <4>1. i - 1 \in 1 .. n /\ i \in 2 .. n + 1
        BY <1>2, <2>1, <3>2
      <4>2. after(i) = L[i - 1].high + 1
        BY <1>7, <1>8, <3>2, <4>1
      <4> DEFINE p == L[i - 1]
      <4>3. p.low \in Nat /\ p.high \in Nat /\ p.low < p.high /\ LOW <= p.low /\ p.high <= HIGH
            /\ Aligned(p.high + 1)
        BY <1>2, <4>1
      <4>4. i <= n => p.high < L[i].low /\ L[i].low \in Nat
        BY <1>2, <2>1, <4>1
      <4>5. after(i) = p.high + 1
        BY <4>2
      <4>6. after(i) \in Nat /\ Aligned(after(i)) /\ LOW <= after(i) /\ after(i) <= HIGH + 1
            /\ p.high < after(i) /\ (i <= n => after(i) <= L[i].low)
        <5> HIDE DEF p
        <5> QED
          BY <1>1, <4>3, <4>4, <4>5
      <4> QED
        BY <4>6
    <3> QED
      BY <2>1, <3>1, <3>2
  <2>3. CASE i # start
    <3>1. i - 1 \in 1 .. n /\ start \in 1 .. n /\ start <= i - 1 /\ i > 1 /\ hole_start(i) = after(i)
      BY <1>2, <1>6, <2>1, <2>3
    <3>2. address <= L[start].low /\ L[start].low \in Nat /\ L[start].high \in Nat
          /\ L[start].low < L[start].high
      BY <1>2, <1>6, <3>1
    <3>3. L[i - 1].low \in Nat /\ L[i - 1].high \in Nat /\ L[i - 1].low < L[i - 1].high
      BY <1>2, <3>1
    <3>4. start = i - 1 \/ L[start].high < L[i - 1].low
      BY <1>2, <3>1
    <3>5. address <= after(i)
      <4>1. address < L[i - 1].high
        <5>1. CASE start = i - 1
          BY <1>5, <3>2, <5>1
        <5>2. CASE L[start].high < L[i - 1].low
          BY <1>5, <3>2, <3>3, <5>2
        <5> QED
          BY <3>4, <5>1, <5>2
      <4> QED
        BY <1>5, <2>2, <3>1, <3>3, <4>1
    <3> QED
      BY <2>2, <3>1, <3>5
  <2>4. CASE i = start
    <3>1. hole_start(i) = IF after(i) < address THEN address ELSE after(i)
      BY <2>4 DEF HoleFrom
    <3>2. i <= n => address <= L[i].low /\ L[i].low \in Nat
      BY <1>2, <1>6, <2>1, <2>4
    <3>3. address <= HIGH + 1
      BY <1>1, <1>5
    <3>4. i > 1 => L[i - 1].high \in Nat
      BY <1>2, <2>1
    <3> HIDE DEF hole_start
    <3>5. CASE after(i) < address
      BY <1>5, <2>2, <3>1, <3>2, <3>3, <3>4, <3>5
    <3>6. CASE ~(after(i) < address)
      <4>1. hole_start(i) = after(i) /\ address <= after(i)
        BY <1>5, <2>2, <3>1, <3>6
      <4> QED
        BY <2>2, <4>1
    <3> QED
      BY <3>5, <3>6
  <2> QED
    BY <2>3, <2>4
<1> HIDE DEF hole_start
<1> DEFINE Good(lo) == /\ found # Fail /\ Placed(L, found) /\ address <= lo
                       /\ found.area.low = lo /\ found.area.high = lo + size - 1
<1>9. ASSUME n = 0, found = Insert(1, address, size) PROVE Good(address)
  <2>1. 1 \in 1 .. Len(L) + 1 /\ ~(1 > 1) /\ ~(1 <= Len(L)) /\ address + size - 1 <= HIGH
    BY <1>1, <1>5, <1>9
  <2> QED
    BY <1>5, <1>9, <2>1, PlacedBetween
<1>10. ASSUME fits # {}, found = Insert(Min(fits), hole_start(Min(fits)), size)
       PROVE  /\ Good(hole_start(Min(fits))) /\ Min(fits) \in 1 .. n
              /\ hole_start(Min(fits)) <= L[Min(fits)].low
  <2> DEFINE i == Min(fits)
  <2>1. fits \in SUBSET Nat
    BY <1>2, <1>6
  <2>2. i \in fits
    <3> HIDE DEF fits
    <3> QED
      BY <1>10, <2>1, LeastElement
  <2> HIDE DEF i
  <2>3. i \in start .. n /\ Minus(L[i].low, hole_start(i)) >= size
    BY <2>2
  <2>4. i \in 1 .. n /\ i \in start .. n + 1 /\ i \in 1 .. Len(L) + 1
    BY <1>2, <1>6, <2>3
  <2>5. i > 1 => L[i - 1].high + 1 < WORD
    <3> SUFFICES ASSUME i > 1 PROVE L[i - 1].high + 1 < WORD
      OBVIOUS
    <3>1. i - 1 \in 1 .. n /\ i - 1 < i
      BY <1>2, <2>4
    <3>2. L[i - 1].high < L[i].low /\ L[i].low < L[i].high /\ L[i].high <= HIGH
          /\ L[i].low \in Nat /\ L[i].high \in Nat /\ L[i - 1].high \in Nat
      BY <1>2, <2>4, <3>1
    <3> QED
      BY <1>1, <3>2
  <2> DEFINE hs == hole_start(i)
             lo == L[i].low
  <2>6. /\ hs \in Nat /\ Aligned(hs) /\ LOW <= hs
        /\ i > 1 => L[i - 1].high < hs
        /\ hs <= lo /\ address <= hs
    BY <1>2, <1>8, <2>4, <2>5
  <2>7. lo \in Nat /\ lo <= HIGH /\ Minus(lo, hs) >= size
    <3>1. L[i].low \in Nat /\ L[i].high \in Nat /\ L[i].low < L[i].high /\ L[i].high <= HIGH
      BY <1>2, <2>4
    <3> QED
      BY <1>1, <2>3, <3>1
  <2>8. hs + size - 1 < lo
    <3> HIDE DEF hs, lo
    <3>1. lo - hs \in 0 .. WORD - 1
      BY <1>1, <2>6, <2>7
    <3>2. Minus(lo, hs) = lo - hs
      BY <1>1, <2>6, <2>7, <3>1, Wraps
    <3> QED
      BY <2>6, <2>7, <3>2
  <2>9. hs + size - 1 <= HIGH
    <3> HIDE DEF hs, lo
    <3> QED
      BY <1>1, <2>6, <2>7, <2>8
  <2>10. found = Insert(i, hs, size)
    BY <1>10 DEF i
  <2>11. Good(hs)
    <3> HIDE DEF hs
    <3> QED
      BY <2>4, <2>6, <2>8, <2>9, <2>10, PlacedBetween DEF lo
  <2> QED
    BY <2>4, <2>6, <2>11 DEF i
<1>11. ASSUME n # 0, Plus(Minus(HIGH, hole_start(n + 1)), 1) >= size,
              found = Insert(n + 1, hole_start(n + 1), size)
       PROVE  Good(hole_start(n + 1))
  <2> DEFINE hs == hole_start(n + 1)
  <2>0. /\ n + 1 \in start .. n + 1 /\ n + 1 > 1 /\ (n + 1) - 1 = n /\ n \in 1 .. n
        /\ n + 1 \in 1 .. Len(L) + 1 /\ ~(n + 1 <= Len(L)) /\ n + 1 \in 2 .. n + 1
    BY <1>2, <1>6, <1>11
  <2>1. L[n].high \in Nat /\ L[n].high <= HIGH /\ L[n].low \in Nat /\ LOW <= L[n].low
    BY <1>2, <2>0
  <2>2. L[n].high + 1 < WORD
    <3> SUFFICES ASSUME L[n].high + 1 >= WORD PROVE FALSE
      BY <1>1, <2>1
    <3>1. L[n].high + 1 = WORD /\ HIGH = WORD - 1
      BY <1>1, <2>1
    <3>2. address = LOW
      BY <1>1, <1>5, <3>1
    <3>3. start # n + 1
      <4> SUFFICES ASSUME start = n + 1 PROVE FALSE
        OBVIOUS
      <4>1. L[n].low < address
        BY <1>2, <1>6, <2>0
      <4> QED
        BY <1>1, <2>1, <3>2, <4>1
    <3>4. hs = 0
      <4>1. after(n + 1) = 0
        BY <1>7, <2>0, <3>1
      <4> QED
        BY <3>3, <4>1 DEF hole_start
    <3>5. Minus(HIGH, 0) = HIGH
      <4>1. HIGH - 0 \in 0 .. WORD - 1 /\ HIGH - 0 = HIGH /\ HIGH \in Int /\ 0 \in Int
        BY <1>1
      <4>2. \A a, b \in Int : a - b \in 0 .. WORD - 1 => Minus(a, b) = a - b
        BY <1>1, Wraps
      <4> QED
        BY <4>1, <4>2
    <3>6. Plus(HIGH, 1) = 0
      <4>1. HIGH + 1 = WORD /\ HIGH \in Int /\ 1 \in Int
        BY <1>1, <3>1
      <4>2. \A a, b \in Int : a + b = WORD => Plus(a, b) = 0
        BY <1>1, Wraps
      <4> QED
        BY <4>1, <4>2
    <3>7. Plus(Minus(HIGH, hs), 1) = 0
      <4> HIDE DEF hs
      <4> QED
        BY <3>4, <3>5, <3>6
    <3> QED
      BY <1>11, <3>7
  <2>3. hs \in Nat /\ Aligned(hs) /\ LOW <= hs /\ L[n].high < hs /\ hs <= HIGH + 1
        /\ address <= hs
    BY <1>8, <2>0, <2>2
  <2>4. Plus(Minus(HIGH, hs), 1) >= size
    BY <1>11
  <2> HIDE DEF hs
  <2>5. hs + size - 1 <= HIGH
    <3>1. CASE hs = HIGH + 1
      <4>1. HIGH - hs = -1 /\ HIGH \in Int /\ hs \in Int
        BY <1>1, <2>3, <3>1
      <4>2. Minus(HIGH, hs) = WORD - 1
        BY <1>1, <4>1, Wraps
      <4>3. (WORD - 1) + 1 = WORD /\ WORD - 1 \in Int /\ 1 \in Int
        BY <1>1
      <4>4. \A a, b \in Int : a + b = WORD => Plus(a, b) = 0
        BY <1>1, Wraps
      <4>5. Plus(WORD - 1, 1) = 0
        BY <4>3, <4>4
      <4> QED
        BY <2>4, <4>2, <4>5
    <3>2. CASE hs <= HIGH
      <4>1. HIGH - hs \in 0 .. WORD - 1 /\ HIGH \in Int /\ hs \in Int
            /\ (HIGH - hs) + 1 \in 0 .. WORD - 1
        BY <1>1, <2>3, <3>2
      <4>2. Minus(HIGH, hs) = HIGH - hs
        BY <1>1, <4>1, Wraps
      <4>3. Plus(HIGH - hs, 1) = (HIGH - hs) + 1
        BY <1>1, <4>1, Wraps
      <4>4. (HIGH - hs) + 1 >= size
        BY <2>4, <4>2, <4>3
      <4> QED
        BY <1>1, <2>3, <4>4
    <3>3. hs = HIGH + 1 \/ hs <= HIGH
      BY <1>1, <2>3
    <3> QED
      BY <3>1, <3>2, <3>3
  <2>6. found = Insert(n + 1, hs, size)
    BY <1>11 DEF hs
  <2>7. Good(hs)
    BY <2>0, <2>3, <2>5, <2>6, PlacedBetween
  <2> QED
    BY <2>7 DEF hs
<1>12. found # Fail =>
          /\ Placed(L, found) /\ found.area.high = found.area.low + size - 1
          /\ PAGE_ALIGN(addr) <= found.area.low
  <2> SUFFICES ASSUME found # Fail
               PROVE  /\ Placed(L, found) /\ found.area.high = found.area.low + size - 1
                      /\ PAGE_ALIGN(addr) <= found.area.low
    OBVIOUS
  <2>1. \E lo : Good(lo)
    <3> HIDE DEF Good, fits
    <3> QED
      BY <1>4, <1>9, <1>10, <1>11
  <2>2. PICK lo : Good(lo)
    BY <2>1
  <2>3. found.area.low \in Int
    BY <1>1, <2>2 DEF Placed, Area, Word
  <2>4. PAGE_ALIGN(addr) \in Nat
    BY <1>1, PageAlign
  <2> QED
    BY <1>5, <2>2, <2>3, <2>4
\* The hole in which a free block lies.
<1>13. ASSUME NEW s, FreeAt(L, s, size), PAGE_ALIGN(addr) <= s, n # 0
       PROVE  \E i \in start .. n + 1 :
                 /\ hole_start(i) \in Nat /\ hole_start(i) <= s
                 /\ i <= n => s + size - 1 < L[i].low
                 /\ \A j \in 1 .. n : j < i => L[j].high < s
  <2>1. s \in Nat /\ LOW <= s /\ s + size - 1 <= HIGH
    BY <1>13 DEF FreeAt
  <2>2. \A j \in 1 .. n : s + size - 1 < L[j].low \/ L[j].high < s
    BY <1>13 DEF FreeAt
  <2>3. address <= s
    BY <1>5, <1>13, <2>1
  <2> DEFINE T == {n + 1} \cup {j \in 1 .. n : s < L[j].low}
             i == Min(T)
  <2>4. T \in SUBSET Nat /\ T # {} /\ T \subseteq 1 .. n + 1
    BY <1>2
  <2>5. i \in T /\ \A j \in T : i <= j
    <3> HIDE DEF T
    <3> QED
      BY <2>4, LeastElement
  <2>6. i \in 1 .. n + 1
    <3> HIDE DEF T, i
    <3> QED
      BY <2>4, <2>5
  <2> HIDE DEF i
  <2>7. ASSUME i <= n PROVE s + size - 1 < L[i].low /\ s < L[i].low
    <3>1. i # n + 1 /\ i \in 1 .. n
      BY <1>2, <2>6, <2>7
    <3>2. s < L[i].low /\ L[i].low \in Nat /\ L[i].high \in Nat /\ L[i].low < L[i].high
      BY <1>2, <2>5, <3>1
    <3> QED
      BY <2>1, <2>2, <3>1, <3>2
  <2>8. ASSUME NEW j \in 1 .. n, j < i PROVE L[j].high < s
    <3>1. j \notin T
      BY <1>2, <2>5, <2>6, <2>8
    <3>2. ~(s < L[j].low) /\ L[j].low \in Nat
      BY <1>2, <3>1
    <3>3. ~(s + size - 1 < L[j].low)
      BY <2>1, <3>2
    <3> QED
      BY <2>2, <3>3
  <2>9. i \in start .. n + 1
    <3>1. CASE i = n + 1
      BY <1>2, <1>6, <3>1
    <3>2. CASE i # n + 1
      <4>1. i \in 1 .. n /\ s < L[i].low /\ L[i].low \in Nat
        BY <1>2, <2>6, <2>7, <3>2
      <4>2. ~(L[i].low < address)
        BY <1>5, <2>1, <2>3, <4>1
      <4>3. ~(i < start)
        BY <1>6, <4>1, <4>2
      <4> QED
        BY <1>2, <1>6, <4>1, <4>3
    <3> QED
      BY <3>1, <3>2
  <2>10. i > 1 => i - 1 \in 1 .. n /\ i \in 2 .. n + 1 /\ L[i - 1].high < s /\ L[i - 1].high \in Nat
    BY <1>2, <2>6, <2>8
  <2>11. i > 1 => L[i - 1].high + 1 < WORD
    <3> DEFINE h == L[i - 1].high
    <3>1. s < WORD
      BY <1>1, <2>1
    <3>2. i > 1 => h < s /\ h \in Nat
      BY <2>10
    <3> HIDE DEF h
    <3>3. i > 1 => h + 1 < WORD
      BY <1>1, <2>1, <3>1, <3>2
    <3> QED
      BY <3>3 DEF h
  <2>12. hole_start(i) \in Nat /\ hole_start(i) \in {after(i), address}
    BY <1>8, <2>9, <2>11
  <2>13. after(i) <= s
    <3>1. CASE i = 1
      BY <1>7, <2>1, <3>1
    <3>2. CASE i > 1
      <4>1. after(i) = L[i - 1].high + 1
        BY <1>7, <2>10, <2>11, <3>2
      <4> QED
        BY <2>1, <2>10, <3>2, <4>1
    <3> QED
      BY <2>6, <3>1, <3>2
  <2>14. hole_start(i) <= s
    BY <2>3, <2>12, <2>13
  <2> QED
    BY <2>7, <2>8, <2>9, <2>12, <2>14
<1>14. ASSUME NEW s, FreeAt(L, s, size), PAGE_ALIGN(addr) <= s
       PROVE  found # Fail /\ found.area.low <= s
  <2>1. s \in Nat /\ LOW <= s /\ s + size - 1 <= HIGH
    BY <1>14 DEF FreeAt
  <2>2. CASE n = 0
    <3>1. Good(address)
      BY <1>4, <1>9, <2>2
    <3> QED
      BY <1>5, <1>14, <2>1, <3>1
  <2>3. CASE n # 0
    <3>1. PICK i \in start .. n + 1 :
             /\ hole_start(i) \in Nat /\ hole_start(i) <= s
             /\ i <= n => s + size - 1 < L[i].low
             /\ \A j \in 1 .. n : j < i => L[j].high < s
      BY <1>13, <1>14, <2>3
    <3> DEFINE hs == hole_start(i)
    <3>2. i \in 1 .. n + 1
      BY <1>2, <1>6, <3>1
    <3>3. ASSUME i <= n PROVE i \in fits
      <4> DEFINE lo == L[i].low
      <4>1. i \in 1 .. n /\ i \in start .. n
        BY <1>2, <3>1, <3>2, <3>3
      <4>2. L[i].low \in Nat /\ L[i].high \in Nat /\ L[i].low < L[i].high /\ L[i].high <= HIGH
        BY <1>2, <4>1
      <4>3. hs \in Nat /\ hs <= s /\ s + size - 1 < lo /\ lo \in Nat /\ lo < WORD
        BY <1>1, <3>1, <3>3, <4>2
      <4>4. Minus(lo, hs) >= size
        <5> HIDE DEF lo, hs
        <5>1. lo - hs \in 0 .. WORD - 1 /\ lo \in Int /\ hs \in Int
          BY <1>1, <2>1, <4>3
        <5>2. Minus(lo, hs) = lo - hs
          BY <1>1, <5>1, Wraps
        <5> QED
          BY <2>1, <4>3, <5>2
      <4> QED
        BY <4>1, <4>4
    <3>4. CASE fits # {}
      <4> DEFINE m == Min(fits)
      <4>1. found = Insert(m, hole_start(m), size)
        BY <1>4, <2>3, <3>4
      <4>2. Good(hole_start(m)) /\ m \in 1 .. n /\ hole_start(m) <= L[m].low
        BY <1>10, <3>4, <4>1
      <4>3. m <= i
        <5>1. CASE i <= n
          <6>1. fits \in SUBSET Nat
            BY <1>2, <1>6
          <6>2. i \in fits
            BY <3>3, <5>1
          <6> HIDE DEF fits
          <6> QED
            BY <3>4, <6>1, <6>2, LeastElement
        <5>2. CASE ~(i <= n)
          <6> HIDE DEF m
          <6> QED
            BY <1>2, <3>2, <4>2, <5>2
        <5> QED
          BY <5>1, <5>2
      <4>4. hole_start(m) \in Nat
        <5>1. hole_start(m) = found.area.low /\ Placed(L, found) /\ address <= hole_start(m)
          BY <4>2
        <5>2. found.area.low \in Int
          BY <1>1, <5>1 DEF Placed, Area, Word
        <5> HIDE DEF m
        <5> QED
          BY <1>5, <5>1, <5>2
      <4> HIDE DEF m
      <4>5. CASE m = i
        BY <3>1, <4>2, <4>5
      <4>6. CASE m < i
        <5>1. L[m].high < s /\ L[m].low < L[m].high /\ L[m].low \in Nat /\ L[m].high \in Nat
          BY <1>2, <3>1, <4>2, <4>6
        <5>2. hole_start(m) <= s
          BY <2>1, <4>2, <4>4, <5>1
        <5> QED
          BY <4>2, <5>2
      <4>7. m = i \/ m < i
        BY <3>2, <4>2, <4>3
      <4> QED
        BY <4>5, <4>6, <4>7
    <3>5. CASE fits = {}
      <4>1. i = n + 1
        BY <1>2, <3>2, <3>3, <3>5
      <4>2. Plus(Minus(HIGH, hs), 1) >= size
        <5>0. hs \in Nat /\ hs <= s
          BY <3>1
        <5>1. address <= hs
          <6>1. i > 1 => L[i - 1].high + 1 < WORD
            <7> SUFFICES ASSUME i > 1 PROVE L[i - 1].high + 1 < WORD
              OBVIOUS
            <7>1. i - 1 \in 1 .. n /\ i - 1 < i
              BY <1>2, <3>2
            <7>2. L[i - 1].high < s /\ L[i - 1].high \in Nat
              BY <1>2, <3>1, <7>1
            <7> QED
              BY <1>1, <2>1, <7>2
          <6> QED
            BY <1>8, <3>1, <6>1
        <5> HIDE DEF hs
        <5>2. HIGH - hs \in 0 .. WORD - 1 /\ HIGH \in Int /\ hs \in Int
              /\ (HIGH - hs) + 1 \in 0 .. WORD - 1 /\ HIGH - hs \in Int /\ 1 \in Int
          BY <1>1, <1>5, <2>1, <5>0, <5>1
        <5>3. Minus(HIGH, hs) = HIGH - hs
          BY <1>1, <5>2, Wraps
        <5>4. Plus(HIGH - hs, 1) = (HIGH - hs) + 1
          BY <1>1, <5>2, Wraps
        <5>5. (HIGH - hs) + 1 >= size
          BY <1>1, <2>1, <5>0
        <5> QED
          BY <5>3, <5>4, <5>5
      <4>3. Good(hole_start(n + 1))
        <5>1. Plus(Minus(HIGH, hole_start(n + 1)), 1) >= size
          BY <4>1, <4>2
        <5>2. found = Insert(n + 1, hole_start(n + 1), size)
          BY <1>4, <2>3, <3>5, <5>1
        <5> QED
          BY <1>11, <2>3, <5>1, <5>2
      <4> QED
        BY <3>1, <4>1, <4>3
    <3> QED
      BY <3>4, <3>5
  <2> QED
    BY <2>2, <2>3
<1> QED
  BY <1>12, <1>14 DEF found

LEMMA SearchUpStarts ==
    ASSUME map \in DOMAIN Requests, NEW L, NEW addr \in Word, NEW size \in Nat, addr + size < WORD,
           search_up(L, addr, size) # Fail
    PROVE  addr + size <= HIGH
<1>1. HIGH \in Nat /\ WORD \in Nat /\ WORD > 0 /\ addr \in Nat
  BY MapFacts, PageNumbers
<1>2. ~(Plus(addr, size) > HIGH)
  BY DEF search_up
<1>3. addr + size \in 0 .. WORD - 1 /\ addr \in Int /\ size \in Int
  BY <1>1
<1>4. Plus(addr, size) = addr + size
  BY <1>1, <1>3, Wraps
<1> QED
  BY <1>1, <1>2, <1>4

\* search_down takes the last hole that is large enough.  It counts one address
\* more than there is between two areas (vm_area_map.c:117): as the hole and the
\* size are whole pages, one more address makes no difference.
LEMMA SearchDownFits ==
    ASSUME map \in DOMAIN Requests, NEW L, AreasOK(L), NEW addr \in Word, NEW size \in Nat,
           Aligned(size), size > 0, size <= HIGH - LOW + 1, LOW + size <= addr
    PROVE  LET found == search_down(L, addr, size) IN
           /\ found # Fail => /\ Placed(L, found) /\ found.area.high = found.area.low + size - 1
                              /\ found.area.high <= addr
           /\ \A s : FreeAt(L, s, size) /\ s + size - 1 <= addr =>
                    found # Fail /\ s <= found.area.low
<1> DEFINE a0 == IF addr > HIGH THEN HIGH ELSE addr
           address == Minus(PAGE_ALIGN(Plus(a0, 1)), 1)
           n == Len(L)
           S == {0} \cup {i \in 1 .. n : L[i].high <= address}
           start == Max(S)
           before(i) == IF i = n THEN HIGH ELSE Minus(L[i + 1].low, 1)
           hole_end(i) == IF i = start THEN HoleTo(before(i), address) ELSE before(i)
           fits == {i \in 1 .. start : RoomAbove(hole_end(i), L[i].high, size)}
           low(i) == Plus(Minus(hole_end(i), size), 1)
           found == search_down(L, addr, size)
<1>1. /\ LOW \in Nat /\ HIGH \in Nat /\ 0 < LOW /\ LOW < HIGH /\ HIGH < WORD /\ WORD \in Nat
      /\ Aligned(LOW) /\ Aligned(HIGH + 1) /\ WORD > 0 /\ addr \in Nat /\ addr < WORD
      /\ PAGE_SIZE \in Nat /\ PAGE_SIZE > 1
  BY MapFacts, PageNumbers
<1>2. /\ n \in Nat
      /\ \A j \in 1 .. n :
            /\ L[j].low \in Nat /\ L[j].high \in Nat /\ L[j].low < L[j].high
            /\ LOW <= L[j].low /\ L[j].high <= HIGH
            /\ Aligned(L[j].low) /\ Aligned(L[j].high + 1)
      /\ \A i, j \in 1 .. n : i < j => L[i].high < L[j].low
  BY AreaFacts
<1>0. /\ \A a, b \in Int : a + b \in 0 .. WORD - 1 => Plus(a, b) = a + b
      /\ \A a, b \in Int : a + b = WORD => Plus(a, b) = 0
      /\ \A a, b \in Int : a - b \in 0 .. WORD - 1 => Minus(a, b) = a - b
      /\ \A a, b \in Int : a - b = -1 => Minus(a, b) = WORD - 1
  BY <1>1, Wraps
<1>3. ~(Minus(addr, size) < LOW)
  <2>1. addr - size \in 0 .. WORD - 1 /\ addr \in Int /\ size \in Int
    BY <1>1
  <2>2. Minus(addr, size) = addr - size
    BY <1>0, <2>1
  <2> QED
    BY <1>1, <2>2
<1>4. \/ n = 0 /\ found = Insert(1, Plus(Minus(address, size), 1), size)
      \/ n # 0 /\ fits # {} /\ found = Insert(Max(fits) + 1, low(Max(fits)), size)
      \/ n # 0 /\ fits = {} /\ Plus(Minus(hole_end(0), LOW), 1) >= size
         /\ found = Insert(1, low(0), size)
      \/ n # 0 /\ fits = {} /\ ~(Plus(Minus(hole_end(0), LOW), 1) >= size) /\ found = Fail
  BY <1>3 DEF search_down
<1> HIDE DEF found
<1>5. /\ address \in Nat /\ Aligned(address + 1) /\ address <= HIGH /\ LOW + size <= address + 1
      /\ address <= addr
      /\ \A x \in Nat : Aligned(x) /\ x <= addr + 1 /\ x <= HIGH + 1 => x <= address + 1
  <2>1. a0 \in Nat /\ a0 <= HIGH /\ (a0 = HIGH \/ (a0 = addr /\ addr < HIGH)) /\ a0 <= addr
    BY <1>1
  <2>2. Aligned(LOW + size) /\ LOW + size <= HIGH + 1
    <3>1. Aligned(LOW + size)
      BY <1>1, AlignedSums
    <3>2. LOW + size <= HIGH + 1
      BY <1>1
    <3> QED
      BY <3>1, <3>2
  <2> HIDE DEF a0
  <2>3. CASE a0 + 1 = WORD
    <3>1. Plus(a0, 1) = 0
      <4>1. a0 \in Int /\ 1 \in Int
        BY <2>1
      <4> QED
        BY <1>0, <2>3, <4>1
    <3>2. PAGE_ALIGN(0) = 0
      <4>1. 0 \in Nat
        OBVIOUS
      <4>2. PAGE_ALIGN(0) \in Nat /\ PAGE_ALIGN(0) <= 0
        BY <4>1, PageAlign
      <4> QED
        BY <4>2
    <3>3. Minus(0, 1) = WORD - 1
      <4>1. 0 \in Int /\ 1 \in Int /\ 0 - 1 = -1
        OBVIOUS
      <4> QED
        BY <1>0, <4>1
    <3>4. address = WORD - 1
      BY <3>1, <3>2, <3>3
    <3> HIDE DEF address
    <3>5. address = HIGH
      BY <1>1, <2>1, <2>3, <3>4
    <3>6. address <= addr
      BY <1>1, <2>1, <2>3, <3>4
    <3> QED
      BY <1>1, <2>2, <3>5, <3>6
  <2>4. CASE a0 + 1 < WORD
    <3> DEFINE b == a0 + 1
    <3>1. Plus(a0, 1) = b
      <4>1. a0 \in Int /\ 1 \in Int /\ a0 + 1 \in 0 .. WORD - 1
        BY <1>1, <2>1, <2>4
      <4> QED
        BY <1>0, <4>1
    <3>2. b \in Nat /\ b <= HIGH + 1 /\ LOW + size <= b /\ b < WORD /\ b <= addr + 1
          /\ \A x \in Nat : x <= addr + 1 /\ x <= HIGH + 1 => x <= b
      BY <1>1, <2>1, <2>2, <2>4
    <3> HIDE DEF b
    <3> DEFINE c == PAGE_ALIGN(b)
    <3>3. Aligned(c) /\ c \in Nat /\ c <= b /\ b < c + PAGE_SIZE
      BY <3>2, PageAlign
    <3>4. address = Minus(c, 1)
      BY <3>1
    <3> HIDE DEF c, address
    <3>5. LOW + size <= c
      <4> SUFFICES ASSUME c < LOW + size PROVE FALSE
        BY <1>1, <3>3
      <4>1. c + PAGE_SIZE <= LOW + size
        BY <2>2, <3>3, AlignedSums
      <4> QED
        BY <1>1, <3>2, <3>3, <4>1
    <3>6. c \in Int /\ 1 \in Int /\ c - 1 \in 0 .. WORD - 1
      BY <1>1, <3>2, <3>3, <3>5
    <3>7. address = c - 1
      BY <1>0, <3>4, <3>6
    <3>8. address + 1 = c /\ address \in Nat
      BY <3>3, <3>6, <3>7
    <3>9. ASSUME NEW x \in Nat, Aligned(x), x <= addr + 1, x <= HIGH + 1 PROVE x <= address + 1
      <4>1. x <= b
        BY <3>2, <3>9
      <4> SUFFICES ASSUME c < x PROVE FALSE
        BY <3>3, <3>8
      <4>2. c + PAGE_SIZE <= x
        BY <3>3, <3>9, AlignedSums
      <4> QED
        BY <1>1, <3>2, <3>3, <4>1, <4>2
    <3>10. address <= addr /\ address <= HIGH
      BY <1>1, <3>2, <3>3, <3>8
    <3> QED
      BY <3>3, <3>5, <3>8, <3>9, <3>10
  <2>5. a0 + 1 = WORD \/ a0 + 1 < WORD
    BY <1>1, <2>1
  <2> QED
    BY <2>3, <2>4, <2>5
<1> HIDE DEF a0, address
<1>6. /\ start \in 0 .. n
      /\ start > 0 => L[start].high <= address
      /\ \A i \in 1 .. n : L[i].high <= address => i <= start
  <2>1. S \in SUBSET (0 .. n) /\ S # {}
    BY <1>2
  <2>2. start \in S /\ \A i \in S : i <= start
    <3> HIDE DEF S
    <3> QED
      BY <1>2, <2>1, GreatestElement
  <2>3. start \in 0 .. n
    <3> HIDE DEF S, start
    <3> QED
      BY <2>1, <2>2
  <2> HIDE DEF start
  <2>4. ASSUME start > 0 PROVE L[start].high <= address
    <3>1. start # 0
      BY <2>3, <2>4
    <3> QED
      BY <2>2, <3>1
  <2>5. \A i \in 1 .. n : L[i].high <= address => i <= start
    BY <2>2
  <2> QED
    BY <2>3, <2>4, <2>5
<1> HIDE DEF S, start
<1>7. ASSUME NEW i \in 0 .. n
      PROVE  /\ i = n => before(i) = HIGH
             /\ i # n => before(i) = L[i + 1].low - 1
  <2>1. CASE i = n
    BY <2>1
  <2>2. CASE i # n
    <3> DEFINE l == L[i + 1].low
    <3>1. i + 1 \in 1 .. n
      BY <1>2, <2>2
    <3>2. L[i + 1].low \in Nat /\ L[i + 1].high \in Nat /\ LOW <= L[i + 1].low
          /\ L[i + 1].low < L[i + 1].high /\ L[i + 1].high <= HIGH
      BY <1>2, <3>1
    <3>3. l \in Nat /\ l - 1 \in 0 .. WORD - 1 /\ l \in Int /\ 1 \in Int
      <4>1. l \in Nat /\ LOW <= l /\ l <= HIGH
        BY <1>1, <3>2
      <4> HIDE DEF l
      <4> QED
        BY <1>1, <4>1
    <3>4. before(i) = Minus(l, 1)
      BY <2>2
    <3> HIDE DEF l
    <3>5. before(i) = l - 1
      BY <1>0, <3>3, <3>4
    <3> QED
      BY <2>2, <3>5 DEF l
  <2> QED
    BY <2>1, <2>2
<1> HIDE DEF before
\* A hole that ends at or before start.
<1>8. ASSUME NEW i \in 0 .. start
      PROVE  /\ hole_end(i) \in Nat /\ Aligned(hole_end(i) + 1) /\ hole_end(i) <= HIGH
             /\ LOW <= hole_end(i) + 1
             /\ i > 0 => L[i].high <= hole_end(i)
             /\ i < n => hole_end(i) < L[i + 1].low
             /\ hole_end(i) <= address /\ hole_end(i) \in {before(i), address}
  <2>1. i \in 0 .. n
    BY <1>2, <1>6
  <2>2. /\ before(i) \in Nat /\ Aligned(before(i) + 1) /\ before(i) <= HIGH /\ LOW <= before(i) + 1
        /\ i > 0 => L[i].high <= before(i) /\ L[i].high \in Nat
        /\ i < n => before(i) < L[i + 1].low /\ L[i + 1].low \in Nat
    <3>1. CASE i = n
      BY <1>1, <1>2, <1>7, <2>1, <3>1
    <3>2. CASE i # n
      <4> DEFINE l == L[i + 1].low
                 h == L[i].high
      <4>1. i + 1 \in 1 .. n
        BY <1>2, <2>1, <3>2
      <4>2. l \in Nat /\ LOW <= l /\ l <= HIGH /\ Aligned(l)
        <5>1. L[i + 1].low \in Nat /\ L[i + 1].high \in Nat /\ LOW <= L[i + 1].low
              /\ L[i + 1].low < L[i + 1].high /\ L[i + 1].high <= HIGH /\ Aligned(L[i + 1].low)
          BY <1>2, <4>1
        <5> QED
          BY <1>1, <5>1
      <4>3. i > 0 => h \in Nat /\ h < l
        BY <1>2, <2>1, <4>1
      <4>4. before(i) = l - 1
        BY <1>7, <2>1, <3>2
      <4>5. /\ before(i) \in Nat /\ before(i) + 1 = l /\ before(i) <= HIGH /\ LOW <= before(i) + 1
            /\ i > 0 => h <= before(i)
            /\ before(i) < l
        <5> HIDE DEF l, h
        <5> QED
          BY <1>1, <4>2, <4>3, <4>4
      <4> QED
        BY <4>2, <4>3, <4>5
    <3> QED
      BY <3>1, <3>2
  <2>3. CASE i # start
    <3>1. i + 1 \in 1 .. n /\ i < n /\ start \in 1 .. n /\ start > 0 /\ i + 1 <= start
          /\ hole_end(i) = before(i)
      BY <1>2, <1>6, <2>1, <2>3
    <3>2. L[i + 1].low \in Nat /\ L[i + 1].high \in Nat /\ L[i + 1].low < L[i + 1].high
          /\ L[start].low \in Nat /\ L[start].high \in Nat /\ L[start].low < L[start].high
      BY <1>2, <3>1
    <3>3. i + 1 = start \/ L[i + 1].high < L[start].low
      BY <1>2, <3>1
    <3>4. L[start].high <= address
      BY <1>6, <3>1
    <3>5. L[i + 1].low < address
      <4>1. CASE i + 1 = start
        BY <1>5, <3>2, <3>4, <4>1
      <4>2. CASE L[i + 1].high < L[start].low
        BY <1>5, <3>2, <3>4, <4>2
      <4> QED
        BY <3>3, <4>1, <4>2
    <3>6. before(i) <= address
      BY <1>5, <2>2, <3>1, <3>2, <3>5
    <3> QED
      BY <2>2, <3>1, <3>6
  <2>4. CASE i = start
    <3>1. hole_end(i) = IF before(i) > address THEN address ELSE before(i)
      BY <2>4 DEF HoleTo
    <3>2. i > 0 => L[i].high <= address
      BY <1>6, <2>4
    <3>3. LOW <= address + 1
      BY <1>1, <1>5
    <3> HIDE DEF hole_end
    <3>4. CASE before(i) > address
      BY <1>5, <2>2, <3>1, <3>2, <3>3, <3>4
    <3>5. CASE ~(before(i) > address)
      <4>1. hole_end(i) = before(i) /\ before(i) <= address
        BY <1>5, <2>2, <3>1, <3>5
      <4> QED
        BY <2>2, <4>1
    <3> QED
      BY <3>4, <3>5
  <2> QED
    BY <2>3, <2>4
<1> HIDE DEF hole_end
\* Where an area of this size ends at e.
<1>9. ASSUME NEW e \in Nat, Aligned(e + 1), e <= HIGH, LOW + size <= e + 1
      PROVE  /\ Plus(Minus(e, size), 1) = e - size + 1
             /\ Aligned(e - size + 1) /\ LOW <= e - size + 1 /\ (e - size + 1) + size - 1 = e
  <2>1. e \in Int /\ size \in Int /\ e - size \in 0 .. WORD - 1
    BY <1>1, <1>9
  <2>2. Minus(e, size) = e - size
    BY <1>0, <2>1
  <2>3. e - size \in Int /\ 1 \in Int /\ (e - size) + 1 \in 0 .. WORD - 1
    BY <1>1, <1>9
  <2>4. Plus(e - size, 1) = (e - size) + 1
    BY <1>0, <2>3
  <2>5. Aligned((e + 1) - size)
    BY <1>9, AlignedSums
  <2>6. (e + 1) - size = e - size + 1
    BY <1>9
  <2> QED
    BY <1>1, <1>9, <2>2, <2>4, <2>5, <2>6
<1> DEFINE Good(lo) == /\ found # Fail /\ Placed(L, found) /\ lo + size - 1 <= address
                       /\ found.area.low = lo /\ found.area.high = lo + size - 1
<1>10. ASSUME n = 0, found = Insert(1, Plus(Minus(address, size), 1), size)
       PROVE  Good(address - size + 1)
  <2> DEFINE lo == address - size + 1
  <2>1. Plus(Minus(address, size), 1) = lo /\ Aligned(lo) /\ LOW <= lo /\ lo + size - 1 = address
    BY <1>5, <1>9
  <2> HIDE DEF lo
  <2>2. 1 \in 1 .. Len(L) + 1 /\ ~(1 > 1) /\ ~(1 <= Len(L)) /\ lo + size - 1 <= HIGH
    BY <1>1, <1>5, <1>10, <2>1
  <2>3. lo + size - 1 <= address
    BY <1>5, <2>1
  <2>4. found = Insert(1, lo, size)
    BY <1>10, <2>1
  <2>5. Good(lo)
    BY <2>1, <2>2, <2>3, <2>4, PlacedBetween
  <2> QED
    BY <2>5 DEF lo
<1>11. ASSUME fits # {}, found = Insert(Max(fits) + 1, low(Max(fits)), size)
       PROVE  LET e == hole_end(Max(fits)) IN
              /\ Good(e - size + 1) /\ Max(fits) \in 1 .. n /\ e \in Nat
              /\ L[Max(fits)].high < e - size + 1
  <2> DEFINE i == Max(fits)
  <2>1. fits \in SUBSET (0 .. n)
    BY <1>2, <1>6
  <2>2. i \in fits
    <3> HIDE DEF fits
    <3> QED
      BY <1>2, <1>11, <2>1, GreatestElement
  <2> HIDE DEF i
  <2> DEFINE e == hole_end(i)
             h == L[i].high
             lo == e - size + 1
  <2>3. i \in 1 .. start /\ Plus(Minus(e, h), 1) >= size
    BY <2>2 DEF RoomAbove
  <2>4. i \in 1 .. n /\ i \in 0 .. start /\ i + 1 \in 1 .. Len(L) + 1 /\ i > 0
    BY <1>2, <1>6, <2>3
  <2>5. e \in Nat /\ Aligned(e + 1) /\ e <= HIGH /\ h <= e /\ (i < n => e < L[i + 1].low)
        /\ e <= address
    BY <1>8, <2>4
  <2>6. h \in Nat /\ Aligned(h + 1) /\ LOW <= h /\ 0 < h
    <3>1. L[i].low \in Nat /\ L[i].high \in Nat /\ L[i].low < L[i].high /\ LOW <= L[i].low
          /\ Aligned(L[i].high + 1)
      BY <1>2, <2>4
    <3> QED
      BY <1>1, <3>1
  <2> HIDE DEF e, h
  <2>7. size <= e - h
    <3>1. e - h \in 0 .. WORD - 1 /\ e \in Int /\ h \in Int /\ (e - h) + 1 \in 0 .. WORD - 1
          /\ e - h \in Int /\ 1 \in Int
      BY <1>1, <2>5, <2>6
    <3>2. Minus(e, h) = e - h
      BY <1>0, <3>1
    <3>3. Plus(e - h, 1) = (e - h) + 1
      BY <1>0, <3>1
    <3>4. (e - h) + 1 >= size
      BY <2>3, <3>2, <3>3
    <3> SUFFICES ASSUME e - h < size PROVE FALSE
      BY <3>1
    <3>5. Aligned((e + 1) - (h + 1))
      BY <2>5, <2>6, AlignedSums
    <3>6. (e + 1) - (h + 1) = e - h
      BY <2>5, <2>6
    <3>7. Aligned(e - h)
      BY <3>5, <3>6
    <3>8. (e - h) + PAGE_SIZE <= size
      BY <3>7, AlignedSums
    <3> QED
      BY <1>1, <3>1, <3>4, <3>8
  <2>8. LOW + size <= e + 1
    BY <1>1, <2>5, <2>6, <2>7
  <2>9. low(i) = lo /\ Aligned(lo) /\ LOW <= lo /\ lo + size - 1 = e
    BY <1>9, <2>5, <2>8 DEF e
  <2>10. h < lo
    BY <2>5, <2>6, <2>7
  <2> HIDE DEF lo
  <2>11. /\ i + 1 > 1 => L[(i + 1) - 1].high < lo
         /\ i + 1 <= Len(L) => lo + size - 1 < L[i + 1].low
    <3>1. (i + 1) - 1 = i /\ (i + 1 <= Len(L) => i < n)
      BY <1>2, <2>4
    <3> QED
      BY <2>5, <2>9, <2>10, <3>1 DEF h
  <2>12. lo + size - 1 <= HIGH
    BY <2>5, <2>9
  <2>13. found = Insert(i + 1, lo, size)
    BY <1>11, <2>9 DEF i
  <2>14. lo + size - 1 <= address
    BY <2>5, <2>9
  <2>15. Good(lo)
    BY <2>4, <2>9, <2>11, <2>12, <2>13, <2>14, PlacedBetween
  <2>16. Good(lo) /\ i \in 1 .. n /\ e \in Nat /\ h < lo
    BY <2>4, <2>5, <2>10, <2>15
  <2> QED
    BY <2>16 DEF lo, e, h, i
<1>12. ASSUME n # 0, Plus(Minus(hole_end(0), LOW), 1) >= size, found = Insert(1, low(0), size)
       PROVE  Good(hole_end(0) - size + 1)
  <2> DEFINE e == hole_end(0)
             lo == e - size + 1
  <2>1. 0 \in 0 .. start /\ 0 < n /\ 0 + 1 = 1
    BY <1>2, <1>6, <1>12
  <2>2. e \in Nat /\ Aligned(e + 1) /\ e <= HIGH /\ LOW <= e + 1 /\ e < L[1].low /\ e <= address
    BY <1>8, <2>1
  <2>3. Plus(Minus(e, LOW), 1) >= size
    BY <1>12
  <2> HIDE DEF e
  <2>4. LOW + size <= e + 1
    <3>1. CASE e + 1 = LOW
      <4>1. e - LOW = -1 /\ e \in Int /\ LOW \in Int
        BY <1>1, <2>2, <3>1
      <4>2. Minus(e, LOW) = WORD - 1
        BY <1>0, <4>1
      <4>3. (WORD - 1) + 1 = WORD /\ WORD - 1 \in Int /\ 1 \in Int
        BY <1>1
      <4>4. Plus(WORD - 1, 1) = 0
        BY <1>0, <4>3
      <4> QED
        BY <2>3, <4>2, <4>4
    <3>2. CASE LOW <= e
      <4>1. e - LOW \in 0 .. WORD - 1 /\ e \in Int /\ LOW \in Int /\ (e - LOW) + 1 \in 0 .. WORD - 1
            /\ e - LOW \in Int /\ 1 \in Int
        BY <1>1, <2>2, <3>2
      <4>2. Minus(e, LOW) = e - LOW
        BY <1>0, <4>1
      <4>3. Plus(e - LOW, 1) = (e - LOW) + 1
        BY <1>0, <4>1
      <4>4. (e - LOW) + 1 >= size
        BY <2>3, <4>2, <4>3
      <4> QED
        BY <1>1, <2>2, <4>4
    <3>3. e + 1 = LOW \/ LOW <= e
      BY <1>1, <2>2
    <3> QED
      BY <3>1, <3>2, <3>3
  <2>5. low(0) = lo /\ Aligned(lo) /\ LOW <= lo /\ lo + size - 1 = e
    BY <1>9, <2>2, <2>4 DEF e
  <2> HIDE DEF lo
  <2>6. /\ 1 \in 1 .. Len(L) + 1 /\ ~(1 > 1) /\ lo + size - 1 <= HIGH
        /\ 1 <= Len(L) => lo + size - 1 < L[1].low
    BY <1>2, <2>2, <2>5
  <2>7. found = Insert(1, lo, size)
    BY <1>12, <2>5
  <2>8. lo + size - 1 <= address
    BY <2>2, <2>5
  <2>9. Good(lo)
    BY <2>5, <2>6, <2>7, <2>8, PlacedBetween
  <2> QED
    BY <2>9 DEF lo, e
<1>13. found # Fail =>
          /\ Placed(L, found) /\ found.area.high = found.area.low + size - 1
          /\ found.area.high <= addr
  <2> SUFFICES ASSUME found # Fail
               PROVE  /\ Placed(L, found) /\ found.area.high = found.area.low + size - 1
                      /\ found.area.high <= addr
    OBVIOUS
  <2>1. \E lo : Good(lo)
    <3> HIDE DEF Good, fits
    <3> QED
      BY <1>4, <1>10, <1>11, <1>12
  <2>2. PICK lo : Good(lo)
    BY <2>1
  <2>3. found.area.high \in Int
    BY <1>1, <2>2 DEF Placed, Area, Word
  <2> QED
    BY <1>1, <1>5, <2>2, <2>3
\* The hole in which a free block lies.
<1>14. ASSUME NEW s, FreeAt(L, s, size), s + size - 1 <= addr, n # 0
       PROVE  \E i \in 0 .. start :
                 /\ s + size - 1 <= hole_end(i)
                 /\ i > 0 => L[i].high < s
                 /\ \A j \in 1 .. n : i < j => s + size - 1 < L[j].low
  <2>1. s \in Nat /\ LOW <= s /\ s + size - 1 <= HIGH /\ Aligned(s)
    BY <1>14 DEF FreeAt
  <2>2. \A j \in 1 .. n : s + size - 1 < L[j].low \/ L[j].high < s
    BY <1>14 DEF FreeAt
  <2>3. s + size - 1 <= address
    <3>1. Aligned(s + size)
      BY <2>1, AlignedSums
    <3>2. s + size \in Nat /\ s + size <= addr + 1 /\ s + size <= HIGH + 1
      BY <1>1, <1>14, <2>1
    <3>3. s + size <= address + 1
      BY <1>5, <3>1, <3>2
    <3> QED
      BY <1>5, <2>1, <3>3
  <2> DEFINE T == {0} \cup {j \in 1 .. n : L[j].high < s}
             i == Max(T)
  <2>4. T \in SUBSET (0 .. n) /\ T # {}
    BY <1>2
  <2>5. i \in T /\ \A j \in T : j <= i
    <3> HIDE DEF T
    <3> QED
      BY <1>2, <2>4, GreatestElement
  <2>6. i \in 0 .. n
    <3> HIDE DEF T, i
    <3> QED
      BY <2>4, <2>5
  <2> HIDE DEF i
  <2>7. ASSUME i > 0 PROVE L[i].high < s /\ i \in 1 .. n
    <3>1. i # 0 /\ i \in 1 .. n
      BY <2>6, <2>7
    <3> QED
      BY <2>5, <3>1
  <2>8. ASSUME NEW j \in 1 .. n, i < j PROVE s + size - 1 < L[j].low
    <3>1. ~(j <= i)
      BY <2>6, <2>8
    <3>2. ~(L[j].high < s)
      BY <2>5, <3>1
    <3> QED
      BY <2>2, <3>2
  <2>9. i \in 0 .. start
    <3>1. CASE i > 0
      <4>1. i \in 1 .. n /\ L[i].high < s /\ L[i].high \in Nat
        BY <1>2, <2>7, <3>1
      <4>2. L[i].high <= address
        BY <1>5, <2>1, <2>3, <4>1
      <4> QED
        BY <1>6, <4>1, <4>2
    <3>2. CASE i = 0
      BY <1>6, <3>2
    <3> QED
      BY <2>6, <3>1, <3>2
  <2>10. s + size - 1 <= before(i)
    <3>1. CASE i = n
      BY <1>7, <2>1, <2>6, <3>1
    <3>2. CASE i # n
      <4>1. i + 1 \in 1 .. n /\ i < i + 1 /\ before(i) = L[i + 1].low - 1
        BY <1>2, <1>7, <2>6, <3>2
      <4>2. s + size - 1 < L[i + 1].low /\ L[i + 1].low \in Nat
        BY <1>2, <2>8, <4>1
      <4> QED
        BY <2>1, <4>1, <4>2
    <3> QED
      BY <3>1, <3>2
  <2>11. s + size - 1 <= hole_end(i)
    BY <1>8, <2>3, <2>9, <2>10
  <2> QED
    BY <2>7, <2>8, <2>9, <2>11
<1>15. ASSUME NEW s, FreeAt(L, s, size), s + size - 1 <= addr
       PROVE  found # Fail /\ s <= found.area.low
  <2>1. s \in Nat /\ LOW <= s /\ s + size - 1 <= HIGH /\ Aligned(s)
    BY <1>15 DEF FreeAt
  <2>2. CASE n = 0
    <3>1. Good(address - size + 1)
      BY <1>4, <1>10, <2>2
    <3>2. Aligned(s + size)
      BY <2>1, AlignedSums
    <3>3. s + size \in Nat /\ s + size <= addr + 1 /\ s + size <= HIGH + 1
      BY <1>1, <1>15, <2>1
    <3>4. s + size <= address + 1
      BY <1>5, <3>2, <3>3
    <3>5. s <= address - size + 1
      BY <1>5, <2>1, <3>4
    <3> QED
      BY <3>1, <3>5
  <2>3. CASE n # 0
    <3>1. PICK i \in 0 .. start :
             /\ s + size - 1 <= hole_end(i)
             /\ i > 0 => L[i].high < s
             /\ \A j \in 1 .. n : i < j => s + size - 1 < L[j].low
      BY <1>14, <1>15, <2>3
    <3> DEFINE e == hole_end(i)
    <3>2. i \in 0 .. n /\ i \in Nat
      BY <1>2, <1>6, <3>1
    <3>3. e \in Nat /\ e <= HIGH /\ s + size - 1 <= e
      BY <1>8, <3>1
    <3>4. ASSUME i > 0 PROVE i \in fits
      <4> DEFINE h == L[i].high
      <4>1. i \in 1 .. n /\ i \in 1 .. start
        BY <1>2, <1>6, <3>1, <3>2, <3>4
      <4>2. h \in Nat /\ h < s /\ 0 < h
        BY <1>2, <3>1, <3>4, <4>1
      <4>3. Plus(Minus(e, h), 1) >= size
        <5> HIDE DEF e, h
        <5>1. e - h \in 0 .. WORD - 1 /\ e \in Int /\ h \in Int /\ (e - h) + 1 \in 0 .. WORD - 1
              /\ e - h \in Int /\ 1 \in Int
          BY <1>1, <2>1, <3>3, <4>2
        <5>2. Minus(e, h) = e - h
          BY <1>0, <5>1
        <5>3. Plus(e - h, 1) = (e - h) + 1
          BY <1>0, <5>1
        <5>4. (e - h) + 1 >= size
          BY <2>1, <3>3, <4>2
        <5> QED
          BY <5>2, <5>3, <5>4
      <4> QED
        BY <4>1, <4>3 DEF RoomAbove
    <3>5. CASE fits # {}
      <4> DEFINE m == Max(fits)
                 em == hole_end(m)
      <4>1. found = Insert(m + 1, low(m), size)
        BY <1>4, <2>3, <3>5
      <4>2. Good(em - size + 1) /\ m \in 1 .. n /\ em \in Nat /\ L[m].high < em - size + 1
        BY <1>11, <3>5, <4>1
      <4>3. i <= m
        <5>1. CASE i > 0
          <6>1. fits \in SUBSET (0 .. n)
            BY <1>2, <1>6
          <6>2. i \in fits
            BY <3>4, <5>1
          <6> HIDE DEF fits
          <6> QED
            BY <1>2, <3>5, <6>1, <6>2, GreatestElement
        <5>2. CASE ~(i > 0)
          <6> HIDE DEF m
          <6> QED
            BY <1>2, <3>2, <4>2, <5>2
        <5> QED
          BY <5>1, <5>2
      <4> HIDE DEF m
      <4>4. CASE m = i
        <5>1. em = e
          BY <4>4
        <5> HIDE DEF e, em
        <5>2. s <= em - size + 1
          BY <2>1, <3>3, <4>2, <5>1
        <5> QED
          BY <4>2, <5>2
      <4>5. CASE i < m
        <5>1. s + size - 1 < L[m].low /\ L[m].low < L[m].high /\ L[m].low \in Nat /\ L[m].high \in Nat
          BY <1>2, <3>1, <4>2, <4>5
        <5> HIDE DEF em
        <5>2. s <= em - size + 1
          BY <2>1, <4>2, <5>1
        <5> QED
          BY <4>2, <5>2
      <4>6. m = i \/ i < m
        BY <3>2, <4>2, <4>3
      <4> QED
        BY <4>4, <4>5, <4>6
    <3>6. CASE fits = {}
      <4>1. i = 0
        BY <3>2, <3>4, <3>6
      <4>2. hole_end(0) = e
        BY <4>1
      <4>3. Plus(Minus(e, LOW), 1) >= size
        <5> HIDE DEF e
        <5>1. e - LOW \in 0 .. WORD - 1 /\ e \in Int /\ LOW \in Int /\ (e - LOW) + 1 \in 0 .. WORD - 1
              /\ e - LOW \in Int /\ 1 \in Int
          BY <1>1, <2>1, <3>3
        <5>2. Minus(e, LOW) = e - LOW
          BY <1>0, <5>1
        <5>3. Plus(e - LOW, 1) = (e - LOW) + 1
          BY <1>0, <5>1
        <5>4. (e - LOW) + 1 >= size
          BY <1>1, <2>1, <3>3
        <5> QED
          BY <5>2, <5>3, <5>4
      <4>4. Plus(Minus(hole_end(0), LOW), 1) >= size
        BY <4>2, <4>3
      <4>5. found = Insert(1, low(0), size)
        BY <1>4, <2>3, <3>6, <4>4
      <4>6. Good(hole_end(0) - size + 1)
        BY <1>12, <2>3, <4>4, <4>5
      <4>7. s <= hole_end(0) - size + 1
        <5> HIDE DEF e
        <5>1. s <= e - size + 1
          BY <2>1, <3>3
        <5> QED
          BY <4>2, <5>1
      <4> QED
        BY <4>6, <4>7
    <3> QED
      BY <3>5, <3>6
  <2> QED
    BY <2>2, <2>3
<1> QED
  BY <1>13, <1>15 DEF found

LEMMA SearchDownStarts ==
    ASSUME map \in DOMAIN Requests, NEW L, NEW addr \in Word, NEW size \in Nat, addr >= size,
           search_down(L, addr, size) # Fail
    PROVE  LOW + size <= addr
<1>1. LOW \in Nat /\ WORD \in Nat /\ WORD > 0 /\ addr \in Nat /\ addr < WORD
  BY MapFacts, PageNumbers
<1>2. ~(Minus(addr, size) < LOW)
  BY DEF search_down
<1>3. addr - size \in 0 .. WORD - 1 /\ addr \in Int /\ size \in Int
  BY <1>1
<1>4. Minus(addr, size) = addr - size
  BY <1>1, <1>3, Wraps
<1> QED
  BY <1>1, <1>2, <1>4

LEMMA RoundUpAligned ==
    ASSUME NEW size \in Nat, size > 0, size + PAGE_SIZE <= WORD
    PROVE  RoundUp(size) \in Nat /\ Aligned(RoundUp(size)) /\ RoundUp(size) > 0 /\ RoundUp(size) < WORD
<1>1. PAGE_SIZE \in Nat /\ PAGE_SIZE > 1 /\ WORD \in Nat /\ WORD > 0
  BY PageNumbers
<1> DEFINE x == size + (PAGE_SIZE - 1)
<1>2. x \in Nat /\ x \in 0 .. WORD - 1 /\ PAGE_SIZE <= x /\ PAGE_SIZE - 1 \in Int /\ size \in Int
  BY <1>1
<1>3. Plus(size, PAGE_SIZE - 1) = x
  BY <1>1, <1>2, Wraps
<1> HIDE DEF x
<1>4. /\ Aligned(PAGE_ALIGN(x)) /\ PAGE_ALIGN(x) \in Nat
      /\ PAGE_ALIGN(x) <= x /\ x < PAGE_ALIGN(x) + PAGE_SIZE
  BY <1>2, PageAlign
<1>5. RoundUp(size) = PAGE_ALIGN(x)
  BY <1>3 DEF RoundUp
<1> QED
  BY <1>1, <1>2, <1>4, <1>5

\* What create_vm_area hands to the placement it was asked for.
LEMMA RequestFacts ==
    ASSUME AreaIInv, NEW r \in Requests[map]
    PROVE  LET size == RoundUp(r.size) IN
           /\ r.place \in {"exact", "search_down", "search_up"} /\ r.address \in Word
           /\ size \in Nat /\ Aligned(size) /\ size > 0 /\ size < WORD
           /\ r.place = "exact" => Aligned(r.address)
           /\ r.place # "exact" => size <= HIGH - LOW + 1
           /\ r.place = "search_up" =>
                 r.address + size < WORD /\ (HIGH < WORD - 1 \/ r.address <= LOW)
           /\ r.place = "search_down" => r.address >= size
<1>1. map \in DOMAIN Requests
  BY DEF AreaIInv
<1>2. /\ r.place \in {"exact", "search_down", "search_up"}
      /\ r.address \in Word /\ r.size \in Word
  BY <1>1, RequestsAssumption
<1>3. /\ r.size > 0 /\ r.size + PAGE_SIZE <= WORD
      /\ r.place = "exact" => r.address % PAGE_SIZE = 0
      /\ r.place # "exact" => RoundUp(r.size) <= HIGH - LOW + 1
      /\ r.place = "search_up" =>
            r.address + RoundUp(r.size) < WORD /\ (HIGH < WORD - 1 \/ r.address <= LOW)
      /\ r.place = "search_down" => r.address >= RoundUp(r.size)
  BY <1>1, CallersAssumption DEF LOW, HIGH
<1>4. r.size \in Nat /\ r.address \in Int
  BY <1>1, <1>2, MapFacts
<1>5. LET size == RoundUp(r.size) IN size \in Nat /\ Aligned(size) /\ size > 0 /\ size < WORD
  BY <1>3, <1>4, RoundUpAligned
<1>6. r.place = "exact" => Aligned(r.address)
  BY <1>3, <1>4 DEF Aligned
<1> QED
  BY <1>2, <1>3, <1>5, <1>6

\* Whatever create_vm_area is asked, what it finds is free and in order.
LEMMA PlaceIsPlaced ==
    ASSUME AreaIInv, NEW r \in Requests[map], Place(area_list, r) # Fail
    PROVE  Placed(area_list, Place(area_list, r))
<1>1. map \in DOMAIN Requests /\ AreasOK(area_list)
  BY DEF AreaIInv
<1> DEFINE size == RoundUp(r.size)
<1>2. /\ r.place \in {"exact", "search_down", "search_up"} /\ r.address \in Word
      /\ size \in Nat /\ Aligned(size) /\ size > 0 /\ size < WORD
      /\ r.place = "exact" => Aligned(r.address)
      /\ r.place # "exact" => size <= HIGH - LOW + 1
      /\ r.place = "search_up" =>
            r.address + size < WORD /\ (HIGH < WORD - 1 \/ r.address <= LOW)
      /\ r.place = "search_down" => r.address >= size
  BY RequestFacts
<1> HIDE DEF size
<1>3. CASE r.place = "exact"
  <2>1. Place(area_list, r) = insert_fixed(area_list, r.address, size)
    BY <1>3 DEF Place, size
  <2> QED
    BY <1>1, <1>2, <1>3, <2>1, InsertFixedPlaced
<1>4. CASE r.place = "search_up"
  <2>1. /\ size <= HIGH - LOW + 1 /\ r.address + size < WORD
        /\ HIGH < WORD - 1 \/ r.address <= LOW
    BY <1>2, <1>4
  <2>2. Place(area_list, r) = search_up(area_list, r.address, size)
    BY <1>4 DEF Place, size
  <2> QED
    BY <1>1, <1>2, <2>1, <2>2, SearchUpFits, SearchUpStarts
<1>5. CASE r.place = "search_down"
  <2>1. size <= HIGH - LOW + 1 /\ r.address >= size
    BY <1>2, <1>5
  <2>2. Place(area_list, r) = search_down(area_list, r.address, size)
    BY <1>5 DEF Place, size
  <2> QED
    BY <1>1, <1>2, <2>1, <2>2, SearchDownFits, SearchDownStarts
<1> QED
  BY <1>2, <1>3, <1>4, <1>5

LEMMA NewList ==
    ASSUME map \in DOMAIN Requests, NEW M, AreasOK(M), map' = map, area_list' = M
    PROVE  AreaIInv'
<1>1. AreasOK(area_list)'
  BY DEF AreasOK, PageArea, LOW, HIGH
<1> QED
  BY <1>1 DEF AreaIInv

LEMMA InsertKeeps ==
    ASSUME NEW L \in Seq(Area), AreasOK(L), NEW i \in 1 .. Len(L) + 1, NEW e \in Area, PageArea(e),
           \A j \in 1 .. Len(L) : j < i => L[j].high < e.low,
           \A j \in 1 .. Len(L) : j >= i => e.high < L[j].low
    PROVE  AreasOK(InsertAt(L, i, e))
<1> DEFINE n == Len(L)
           M == InsertAt(L, i, e)
<1>3. /\ n \in Nat
      /\ \A k \in 1 .. n : PageArea(L[k])
      /\ \A j, k \in 1 .. n : j < k => L[j].high < L[k].low
  BY DEF AreasOK
<1>4. i \in 1 .. n + 1
  OBVIOUS
\* Where an area was before.
<1> DEFINE o(k) == IF k < i THEN k ELSE k - 1
<1>6. /\ M \in Seq(Area) /\ Len(M) = n + 1 /\ M[i] = e
      /\ \A k \in 1 .. n + 1 : k # i => M[k] = L[o(k)]
  BY InsertAtList
<1> HIDE DEF M
<1>7. \A k \in 1 .. n + 1 : k # i => o(k) \in 1 .. n /\ M[k] = L[o(k)]
  BY <1>3, <1>4, <1>6
<1>8. M[i] = e
  BY <1>6
<1>9. \A k \in 1 .. n + 1 : PageArea(M[k])
  <2> TAKE k \in 1 .. n + 1
  <2>1. CASE k = i
    BY <1>4, <1>8, <2>1
  <2>2. CASE k # i
    <3> HIDE DEF o
    <3> QED
      BY <1>3, <1>7, <2>2
  <2> QED
    BY <2>1, <2>2
<1>10. ASSUME NEW j \in 1 .. n + 1, NEW k \in 1 .. n + 1, j < k PROVE M[j].high < M[k].low
  <2>1. CASE j = i
    <3>1. k # i /\ o(k) \in 1 .. n /\ o(k) >= i
      BY <1>3, <1>4, <1>10, <2>1
    <3> HIDE DEF o
    <3> QED
      BY <1>4, <1>7, <1>8, <2>1, <3>1
  <2>2. CASE k = i
    <3>1. j # i /\ o(j) \in 1 .. n /\ o(j) < i
      BY <1>3, <1>4, <1>10, <2>2
    <3> HIDE DEF o
    <3> QED
      BY <1>4, <1>7, <1>8, <2>2, <3>1
  <2>3. CASE j # i /\ k # i
    <3>1. o(j) \in 1 .. n /\ o(k) \in 1 .. n /\ o(j) < o(k)
      BY <1>3, <1>4, <1>10, <2>3
    <3> HIDE DEF o
    <3> QED
      BY <1>3, <1>7, <2>3, <3>1
  <2> QED
    BY <2>1, <2>2, <2>3
<1>11. AreasOK(M)
  BY <1>3, <1>6, <1>9, <1>10 DEF AreasOK
<1> QED
  BY <1>11 DEF M

LEMMA CreateStep ==
    ASSUME AreaIInv, NEW r \in Requests[map], create_vm_area(r)
    PROVE  AreaIInv'
<1> DEFINE new == Place(area_list, r)
<1>1. /\ new # Fail /\ map' = map
      /\ area_list' = InsertAt(area_list, new.index, new.area)
  BY DEF create_vm_area
<1>2. Placed(area_list, new)
  BY <1>1, PlaceIsPlaced
<1>3. area_list \in Seq(Area) /\ map \in DOMAIN Requests /\ AreasOK(area_list)
  BY DEF AreaIInv, AreasOK
<1> HIDE DEF new
<1>4. AreasOK(InsertAt(area_list, new.index, new.area))
  BY <1>2, <1>3, InsertKeeps DEF Placed
<1> QED
  BY <1>1, <1>3, <1>4, NewList

LEMMA DestroyStep ==
    ASSUME AreaIInv, NEW i \in DOMAIN area_list, destroy_vm_area(i)
    PROVE  AreaIInv'
<1> DEFINE L == area_list
           n == Len(area_list)
           M == RemoveAt(area_list, i)
<1>1. area_list' = M /\ map' = map
  BY DEF destroy_vm_area
<1>2. /\ L \in Seq(Area) /\ n \in Nat /\ map \in DOMAIN Requests /\ i \in 1 .. n
      /\ \A k \in 1 .. n : PageArea(L[k])
      /\ \A j, k \in 1 .. n : j < k => L[j].high < L[k].low
  BY DEF AreaIInv, AreasOK
<1> DEFINE o(k) == IF k < i THEN k ELSE k + 1
<1>3. /\ M \in Seq(Area) /\ DOMAIN M = 1 .. n - 1
      /\ \A k \in 1 .. n - 1 : M[k] = L[o(k)]
  BY <1>2, RemoveAtList
<1>4. Len(M) = n - 1
  BY <1>2, <1>3
<1> HIDE DEF M
<1>5. \A k \in 1 .. n - 1 : o(k) \in 1 .. n
  BY <1>2
<1>6. \A j, k \in 1 .. n - 1 : j < k => o(j) < o(k)
  BY <1>2
<1> HIDE DEF o
<1>7. AreasOK(M)
  BY <1>2, <1>3, <1>4, <1>5, <1>6 DEF AreasOK
<1> QED
  BY <1>1, <1>2, <1>7, NewList

LEMMA AreaInitIInv == AreaMapInit => AreaIInv
BY DEF AreaMapInit, AreaIInv, AreasOK

LEMMA AreaStepIInv == AreaIInv /\ [AreaMapNext]_areaMapVars => AreaIInv'
<1> SUFFICES ASSUME AreaIInv, [AreaMapNext]_areaMapVars PROVE AreaIInv'
  OBVIOUS
<1>1. ASSUME NEW r \in Requests[map], create_vm_area(r) PROVE AreaIInv'
  BY <1>1, CreateStep
<1>2. ASSUME NEW i \in DOMAIN area_list, destroy_vm_area(i) PROVE AreaIInv'
  BY <1>2, DestroyStep
<1>3. CASE UNCHANGED areaMapVars
  <2>1. map \in DOMAIN Requests /\ AreasOK(area_list) /\ map' = map /\ area_list' = area_list
    BY <1>3 DEF AreaIInv, areaMapVars
  <2> QED
    BY <2>1, NewList
<1>4. ASSUME NEW r \in Requests[map], CreateFails(r) PROVE AreaIInv'
  BY <1>3, <1>4 DEF CreateFails
<1> QED
  BY <1>1, <1>2, <1>3, <1>4 DEF AreaMapNext

LEMMA AreaIInvImplies == AreaIInv => MapWellFormed
<1> SUFFICES ASSUME AreaIInv PROVE MapWellFormed
  OBVIOUS
<1> DEFINE L == area_list
<1>1. DOMAIN L = 1 .. Len(L) /\ map \in DOMAIN Requests /\ AreasOK(L)
  BY DEF AreaIInv, AreasOK
<1>2. /\ \A j \in 1 .. Len(L) :
            /\ L[j].low \in Nat /\ L[j].high \in Nat /\ L[j].low < L[j].high
            /\ LOW <= L[j].low /\ L[j].high <= HIGH
            /\ Aligned(L[j].low) /\ Aligned(L[j].high + 1)
      /\ \A i, j \in 1 .. Len(L) : i < j => L[i].high < L[j].low
  BY <1>1, AreaFacts
<1>3. \A j \in 1 .. Len(L) : L[j].low % PAGE_SIZE = 0 /\ L[j].high % PAGE_SIZE = PAGE_SIZE - 1
  <2> TAKE j \in 1 .. Len(L)
  <2>1. L[j].high \in Int /\ Aligned(L[j].low) /\ Aligned(L[j].high + 1)
    BY <1>2
  <2> QED
    BY <2>1, AlignedEnd DEF Aligned
<1> QED
  BY <1>1, <1>2, <1>3 DEF MapWellFormed

\* Whatever sequence of areas is created, at an address, from the bottom or from
\* the top, and destroyed again, with arguments that meet CallersAssumption (a
\* size that is not zero and no larger than the map, address + size and
\* address - size that do not wrap, an exact address on a page boundary), the
\* areas of a map lie inside it on page boundaries, do not overlap and stand in
\* the list in address order, for any word and page size, also in a map that
\* ends at the last machine word.  The create_area system call does not check
\* its arguments (syscall.c:97); calls with others are not covered.
THEOREM AreasNeverOverlap == AreaMapSpec => []MapWellFormed
<1>1. AreaMapSpec => []AreaIInv
  BY AreaInitIInv, AreaStepIInv, PTL DEF AreaMapSpec
<1> QED
  BY <1>1, AreaIInvImplies, PTL


\* A block that is free is a block none of whose addresses is in use.
LEMMA BlocksAreFree ==
    ASSUME map \in DOMAIN Requests, NEW L, AreasOK(L), NEW size \in Nat, size > 0
    PROVE  \A s : s \in Blocks(L, size) <=> FreeAt(L, s, size)
<1>1. LOW \in Nat /\ HIGH \in Nat
  BY MapFacts
<1>2. /\ DOMAIN L = 1 .. Len(L)
      /\ \A j \in 1 .. Len(L) : L[j].low \in Nat /\ L[j].high \in Nat /\ L[j].low < L[j].high
  BY AreaFacts DEF AreasOK
<1>3. ASSUME NEW s, s \in Blocks(L, size) PROVE FreeAt(L, s, size)
  <2>1. /\ s \in LOW .. HIGH /\ s % PAGE_SIZE = 0 /\ s + size - 1 <= HIGH
        /\ (s .. s + size - 1) \cap Used(L) = {}
    BY <1>3 DEF Blocks
  <2>2. s \in Nat /\ LOW <= s
    BY <1>1, <2>1
  <2>3. ASSUME NEW j \in 1 .. Len(L) PROVE s + size - 1 < L[j].low \/ L[j].high < s
    <3> SUFFICES ASSUME ~(s + size - 1 < L[j].low), ~(L[j].high < s) PROVE FALSE
      OBVIOUS
    <3> DEFINE l == L[j].low
               h == L[j].high
               x == IF s < l THEN l ELSE s
    <3>1. l \in Nat /\ h \in Nat /\ l < h /\ ~(s + size - 1 < l) /\ ~(h < s)
      BY <1>2
    <3>2. x \in s .. s + size - 1 /\ x \in l .. h
      <4> HIDE DEF l, h
      <4> QED
        BY <2>2, <3>1
    <3> HIDE DEF x
    <3>3. x \in Addresses(L[j])
      BY <3>2 DEF Addresses
    <3>4. x \in Used(L)
      BY <1>2, <3>3 DEF Used
    <3> QED
      BY <2>1, <3>2, <3>4
  <2> QED
    BY <2>1, <2>2, <2>3 DEF FreeAt, Aligned
<1>4. ASSUME NEW s, FreeAt(L, s, size) PROVE s \in Blocks(L, size)
  <2>1. /\ s \in Nat /\ LOW <= s /\ s % PAGE_SIZE = 0 /\ s + size - 1 <= HIGH
        /\ \A j \in 1 .. Len(L) : s + size - 1 < L[j].low \/ L[j].high < s
    BY <1>4 DEF FreeAt, Aligned
  <2>2. s \in LOW .. HIGH
    BY <1>1, <2>1
  <2>3. ASSUME NEW x \in s .. s + size - 1, x \in Used(L) PROVE FALSE
    <3>1. PICK j \in DOMAIN L : x \in Addresses(L[j])
      BY <2>3 DEF Used
    <3>2. j \in 1 .. Len(L) /\ L[j].low \in Nat /\ L[j].high \in Nat
      BY <1>2, <3>1
    <3>3. x \in Int /\ L[j].low <= x /\ x <= L[j].high
      BY <2>1, <2>3, <3>1, <3>2 DEF Addresses
    <3>4. s <= x /\ x <= s + size - 1
      BY <2>1
    <3> QED
      BY <2>1, <3>2, <3>3, <3>4
  <2> QED
    BY <2>1, <2>2, <2>3 DEF Blocks
<1> QED
  BY <1>3, <1>4

LEMMA PlacedIsFree ==
    ASSUME map \in DOMAIN Requests, NEW L, AreasOK(L), NEW new, Placed(L, new), NEW size \in Nat,
           new.area.high = new.area.low + size - 1
    PROVE  FreeAt(L, new.area.low, size)
<1>1. new.area \in Area /\ PageArea(new.area) /\ Len(L) \in Nat /\ new.index \in 1 .. Len(L) + 1
  BY DEF Placed, AreasOK
<1>2. new.area.low \in Nat
  BY <1>1, MapFacts DEF Area
<1>3. ASSUME NEW j \in 1 .. Len(L) PROVE new.area.high < L[j].low \/ L[j].high < new.area.low
  <2>1. j < new.index \/ j >= new.index
    BY <1>1
  <2> QED
    BY <2>1 DEF Placed
<1> QED
  BY <1>1, <1>2, <1>3 DEF FreeAt, PageArea

\* insert_fixed stops at the hole that a free block lies in.
LEMMA InsertFixedFits ==
    ASSUME map \in DOMAIN Requests, NEW L, AreasOK(L), NEW address \in Word, NEW size \in Nat,
           size > 0, FreeAt(L, address, size)
    PROVE  insert_fixed(L, address, size) # Fail
<1> DEFINE n == Len(L)
           high == Minus(Plus(address, size), 1)
           hole_start(i) == IF i = 1 THEN LOW ELSE L[i - 1].high
           covered == {i \in 1 .. n : hole_start(i) > address}
           fits == {i \in 1 .. n : hole_start(i) <= address /\ Before(address, high, L[i].low)}
           S == {n + 1} \cup covered \cup fits
           stop == Min(S)
<1>1. /\ LOW \in Nat /\ HIGH \in Nat /\ HIGH < WORD /\ WORD \in Nat /\ WORD > 0
      /\ address \in Nat
  BY MapFacts, PageNumbers
<1>2. /\ LOW <= address /\ address + size - 1 <= HIGH
      /\ \A j \in 1 .. n : address + size - 1 < L[j].low \/ L[j].high < address
  BY DEF FreeAt
<1>3. n \in Nat /\ \A j \in 1 .. n : L[j].low \in Nat /\ L[j].high \in Nat
  BY AreaFacts
<1>4. high = address + size - 1
  <2>1. CASE address + size = WORD
    <3>1. Plus(address, size) = 0
      BY <1>1, <2>1, Wraps
    <3>2. \A a, b \in Int : a - b = -1 => Minus(a, b) = WORD - 1
      BY <1>1, Wraps
    <3>3. 0 \in Int /\ 1 \in Int /\ 0 - 1 = -1
      OBVIOUS
    <3>4. Minus(0, 1) = WORD - 1
      BY <3>2, <3>3
    <3> QED
      BY <1>1, <2>1, <3>1, <3>4
  <2>2. CASE address + size < WORD
    <3>1. address + size \in 0 .. WORD - 1 /\ (address + size) - 1 \in 0 .. WORD - 1
          /\ address + size \in Int /\ 1 \in Int
      BY <1>1, <2>2
    <3>2. Plus(address, size) = address + size
      BY <1>1, <3>1, Wraps
    <3>3. Minus(address + size, 1) = (address + size) - 1
      BY <1>1, <3>1, Wraps
    <3> QED
      BY <1>1, <3>2, <3>3
  <2> QED
    BY <1>1, <1>2, <2>1, <2>2
<1> HIDE DEF high
<1>5. ~(address < LOW \/ high > HIGH \/ high < address)
  BY <1>1, <1>2, <1>4
<1>6. S \in SUBSET Nat /\ S # {} /\ S \subseteq 1 .. n + 1
  BY <1>3
<1>7. stop \in S /\ \A i \in S : stop <= i
  <2> HIDE DEF S
  <2> QED
    BY <1>6, LeastElement
<1>8. stop \in 1 .. n + 1
  <2> HIDE DEF S, stop
  <2> QED
    BY <1>6, <1>7
<1>9. ASSUME hole_start(stop) > address PROVE FALSE
  <2> DEFINE k == stop - 1
  <2> HIDE DEF stop
  <2>1. stop # 1
    BY <1>1, <1>2, <1>9
  <2>2. k \in 1 .. n /\ ~(stop <= k)
    BY <1>3, <1>8, <2>1
  <2>3. L[k].high > address
    BY <1>9, <2>1
  <2> HIDE DEF k
  <2>4. address + size - 1 < L[k].low
    BY <1>1, <1>2, <1>3, <2>2, <2>3
  <2>5. k \notin S
    BY <1>7, <2>2
  <2>6. hole_start(k) \in Nat
    <3>1. k # 1 => k - 1 \in 1 .. n
      BY <1>3, <2>2
    <3> QED
      BY <1>1, <1>3, <3>1
  <2>7. hole_start(k) <= address
    <3>1. k \notin covered
      BY <2>5
    <3>2. ~(hole_start(k) > address)
      BY <2>2, <3>1
    <3> HIDE DEF hole_start
    <3> QED
      BY <1>1, <2>6, <3>2
  <2>8. Before(address, high, L[k].low)
    <3>1. L[k].low >= high
      BY <1>1, <1>3, <1>4, <2>2, <2>4
    <3> QED
      BY <3>1 DEF Before
  <2>9. k \in fits
    BY <2>2, <2>7, <2>8
  <2> QED
    BY <2>5, <2>9
<1>10. stop \notin covered
  <2> HIDE DEF stop
  <2> QED
    BY <1>9
<1>11. n = 0 \/ hole_start(stop) <= address
  <2> HIDE DEF stop
  <2>1. stop # 1 => stop - 1 \in 1 .. n
    BY <1>3, <1>8
  <2>2. hole_start(stop) \in Nat
    BY <1>1, <1>3, <2>1
  <2> HIDE DEF hole_start
  <2> QED
    BY <1>1, <1>9, <2>2
<1>12. insert_fixed(L, address, size) = Insert(stop, address, size)
  BY <1>5, <1>10, <1>11 DEF insert_fixed, high
<1>13. Insert(stop, address, size).index = stop /\ Fail.index = 0
  BY DEF Insert, Fail
<1> HIDE DEF stop
<1>14. stop # 0
  BY <1>3, <1>8
<1> QED
  BY <1>12, <1>13, <1>14

LEMMA SearchUpIsFirstFit == AreaIInv => SearchUpFirstFit
<1> SUFFICES ASSUME AreaIInv, NEW r \in Requests[map], r.place = "search_up",
                    r.address + RoundUp(r.size) <= HIGH
             PROVE  LET size == RoundUp(r.size)
                        new == Place(area_list, r)
                        candidates == {s \in Blocks(area_list, size) : s >= PAGE_ALIGN(r.address)}
                    IN  IF candidates = {} THEN new = Fail
                                       ELSE new # Fail /\ new.area.low = Min(candidates)
  BY DEF SearchUpFirstFit
<1> DEFINE L == area_list
           size == RoundUp(r.size)
           address == r.address
           new == Place(area_list, r)
           candidates == {s \in Blocks(area_list, size) : s >= PAGE_ALIGN(r.address)}
<1>1. map \in DOMAIN Requests /\ AreasOK(L)
  BY DEF AreaIInv
<1>2. /\ address \in Word /\ size \in Nat /\ Aligned(size) /\ size > 0 /\ size < WORD
      /\ size <= HIGH - LOW + 1 /\ address + size <= HIGH
      /\ HIGH < WORD - 1 \/ address <= LOW
  BY RequestFacts
<1>3. new = search_up(L, address, size)
  BY DEF Place
<1>0. address \in Nat /\ PAGE_ALIGN(address) \in Nat
  <2> HIDE DEF address
  <2>1. address \in Nat
    BY <1>1, <1>2, MapFacts
  <2> QED
    BY <2>1, PageAlign
<1> HIDE DEF L, size, address, new
<1>4. /\ new # Fail => /\ Placed(L, new) /\ new.area.high = new.area.low + size - 1
                       /\ PAGE_ALIGN(address) <= new.area.low
      /\ \A s : FreeAt(L, s, size) /\ PAGE_ALIGN(address) <= s => new # Fail /\ new.area.low <= s
  BY <1>1, <1>2, <1>3, SearchUpFits
<1>5. \A s : s \in candidates <=> FreeAt(L, s, size) /\ PAGE_ALIGN(address) <= s
  <2>1. \A s : s \in Blocks(L, size) <=> FreeAt(L, s, size)
    BY <1>1, <1>2, BlocksAreFree
  <2>2. \A s : FreeAt(L, s, size) => (s >= PAGE_ALIGN(address) <=> PAGE_ALIGN(address) <= s)
    BY <1>0 DEF FreeAt
  <2>3. candidates = {s \in Blocks(L, size) : s >= PAGE_ALIGN(address)}
    BY DEF L, address
  <2> QED
    BY <2>1, <2>2, <2>3
<1>6. candidates \in SUBSET Nat
  BY <1>5 DEF FreeAt
<1> HIDE DEF candidates
<1>7. new # Fail => new.area.low \in candidates
  BY <1>1, <1>2, <1>4, <1>5, PlacedIsFree
<1>8. CASE candidates = {}
  BY <1>7, <1>8 DEF candidates, size, new
<1>9. CASE candidates # {}
  <2>1. Min(candidates) \in candidates /\ \A x \in candidates : Min(candidates) <= x
    BY <1>6, <1>9, LeastElement
  <2>2. new # Fail /\ new.area.low <= Min(candidates)
    BY <1>4, <1>5, <2>1
  <2>3. new.area.low \in candidates
    BY <1>7, <2>2
  <2> DEFINE a == new.area.low
             b == Min(candidates)
  <2>4. a \in Int /\ b \in Int /\ a <= b /\ b <= a
    <3>1. a \in candidates /\ b \in candidates /\ b <= a /\ a <= b
      BY <2>1, <2>2, <2>3
    <3> HIDE DEF a, b
    <3> QED
      BY <1>6, <3>1
  <2>5. a = b
    <3> HIDE DEF a, b
    <3> QED
      BY <2>4
  <2> QED
    BY <1>9, <2>2, <2>5 DEF candidates, size, new
<1> QED
  BY <1>8, <1>9

LEMMA SearchDownIsLastFit == AreaIInv => SearchDownLastFit
<1> SUFFICES ASSUME AreaIInv, NEW r \in Requests[map], r.place = "search_down",
                    r.address - RoundUp(r.size) >= LOW
             PROVE  LET size == RoundUp(r.size)
                        new == Place(area_list, r)
                        candidates == {s \in Blocks(area_list, size) : s + size - 1 <= r.address}
                    IN  IF candidates = {} THEN new = Fail
                                       ELSE new # Fail /\ new.area.low = Max(candidates)
  BY DEF SearchDownLastFit
<1> DEFINE L == area_list
           size == RoundUp(r.size)
           address == r.address
           new == Place(area_list, r)
           candidates == {s \in Blocks(area_list, size) : s + size - 1 <= r.address}
<1>1. map \in DOMAIN Requests /\ AreasOK(L)
  BY DEF AreaIInv
<1>2. /\ address \in Word /\ size \in Nat /\ Aligned(size) /\ size > 0 /\ size < WORD
      /\ size <= HIGH - LOW + 1 /\ address - size >= LOW
  BY RequestFacts
<1>3. new = search_down(L, address, size)
  BY DEF Place
<1>0. address \in Nat /\ LOW \in Nat /\ HIGH \in Nat
  BY <1>1, <1>2, MapFacts
<1> HIDE DEF L, size, address, new
<1>4. /\ new # Fail => /\ Placed(L, new) /\ new.area.high = new.area.low + size - 1
                       /\ new.area.high <= address
      /\ \A s : FreeAt(L, s, size) /\ s + size - 1 <= address => new # Fail /\ s <= new.area.low
  <2>1. LOW + size <= address
    BY <1>0, <1>2
  <2> QED
    BY <1>1, <1>2, <1>3, <2>1, SearchDownFits
<1>5. \A s : s \in candidates <=> FreeAt(L, s, size) /\ s + size - 1 <= address
  <2>1. \A s : s \in Blocks(L, size) <=> FreeAt(L, s, size)
    BY <1>1, <1>2, BlocksAreFree
  <2>2. candidates = {s \in Blocks(L, size) : s + size - 1 <= address}
    BY DEF L, address
  <2> QED
    BY <2>1, <2>2
<1>6. candidates \in SUBSET (0 .. HIGH)
  <2>1. \A s : FreeAt(L, s, size) => s \in 0 .. HIGH
    BY <1>0, <1>2 DEF FreeAt
  <2> QED
    BY <1>5, <2>1
<1> HIDE DEF candidates
<1>7. new # Fail => new.area.low \in candidates
  BY <1>1, <1>2, <1>4, <1>5, PlacedIsFree
<1>8. CASE candidates = {}
  BY <1>7, <1>8 DEF candidates, size, new
<1>9. CASE candidates # {}
  <2>1. Max(candidates) \in candidates /\ \A x \in candidates : x <= Max(candidates)
    BY <1>0, <1>6, <1>9, GreatestElement
  <2>2. new # Fail /\ Max(candidates) <= new.area.low
    BY <1>4, <1>5, <2>1
  <2>3. new.area.low \in candidates
    BY <1>7, <2>2
  <2> DEFINE a == new.area.low
             b == Max(candidates)
  <2>4. a \in Int /\ b \in Int /\ a <= b /\ b <= a
    BY <1>6, <2>1, <2>2, <2>3
  <2>5. a = b
    <3> HIDE DEF a, b
    <3> QED
      BY <2>4
  <2> QED
    BY <1>9, <2>2, <2>5 DEF candidates, size, new
<1> QED
  BY <1>8, <1>9

LEMMA InsertFixedIsExact == AreaIInv => ExactIffFree
<1> SUFFICES ASSUME AreaIInv, NEW r \in Requests[map], r.place = "exact"
             PROVE  Place(area_list, r) # Fail <=> r.address \in Blocks(area_list, RoundUp(r.size))
  BY DEF ExactIffFree
<1> DEFINE L == area_list
           size == RoundUp(r.size)
           address == r.address
           new == Place(area_list, r)
<1>1. map \in DOMAIN Requests /\ AreasOK(L)
  BY DEF AreaIInv
<1>2. address \in Word /\ size \in Nat /\ Aligned(size) /\ size > 0 /\ size < WORD /\ Aligned(address)
  BY RequestFacts
<1>3. new = insert_fixed(L, address, size)
  BY DEF Place
<1> HIDE DEF L, size, address, new
<1>4. address \in Blocks(L, size) <=> FreeAt(L, address, size)
  BY <1>1, <1>2, BlocksAreFree
<1>5. ASSUME new # Fail PROVE FreeAt(L, address, size)
  <2>1. Placed(L, new) /\ new.area.low = address /\ new.area.high = address + size - 1
    BY <1>1, <1>2, <1>3, <1>5, InsertFixedPlaced
  <2> QED
    BY <1>1, <1>2, <2>1, PlacedIsFree
<1>6. ASSUME FreeAt(L, address, size) PROVE new # Fail
  BY <1>1, <1>2, <1>3, <1>6, InsertFixedFits
<1>7. new # Fail <=> address \in Blocks(L, size)
  BY <1>4, <1>5, <1>6
<1> QED
  BY <1>7 DEF L, size, address, new

\* Every placement is the one its reference definition gives (vm_area_map.c:
\* 32-164): search_up the lowest free block at or above the address,
\* search_down the highest at or below it, insert_fixed the block asked for
\* exactly when it is free, for every list of areas the map can hold and every
\* call that meets CallersAssumption, which syscall.c:97 does not enforce.
THEOREM PlacementsAreRight == AreaMapSpec => []PlacementsCorrect
<1>1. AreaIInv => PlacementsCorrect
  BY SearchUpIsFirstFit, SearchDownIsLastFit, InsertFixedIsExact DEF PlacementsCorrect
<1> QED
  BY <1>1, AreaInitIInv, AreaStepIInv, PTL DEF AreaMapSpec

=============================================================================
