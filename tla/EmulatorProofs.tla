--------------------------- MODULE EmulatorProofs ---------------------------
(***************************************************************************)
(* Proofs about the emulator, for every number of threads, vector lanes,   *)
(* trap levels and ways, every program of the form ProgramsAssumption      *)
(* states, and whatever the devices and the debugger do.                   *)
(***************************************************************************)
EXTENDS Emulator, QueueTheorems

Causes == {"tlb_miss", "page_fault", "supervisor_access", "not_executable", "illegal_store",
           "syscall", "interrupt"}
Buffers == {"i", "d"}
Named == {"user", "kernel", "data", "stack"}

Slots == [cause : Causes, buffer : Buffers \cup {"none"}, pc : Nat, subcycle : Nat, ie : BOOLEAN,
          mmu : BOOLEAN, sup : BOOLEAN, address : Named \cup {"none"}, scratch : Nat]

ThreadStates ==
    [pc : Nat, subcycle : Nat, ie : BOOLEAN, mmu : BOOLEAN, sup : BOOLEAN, mask : SUBSET Interrupts,
     latched : SUBSET Interrupts, sync : BOOLEAN, reg : Nat, saved : Seq(Slots),
     next : Nat \X Nat, depth : Nat]

\* The four kinds of places a thread, or a state that a trap has saved, can be
\* at: the start, the program, the trap handler, the handler of misses.
Starts(x) == x.pc \in 1 .. 3 /\ ~x.ie /\ ~x.mmu /\ x.sup /\ x.subcycle = 0
InProgram(x) == x.pc \in UserCode(session) /\ x.ie /\ x.mmu /\ ~x.sup
InHandler(x) ==
    x.pc \in TRAP_HANDLER .. TRAP_HANDLER + 4 /\ ~x.ie /\ x.mmu /\ x.sup /\ x.subcycle = 0
InMissHandler(x) ==
    x.pc \in TLB_MISS_HANDLER .. TLB_MISS_HANDLER + 2 /\ ~x.ie /\ ~x.mmu /\ x.sup /\ x.subcycle = 0

\* Between the instruction that saves a register and the one that restores it
\* the value is in the scratchpad.
Scratched == TRAP_HANDLER + 1 .. TRAP_HANDLER + 3 \cup {TLB_MISS_HANDLER + 1}
Value(pc, reg, scratch) == IF pc \in Scratched THEN scratch ELSE reg

\* The program's register, wherever it is.
ProgramReg(s) ==
    CASE s.depth = 0 -> s.reg
      [] s.depth = 1 -> Value(s.pc, s.reg, s.saved[1].scratch)
      [] OTHER -> Value(s.saved[1].pc, Value(s.pc, s.reg, s.saved[1].scratch), s.saved[2].scratch)

\* What the handler of misses finds.
Missed(x) == x.buffer \in Buffers /\ x.address \in Named

\* A trap comes from the program; while it is handled only a miss can come, and
\* none comes after that.
Levelled(s) ==
    \/ /\ s.depth = 0 /\ Len(s.saved) = 0 /\ (Starts(s) \/ InProgram(s))
       /\ s.next = <<s.pc, s.subcycle>>
    \/ /\ s.depth = 1 /\ Len(s.saved) = 1 /\ InHandler(s) /\ InProgram(s.saved[1])
       /\ s.next = <<s.saved[1].pc, s.saved[1].subcycle>>
    \/ /\ s.depth = 1 /\ Len(s.saved) = 1 /\ InMissHandler(s) /\ InProgram(s.saved[1]) /\ Missed(s.saved[1])
       /\ s.next = <<s.saved[1].pc, s.saved[1].subcycle>>
    \/ /\ s.depth = 2 /\ Len(s.saved) = 2
       /\ InMissHandler(s) /\ InHandler(s.saved[1]) /\ Missed(s.saved[1]) /\ InProgram(s.saved[2])
       /\ s.next = <<s.saved[2].pc, s.saved[2].subcycle>>

\* A thread that holds a reservation has the word it loaded, c.
Sound(s, c) == s \in ThreadStates /\ Levelled(s) /\ (s.sync => ProgramReg(s) = c)

\* Nothing is pending that the thread would take.
Served(s, lines) == ~(s.ie /\ get_pending_interrupts(s, lines) \cap s.mask # {})

Entries == [page : Pages \cup {"none"}, asid : {asid(t) : t \in Threads} \cup {0},
            flags : {PageFlags[p] : p \in Pages} \cup {{}}]

\* An entry has the flags of its page; two entries for one page are of two
\* address spaces, and the page is not global.
TlbOK ==
    /\ tlb \in [Buffers -> [0 .. TLB_WAYS - 1 -> Entries]]
    /\ next_way \in [Buffers -> 0 .. TLB_WAYS - 1]
    /\ \A b \in Buffers, w \in 0 .. TLB_WAYS - 1 :
          tlb[b][w].page \in Pages => tlb[b][w].flags = PageFlags[tlb[b][w].page]
    /\ \A b \in Buffers, v, w \in 0 .. TLB_WAYS - 1 :
          v # w /\ tlb[b][v].page = tlb[b][w].page /\ tlb[b][v].page \in Pages =>
              "global" \notin tlb[b][v].flags /\ tlb[b][v].asid # tlb[b][w].asid

ThreadsOK ==
    /\ thread \in [Threads -> ThreadStates]
    /\ \A t \in Threads : Sound(thread[t], counter) /\ Served(thread[t], levels)

EmulatorIInv ==
    /\ session \in Sessions
    /\ counter \in Nat /\ counter = stored
    /\ TlbOK
    /\ ThreadsOK

-----------------------------------------------------------------------------
\* A trap puts one state on top of those that are saved: nothing is pushed out.
LEMMA PushSaved ==
    ASSUME NEW saved \in Seq(Slots), Len(saved) <= 1, NEW x \in Slots
    PROVE  LET new == Levels(<< x >> \o saved)
           IN  /\ new \in Seq(Slots) /\ Len(new) = Len(saved) + 1
               /\ new[1] = x
               /\ Len(saved) = 1 => new[2] = saved[1]
<1> DEFINE all == << x >> \o saved
<1>1. Len(saved) \in Nat /\ << x >> \in Seq(Slots) /\ Len(<< x >>) = 1
  OBVIOUS
<1>2. all \in Seq(Slots) /\ Len(all) = Len(saved) + 1
  BY <1>1
<1>3. all[1] = x /\ (Len(saved) = 1 => all[2] = saved[1])
  BY <1>1
<1> HIDE DEF all
<1>4. Min({Len(all), TRAP_LEVELS}) = Len(all)
  <2>1. {Len(all), TRAP_LEVELS} \in SUBSET Nat /\ Len(all) <= TRAP_LEVELS
    BY <1>1, <1>2, EmulatorAssumption
  <2> QED
    BY <2>1, LeastElement
<1>5. SubSeq(all, 1, Len(all)) = all
  BY <1>2
<1> QED
  BY <1>2, <1>3, <1>4, <1>5 DEF Levels, all

LEMMA StateTypes ==
    ASSUME NEW s \in ThreadStates
    PROVE  /\ s.ie \in BOOLEAN /\ s.mmu \in BOOLEAN /\ s.sup \in BOOLEAN /\ s.sync \in BOOLEAN
           /\ s.pc \in Nat /\ s.subcycle \in Nat /\ s.reg \in Nat /\ s.depth \in Nat
           /\ s.saved \in Seq(Slots) /\ s.mask \subseteq Interrupts /\ s.latched \subseteq Interrupts
BY DEF ThreadStates

\* The state in which an instruction starts.
LEMMA Fetched ==
    ASSUME NEW o \in ThreadStates, NEW s, s = [o EXCEPT !.pc = @ + 1]
    PROVE  /\ s \in ThreadStates
           /\ s.pc = o.pc + 1 /\ s.subcycle = o.subcycle /\ s.reg = o.reg /\ s.saved = o.saved
           /\ s.next = o.next /\ s.depth = o.depth /\ s.mask = o.mask /\ s.latched = o.latched
           /\ s.ie = o.ie /\ s.mmu = o.mmu /\ s.sup = o.sup /\ s.sync = o.sync
<1> DEFINE pc == o.pc + 1
<1>1. pc \in Nat /\ s = [o EXCEPT !.pc = pc]
  BY DEF ThreadStates
<1> HIDE DEF pc
<1>2. s \in ThreadStates
  BY <1>1 DEF ThreadStates
<1> QED
  BY <1>1, <1>2 DEF ThreadStates, pc

\* A trap of the program.
LEMMA TrapFromProgram ==
    ASSUME NEW s \in ThreadStates, NEW c, NEW cause \in Causes,
           NEW address \in Named \cup {"none"}, NEW buffer \in Buffers \cup {"none"},
           s.depth = 0, Len(s.saved) = 0, s.ie, s.mmu, ~s.sup,
           SavedPc(s, cause) \in UserCode(session), s.next = <<SavedPc(s, cause), s.subcycle>>,
           s.sync => s.reg = c,
           cause = "tlb_miss" => buffer \in Buffers /\ address \in Named
    PROVE  Sound(raise_trap(s, cause, address, buffer), c) /\ ~raise_trap(s, cause, address, buffer).ie
<1> DEFINE x == [cause |-> cause, buffer |-> buffer, pc |-> SavedPc(s, cause),
                 subcycle |-> s.subcycle, ie |-> s.ie, mmu |-> s.mmu, sup |-> s.sup,
                 address |-> address, scratch |-> 0]
           new == Levels(<< x >> \o s.saved)
           r == raise_trap(s, cause, address, buffer)
<1>0. {TRAP_HANDLER, TLB_MISS_HANDLER} \subseteq Nat /\ TRAP_HANDLER + 4 < TLB_MISS_HANDLER
  BY ProgramsAssumption
<1>1. SavedPc(s, cause) \in Nat
  BY <1>0 DEF UserCode
<1>2. x \in Slots
  BY <1>1 DEF Slots, ThreadStates
<1>3. new \in Seq(Slots) /\ Len(new) = 1 /\ new[1] = x
  <2>1. s.saved \in Seq(Slots) /\ Len(s.saved) <= 1
    BY DEF ThreadStates
  <2> HIDE DEF x
  <2> QED
    BY <1>2, <2>1, PushSaved
<1>4. InProgram(x) /\ (cause = "tlb_miss" => Missed(x))
  BY DEF InProgram, Missed
<1>5. /\ r \in ThreadStates
      /\ r.saved = new /\ ~r.ie
      /\ (cause = "tlb_miss" => ~r.mmu) /\ (cause # "tlb_miss" => r.mmu)
      /\ r.pc = (IF cause = "tlb_miss" THEN TLB_MISS_HANDLER ELSE TRAP_HANDLER)
      /\ r.subcycle = 0 /\ r.sup /\ r.depth = 1 /\ r.sync = s.sync /\ r.next = s.next /\ r.reg = s.reg
  <2> DEFINE m == s.mmu /\ cause # "tlb_miss"
             to == IF cause = "tlb_miss" THEN TLB_MISS_HANDLER ELSE TRAP_HANDLER
             d == s.depth + 1
  <2> HIDE DEF x, new
  <2>1. r = [s EXCEPT !.saved = new, !.ie = FALSE, !.mmu = m, !.pc = to,
                      !.subcycle = 0, !.sup = TRUE, !.depth = d]
    BY DEF raise_trap, new, x
  <2>2. m \in BOOLEAN /\ to \in Nat /\ d \in Nat /\ d = 1
    BY <1>0
  <2> HIDE DEF r, m, to, d
  <2>3. /\ r \in ThreadStates
        /\ ~r.ie /\ r.mmu = m /\ r.sup
        /\ r.saved = new /\ r.pc = to /\ r.subcycle = 0 /\ r.depth = d
        /\ r.sync = s.sync /\ r.next = s.next /\ r.reg = s.reg
    <3>1. r \in ThreadStates
      BY <1>3, <2>1, <2>2 DEF ThreadStates
    <3>2. ~r.ie /\ r.mmu = m /\ r.sup
      BY <1>3, <2>1, <2>2 DEF ThreadStates
    <3> QED
      BY <1>3, <2>1, <2>2, <3>1, <3>2 DEF ThreadStates
  <2> QED
    BY <2>2, <2>3 DEF m, to
<1> HIDE DEF r, new, x
<1>6. x.pc = SavedPc(s, cause) /\ x.subcycle = s.subcycle
  BY DEF x
<1>7. Levelled(r)
  <2>1. CASE cause = "tlb_miss"
    <3>1. InMissHandler(r)
      BY <1>0, <1>5, <2>1 DEF InMissHandler
    <3> QED
      BY <1>3, <1>4, <1>5, <1>6, <2>1, <3>1 DEF Levelled
  <2>2. CASE cause # "tlb_miss"
    <3>1. InHandler(r)
      BY <1>0, <1>5, <2>2 DEF InHandler
    <3> QED
      BY <1>3, <1>4, <1>5, <1>6, <2>2, <3>1 DEF Levelled
  <2> QED
    BY <2>1, <2>2
<1>8. ProgramReg(r) = s.reg
  <2>1. r.pc \notin Scratched
    BY <1>0, <1>5 DEF Scratched
  <2> QED
    BY <1>5, <2>1 DEF ProgramReg, Value
<1> QED
  BY <1>5, <1>7, <1>8 DEF Sound, r

\* A miss in the trap handler.
LEMMA TrapFromHandler ==
    ASSUME NEW s \in ThreadStates, NEW c, NEW address \in Named, NEW buffer \in Buffers,
           NEW o \in ThreadStates, s = [o EXCEPT !.pc = @ + 1], InHandler(o), Sound(o, c)
    PROVE  Sound(raise_trap(s, "tlb_miss", address, buffer), c) /\ ~raise_trap(s, "tlb_miss", address, buffer).ie
<1> DEFINE pc == o.pc
<1>10. /\ s.pc = o.pc + 1 /\ s.subcycle = o.subcycle /\ s.reg = o.reg /\ s.saved = o.saved
      /\ s.next = o.next /\ s.depth = o.depth
      /\ s.ie = o.ie /\ s.mmu = o.mmu /\ s.sup = o.sup /\ s.sync = o.sync
  BY Fetched
<1>11. /\ o.depth = 1 /\ Len(o.saved) = 1 /\ InProgram(o.saved[1])
      /\ o.next = <<o.saved[1].pc, o.saved[1].subcycle>>
  <2>1. ~InMissHandler(o) /\ ~InProgram(o) /\ ~Starts(o)
    BY DEF InHandler, InMissHandler, InProgram, Starts
  <2> QED
    BY <2>1 DEF Sound, Levelled
<1>12. /\ pc \in TRAP_HANDLER .. TRAP_HANDLER + 4
      /\ s.depth = 1 /\ Len(s.saved) = 1 /\ ~s.ie /\ s.mmu /\ s.sup /\ s.subcycle = 0
      /\ s.pc = pc + 1 /\ InProgram(s.saved[1])
      /\ s.next = <<s.saved[1].pc, s.saved[1].subcycle>>
  BY <1>10, <1>11 DEF InHandler
<1>13. s.sync => Value(pc, s.reg, s.saved[1].scratch) = c
  BY <1>10, <1>11 DEF Sound, ProgramReg
<1> HIDE DEF pc
<1> DEFINE x == [cause |-> "tlb_miss", buffer |-> buffer, pc |-> SavedPc(s, "tlb_miss"),
                 subcycle |-> s.subcycle, ie |-> s.ie, mmu |-> s.mmu, sup |-> s.sup,
                 address |-> address, scratch |-> 0]
           new == Levels(<< x >> \o s.saved)
           r == raise_trap(s, "tlb_miss", address, buffer)
<1>0. {TRAP_HANDLER, TLB_MISS_HANDLER} \subseteq Nat /\ TRAP_HANDLER + 4 < TLB_MISS_HANDLER
  BY ProgramsAssumption
<1>1. SavedPc(s, "tlb_miss") = pc /\ pc \in Nat
  BY <1>0, <1>12 DEF SavedPc
<1>2. x \in Slots /\ x.pc = pc
  <2>1. s.ie \in BOOLEAN /\ s.mmu \in BOOLEAN /\ s.sup \in BOOLEAN /\ s.subcycle \in Nat
    BY StateTypes
  <2>2. address \in Named \cup {"none"} /\ buffer \in Buffers \cup {"none"} /\ "tlb_miss" \in Causes
    BY DEF Causes
  <2> QED
    BY <1>1, <2>1, <2>2 DEF Slots
<1>3. new \in Seq(Slots) /\ Len(new) = 2 /\ new[1] = x /\ new[2] = s.saved[1]
  <2>1. s.saved \in Seq(Slots) /\ Len(s.saved) <= 1
    <3>1. s.saved \in Seq(Slots)
      BY StateTypes, Zenon
    <3>2. 1 <= 1
      OBVIOUS
    <3> QED
      BY <1>12, <3>1, <3>2, Zenon
  <2> HIDE DEF x
  <2>2. /\ new \in Seq(Slots) /\ Len(new) = Len(s.saved) + 1
        /\ new[1] = x /\ (Len(s.saved) = 1 => new[2] = s.saved[1])
    BY <1>2, <2>1, PushSaved, Zenon
  <2> HIDE DEF new
  <2> QED
    BY <1>12, <2>2
<1>4. InHandler(x) /\ Missed(x)
  BY <1>1, <1>12 DEF InHandler, Missed
<1>5. /\ r \in ThreadStates
      /\ r.saved = new /\ ~r.ie /\ ~r.mmu /\ r.pc = TLB_MISS_HANDLER
      /\ r.subcycle = 0 /\ r.sup /\ r.depth = 2 /\ r.sync = s.sync /\ r.next = s.next /\ r.reg = s.reg
  <2> DEFINE m == s.mmu /\ "tlb_miss" # "tlb_miss"
             d == s.depth + 1
  <2> HIDE DEF x, new
  <2>1. r = [s EXCEPT !.saved = new, !.ie = FALSE, !.mmu = m, !.pc = TLB_MISS_HANDLER,
                      !.subcycle = 0, !.sup = TRUE, !.depth = d]
    BY DEF raise_trap, new, x
  <2>2. m = FALSE /\ m \in BOOLEAN /\ TLB_MISS_HANDLER \in Nat /\ d \in Nat /\ d = 2
    BY <1>0, <1>12
  <2> HIDE DEF r, m, d
  <2>3. /\ r \in ThreadStates
        /\ ~r.ie /\ r.mmu = m /\ r.sup
        /\ r.saved = new /\ r.pc = TLB_MISS_HANDLER /\ r.subcycle = 0 /\ r.depth = d
        /\ r.sync = s.sync /\ r.next = s.next /\ r.reg = s.reg
    <3>1. r \in ThreadStates
      BY <1>3, <2>1, <2>2 DEF ThreadStates
    <3>2. ~r.ie /\ r.mmu = m /\ r.sup
      BY <1>3, <2>1, <2>2 DEF ThreadStates
    <3> QED
      BY <1>3, <2>1, <2>2, <3>1, <3>2 DEF ThreadStates
  <2> QED
    BY <2>2, <2>3
<1> HIDE DEF r, new, x
<1>6. InMissHandler(r)
  BY <1>0, <1>5 DEF InMissHandler
<1>7. Levelled(r)
  BY <1>3, <1>4, <1>5, <1>6, <1>12 DEF Levelled
<1>8. ProgramReg(r) = Value(pc, s.reg, s.saved[1].scratch)
  <2>1. r.pc \notin Scratched
    BY <1>0, <1>5 DEF Scratched
  <2> QED
    BY <1>2, <1>3, <1>5, <2>1 DEF ProgramReg, Value
<1> QED
  BY <1>5, <1>7, <1>8, <1>13 DEF Sound, r

-----------------------------------------------------------------------------
\* A thread that has interrupts enabled is in the program.
LEMMA EnabledInProgram ==
    ASSUME NEW s \in ThreadStates, Levelled(s), s.ie
    PROVE  s.depth = 0 /\ Len(s.saved) = 0 /\ InProgram(s) /\ s.next = <<s.pc, s.subcycle>>
BY DEF Levelled, Starts, InHandler, InMissHandler

\* try_to_dispatch_interrupt takes what is pending, if it can be taken.
LEMMA Dispatches ==
    ASSUME NEW s, NEW c, NEW lines, Sound(s, c)
    PROVE  LET r == try_to_dispatch_interrupt(s, lines) IN Sound(r, c) /\ Served(r, lines)
<1> DEFINE r == try_to_dispatch_interrupt(s, lines)
           takes == s.ie /\ get_pending_interrupts(s, lines) \cap s.mask # {}
           u == [s EXCEPT !.pc = IF s.subcycle = 0 THEN @ + 1 ELSE @]
<1>1. CASE ~takes
  BY <1>1 DEF try_to_dispatch_interrupt, Served
<1>2. CASE takes
  <2> DEFINE pc == IF s.subcycle = 0 THEN s.pc + 1 ELSE s.pc
  <2>1. s \in ThreadStates /\ Levelled(s) /\ s.ie /\ s.pc \in Nat /\ s.subcycle \in Nat
    BY <1>2 DEF Sound, ThreadStates
  <2>2. s.depth = 0 /\ Len(s.saved) = 0 /\ InProgram(s) /\ s.next = <<s.pc, s.subcycle>>
    BY <2>1, EnabledInProgram
  <2>3. s.sync => s.reg = c
    BY <2>2 DEF Sound, ProgramReg
  <2>4. u = [s EXCEPT !.pc = pc] /\ pc \in Nat
    BY <2>1
  <2>5. SavedPc(u, "interrupt") = s.pc
    <3>1. u.pc = pc /\ u.subcycle = s.subcycle
      BY <2>1, <2>4 DEF ThreadStates
    <3> QED
      BY <2>1, <3>1 DEF SavedPc
  <2> HIDE DEF u, pc
  <2>6. u \in ThreadStates
    BY <2>1, <2>4 DEF ThreadStates
  <2>7. /\ u.depth = s.depth /\ u.saved = s.saved /\ u.subcycle = s.subcycle
        /\ u.next = s.next /\ u.reg = s.reg
    BY <2>1, <2>4 DEF ThreadStates
  <2>8. u.ie = s.ie /\ u.mmu = s.mmu /\ u.sup = s.sup /\ u.sync = s.sync
    BY <2>1, <2>4 DEF ThreadStates
  <2>9. s.pc \in UserCode(session) /\ s.ie /\ s.mmu /\ ~s.sup
    BY <2>2 DEF InProgram
  <2>10. r = raise_trap(u, "interrupt", "none", "none")
    BY <1>2 DEF try_to_dispatch_interrupt, u
  <2>11. "interrupt" \in Causes
    BY DEF Causes
  <2>12. Sound(r, c) /\ ~r.ie
    <3>1. u.depth = 0 /\ Len(u.saved) = 0 /\ u.ie /\ u.mmu /\ ~u.sup /\ (u.sync => u.reg = c)
      BY <2>2, <2>3, <2>7, <2>8, <2>9
    <3>2. SavedPc(u, "interrupt") \in UserCode(session) /\ u.next = <<SavedPc(u, "interrupt"), u.subcycle>>
      BY <2>2, <2>5, <2>7, <2>9
    <3> HIDE DEF r
    <3> QED
      BY <2>6, <2>10, <2>11, <3>1, <3>2, TrapFromProgram
  <2> QED
    BY <2>12 DEF Served
<1> QED
  BY <1>1, <1>2

\* An interrupt that comes is latched.
LEMMA Latches ==
    ASSUME NEW s, NEW c, NEW i \in Interrupts, Sound(s, c)
    PROVE  Sound([s EXCEPT !.latched = @ \cup {i}], c)
<1> DEFINE l == s.latched \cup {i}
           r == [s EXCEPT !.latched = l]
<1>1. s \in ThreadStates /\ l \in SUBSET Interrupts
  BY DEF Sound, ThreadStates
<1> HIDE DEF l
<1>2. r \in ThreadStates
  BY <1>1 DEF ThreadStates
<1>3. /\ r.depth = s.depth /\ r.saved = s.saved /\ r.subcycle = s.subcycle /\ r.pc = s.pc
      /\ r.next = s.next /\ r.reg = s.reg
      /\ r.ie = s.ie /\ r.mmu = s.mmu /\ r.sup = s.sup /\ r.sync = s.sync
  BY <1>1 DEF ThreadStates
<1> HIDE DEF r
<1>4. Levelled(r) <=> Levelled(s)
  BY <1>3 DEF Levelled, Starts, InProgram, InHandler, InMissHandler
<1>5. ProgramReg(r) = ProgramReg(s)
  BY <1>3 DEF ProgramReg
<1> QED
  BY <1>2, <1>3, <1>4, <1>5 DEF Sound, r, l

\* What the other threads see of an instruction is the tick at its end.
LEMMA TicksSound ==
    ASSUME NEW threads \in [Threads -> ThreadStates], NEW lines, NEW ticks, NEW c,
           \A u \in Threads : Sound(threads[u], c) /\ Served(threads[u], lines),
           Ticks(threads, lines, ticks)
    PROVE  /\ thread' \in [Threads -> ThreadStates]
           /\ \A u \in Threads : Sound(thread'[u], c) /\ Served(thread'[u], levels')
<1>1. CASE ticks # 1
  BY <1>1 DEF Ticks
<1>2. CASE ticks = 1
  <2>1. thread' = Latched(threads, lines, "timer") /\ levels' = lines \cup {"timer"}
    BY <1>2 DEF Ticks
  <2>2. ASSUME NEW u \in Threads
        PROVE  Sound(thread'[u], c) /\ Served(thread'[u], levels')
    <3> DEFINE s == [threads[u] EXCEPT !.latched = @ \cup {"timer"}]
    <3>1. Sound(s, c)
      BY Latches DEF Interrupts
    <3>2. thread'[u] = try_to_dispatch_interrupt(s, lines \cup {"timer"})
      BY <2>1 DEF Latched
    <3> HIDE DEF s
    <3> QED
      BY <2>1, <3>1, <3>2, Dispatches
  <2>3. thread' \in [Threads -> ThreadStates]
    <3>1. \A u \in Threads : thread'[u] \in ThreadStates
      BY <2>2 DEF Sound
    <3> QED
      BY <2>1, <3>1 DEF Latched
  <2> QED
    BY <2>2, <2>3
<1> QED
  BY <1>1, <1>2

\* An instruction that changes its own thread only.
LEMMA BecomesSound ==
    ASSUME ThreadsOK, NEW t \in Threads, NEW r, Sound(r, counter), Served(r, levels), Becomes(t, r)
    PROVE  /\ thread' \in [Threads -> ThreadStates]
           /\ \A u \in Threads : Sound(thread'[u], counter) /\ Served(thread'[u], levels')
<1> DEFINE threads == [thread EXCEPT ![t] = r]
<1>1. r \in ThreadStates /\ thread \in [Threads -> ThreadStates]
  BY DEF Sound, ThreadsOK
<1>2. threads \in [Threads -> ThreadStates]
  BY <1>1
<1>3. \A u \in Threads : Sound(threads[u], counter) /\ Served(threads[u], levels)
  BY <1>1 DEF ThreadsOK
<1>4. Ticks(threads, levels, timer)
  BY DEF Becomes
<1> HIDE DEF threads
<1> QED
  BY <1>2, <1>3, <1>4, TicksSound

-----------------------------------------------------------------------------
\* An instruction of the start or of the program has been done.
LEMMA SteppedSound ==
    ASSUME NEW x \in ThreadStates, NEW c, x.depth = 0, Len(x.saved) = 0, Starts(x) \/ InProgram(x),
           x.sync => x.reg = c
    PROVE  LET r == Stepped(x)
           IN  /\ Sound(r, c)
               /\ \A lines : Served(x, lines) => Served(r, lines)
<1> DEFINE n == <<x.pc, x.subcycle>>
           r == Stepped(x)
<1>1. n \in Nat \X Nat /\ r = [x EXCEPT !.next = n]
  BY DEF ThreadStates, Stepped
<1> HIDE DEF n, r
<1>2. r \in ThreadStates
  BY <1>1 DEF ThreadStates
<1>3. /\ r.depth = x.depth /\ r.saved = x.saved /\ r.subcycle = x.subcycle /\ r.pc = x.pc
      /\ r.next = n /\ r.reg = x.reg /\ r.mask = x.mask /\ r.latched = x.latched
      /\ r.ie = x.ie /\ r.mmu = x.mmu /\ r.sup = x.sup /\ r.sync = x.sync
  BY <1>1 DEF ThreadStates
<1>4. Starts(r) \/ InProgram(r)
  BY <1>3 DEF Starts, InProgram
<1>5. Levelled(r) /\ ProgramReg(r) = x.reg
  BY <1>3, <1>4 DEF Levelled, ProgramReg, n
<1>6. ASSUME NEW lines, Served(x, lines) PROVE Served(r, lines)
  BY <1>3, <1>6 DEF Served, get_pending_interrupts
<1> QED
  BY <1>2, <1>3, <1>5, <1>6 DEF Sound, r

\* What an instruction of a handler leaves: the level, and the place that the
\* program resumes at.
Stays(o, r) ==
    /\ r \in ThreadStates
    /\ r.depth = o.depth /\ r.next = o.next /\ r.subcycle = o.subcycle
    /\ r.ie = o.ie /\ r.mmu = o.mmu /\ r.sup = o.sup /\ r.sync = o.sync
    /\ Len(r.saved) = Len(o.saved)
    /\ \A k \in 1 .. Len(o.saved) :
          /\ r.saved[k].pc = o.saved[k].pc /\ r.saved[k].subcycle = o.saved[k].subcycle
          /\ r.saved[k].ie = o.saved[k].ie /\ r.saved[k].mmu = o.saved[k].mmu /\ r.saved[k].sup = o.saved[k].sup
          /\ r.saved[k].buffer = o.saved[k].buffer /\ r.saved[k].address = o.saved[k].address
    /\ \A k \in 2 .. Len(o.saved) : r.saved[k].scratch = o.saved[k].scratch

LEMMA HandlerStep ==
    ASSUME NEW o, NEW c, Sound(o, c), o.depth # 0, NEW r, Stays(o, r),
           InHandler(o) => InHandler(r), InMissHandler(o) => InMissHandler(r),
           Value(r.pc, r.reg, r.saved[1].scratch) = Value(o.pc, o.reg, o.saved[1].scratch)
    PROVE  Sound(r, c) /\ \A lines : Served(r, lines)
<1>1. o \in ThreadStates /\ Levelled(o) /\ r \in ThreadStates /\ Len(o.saved) \in Nat
  BY DEF Sound, Stays, ThreadStates
<1>2. o.depth \in {1, 2} /\ Len(o.saved) = o.depth /\ ~o.ie
  BY <1>1 DEF Levelled, InHandler, InMissHandler
<1>3. CASE o.depth = 1
  <2>1. r.saved[1].pc = o.saved[1].pc /\ r.saved[1].subcycle = o.saved[1].subcycle
        /\ (InProgram(r.saved[1]) <=> InProgram(o.saved[1]))
        /\ (Missed(r.saved[1]) <=> Missed(o.saved[1]))
    BY <1>2, <1>3 DEF Stays, InProgram, Missed
  <2>2. Levelled(r)
    BY <1>1, <1>3, <2>1 DEF Levelled, Stays
  <2>3. ProgramReg(r) = ProgramReg(o)
    BY <1>3 DEF ProgramReg, Stays
  <2> QED
    BY <1>1, <1>2, <2>2, <2>3 DEF Sound, Stays, Served
<1>4. CASE o.depth = 2
  <2>1. 1 \in 1 .. Len(o.saved) /\ 2 \in 1 .. Len(o.saved) /\ 2 \in 2 .. Len(o.saved)
    BY <1>2, <1>4
  <2>2. r.saved[2].pc = o.saved[2].pc /\ r.saved[2].subcycle = o.saved[2].subcycle
        /\ (InProgram(r.saved[2]) <=> InProgram(o.saved[2]))
    BY <2>1 DEF Stays, InProgram
  <2>3. r.saved[1].pc = o.saved[1].pc
        /\ (InHandler(r.saved[1]) <=> InHandler(o.saved[1]))
        /\ (Missed(r.saved[1]) <=> Missed(o.saved[1]))
    BY <2>1 DEF Stays, InHandler, Missed
  <2>4. Levelled(r)
    BY <1>1, <1>4, <2>2, <2>3 DEF Levelled, Stays
  <2>5. r.saved[2].scratch = o.saved[2].scratch
    BY <2>1 DEF Stays
  <2>6. ProgramReg(r) = ProgramReg(o)
    BY <1>4, <2>3, <2>5 DEF ProgramReg, Stays
  <2> QED
    BY <1>1, <1>2, <2>4, <2>6 DEF Sound, Stays, Served
<1> QED
  BY <1>2, <1>3, <1>4

-----------------------------------------------------------------------------
\* An entry that matches has the flags of the page.
LEMMA WayFlags ==
    ASSUME TlbOK, NEW b \in Buffers, NEW page \in Pages, NEW id, Ways(b, page, id) # {}
    PROVE  LET w == Min(Ways(b, page, id))
           IN  /\ w \in 0 .. TLB_WAYS - 1 /\ w \in Ways(b, page, id)
               /\ tlb[b][w].page = page /\ tlb[b][w].flags = PageFlags[page]
<1> DEFINE ways == Ways(b, page, id)
<1>1. DOMAIN tlb[b] = 0 .. TLB_WAYS - 1
  BY DEF TlbOK
<1>2. ways \in SUBSET (0 .. TLB_WAYS - 1) /\ ways \in SUBSET Nat
  BY <1>1, EmulatorAssumption DEF Ways
<1>3. Min(ways) \in ways
  BY <1>2, LeastElement
<1>4. tlb[b][Min(ways)].page = page
  BY <1>3 DEF Ways, Matches
<1> HIDE DEF ways
<1>5. tlb[b][Min(ways)].flags = PageFlags[page]
  BY <1>2, <1>3, <1>4 DEF TlbOK
<1> QED
  BY <1>2, <1>3, <1>4, <1>5 DEF ways

\* The page table decides what translate_address says when the page is in the
\* buffer, and the handlers do not fault.
LEMMA Translates ==
    ASSUME TlbOK, NEW t \in Threads, NEW b \in Buffers, NEW page \in Named, NEW store \in BOOLEAN
    PROVE  LET cause == translate_address(t, b, page, store)
               s == thread[t]
               flags == PageFlags[page]
           IN  /\ cause # "ok" => cause \in Causes \ {"interrupt", "syscall"}
               /\ ~s.mmu => cause = "ok"
               /\ /\ s.mmu /\ s.sup /\ "present" \in flags
                  /\ b = "i" => "executable" \in flags
                  /\ store => "write_enable" \in flags
                  => cause \in {"ok", "tlb_miss"}
               /\ s.mmu /\ ~s.sup /\ "supervisor" \in flags => cause # "ok"
<1> DEFINE cause == translate_address(t, b, page, store)
           s == thread[t]
           ways == Ways(b, page, asid(t))
<1>1. page \in Pages
  BY EmulatorAssumption DEF Named
<1>2. CASE ~s.mmu
  BY <1>2 DEF translate_address
<1>3. CASE s.mmu /\ ways = {}
  BY <1>3 DEF translate_address, Causes
<1>4. CASE s.mmu /\ ways # {}
  <2>1. tlb[b][Min(ways)].flags = PageFlags[page]
    BY <1>1, <1>4, WayFlags
  <2>2. cause = IF "present" \notin PageFlags[page] THEN "page_fault"
                ELSE IF "supervisor" \in PageFlags[page] /\ ~s.sup THEN "supervisor_access"
                ELSE IF "executable" \notin PageFlags[page] /\ b = "i" THEN "not_executable"
                ELSE IF store /\ "write_enable" \notin PageFlags[page] THEN "illegal_store"
                ELSE "ok"
    BY <1>4, <2>1 DEF translate_address
  <2> HIDE DEF cause, ways
  <2>3. cause \in {"page_fault", "supervisor_access", "not_executable", "illegal_store", "ok"}
    BY <2>2
  <2>4. cause # "ok" => cause \in Causes \ {"interrupt", "syscall"}
    BY <2>3 DEF Causes
  <2>5. /\ s.sup /\ "present" \in PageFlags[page]
        /\ b = "i" => "executable" \in PageFlags[page]
        /\ store => "write_enable" \in PageFlags[page]
        => cause = "ok"
    BY <2>2
  <2>6. ~s.sup /\ "supervisor" \in PageFlags[page] => cause # "ok"
    BY <2>2
  <2> QED
    BY <1>4, <2>4, <2>5, <2>6 DEF cause
<1> QED
  BY <1>2, <1>3, <1>4

\* A trap of an instruction at o.pc, from the program or, a miss, from the
\* trap handler.
LEMMA TrapsSound ==
    ASSUME ThreadsOK, NEW t \in Threads, NEW s, s = [thread[t] EXCEPT !.pc = @ + 1],
           NEW cause \in Causes \ {"interrupt"},
           NEW page \in Named \cup {"none"}, NEW b \in Buffers \cup {"none"},
           cause = "tlb_miss" => page \in Named /\ b \in Buffers,
           InProgram(thread[t]) \/ (InHandler(thread[t]) /\ cause = "tlb_miss"),
           thread[t].depth = 0 => InProgram(thread[t]),
           Traps(t, s, cause, page, b)
    PROVE  /\ thread' \in [Threads -> ThreadStates]
           /\ \A u \in Threads : Sound(thread'[u], counter) /\ Served(thread'[u], levels')
<1> DEFINE o == thread[t]
<1>0. Sound(o, counter) /\ o \in ThreadStates /\ Levelled(o) /\ Served(o, levels)
  BY DEF ThreadsOK, Sound
<1>1. /\ s \in ThreadStates
      /\ s.pc = o.pc + 1 /\ s.subcycle = o.subcycle /\ s.reg = o.reg /\ s.saved = o.saved
      /\ s.next = o.next /\ s.depth = o.depth /\ s.mask = o.mask /\ s.latched = o.latched
      /\ s.ie = o.ie /\ s.mmu = o.mmu /\ s.sup = o.sup /\ s.sync = o.sync
  BY <1>0, Fetched
<1>2. o.pc \in Nat
  BY <1>0 DEF ThreadStates
<1>3. CASE Fatal(cause)
  <2>1. [s EXCEPT !.pc = @ - 1] = o
    <3>1. [s EXCEPT !.pc = @ - 1] = [o EXCEPT !.pc = o.pc]
      <4>1. s.pc - 1 = o.pc
        BY <1>1, <1>2
      <4> QED
        BY <1>0, <4>1 DEF ThreadStates
    <3> QED
      BY <1>0, <3>1 DEF ThreadStates
  <2>2. Becomes(t, o)
    BY <1>3, <2>1 DEF Traps
  <2> QED
    BY <1>0, <2>2, BecomesSound
<1>4. CASE ~Fatal(cause)
  <2> DEFINE r == raise_trap(s, cause, page, b)
  <2>1. Becomes(t, r)
    BY <1>4 DEF Traps
  <2>2. SavedPc(s, cause) = o.pc
    BY <1>1, <1>2 DEF SavedPc
  <2>3. Sound(r, counter) /\ ~r.ie
    <3>1. CASE InProgram(o)
      <4>1. o.depth = 0 /\ Len(o.saved) = 0 /\ o.next = <<o.pc, o.subcycle>>
        BY <1>0, <3>1, EnabledInProgram DEF InProgram
      <4>2. o.sync => o.reg = counter
        BY <1>0, <4>1 DEF Sound, ProgramReg
      <4>3. o.pc \in UserCode(session) /\ o.ie /\ o.mmu /\ ~o.sup
        BY <3>1 DEF InProgram
      <4>4. s.depth = 0 /\ Len(s.saved) = 0 /\ s.ie /\ s.mmu /\ ~s.sup /\ (s.sync => s.reg = counter)
        BY <1>1, <4>1, <4>2, <4>3
      <4>5. SavedPc(s, cause) \in UserCode(session) /\ s.next = <<SavedPc(s, cause), s.subcycle>>
        BY <1>1, <2>2, <4>1, <4>3
      <4> HIDE DEF r, o
      <4> QED
        BY <1>1, <4>4, <4>5, TrapFromProgram DEF r
    <3>2. CASE InHandler(o) /\ cause = "tlb_miss"
      <4>1. r = raise_trap(s, "tlb_miss", page, b) /\ page \in Named /\ b \in Buffers
        BY <3>2
      <4>2. s = [o EXCEPT !.pc = @ + 1]
        OBVIOUS
      <4> HIDE DEF r, o
      <4> QED
        BY <1>0, <1>1, <3>2, <4>1, <4>2, TrapFromHandler
    <3> QED
      BY <3>1, <3>2
  <2>4. Served(r, levels)
    BY <2>3 DEF Served
  <2> HIDE DEF r
  <2> QED
    BY <2>1, <2>3, <2>4, BecomesSound
<1> QED
  BY <1>3, <1>4

-----------------------------------------------------------------------------
\* What an instruction must keep of the threads.
ThreadsKept ==
    /\ thread' \in [Threads -> ThreadStates]
    /\ \A u \in Threads : Sound(thread'[u], counter') /\ Served(thread'[u], levels')

\* The instructions of the start.
LEMMA StartSteps ==
    ASSUME EmulatorIInv, NEW t \in Threads, Starts(thread[t]), NEW s, s = [thread[t] EXCEPT !.pc = @ + 1],
           Instruction(t, s, session.program[thread[t].pc])
    PROVE  /\ ThreadsKept
           /\ UNCHANGED <<tlb, next_way, counter, stored>>
<1> DEFINE o == thread[t]
<1>0. Sound(o, counter) /\ o \in ThreadStates /\ Levelled(o) /\ Served(o, levels)
  BY DEF EmulatorIInv, ThreadsOK, Sound
<1>1. /\ s \in ThreadStates
      /\ s.pc = o.pc + 1 /\ s.subcycle = o.subcycle /\ s.reg = o.reg /\ s.saved = o.saved
      /\ s.next = o.next /\ s.depth = o.depth /\ s.mask = o.mask /\ s.latched = o.latched
      /\ s.ie = o.ie /\ s.mmu = o.mmu /\ s.sup = o.sup /\ s.sync = o.sync
  BY <1>0, Fetched
<1>2. o.pc \in 1 .. 3 /\ ~o.ie /\ ~o.mmu /\ o.sup /\ o.subcycle = 0
  BY DEF Starts
<1>3. o.depth = 0 /\ Len(o.saved) = 0
  <2>1. ~InHandler(o) /\ ~InMissHandler(o)
    BY <1>2, ProgramsAssumption DEF InHandler, InMissHandler
  <2> QED
    BY <1>0, <2>1 DEF Levelled
<1>4. o.sync => o.reg = counter
  BY <1>0, <1>3 DEF Sound, ProgramReg
<1>5. /\ session \in Sessions
      /\ session.program[1] = "mask" /\ session.program[2] = "resume" /\ session.program[3] = "flags"
      /\ session.masks[t] \subseteq Interrupts /\ 4 \in UserCode(session)
  BY ProgramsAssumption DEF EmulatorIInv
<1> HIDE DEF o
<1>6. CASE o.pc = 1
  <2> DEFINE mask == session.masks[t]
             x == [s EXCEPT !.mask = mask]
             r == Stepped(x)
  <2>1. Set(t, x) /\ Keeps
    BY <1>5, <1>6 DEF Instruction, o
  <2>2. mask \in SUBSET Interrupts
    BY <1>5
  <2> HIDE DEF mask
  <2>3. x \in ThreadStates
    BY <1>1, <2>2 DEF ThreadStates
  <2>4. /\ x.depth = 0 /\ Len(x.saved) = 0 /\ x.pc = 2 /\ ~x.ie /\ ~x.mmu /\ x.sup /\ x.subcycle = 0
        /\ (x.sync => x.reg = counter)
    <3>1. /\ x.depth = s.depth /\ x.saved = s.saved /\ x.pc = s.pc /\ x.subcycle = s.subcycle
          /\ x.reg = s.reg
          /\ x.ie = s.ie /\ x.mmu = s.mmu /\ x.sup = s.sup /\ x.sync = s.sync
      BY <1>1 DEF ThreadStates
    <3> HIDE DEF x
    <3> QED
      BY <1>1, <1>2, <1>3, <1>4, <1>6, <3>1
  <2> HIDE DEF x
  <2>5. Starts(x)
    BY <2>4 DEF Starts
  <2>6. Served(x, levels)
    BY <2>4 DEF Served
  <2>7. Sound(r, counter) /\ Served(r, levels)
    BY <2>3, <2>4, <2>5, <2>6, SteppedSound
  <2>8. Becomes(t, r) /\ UNCHANGED <<tlb, next_way, counter, stored>>
    BY <2>1 DEF Set, Keeps, cpuVars
  <2> HIDE DEF r
  <2> QED
    BY <2>7, <2>8, BecomesSound DEF ThreadsKept, EmulatorIInv
<1>7. CASE o.pc = 2
  <2> DEFINE r == Stepped(s)
  <2>1. Set(t, s) /\ UNCHANGED <<tlb, next_way, counter, stored>>
    BY <1>5, <1>7 DEF Instruction, Enables, o
  <2>2. Starts(s) /\ ~s.ie /\ s.depth = 0 /\ Len(s.saved) = 0 /\ (s.sync => s.reg = counter)
    BY <1>1, <1>2, <1>3, <1>4, <1>7 DEF Starts
  <2>3. Served(s, levels)
    BY <2>2 DEF Served
  <2>4. Sound(r, counter) /\ Served(r, levels)
    BY <1>1, <2>2, <2>3, SteppedSound
  <2>5. Becomes(t, r)
    BY <2>1 DEF Set
  <2> HIDE DEF r
  <2> QED
    BY <2>1, <2>4, <2>5, BecomesSound DEF ThreadsKept, EmulatorIInv
<1>8. CASE o.pc = 3
  <2> DEFINE x == [s EXCEPT !.ie = TRUE, !.mmu = TRUE, !.sup = FALSE]
             r == try_to_dispatch_interrupt(Stepped(x), levels)
  <2>1. WriteFlags(t, s)
    BY <1>5, <1>8 DEF Instruction, o
  <2>2. x \in ThreadStates
    BY <1>1 DEF ThreadStates
  <2>3. /\ x.depth = 0 /\ Len(x.saved) = 0 /\ x.pc = 4 /\ x.ie /\ x.mmu /\ ~x.sup
        /\ (x.sync => x.reg = counter)
    BY <1>1, <1>2, <1>3, <1>4, <1>8 DEF ThreadStates
  <2>4. Becomes(t, r) /\ UNCHANGED <<tlb, next_way, counter, stored>>
    BY <2>1 DEF WriteFlags, Keeps, cpuVars
  <2> HIDE DEF x
  <2>5. InProgram(x)
    BY <1>5, <2>3 DEF InProgram
  <2>6. Sound(Stepped(x), counter)
    BY <2>2, <2>3, <2>5, SteppedSound
  <2>7. Sound(r, counter) /\ Served(r, levels)
    BY <2>6, Dispatches
  <2> HIDE DEF r
  <2> QED
    BY <2>4, <2>7, BecomesSound DEF ThreadsKept, EmulatorIInv
<1> QED
  BY <1>2, <1>6, <1>7, <1>8

-----------------------------------------------------------------------------
\* An instruction of the program has been done, and the program goes on at x.
LEMMA ProgramGoesOn ==
    ASSUME ThreadsOK, NEW t \in Threads, InProgram(thread[t]), NEW x \in ThreadStates, NEW c,
           x.pc \in UserCode(session), x.depth = thread[t].depth, x.saved = thread[t].saved,
           x.ie = thread[t].ie, x.mmu = thread[t].mmu, x.sup = thread[t].sup,
           x.mask = thread[t].mask, x.latched = thread[t].latched,
           x.sync => x.reg = c
    PROVE  Sound(Stepped(x), c) /\ Served(Stepped(x), levels)
<1> DEFINE o == thread[t]
<1>1. o \in ThreadStates /\ Levelled(o) /\ Served(o, levels) /\ o.ie
  BY DEF ThreadsOK, Sound, InProgram
<1>2. o.depth = 0 /\ Len(o.saved) = 0
  BY <1>1, EnabledInProgram
<1>3. InProgram(x)
  BY DEF InProgram
<1>4. Served(x, levels)
  BY <1>1 DEF Served, get_pending_interrupts
<1>5. x.depth = 0 /\ Len(x.saved) = 0
  BY <1>2
<1> QED
  BY <1>3, <1>4, <1>5, SteppedSound

\* invalidate_sync_address
LEMMA Invalidates ==
    ASSUME NEW s, NEW c, NEW d, Sound(s, c)
    PROVE  LET r == [s EXCEPT !.sync = FALSE]
           IN  Sound(r, d) /\ \A lines : Served(s, lines) => Served(r, lines)
<1> DEFINE r == [s EXCEPT !.sync = FALSE]
<1>1. s \in ThreadStates
  BY DEF Sound
<1>2. r \in ThreadStates
  BY <1>1 DEF ThreadStates
<1>3. /\ r.depth = s.depth /\ r.saved = s.saved /\ r.subcycle = s.subcycle /\ r.pc = s.pc
      /\ r.next = s.next /\ r.reg = s.reg /\ r.mask = s.mask /\ r.latched = s.latched
      /\ r.ie = s.ie /\ r.mmu = s.mmu /\ r.sup = s.sup
  BY <1>1 DEF ThreadStates
<1>4. ~r.sync
  BY <1>1 DEF ThreadStates
<1> HIDE DEF r
<1>5. Levelled(r) <=> Levelled(s)
  BY <1>3 DEF Levelled, Starts, InProgram, InHandler, InMissHandler
<1>6. ASSUME NEW lines, Served(s, lines) PROVE Served(r, lines)
  BY <1>3, <1>6 DEF Served, get_pending_interrupts
<1> QED
  BY <1>2, <1>4, <1>5, <1>6 DEF Sound, r

\* What an instruction of the program leaves alone or keeps.
ProgramKeeps ==
    /\ ThreadsKept
    /\ UNCHANGED <<tlb, next_way>>
    /\ counter' \in Nat /\ counter' = stored'

\* An access of the program that is refused.
LEMMA ProgramRefused ==
    ASSUME EmulatorIInv, NEW t \in Threads, InProgram(thread[t]),
           NEW s, s = [thread[t] EXCEPT !.pc = @ + 1],
           NEW page \in Named, NEW store \in BOOLEAN, Refused(t, s, page, store)
    PROVE  ProgramKeeps
<1> DEFINE cause == translate_address(t, "d", page, store)
<1>1. cause # "ok" /\ Traps(t, s, cause, page, "d")
  BY DEF Refused, Allowed
<1>2. "d" \in Buffers /\ TlbOK /\ ThreadsOK /\ counter \in Nat /\ counter = stored
  BY DEF Buffers, EmulatorIInv
<1>3. cause \in Causes \ {"interrupt", "syscall"}
  BY <1>1, <1>2, Translates
<1> HIDE DEF cause
<1>4. /\ thread' \in [Threads -> ThreadStates]
      /\ \A u \in Threads : Sound(thread'[u], counter) /\ Served(thread'[u], levels')
  BY <1>1, <1>2, <1>3, TrapsSound
<1>5. UNCHANGED <<tlb, next_way, counter, stored>>
  BY <1>1 DEF Traps
<1> QED
  BY <1>2, <1>4, <1>5 DEF ProgramKeeps, ThreadsKept

\* An instruction of the program that only changes its own thread.
LEMMA ProgramSets ==
    ASSUME EmulatorIInv, NEW t \in Threads, InProgram(thread[t]), NEW x \in ThreadStates,
           x.pc \in UserCode(session), x.depth = thread[t].depth, x.saved = thread[t].saved,
           x.ie = thread[t].ie, x.mmu = thread[t].mmu, x.sup = thread[t].sup,
           x.mask = thread[t].mask, x.latched = thread[t].latched,
           x.sync => x.reg = counter,
           Set(t, x), Keeps
    PROVE  ProgramKeeps
<1> DEFINE r == Stepped(x)
<1>1. ThreadsOK /\ counter \in Nat /\ counter = stored
  BY DEF EmulatorIInv
<1>2. Sound(r, counter) /\ Served(r, levels)
  BY <1>1, ProgramGoesOn
<1>3. Becomes(t, r) /\ UNCHANGED <<tlb, next_way, counter, stored>>
  BY DEF Set, Keeps, cpuVars
<1> HIDE DEF r
<1> QED
  BY <1>1, <1>2, <1>3, BecomesSound DEF ProgramKeeps, ThreadsKept

\* The successful store ends every thread's reservation.
LEMMA StoreSyncDone ==
    ASSUME EmulatorIInv, NEW t \in Threads, InProgram(thread[t]), NEW s \in ThreadStates,
           s.pc \in UserCode(session), s.depth = thread[t].depth, s.saved = thread[t].saved,
           s.ie = thread[t].ie, s.mmu = thread[t].mmu, s.sup = thread[t].sup,
           s.mask = thread[t].mask, s.latched = thread[t].latched,
           s.sync, s.reg = counter,
           Ticks(Invalidated([thread EXCEPT ![t] = Stepped([s EXCEPT !.reg = 1])], t), levels, timer),
           counter' = s.reg + 1, stored' = stored + 1, UNCHANGED <<tlb, next_way>>
    PROVE  ProgramKeeps
<1> DEFINE x == [s EXCEPT !.reg = 1]
           r == Stepped(x)
           threads == [thread EXCEPT ![t] = r]
           new == Invalidated(threads, t)
<1>1. ThreadsOK /\ counter \in Nat /\ counter = stored /\ thread \in [Threads -> ThreadStates]
  BY DEF EmulatorIInv, ThreadsOK
<1>2. x \in ThreadStates
  BY DEF ThreadStates
<1>3. /\ x.pc = s.pc /\ x.depth = s.depth /\ x.saved = s.saved /\ x.ie = s.ie /\ x.mmu = s.mmu
      /\ x.sup = s.sup /\ x.mask = s.mask /\ x.latched = s.latched /\ x.reg = 1
  BY DEF ThreadStates
<1> HIDE DEF x
<1>4. x.sync => x.reg = 1
  BY <1>3
<1>5. Sound(r, 1) /\ Served(r, levels)
  BY <1>1, <1>2, <1>3, <1>4, ProgramGoesOn
<1>6. r \in ThreadStates
  BY <1>5 DEF Sound
<1> HIDE DEF r
<1>7. \A u \in Threads : threads[u] \in ThreadStates /\ (\E c : Sound(threads[u], c)) /\ Served(threads[u], levels)
  BY <1>1, <1>5, <1>6 DEF ThreadsOK
<1> HIDE DEF threads
<1>8. ASSUME NEW u \in Threads
      PROVE  Sound(new[u], counter') /\ Served(new[u], levels) /\ new[u] \in ThreadStates
  <2>1. new[u] = [threads[u] EXCEPT !.sync = FALSE]
    BY DEF Invalidated
  <2>2. PICK c : Sound(threads[u], c)
    BY <1>7
  <2>3. Sound(new[u], counter') /\ Served(new[u], levels)
    BY <1>7, <2>1, <2>2, Invalidates
  <2> QED
    BY <2>3 DEF Sound
<1>9. new \in [Threads -> ThreadStates]
  BY <1>8 DEF Invalidated
<1>10. Ticks(new, levels, timer)
  BY DEF threads, r, x
<1> HIDE DEF new
<1>11. ThreadsKept
  BY <1>8, <1>9, <1>10, TicksSound DEF ThreadsKept
<1>12. counter' \in Nat /\ counter' = stored'
  BY <1>1
<1> QED
  BY <1>11, <1>12 DEF ProgramKeeps

\* The instructions of the program.
LEMMA ProgramSteps ==
    ASSUME EmulatorIInv, NEW t \in Threads, InProgram(thread[t]), NEW s, s = [thread[t] EXCEPT !.pc = @ + 1],
           Instruction(t, s, session.program[thread[t].pc])
    PROVE  ProgramKeeps
<1> DEFINE o == thread[t]
           i == session.program[o.pc]
<1>0. /\ Sound(o, counter) /\ o \in ThreadStates /\ Levelled(o) /\ Served(o, levels)
      /\ counter \in Nat /\ counter = stored /\ TlbOK /\ ThreadsOK
  BY DEF EmulatorIInv, ThreadsOK, Sound
<1>1. /\ s \in ThreadStates
      /\ s.pc = o.pc + 1 /\ s.subcycle = o.subcycle /\ s.reg = o.reg /\ s.saved = o.saved
      /\ s.next = o.next /\ s.depth = o.depth /\ s.mask = o.mask /\ s.latched = o.latched
      /\ s.ie = o.ie /\ s.mmu = o.mmu /\ s.sup = o.sup /\ s.sync = o.sync
  BY <1>0, Fetched
<1>2. o.pc \in UserCode(session) /\ o.pc \in Nat /\ o.ie /\ o.mmu /\ ~o.sup
  BY <1>0 DEF InProgram, ThreadStates
<1>3. o.depth = 0
  BY <1>0, <1>2, EnabledInProgram
<1>4. o.sync => o.reg = counter
  BY <1>0, <1>3 DEF Sound, ProgramReg
<1>5. /\ session \in Sessions
      /\ \/ i \in {"timer", "gather", "load_sync", "store_sync"} /\ o.pc + 1 \in UserCode(session)
         \/ i = "retry" /\ {o.pc - 2, o.pc + 1} \subseteq UserCode(session)
         \/ i = "load_kernel" /\ "supervisor" \in PageFlags["stack"]
         \/ i = "syscall"
  BY <1>2, ProgramsAssumption DEF EmulatorIInv
<1>6. "data" \in Named /\ "stack" \in Named /\ "d" \in Buffers
  BY DEF Named, Buffers
<1> HIDE DEF o, i
<1>7. InProgram(thread[t]) /\ o = thread[t] /\ Instruction(t, s, i)
  BY DEF o, i
<1>8. CASE i = "timer"
  <2> DEFINE r == Stepped(s)
             threads == [thread EXCEPT ![t] = r]
  <2>1. s.pc \in UserCode(session) /\ (s.sync => s.reg = counter)
    BY <1>1, <1>4, <1>5, <1>8
  <2>2. Ticks(threads, levels, session.count) /\ UNCHANGED <<tlb, next_way, counter, stored>>
    BY <1>7, <1>8 DEF Instruction, Keeps, cpuVars
  <2>3. Sound(r, counter) /\ Served(r, levels)
    BY <1>0, <1>1, <1>7, <2>1, ProgramGoesOn
  <2>4. r \in ThreadStates
    BY <2>3 DEF Sound
  <2> HIDE DEF r
  <2>5. threads \in [Threads -> ThreadStates]
    BY <1>0, <2>4 DEF ThreadsOK
  <2>6. \A u \in Threads : Sound(threads[u], counter) /\ Served(threads[u], levels)
    BY <1>0, <2>3 DEF ThreadsOK
  <2> HIDE DEF threads
  <2>7. ThreadsKept
    BY <2>2, <2>5, <2>6, TicksSound DEF ThreadsKept
  <2> QED
    BY <1>0, <2>2, <2>7 DEF ProgramKeeps
<1>9. CASE i = "gather"
  <2> DEFINE last == s.subcycle + 1 = NUM_VECTOR_LANES
             sub == IF last THEN 0 ELSE s.subcycle + 1
             pc == IF last THEN s.pc ELSE s.pc - 1
             x == [s EXCEPT !.subcycle = sub, !.pc = pc]
  <2>1. Gather(t, s)
    BY <1>7, <1>9 DEF Instruction
  <2>2. CASE Refused(t, s, "data", FALSE)
    BY <1>6, <2>2, ProgramRefused
  <2>3. CASE Set(t, x) /\ Keeps
    <3>1. sub \in Nat
      <4>1. s.subcycle \in Nat
        BY <1>1, StateTypes, Zenon
      <4> QED
        BY <4>1
    <3>2. pc \in Nat /\ pc \in UserCode(session)
      BY <1>1, <1>2, <1>5, <1>9
    <3> HIDE DEF sub, pc
    <3>3. x \in ThreadStates
      BY <1>1, <3>1, <3>2 DEF ThreadStates
    <3>4. /\ x.pc = pc /\ x.depth = s.depth /\ x.saved = s.saved /\ x.ie = s.ie /\ x.mmu = s.mmu
          /\ x.sup = s.sup /\ x.mask = s.mask /\ x.latched = s.latched /\ x.reg = s.reg /\ x.sync = s.sync
      BY <1>1 DEF ThreadStates
    <3> HIDE DEF x
    <3>5. x.sync => x.reg = counter
      BY <1>1, <1>4, <3>4
    <3> QED
      BY <1>1, <1>7, <2>3, <3>2, <3>3, <3>4, <3>5, ProgramSets
  <2> QED
    BY <2>1, <2>2, <2>3 DEF Gather
<1>10. CASE i = "load_sync"
  <2> DEFINE x == [s EXCEPT !.sync = TRUE, !.reg = counter]
  <2>1. LoadSync(t, s)
    BY <1>7, <1>10 DEF Instruction
  <2>2. CASE Refused(t, s, "data", FALSE)
    BY <1>6, <2>2, ProgramRefused
  <2>3. CASE Set(t, x) /\ Keeps
    <3>1. x \in ThreadStates
      BY <1>0, <1>1 DEF ThreadStates
    <3>2. /\ x.pc = s.pc /\ x.depth = s.depth /\ x.saved = s.saved /\ x.ie = s.ie /\ x.mmu = s.mmu
          /\ x.sup = s.sup /\ x.mask = s.mask /\ x.latched = s.latched /\ x.reg = counter
      BY <1>0, <1>1 DEF ThreadStates
    <3> HIDE DEF x
    <3>3. x.pc \in UserCode(session) /\ (x.sync => x.reg = counter)
      BY <1>1, <1>5, <1>10, <3>2
    <3> QED
      BY <1>1, <1>7, <2>3, <3>1, <3>2, <3>3, ProgramSets
  <2> QED
    BY <2>1, <2>2, <2>3 DEF LoadSync
<1>11. CASE i = "store_sync"
  <2> DEFINE x == [s EXCEPT !.reg = 0]
  <2>1. StoreSync(t, s) /\ s.pc \in UserCode(session)
    BY <1>1, <1>5, <1>7, <1>11 DEF Instruction
  <2>2. CASE Refused(t, s, "data", TRUE)
    BY <1>6, <2>2, ProgramRefused
  <2>3. CASE ~s.sync /\ Set(t, x) /\ Keeps
    <3>1. x \in ThreadStates
      BY <1>1 DEF ThreadStates
    <3>2. /\ x.pc = s.pc /\ x.depth = s.depth /\ x.saved = s.saved /\ x.ie = s.ie /\ x.mmu = s.mmu
          /\ x.sup = s.sup /\ x.mask = s.mask /\ x.latched = s.latched /\ x.sync = s.sync
      BY <1>1 DEF ThreadStates
    <3> HIDE DEF x
    <3>3. x.pc \in UserCode(session) /\ ~x.sync
      BY <2>1, <2>3, <3>2
    <3> QED
      BY <1>1, <1>7, <2>3, <3>1, <3>2, <3>3, ProgramSets
  <2>4. CASE /\ s.sync
             /\ Ticks(Invalidated([thread EXCEPT ![t] = Stepped([s EXCEPT !.reg = 1])], t), levels, timer)
             /\ counter' = s.reg + 1 /\ stored' = stored + 1
             /\ UNCHANGED <<tlb, next_way, enabled, serial, crashed>>
    <3>1. s.reg = counter
      BY <1>1, <1>4, <2>4
    <3>2. UNCHANGED <<tlb, next_way>> /\ s.pc \in UserCode(session) /\ s.sync
      BY <2>1, <2>4
    <3>3. /\ s \in ThreadStates
          /\ s.depth = thread[t].depth /\ s.saved = thread[t].saved
          /\ s.ie = thread[t].ie /\ s.mmu = thread[t].mmu /\ s.sup = thread[t].sup
          /\ s.mask = thread[t].mask /\ s.latched = thread[t].latched
      BY <1>1, <1>7
    <3> QED
      BY <1>7, <2>4, <3>1, <3>2, <3>3, StoreSyncDone, Zenon
  <2> QED
    BY <2>1, <2>2, <2>3, <2>4 DEF StoreSync
<1>12. CASE i = "retry"
  <2> DEFINE pc == IF s.reg = 0 THEN s.pc - 3 ELSE s.pc
             x == [s EXCEPT !.pc = pc]
  <2>1. Set(t, x) /\ Keeps
    BY <1>7, <1>12 DEF Instruction
  <2>2. o.pc - 2 \in UserCode(session) /\ o.pc + 1 \in UserCode(session)
    BY <1>5, <1>12
  <2>3. pc = o.pc - 2 \/ pc = o.pc + 1
    BY <1>1, <1>2
  <2>4. pc \in Nat /\ pc \in UserCode(session)
    BY <2>2, <2>3, ProgramsAssumption DEF UserCode
  <2> HIDE DEF pc
  <2>5. x \in ThreadStates
    BY <1>1, <2>4 DEF ThreadStates
  <2>6. /\ x.pc = pc /\ x.depth = s.depth /\ x.saved = s.saved /\ x.ie = s.ie /\ x.mmu = s.mmu
        /\ x.sup = s.sup /\ x.mask = s.mask /\ x.latched = s.latched /\ x.reg = s.reg /\ x.sync = s.sync
    BY <1>1 DEF ThreadStates
  <2> HIDE DEF x
  <2>7. x.sync => x.reg = counter
    BY <1>1, <1>4, <2>6
  <2> QED
    BY <1>1, <1>7, <2>1, <2>4, <2>5, <2>6, <2>7, ProgramSets
<1>13. CASE i = "load_kernel"
  <2>1. Access(t, s, "stack", FALSE)
    BY <1>7, <1>13 DEF Instruction
  <2>2. translate_address(t, "d", "stack", FALSE) # "ok"
    <3>1. thread[t].mmu /\ ~thread[t].sup /\ "supervisor" \in PageFlags["stack"]
      BY <1>2, <1>5, <1>7, <1>13
    <3> QED
      BY <1>0, <1>6, <3>1, Translates
  <2>3. Refused(t, s, "stack", FALSE)
    BY <2>1, <2>2 DEF Access, Allowed
  <2> QED
    BY <1>6, <2>3, ProgramRefused
<1>14. CASE i = "syscall"
  <2>1. Traps(t, s, "syscall", "none", "none")
    BY <1>7, <1>14 DEF Instruction
  <2>2. "syscall" \in Causes \ {"interrupt"}
    BY DEF Causes
  <2>3. /\ thread' \in [Threads -> ThreadStates]
        /\ \A u \in Threads : Sound(thread'[u], counter) /\ Served(thread'[u], levels')
    BY <1>0, <2>1, <2>2, TrapsSound
  <2>4. UNCHANGED <<tlb, next_way, counter, stored>>
    BY <2>1 DEF Traps
  <2> QED
    BY <1>0, <2>3, <2>4 DEF ProgramKeeps, ThreadsKept
<1> QED
  BY <1>5, <1>8, <1>9, <1>10, <1>11, <1>12, <1>13, <1>14

-----------------------------------------------------------------------------
\* A handler puts the register into the scratchpad.
LEMMA Scratches ==
    ASSUME NEW s \in ThreadStates, Len(s.saved) \in {1, 2}, NEW g \in Nat
    PROVE  LET r == [s EXCEPT !.saved[1].scratch = s.reg, !.reg = g]
           IN  Stays(s, r) /\ r.pc = s.pc /\ r.reg = g /\ r.saved[1].scratch = s.reg
<1> DEFINE r == [s EXCEPT !.saved[1].scratch = s.reg, !.reg = g]
           v == s.reg
           e == [s.saved[1] EXCEPT !.scratch = v]
           new == [s.saved EXCEPT ![1] = e]
<1>1. v \in Nat /\ s.saved \in Seq(Slots) /\ DOMAIN s.saved = 1 .. Len(s.saved)
  BY DEF ThreadStates
<1>2. 1 \in DOMAIN s.saved /\ s.saved[1] \in Slots
  BY <1>1
<1>3. r = [s EXCEPT !.saved = new, !.reg = g]
  OBVIOUS
<1> HIDE DEF v, r
<1>4. e \in Slots
  BY <1>1, <1>2 DEF Slots
<1>5. /\ e.pc = s.saved[1].pc /\ e.subcycle = s.saved[1].subcycle /\ e.scratch = v
      /\ e.ie = s.saved[1].ie /\ e.mmu = s.saved[1].mmu /\ e.sup = s.saved[1].sup
      /\ e.buffer = s.saved[1].buffer /\ e.address = s.saved[1].address
  BY <1>2 DEF Slots
<1> HIDE DEF e
<1>6. new \in Seq(Slots) /\ Len(new) = Len(s.saved) /\ new[1] = e /\ \A k \in 2 .. Len(s.saved) : new[k] = s.saved[k]
  BY <1>1, <1>2, <1>4
<1> HIDE DEF new
<1>7. r \in ThreadStates
  BY <1>3, <1>6 DEF ThreadStates
<1>8. /\ r.depth = s.depth /\ r.next = s.next /\ r.subcycle = s.subcycle
      /\ r.ie = s.ie /\ r.mmu = s.mmu /\ r.sup = s.sup /\ r.sync = s.sync
      /\ r.saved = new /\ r.pc = s.pc /\ r.reg = g
  BY <1>3 DEF ThreadStates
<1>9. ASSUME NEW k \in 1 .. Len(s.saved)
      PROVE  /\ r.saved[k].pc = s.saved[k].pc /\ r.saved[k].subcycle = s.saved[k].subcycle
             /\ r.saved[k].ie = s.saved[k].ie /\ r.saved[k].mmu = s.saved[k].mmu /\ r.saved[k].sup = s.saved[k].sup
             /\ r.saved[k].buffer = s.saved[k].buffer /\ r.saved[k].address = s.saved[k].address
  <2>1. CASE k = 1
    <3>1. r.saved[k] = e /\ s.saved[k] = s.saved[1]
      BY <1>6, <1>8, <2>1
    <3> QED
      BY <1>5, <3>1
  <2>2. CASE k # 1
    <3>1. k \in 2 .. Len(s.saved)
      BY <2>2
    <3>2. r.saved[k] = s.saved[k]
      BY <1>6, <1>8, <3>1
    <3> QED
      BY <3>2
  <2> QED
    BY <2>1, <2>2
<1>10. \A k \in 2 .. Len(s.saved) : r.saved[k].scratch = s.saved[k].scratch
  BY <1>6, <1>8
<1>11. Len(r.saved) = Len(s.saved) /\ r.saved[1].scratch = s.reg
  BY <1>5, <1>6, <1>8 DEF v
<1> QED
  BY <1>7, <1>8, <1>9, <1>10, <1>11 DEF Stays, r

\* The return from a handler, before it looks for pending interrupts.
LEMMA Returns ==
    ASSUME NEW o, NEW c, Sound(o, c), o.depth # 0, o.pc \notin Scratched, NEW s,
           s = [o EXCEPT !.pc = @ + 1], NEW r,
           LET to == Head(s.saved)
           IN  r = [s EXCEPT !.ie = to.ie, !.mmu = to.mmu, !.pc = to.pc, !.subcycle = to.subcycle,
                             !.sup = to.sup, !.saved = Tail(@), !.depth = @ - 1]
    PROVE  Sound(r, c)
<1>1. o \in ThreadStates /\ Levelled(o)
  BY DEF Sound
<1>2. /\ s \in ThreadStates /\ s.saved = o.saved /\ s.depth = o.depth /\ s.next = o.next
      /\ s.sync = o.sync /\ s.reg = o.reg
  BY <1>1, Fetched
<1>3. o.depth \in {1, 2} /\ Len(o.saved) = o.depth /\ o.saved \in Seq(Slots)
  BY <1>1 DEF Levelled, ThreadStates
<1> DEFINE to == o.saved[1]
           rest == Tail(o.saved)
           d == o.depth - 1
<1>4. Head(s.saved) = to /\ to \in Slots
  BY <1>2, <1>3
<1>5. rest \in Seq(Slots) /\ Len(rest) = d /\ (d = 1 => rest[1] = o.saved[2])
  BY <1>3
<1>6. d \in Nat /\ d \in {0, 1} /\ o.depth = d + 1
  BY <1>3
<1>7. r = [s EXCEPT !.ie = to.ie, !.mmu = to.mmu, !.pc = to.pc, !.subcycle = to.subcycle,
                    !.sup = to.sup, !.saved = rest, !.depth = d]
  BY <1>2, <1>4
<1>8. /\ to.ie \in BOOLEAN /\ to.mmu \in BOOLEAN /\ to.sup \in BOOLEAN /\ to.pc \in Nat
      /\ to.subcycle \in Nat
  BY <1>4 DEF Slots
<1> HIDE DEF to, rest, d
<1>9. r \in ThreadStates
  BY <1>2, <1>5, <1>6, <1>7, <1>8 DEF ThreadStates
<1>10. /\ r.ie = to.ie /\ r.mmu = to.mmu /\ r.sup = to.sup /\ r.pc = to.pc /\ r.subcycle = to.subcycle
       /\ r.saved = rest /\ r.depth = d /\ r.next = s.next /\ r.reg = s.reg /\ r.sync = s.sync
  BY <1>2, <1>7 DEF ThreadStates
<1>11. CASE o.depth = 1
  <2>1. InProgram(to) /\ o.next = <<to.pc, to.subcycle>>
    BY <1>1, <1>11 DEF Levelled, to
  <2>2. d = 0 /\ Len(r.saved) = 0 /\ InProgram(r)
    <3>1. d = 0
      BY <1>6, <1>11
    <3>2. InProgram(r)
      BY <1>10, <2>1, Zenon DEF InProgram
    <3> QED
      BY <1>5, <1>10, <3>1, <3>2, Zenon
  <2>3. Levelled(r)
    BY <1>2, <1>10, <2>1, <2>2 DEF Levelled
  <2>4. ProgramReg(r) = ProgramReg(o)
    BY <1>2, <1>10, <1>11, <2>2 DEF ProgramReg, Value
  <2> QED
    BY <1>2, <1>9, <1>10, <2>3, <2>4 DEF Sound
<1>12. CASE o.depth = 2
  <2>1. InHandler(to) /\ InProgram(o.saved[2]) /\ o.next = <<o.saved[2].pc, o.saved[2].subcycle>>
    BY <1>1, <1>12 DEF Levelled, to
  <2>2. d = 1 /\ Len(r.saved) = 1 /\ InHandler(r) /\ r.saved[1] = o.saved[2]
    <3>1. d = 1
      BY <1>6, <1>12
    <3>2. InHandler(r)
      BY <1>10, <2>1, Zenon DEF InHandler
    <3> QED
      BY <1>5, <1>10, <3>1, <3>2, Zenon
  <2>3. Levelled(r)
    BY <1>2, <1>10, <2>1, <2>2 DEF Levelled
  <2>4. ProgramReg(r) = ProgramReg(o)
    BY <1>2, <1>10, <1>12, <2>2 DEF ProgramReg, Value, to
  <2> QED
    BY <1>2, <1>9, <1>10, <2>3, <2>4 DEF Sound
<1> QED
  BY <1>3, <1>11, <1>12

\* A change of what Stays does not mention.
LEMMA SameStays ==
    ASSUME NEW o, NEW s \in ThreadStates,
           s.subcycle = o.subcycle, s.saved = o.saved, s.next = o.next, s.depth = o.depth,
           s.ie = o.ie, s.mmu = o.mmu, s.sup = o.sup, s.sync = o.sync
    PROVE  /\ Stays(o, s)
           /\ \A r : Stays(s, r) => Stays(o, r)
<1>1. Stays(o, s)
  BY Zenon DEF Stays
<1>2. ASSUME NEW r, Stays(s, r) PROVE Stays(o, r)
  BY <1>2 DEF Stays
<1> QED
  BY <1>1, <1>2

\* The next instruction of a handler, and what it may do to the state.
LEMMA FetchStays ==
    ASSUME NEW o \in ThreadStates, NEW s, s = [o EXCEPT !.pc = @ + 1]
    PROVE  /\ Stays(o, s)
           /\ \A r : Stays(s, r) => Stays(o, r)
<1>1. /\ s \in ThreadStates
      /\ s.subcycle = o.subcycle /\ s.saved = o.saved /\ s.next = o.next /\ s.depth = o.depth
      /\ s.ie = o.ie /\ s.mmu = o.mmu /\ s.sup = o.sup /\ s.sync = o.sync
  BY Fetched
<1> QED
  BY <1>1, SameStays, Zenon

\* A change of a register or of the latched interrupts.
LEMMA RegisterStays ==
    ASSUME NEW s \in ThreadStates, NEW g \in Nat, NEW l \in SUBSET Interrupts
    PROVE  /\ LET r == [s EXCEPT !.reg = g]
              IN  Stays(s, r) /\ r.pc = s.pc /\ r.reg = g /\ r.saved = s.saved
           /\ LET r == [s EXCEPT !.latched = l]
              IN  Stays(s, r) /\ r.pc = s.pc /\ r.reg = s.reg /\ r.saved = s.saved
<1>1. LET r == [s EXCEPT !.reg = g]
      IN  Stays(s, r) /\ r.pc = s.pc /\ r.reg = g /\ r.saved = s.saved
  <2> DEFINE r == [s EXCEPT !.reg = g]
  <2>1. r \in ThreadStates
    BY DEF ThreadStates
  <2>2. /\ r.depth = s.depth /\ r.next = s.next /\ r.subcycle = s.subcycle
        /\ r.ie = s.ie /\ r.mmu = s.mmu /\ r.sup = s.sup /\ r.sync = s.sync
        /\ r.saved = s.saved /\ r.pc = s.pc /\ r.reg = g
    BY DEF ThreadStates
  <2> HIDE DEF r
  <2>3. Stays(s, r)
    BY <2>1, <2>2, SameStays
  <2> QED
    BY <2>2, <2>3 DEF r
<1>2. LET r == [s EXCEPT !.latched = l]
      IN  Stays(s, r) /\ r.pc = s.pc /\ r.reg = s.reg /\ r.saved = s.saved
  <2> DEFINE r == [s EXCEPT !.latched = l]
  <2>1. r \in ThreadStates
    BY DEF ThreadStates
  <2>2. /\ r.depth = s.depth /\ r.next = s.next /\ r.subcycle = s.subcycle
        /\ r.ie = s.ie /\ r.mmu = s.mmu /\ r.sup = s.sup /\ r.sync = s.sync
        /\ r.saved = s.saved /\ r.pc = s.pc /\ r.reg = s.reg
    BY DEF ThreadStates
  <2> HIDE DEF r
  <2>3. Stays(s, r)
    BY <2>1, <2>2, SameStays
  <2> QED
    BY <2>2, <2>3 DEF r
<1> QED
  BY <1>1, <1>2

\* A handler goes on at the next instruction.
LEMMA HandlerGoesOn ==
    ASSUME NEW o, NEW c, Sound(o, c), InHandler(o) \/ InMissHandler(o), o.depth # 0, NEW r, Stays(o, r),
           r.pc = o.pc + 1,
           InHandler(o) => o.pc \in TRAP_HANDLER .. TRAP_HANDLER + 3,
           InMissHandler(o) => o.pc \in TLB_MISS_HANDLER .. TLB_MISS_HANDLER + 1,
           Value(r.pc, r.reg, r.saved[1].scratch) = Value(o.pc, o.reg, o.saved[1].scratch)
    PROVE  Sound(r, c) /\ \A lines : Served(r, lines)
<1>1. TRAP_HANDLER \in Nat /\ TLB_MISS_HANDLER \in Nat /\ o.pc \in Nat
  BY ProgramsAssumption DEF Sound, ThreadStates
<1>2. r.subcycle = o.subcycle /\ r.ie = o.ie /\ r.mmu = o.mmu /\ r.sup = o.sup
  BY DEF Stays
<1>3. InHandler(o) => InHandler(r)
  <2>1. ASSUME InHandler(o) PROVE r.pc \in TRAP_HANDLER .. TRAP_HANDLER + 4
    BY <1>1, <2>1
  <2> QED
    BY <1>2, <2>1, Zenon DEF InHandler
<1>4. InMissHandler(o) => InMissHandler(r)
  <2>1. ASSUME InMissHandler(o) PROVE r.pc \in TLB_MISS_HANDLER .. TLB_MISS_HANDLER + 2
    BY <1>1, <2>1
  <2> QED
    BY <1>2, <2>1, Zenon DEF InMissHandler
<1> QED
  BY <1>3, <1>4, HandlerStep

\* The handler's instruction is done.
LEMMA HandlerBecomes ==
    ASSUME EmulatorIInv, NEW t \in Threads, NEW r, Sound(r, counter), Served(r, levels), Becomes(t, r),
           UNCHANGED <<counter, stored>>
    PROVE  ThreadsKept /\ counter' \in Nat /\ counter' = stored'
BY BecomesSound DEF ThreadsKept, EmulatorIInv

-----------------------------------------------------------------------------
LEMMA Handling ==
    ASSUME NEW o, NEW c, Sound(o, c), InHandler(o) \/ InMissHandler(o)
    PROVE  /\ o \in ThreadStates /\ o.depth \in {1, 2} /\ Len(o.saved) = o.depth
           /\ InHandler(o) => o.depth = 1
           /\ InMissHandler(o) => Missed(o.saved[1])
           /\ ~o.ie
<1>1. o \in ThreadStates /\ Levelled(o)
  BY DEF Sound
<1>2. ~Starts(o) /\ ~InProgram(o) /\ ~(InHandler(o) /\ InMissHandler(o)) /\ ~o.ie
  BY ProgramsAssumption DEF Starts, InProgram, InHandler, InMissHandler
<1> QED
  BY <1>1, <1>2 DEF Levelled

\* The instructions of the trap handler.
LEMMA HandlerSteps ==
    ASSUME EmulatorIInv, NEW t \in Threads, InHandler(thread[t]), NEW s, s = [thread[t] EXCEPT !.pc = @ + 1],
           Instruction(t, s, session.program[thread[t].pc])
    PROVE  ProgramKeeps
<1> DEFINE o == thread[t]
           i == session.program[o.pc]
           H == TRAP_HANDLER
<1>0. Sound(o, counter) /\ TlbOK /\ ThreadsOK /\ counter \in Nat /\ counter = stored /\ thread \in [Threads -> ThreadStates]
  BY DEF EmulatorIInv, ThreadsOK
<1>1. o \in ThreadStates /\ o.depth = 1 /\ Len(o.saved) = 1 /\ ~o.ie
  BY <1>0, Handling
<1>2. /\ s \in ThreadStates
      /\ s.pc = o.pc + 1 /\ s.reg = o.reg /\ s.saved = o.saved /\ s.depth = o.depth
      /\ s.latched = o.latched
  BY <1>1, Fetched
<1>3. Stays(o, s) /\ \A r : Stays(s, r) => Stays(o, r)
  BY <1>1, FetchStays
<1>4. o.pc \in H .. H + 4 /\ H \in Nat /\ TLB_MISS_HANDLER \in Nat /\ H + 4 < TLB_MISS_HANDLER /\ o.mmu /\ o.sup
  BY ProgramsAssumption DEF InHandler
<1>5. /\ o.pc = H => i = "save"
      /\ o.pc = H + 1 => i = "push"
      /\ o.pc = H + 2 => i = "serve"
      /\ o.pc = H + 3 => i = "restore"
      /\ o.pc = H + 4 => i = "eret"
  <2>1. session \in Sessions
    BY DEF EmulatorIInv
  <2>2. \A k \in 0 .. 4 : session.program[H + k] = Handler[k + 1]
    BY <2>1, ProgramsAssumption
  <2>3. /\ Handler[0 + 1] = "save" /\ Handler[1 + 1] = "push" /\ Handler[2 + 1] = "serve"
        /\ Handler[3 + 1] = "restore" /\ Handler[4 + 1] = "eret"
    BY DEF Handler
  <2>4. H + 0 = H
    BY <1>4
  <2> HIDE DEF H
  <2> QED
    BY <2>2, <2>3, <2>4
<1>6. s.reg \in Nat /\ s.latched \subseteq Interrupts /\ s.saved[1].scratch \in Nat
  <2>1. s.saved \in Seq(Slots) /\ s.reg \in Nat /\ s.latched \subseteq Interrupts
    BY <1>2, StateTypes, Zenon
  <2>2. Len(s.saved) = 1
    BY <1>1, <1>2, Zenon
  <2>3. s.saved[1] \in Slots
    BY <2>1, <2>2
  <2> QED
    BY <2>1, <2>3 DEF Slots
<1> HIDE DEF o, i, H
<1>7. InHandler(o) /\ o = thread[t] /\ Instruction(t, s, i) /\ ~InMissHandler(o)
  BY <1>4 DEF o, i, InMissHandler
<1>8. ASSUME NEW r, Stays(o, r), r.pc = s.pc, o.pc # H + 4,
             Value(r.pc, r.reg, r.saved[1].scratch) = Value(o.pc, o.reg, o.saved[1].scratch)
      PROVE  Sound(r, counter) /\ \A lines : Served(r, lines)
  <2>1. o.pc \in H .. H + 3 /\ r.pc = o.pc + 1 /\ o.depth # 0
    BY <1>1, <1>2, <1>4, <1>8
  <2> QED
    BY <1>0, <1>7, <1>8, <2>1, HandlerGoesOn DEF o, H
<1>9. CASE o.pc = H
  <2> DEFINE r == [s EXCEPT !.saved[1].scratch = s.reg, !.reg = 7]
  <2>1. Becomes(t, r) /\ Keeps
    BY <1>5, <1>7, <1>9 DEF Instruction
  <2>2. Stays(s, r) /\ r.pc = s.pc /\ r.saved[1].scratch = s.reg
    <3>1. Len(s.saved) \in {1, 2} /\ 7 \in Nat
      BY <1>1, <1>2
    <3> QED
      BY <1>2, <3>1, Scratches, Zenon
  <2> HIDE DEF r
  <2>3. r.pc \in Scratched /\ o.pc \notin Scratched /\ o.pc # H + 4
    BY <1>2, <1>4, <1>9, <2>2 DEF Scratched, H
  <2>4. Value(r.pc, r.reg, r.saved[1].scratch) = Value(o.pc, o.reg, o.saved[1].scratch)
    BY <1>2, <2>2, <2>3 DEF Value
  <2>5. Sound(r, counter) /\ Served(r, levels)
    BY <1>3, <1>8, <2>2, <2>3, <2>4
  <2>6. UNCHANGED <<tlb, next_way, counter, stored>>
    BY <2>1 DEF Keeps, cpuVars
  <2> QED
    BY <2>1, <2>5, <2>6, HandlerBecomes DEF ProgramKeeps
<1>10. ASSUME o.pc \in {H + 1, H + 2}
       PROVE  Stepped(s) = s /\ Sound(s, counter) /\ \A lines : Served(s, lines)
  <2>1. Stepped(s) = s
    BY <1>1, <1>2 DEF Stepped
  <2>2. s.pc \in Scratched /\ o.pc \in Scratched /\ o.pc # H + 4
    BY <1>2, <1>4, <1>10 DEF Scratched, H
  <2>3. Value(s.pc, s.reg, s.saved[1].scratch) = Value(o.pc, o.reg, o.saved[1].scratch)
    BY <1>2, <2>2 DEF Value
  <2> QED
    BY <1>3, <1>8, <2>1, <2>2, <2>3
<1>11. CASE o.pc = H + 1
  <2>1. Access(t, s, "stack", TRUE)
    BY <1>5, <1>7, <1>11 DEF Instruction
  <2>2. CASE Refused(t, s, "stack", TRUE)
    <3> DEFINE cause == translate_address(t, "d", "stack", TRUE)
    <3>1. cause # "ok" /\ Traps(t, s, cause, "stack", "d")
      BY <2>2 DEF Refused, Allowed
    <3>2. cause = "tlb_miss"
      <4>1. "stack" \in Named /\ "d" \in Buffers /\ "d" # "i" /\ TRUE \in BOOLEAN
        BY DEF Named, Buffers
      <4>2. thread[t].mmu /\ thread[t].sup /\ "present" \in PageFlags["stack"] /\ "write_enable" \in PageFlags["stack"]
        BY <1>4, <1>7, ProgramsAssumption
      <4>3. cause \in {"ok", "tlb_miss"}
        BY <1>0, <4>1, <4>2, Translates
      <4> QED
        BY <3>1, <4>3
    <3>3. "tlb_miss" \in Causes \ {"interrupt"} /\ "stack" \in Named /\ "d" \in Buffers
      BY DEF Causes, Named, Buffers
    <3>4. Traps(t, s, "tlb_miss", "stack", "d") /\ InHandler(thread[t]) /\ thread[t].depth # 0
      <4> HIDE DEF cause
      <4>1. thread[t].depth # 0
        BY <1>1, <1>7
      <4> QED
        BY <1>7, <3>1, <3>2, <4>1, Zenon
    <3>5. /\ thread' \in [Threads -> ThreadStates]
          /\ \A u \in Threads : Sound(thread'[u], counter) /\ Served(thread'[u], levels')
      BY <1>0, <3>3, <3>4, TrapsSound
    <3>6. UNCHANGED <<tlb, next_way, counter, stored>>
      BY <3>4 DEF Traps
    <3> QED
      BY <1>0, <3>5, <3>6 DEF ProgramKeeps, ThreadsKept
  <2>3. CASE Set(t, s) /\ Keeps
    <3>1. Becomes(t, s) /\ UNCHANGED <<tlb, next_way, counter, stored>>
      BY <1>10, <1>11, <2>3 DEF Set, Keeps, cpuVars
    <3> QED
      BY <1>10, <1>11, <3>1, HandlerBecomes DEF ProgramKeeps
  <2> QED
    BY <2>1, <2>2, <2>3 DEF Access
<1>12. CASE o.pc = H + 2
  <2>0. i = "serve" /\ Stepped(s) = s /\ Sound(s, counter) /\ \A lines : Served(s, lines)
    BY <1>5, <1>10, <1>12
  <2>1. CASE Set(t, s) /\ UNCHANGED <<tlb, next_way, counter, serial, crashed, stored>>
    <3>1. Becomes(t, s) /\ UNCHANGED <<tlb, next_way, counter, stored>>
      BY <2>0, <2>1 DEF Set
    <3> QED
      BY <2>0, <3>1, HandlerBecomes DEF ProgramKeeps
  <2>2. CASE Becomes(t, [s EXCEPT !.latched = @ \ {"timer"}]) /\ Keeps
    <3> DEFINE l == s.latched \ {"timer"}
               r == [s EXCEPT !.latched = l]
    <3>1. Becomes(t, r) /\ UNCHANGED <<tlb, next_way, counter, stored>>
      BY <2>2 DEF Keeps, cpuVars
    <3>2. l \in SUBSET Interrupts
      BY <1>6
    <3> HIDE DEF l
    <3>3. Stays(s, r) /\ r.pc = s.pc /\ r.reg = s.reg /\ r.saved = s.saved
      BY <1>2, <1>6, <3>2, RegisterStays
    <3> HIDE DEF r
    <3>4. s.pc \in Scratched /\ o.pc \in Scratched /\ o.pc # H + 4
      BY <1>2, <1>4, <1>12 DEF Scratched, H
    <3>5. Value(r.pc, r.reg, r.saved[1].scratch) = Value(o.pc, o.reg, o.saved[1].scratch)
      BY <1>2, <3>3, <3>4 DEF Value
    <3>6. Sound(r, counter) /\ Served(r, levels)
      BY <1>3, <1>8, <3>3, <3>4, <3>5
    <3> QED
      BY <3>1, <3>6, HandlerBecomes DEF ProgramKeeps
  <2>3. CASE ReadSerial(t, s)
    <3> DEFINE threads == [thread EXCEPT ![t] = s]
    <3>1. PICK lines \in SUBSET levels : Ticks(threads, lines, timer)
      BY <2>3 DEF ReadSerial
    <3>2. UNCHANGED <<tlb, next_way, counter, stored>>
      BY <2>3 DEF ReadSerial
    <3>3. threads \in [Threads -> ThreadStates]
      BY <1>0, <1>2
    <3>4. ASSUME NEW u \in Threads PROVE Sound(threads[u], counter) /\ Served(threads[u], lines)
      <4>1. CASE u = t
        <5>1. threads[u] = s
          BY <1>0, <4>1
        <5> QED
          BY <2>0, <5>1
      <4>2. CASE u # t
        <5>1. threads[u] = thread[u] /\ Sound(thread[u], counter) /\ Served(thread[u], levels)
          BY <1>0, <4>2 DEF ThreadsOK
        <5>2. Served(thread[u], lines)
          <6>1. get_pending_interrupts(thread[u], lines) \subseteq get_pending_interrupts(thread[u], levels)
            BY <3>1 DEF get_pending_interrupts
          <6> QED
            BY <5>1, <6>1 DEF Served
        <5> QED
          BY <5>1, <5>2
      <4> QED
        BY <4>1, <4>2
    <3> HIDE DEF threads
    <3> QED
      BY <1>0, <3>1, <3>2, <3>3, <3>4, TicksSound DEF ProgramKeeps, ThreadsKept
  <2> QED
    BY <1>7, <2>0, <2>1, <2>2, <2>3 DEF Instruction, Enables
<1>13. CASE o.pc = H + 3
  <2> DEFINE g == s.saved[1].scratch
             r == [s EXCEPT !.reg = g]
  <2>1. Becomes(t, r) /\ UNCHANGED <<tlb, next_way, counter, stored>>
    BY <1>5, <1>7, <1>13 DEF Instruction, Keeps, cpuVars
  <2>2. g \in Nat
    BY <1>6
  <2> HIDE DEF g
  <2>3. Stays(s, r) /\ r.pc = s.pc /\ r.reg = g /\ r.saved = s.saved
    BY <1>2, <1>6, <2>2, RegisterStays
  <2> HIDE DEF r
  <2>4. s.pc \notin Scratched /\ o.pc \in Scratched /\ o.pc # H + 4
    BY <1>2, <1>4, <1>13 DEF Scratched, H
  <2>5. Value(r.pc, r.reg, r.saved[1].scratch) = Value(o.pc, o.reg, o.saved[1].scratch)
    BY <1>2, <2>3, <2>4 DEF Value, g
  <2>6. Sound(r, counter) /\ Served(r, levels)
    BY <1>3, <1>8, <2>3, <2>4, <2>5
  <2> QED
    BY <2>1, <2>6, HandlerBecomes DEF ProgramKeeps
<1>14. CASE o.pc = H + 4
  <2> DEFINE to == Head(s.saved)
             r == [s EXCEPT !.ie = to.ie, !.mmu = to.mmu, !.pc = to.pc, !.subcycle = to.subcycle,
                            !.sup = to.sup, !.saved = Tail(@), !.depth = @ - 1]
  <2>1. Becomes(t, Pending(r)) /\ UNCHANGED <<tlb, next_way, counter, stored>>
    BY <1>5, <1>7, <1>14 DEF Instruction, Eret, Keeps, cpuVars
  <2>2. o.pc \notin Scratched /\ o.depth # 0
    BY <1>1, <1>4, <1>14 DEF Scratched, H
  <2>3. Sound(r, counter)
    BY <1>0, <2>2, Returns DEF o
  <2> HIDE DEF r
  <2>4. Sound(Pending(r), counter) /\ Served(Pending(r), levels)
    BY <2>3, Dispatches DEF Pending
  <2> QED
    BY <2>1, <2>4, HandlerBecomes DEF ProgramKeeps
<1>15. o.pc \in {H, H + 1, H + 2, H + 3, H + 4}
  BY <1>4
<1> QED
  BY <1>9, <1>11, <1>12, <1>13, <1>14, <1>15

-----------------------------------------------------------------------------
\* dtlbinsert and itlbinsert: a page that is there already gets new flags, and
\* another one takes a way.
LEMMA InsertKeepsTlb ==
    ASSUME TlbOK, NEW t \in Threads, NEW b \in Buffers, NEW page \in Pages,
           tlb' = Inserted(t, b, page, PageFlags[page]),
           next_way' = [next_way EXCEPT ![b] = (@ + 1) % TLB_WAYS],
           session' = session
    PROVE  TlbOK'
<1> DEFINE W == 0 .. TLB_WAYS - 1
           old == Ways(b, page, asid(t))
           new == [page |-> page, asid |-> asid(t), flags |-> PageFlags[page]]
<1>1. tlb \in [Buffers -> [W -> Entries]] /\ next_way \in [Buffers -> W] /\ TLB_WAYS \in Nat \ {0}
  BY EmulatorAssumption DEF TlbOK
<1>2. next_way' \in [Buffers -> W]
  <2>1. (next_way[b] + 1) % TLB_WAYS \in W
    BY <1>1
  <2> QED
    BY <1>1, <2>1
<1>3. Entries' = Entries
  BY DEF Entries, asid
<1>4. new \in Entries
  BY DEF Entries
<1>5. old = Replaced(t, b, page)
  BY DEF Replaced
<1> HIDE DEF new
<1>6. CASE old # {}
  <2> DEFINE w == Min(old)
             e == [tlb[b][w] EXCEPT !.flags = PageFlags[page]]
  <2>1. w \in W /\ tlb[b][w].page = page /\ tlb[b][w].flags = PageFlags[page]
    BY <1>6, WayFlags
  <2>2. tlb' = [tlb EXCEPT ![b][w].flags = PageFlags[page]]
    BY <1>5, <1>6 DEF Inserted
  <2> HIDE DEF w
  <2>3. tlb[b][w] \in Entries
    BY <1>1, <2>1
  <2>4. e = tlb[b][w]
    BY <2>1, <2>3 DEF Entries
  <2>5. tlb' = [tlb EXCEPT ![b] = [tlb[b] EXCEPT ![w] = e]]
    BY <2>2
  <2>6. tlb' = tlb
    BY <1>1, <2>1, <2>4, <2>5
  <2> QED
    BY <1>1, <1>2, <1>3, <2>6 DEF TlbOK
<1>7. CASE old = {}
  <2> DEFINE n == next_way[b]
             e(c, w) == IF c = b /\ w = n THEN new ELSE tlb[c][w]
  <2>1. tlb' = [tlb EXCEPT ![b][n] = new] /\ n \in W
    BY <1>1, <1>5, <1>7 DEF Inserted, new
  <2> HIDE DEF n
  <2>2. tlb' \in [Buffers -> [W -> Entries]] /\ \A c \in Buffers, w \in W : tlb'[c][w] = e(c, w)
    BY <1>1, <1>4, <2>1
  <2>3. ASSUME NEW c \in Buffers, NEW w \in W, tlb'[c][w].page \in Pages
        PROVE  tlb'[c][w].flags = PageFlags[tlb'[c][w].page]
    <3>1. CASE c = b /\ w = n
      BY <2>2, <3>1 DEF new
    <3>2. CASE ~(c = b /\ w = n)
      <4>1. tlb'[c][w] = tlb[c][w]
        BY <2>2, <3>2
      <4> QED
        BY <2>3, <4>1 DEF TlbOK
    <3> QED
      BY <3>1, <3>2
  <2>4. ASSUME NEW w \in W, tlb[b][w].page = page
        PROVE  "global" \notin PageFlags[page] /\ tlb[b][w].asid # asid(t)
    <3>1. w \notin old /\ DOMAIN tlb[b] = W
      BY <1>1, <1>7
    <3>2. ~Matches(tlb[b][w], page, asid(t))
      BY <3>1 DEF Ways
    <3>3. tlb[b][w].flags = PageFlags[page]
      BY <2>4 DEF TlbOK
    <3> QED
      BY <2>4, <3>2, <3>3 DEF Matches
  <2>5. new.page = page /\ new.asid = asid(t) /\ new.flags = PageFlags[page]
    BY DEF new
  <2>6. ASSUME NEW c \in Buffers, NEW v \in W, NEW w \in W, v # w,
               tlb'[c][v].page = tlb'[c][w].page, tlb'[c][v].page \in Pages
        PROVE  "global" \notin tlb'[c][v].flags /\ tlb'[c][v].asid # tlb'[c][w].asid
    <3>1. CASE c = b /\ v = n
      <4>1. tlb'[c][v] = new /\ tlb'[c][w] = tlb[b][w]
        BY <2>2, <2>6, <3>1
      <4>2. tlb[b][w].page = page
        BY <2>5, <2>6, <4>1
      <4> QED
        BY <2>4, <2>5, <4>1, <4>2
    <3>2. CASE c = b /\ w = n
      <4>1. tlb'[c][w] = new /\ tlb'[c][v] = tlb[b][v]
        BY <2>2, <2>6, <3>2
      <4>2. tlb[b][v].page = page
        BY <2>5, <2>6, <4>1
      <4>3. tlb[b][v].flags = PageFlags[page]
        BY <4>2 DEF TlbOK
      <4> QED
        BY <2>4, <2>5, <4>1, <4>2, <4>3
    <3>3. CASE ~(c = b /\ v = n) /\ ~(c = b /\ w = n)
      <4>1. tlb'[c][v] = tlb[c][v] /\ tlb'[c][w] = tlb[c][w]
        BY <2>2, <3>3
      <4>2. tlb[c][v].page = tlb[c][w].page /\ tlb[c][v].page \in Pages
        BY <2>6, <4>1
      <4>3. "global" \notin tlb[c][v].flags /\ tlb[c][v].asid # tlb[c][w].asid
        BY <2>6, <4>2 DEF TlbOK
      <4> QED
        BY <4>1, <4>3
    <3> QED
      BY <3>1, <3>2, <3>3
  <2> QED
    BY <1>2, <1>3, <2>2, <2>3, <2>6 DEF TlbOK
<1> QED
  BY <1>6, <1>7

\* The instructions of the handler of misses.
LEMMA MissHandlerSteps ==
    ASSUME EmulatorIInv, NEW t \in Threads, InMissHandler(thread[t]), NEW s, s = [thread[t] EXCEPT !.pc = @ + 1],
           Instruction(t, s, session.program[thread[t].pc]), session' = session
    PROVE  /\ ThreadsKept
           /\ TlbOK'
           /\ counter' \in Nat /\ counter' = stored'
<1> DEFINE o == thread[t]
           i == session.program[o.pc]
           M == TLB_MISS_HANDLER
<1>0. Sound(o, counter) /\ TlbOK /\ ThreadsOK
  BY DEF EmulatorIInv, ThreadsOK
<1>1. o \in ThreadStates /\ o.depth \in {1, 2} /\ Len(o.saved) = o.depth /\ ~o.ie /\ Missed(o.saved[1])
  BY <1>0, Handling
<1>2. s \in ThreadStates /\ s.pc = o.pc + 1 /\ s.reg = o.reg /\ s.saved = o.saved /\ s.depth = o.depth
  BY <1>1, Fetched
<1>3. Stays(o, s) /\ \A r : Stays(s, r) => Stays(o, r)
  BY <1>1, FetchStays
<1>4. o.pc \in M .. M + 2 /\ M \in Nat /\ TRAP_HANDLER \in Nat /\ TRAP_HANDLER + 4 < M /\ ~o.mmu
  BY ProgramsAssumption DEF InMissHandler
<1>5. /\ o.pc = M => i = "walk"
      /\ o.pc = M + 1 => i = "insert"
      /\ o.pc = M + 2 => i = "eret"
  <2>1. session \in Sessions
    BY DEF EmulatorIInv
  <2>2. \A k \in 0 .. 2 : session.program[M + k] = MissHandler[k + 1]
    BY <2>1, ProgramsAssumption
  <2>3. MissHandler[0 + 1] = "walk" /\ MissHandler[1 + 1] = "insert" /\ MissHandler[2 + 1] = "eret"
    BY DEF MissHandler
  <2>4. M + 0 = M
    BY <1>4
  <2> HIDE DEF M
  <2> QED
    BY <2>2, <2>3, <2>4
<1>6. s.reg \in Nat /\ s.saved[1].scratch \in Nat
  <2>1. s.saved \in Seq(Slots) /\ s.reg \in Nat
    BY <1>2, StateTypes, Zenon
  <2>2. Len(s.saved) \in {1, 2}
    BY <1>1, <1>2, Zenon
  <2>3. s.saved[1] \in Slots
    BY <2>1, <2>2
  <2> QED
    BY <2>1, <2>3 DEF Slots
<1> HIDE DEF o, i, M
<1>7. InMissHandler(o) /\ o = thread[t] /\ Instruction(t, s, i) /\ ~InHandler(o)
  BY <1>4 DEF o, i, InHandler
<1>8. ASSUME NEW r, Stays(o, r), r.pc = s.pc, o.pc # M + 2,
             Value(r.pc, r.reg, r.saved[1].scratch) = Value(o.pc, o.reg, o.saved[1].scratch)
      PROVE  Sound(r, counter) /\ \A lines : Served(r, lines)
  <2>1. o.pc \in M .. M + 1
    BY <1>4, <1>8
  <2>2. r.pc = o.pc + 1 /\ o.depth # 0
    BY <1>1, <1>2, <1>8
  <2> QED
    BY <1>0, <1>7, <1>8, <2>1, <2>2, HandlerGoesOn DEF o, M
<1>9. ASSUME UNCHANGED <<tlb, next_way>> PROVE TlbOK'
  <2>1. Entries' = Entries
    BY DEF Entries, asid
  <2> QED
    BY <1>0, <1>9, <2>1 DEF TlbOK
<1>10. CASE o.pc = M
  <2> DEFINE r == [s EXCEPT !.saved[1].scratch = s.reg, !.reg = 8]
  <2>1. Becomes(t, r) /\ UNCHANGED <<tlb, next_way, counter, stored>>
    BY <1>5, <1>7, <1>10 DEF Instruction, Keeps, cpuVars
  <2>2. Stays(s, r) /\ r.pc = s.pc /\ r.saved[1].scratch = s.reg
    <3>1. Len(s.saved) \in {1, 2} /\ 8 \in Nat
      BY <1>1, <1>2
    <3> QED
      BY <1>2, <3>1, Scratches, Zenon
  <2> HIDE DEF r
  <2>3. r.pc \in Scratched /\ o.pc \notin Scratched /\ o.pc # M + 2
    BY <1>2, <1>4, <1>10, <2>2 DEF Scratched, M
  <2>4. Value(r.pc, r.reg, r.saved[1].scratch) = Value(o.pc, o.reg, o.saved[1].scratch)
    BY <1>2, <2>2, <2>3 DEF Value
  <2>5. Sound(r, counter) /\ Served(r, levels)
    BY <1>3, <1>8, <2>2, <2>3, <2>4
  <2> QED
    BY <1>9, <2>1, <2>5, HandlerBecomes
<1>11. CASE o.pc = M + 1
  <2> DEFINE g == s.saved[1].scratch
             r == [s EXCEPT !.reg = g]
             b == s.saved[1].buffer
             page == s.saved[1].address
  <2>1. /\ Becomes(t, r) /\ UNCHANGED <<counter, stored>>
        /\ tlb' = Inserted(t, b, page, PageFlags[page])
        /\ next_way' = [next_way EXCEPT ![b] = (@ + 1) % TLB_WAYS]
    BY <1>5, <1>7, <1>11 DEF Instruction
  <2>2. b \in Buffers /\ page \in Pages
    <3>1. Missed(s.saved[1])
      BY <1>1, <1>2, Zenon
    <3>2. Named \subseteq Pages
      BY EmulatorAssumption DEF Named
    <3> QED
      BY <3>1, <3>2, Zenon DEF Missed
  <2>3. TlbOK'
    <3> HIDE DEF b, page
    <3> QED
      BY <1>0, <2>1, <2>2, InsertKeepsTlb, Zenon
  <2>4. g \in Nat /\ {} \in SUBSET Interrupts
    BY <1>6
  <2> HIDE DEF g
  <2>5. Stays(s, r) /\ r.pc = s.pc /\ r.reg = g /\ r.saved = s.saved
    BY <1>2, <1>6, <2>4, RegisterStays
  <2> HIDE DEF r
  <2>6. s.pc \notin Scratched /\ o.pc \in Scratched /\ o.pc # M + 2
    BY <1>2, <1>4, <1>11 DEF Scratched, M
  <2>7. Value(r.pc, r.reg, r.saved[1].scratch) = Value(o.pc, o.reg, o.saved[1].scratch)
    BY <1>2, <2>5, <2>6 DEF Value, g
  <2>8. Sound(r, counter) /\ Served(r, levels)
    BY <1>3, <1>8, <2>5, <2>6, <2>7
  <2> QED
    BY <2>1, <2>3, <2>8, HandlerBecomes
<1>12. CASE o.pc = M + 2
  <2> DEFINE to == Head(s.saved)
             r == [s EXCEPT !.ie = to.ie, !.mmu = to.mmu, !.pc = to.pc, !.subcycle = to.subcycle,
                            !.sup = to.sup, !.saved = Tail(@), !.depth = @ - 1]
  <2>1. Becomes(t, Pending(r)) /\ UNCHANGED <<tlb, next_way, counter, stored>>
    BY <1>5, <1>7, <1>12 DEF Instruction, Eret, Keeps, cpuVars
  <2>2. o.pc \notin Scratched /\ o.depth # 0
    BY <1>1, <1>4, <1>12 DEF Scratched, M
  <2>3. Sound(r, counter)
    BY <1>0, <2>2, Returns DEF o
  <2> HIDE DEF r
  <2>4. Sound(Pending(r), counter) /\ Served(Pending(r), levels)
    BY <2>3, Dispatches DEF Pending
  <2> QED
    BY <1>9, <2>1, <2>4, HandlerBecomes
<1>13. o.pc \in {M, M + 1, M + 2}
  BY <1>4
<1> QED
  BY <1>10, <1>11, <1>12, <1>13

-----------------------------------------------------------------------------
LEMMA ThreadsKeptOK ==
    ASSUME ThreadsKept, session' = session PROVE ThreadsOK'
<1>1. ASSUME NEW t \in Threads PROVE (Sound(thread[t], counter) /\ Served(thread[t], levels))'
  <2>1. Sound(thread'[t], counter') /\ Served(thread'[t], levels')
    BY DEF ThreadsKept
  <2> QED
    BY <2>1, session' = session DEF Sound, Levelled, InProgram, Served
<1> QED
  BY <1>1 DEF ThreadsOK, ThreadsKept

\* A turn of a thread, or a single step of the debugger.
LEMMA ExecuteKeeps ==
    ASSUME EmulatorIInv, NEW t \in Threads, NEW single \in BOOLEAN, execute_instruction(t, single),
           session' = session
    PROVE  EmulatorIInv'
<1> DEFINE o == thread[t]
           s == [o EXCEPT !.pc = @ + 1]
           fetch == translate_address(t, "i", CodePage(o.pc), FALSE)
<1>0. /\ session \in Sessions /\ TlbOK /\ ThreadsOK /\ Sound(o, counter) /\ o \in ThreadStates
      /\ counter \in Nat /\ counter = stored
  BY DEF EmulatorIInv, ThreadsOK, Sound
<1>1. Starts(o) \/ InProgram(o) \/ InHandler(o) \/ InMissHandler(o)
  BY <1>0 DEF Sound, Levelled
<1>2. ASSUME UNCHANGED <<tlb, next_way>> PROVE TlbOK'
  <2>1. Entries' = Entries
    BY DEF Entries, asid
  <2> QED
    BY <1>0, <1>2, <2>1 DEF TlbOK
<1>3. ASSUME ThreadsKept, TlbOK', counter' \in Nat, counter' = stored' PROVE EmulatorIInv'
  BY <1>0, <1>3, ThreadsKeptOK DEF EmulatorIInv
<1>4. CASE fetch # "ok"
  <2>1. Traps(t, s, fetch, CodePage(o.pc), "i")
    BY <1>4 DEF execute_instruction
  <2>2. CodePage(o.pc) \in Named /\ "i" \in Buffers
    BY DEF CodePage, Named, Buffers
  <2>3. fetch \in Causes \ {"interrupt", "syscall"} /\ o.mmu
    BY <1>0, <1>4, <2>2, Translates
  <2>4. InProgram(o) \/ InHandler(o)
    BY <1>1, <2>3 DEF Starts, InMissHandler
  <2>5. InHandler(o) => fetch = "tlb_miss"
    <3>1. ASSUME InHandler(o) PROVE fetch = "tlb_miss"
      <4>1. o.pc \in TRAP_HANDLER .. TRAP_HANDLER + 4 /\ TRAP_HANDLER \in Nat /\ o.mmu /\ o.sup
        BY <3>1, ProgramsAssumption DEF InHandler
      <4>2. CodePage(o.pc) = "kernel"
        BY <4>1 DEF CodePage
      <4>3. "present" \in PageFlags[CodePage(o.pc)] /\ "executable" \in PageFlags[CodePage(o.pc)]
        BY <4>2, ProgramsAssumption
      <4>4. fetch \in {"ok", "tlb_miss"}
        BY <1>0, <2>2, <4>1, <4>3, Translates
      <4> QED
        BY <1>4, <4>4
    <3> QED
      BY <3>1
  <2>6. thread[t].depth = 0 => InProgram(thread[t])
    <3>1. InHandler(o) => o.depth = 1
      BY <1>0, Handling
    <3> QED
      BY <2>4, <3>1
  <2> HIDE DEF fetch, s
  <2>7. s = [thread[t] EXCEPT !.pc = @ + 1]
    BY DEF s
  <2>8. /\ thread' \in [Threads -> ThreadStates]
        /\ \A u \in Threads : Sound(thread'[u], counter) /\ Served(thread'[u], levels')
    BY <1>0, <2>1, <2>2, <2>3, <2>4, <2>5, <2>6, <2>7, TrapsSound
  <2>9. UNCHANGED <<tlb, next_way, counter, stored>>
    BY <2>1 DEF Traps
  <2> QED
    BY <1>0, <1>2, <1>3, <2>8, <2>9 DEF ThreadsKept
<1>5. CASE UNCHANGED <<thread, timer, levels, cpuVars>>
  <2>1. UNCHANGED <<thread, levels, tlb, next_way, counter, stored>>
    BY <1>5 DEF cpuVars
  <2>2. ThreadsKept
    BY <1>0, <2>1 DEF ThreadsKept, ThreadsOK
  <2> QED
    BY <1>0, <1>2, <1>3, <2>1, <2>2
<1>6. CASE Instruction(t, s, session.program[o.pc])
  <2> HIDE DEF s
  <2>0. s = [thread[t] EXCEPT !.pc = @ + 1]
    BY DEF s
  <2>1. CASE Starts(o)
    <3>1. ThreadsKept /\ UNCHANGED <<tlb, next_way, counter, stored>>
      BY <1>6, <2>0, <2>1, StartSteps
    <3> QED
      BY <1>0, <1>2, <1>3, <3>1
  <2>2. CASE InProgram(o)
    BY <1>2, <1>3, <1>6, <2>0, <2>2, ProgramSteps DEF ProgramKeeps
  <2>3. CASE InHandler(o)
    BY <1>2, <1>3, <1>6, <2>0, <2>3, HandlerSteps DEF ProgramKeeps
  <2>4. CASE InMissHandler(o)
    BY <1>3, <1>6, <2>0, <2>4, MissHandlerSteps
  <2> QED
    BY <1>1, <2>1, <2>2, <2>3, <2>4
<1> QED
  BY <1>4, <1>5, <1>6 DEF execute_instruction

\* A character comes in.
LEMMA SerialKeeps == EmulatorIInv /\ enqueue_serial_char => EmulatorIInv'
<1> SUFFICES ASSUME EmulatorIInv, enqueue_serial_char PROVE EmulatorIInv'
  OBVIOUS
<1>0. /\ session \in Sessions /\ TlbOK /\ ThreadsOK /\ counter \in Nat /\ counter = stored
      /\ thread \in [Threads -> ThreadStates]
  BY DEF EmulatorIInv, ThreadsOK
<1>1. /\ UNCHANGED <<session, tlb, next_way, counter, stored>>
      /\ thread' = Latched(thread, levels, "uart") /\ levels' = levels \cup {"uart"}
  BY DEF enqueue_serial_char
<1>2. ASSUME NEW u \in Threads
      PROVE  Sound(thread'[u], counter') /\ Served(thread'[u], levels')
  <2> DEFINE s == [thread[u] EXCEPT !.latched = @ \cup {"uart"}]
  <2>1. Sound(s, counter)
    BY <1>0, Latches DEF Interrupts, ThreadsOK
  <2>2. thread'[u] = try_to_dispatch_interrupt(s, levels \cup {"uart"})
    BY <1>1 DEF Latched
  <2> HIDE DEF s
  <2> QED
    BY <1>1, <2>1, <2>2, Dispatches
<1>3. thread' \in [Threads -> ThreadStates]
  <2>1. \A u \in Threads : thread'[u] \in ThreadStates
    BY <1>2 DEF Sound
  <2> QED
    BY <1>1, <2>1 DEF Latched
<1>4. ThreadsOK'
  BY <1>1, <1>2, <1>3, ThreadsKeptOK DEF ThreadsKept
<1>5. TlbOK'
  <2>1. Entries' = Entries
    BY <1>1 DEF Entries, asid
  <2> QED
    BY <1>0, <1>1, <2>1 DEF TlbOK
<1> QED
  BY <1>0, <1>1, <1>4, <1>5 DEF EmulatorIInv

\* The debugger's other commands, and a step in which nothing happens.
LEMMA DebuggerKeeps ==
    ASSUME EmulatorIInv, UNCHANGED <<session, thread, levels, tlb, next_way, counter, stored>>
    PROVE  EmulatorIInv'
<1>1. /\ session \in Sessions /\ TlbOK /\ ThreadsOK /\ counter \in Nat /\ counter = stored
  BY DEF EmulatorIInv
<1>2. ThreadsOK'
  BY <1>1, ThreadsKeptOK DEF ThreadsKept, ThreadsOK
<1>3. TlbOK'
  <2>1. Entries' = Entries
    BY DEF Entries, asid
  <2> QED
    BY <1>1, <2>1 DEF TlbOK
<1> QED
  BY <1>1, <1>2, <1>3 DEF EmulatorIInv

LEMMA EmulatorInitIInv == EmulatorInit => EmulatorIInv
<1> SUFFICES ASSUME EmulatorInit PROVE EmulatorIInv
  OBVIOUS
<1> DEFINE s == [pc |-> 1, subcycle |-> 0, ie |-> FALSE, mmu |-> FALSE, sup |-> TRUE, mask |-> {},
                 latched |-> {}, sync |-> FALSE, reg |-> 0, saved |-> << >>,
                 next |-> <<1, 0>>, depth |-> 0]
<1>1. /\ session \in Sessions /\ counter = 0 /\ stored = 0
      /\ thread = [t \in Threads |-> s]
      /\ tlb = [b \in Buffers |-> [w \in 0 .. TLB_WAYS - 1 |-> NoEntry]]
      /\ next_way = [b \in Buffers |-> 0]
  BY DEF EmulatorInit, Buffers
<1>2. s \in ThreadStates
  BY DEF ThreadStates
<1>3. Sound(s, 0)
  <2>1. Levelled(s) /\ ~s.sync
    BY DEF Levelled, Starts
  <2> HIDE DEF s
  <2> QED
    BY <1>2, <2>1 DEF Sound
<1>4. ~s.ie
  OBVIOUS
<1> HIDE DEF s
<1>5. ThreadsOK
  BY <1>1, <1>2, <1>3, <1>4 DEF ThreadsOK, Served
<1>6. TlbOK
  <2>1. NoEntry \in Entries /\ NoEntry.page = "none" /\ "none" \notin Pages
    BY EmulatorAssumption DEF NoEntry, Entries
  <2>2. 0 \in 0 .. TLB_WAYS - 1
    BY EmulatorAssumption
  <2> QED
    BY <1>1, <2>1, <2>2 DEF TlbOK
<1> QED
  BY <1>1, <1>5, <1>6 DEF EmulatorIInv

LEMMA EmulatorNextIInv == EmulatorIInv /\ [EmulatorNext]_emulatorVars => EmulatorIInv'
<1> SUFFICES ASSUME EmulatorIInv, [EmulatorNext]_emulatorVars PROVE EmulatorIInv'
  OBVIOUS
<1>1. ASSUME NEW t \in Threads, Run(t) PROVE EmulatorIInv'
  BY <1>1, ExecuteKeeps DEF Run
<1>2. ASSUME NEW t \in Threads, dbg_single_step(t) PROVE EmulatorIInv'
  BY <1>2, ExecuteKeeps DEF dbg_single_step
<1>3. CASE Halt \/ Continue \/ Stop
  BY <1>3, DebuggerKeeps DEF Halt, Continue, Stop, cpuVars
<1>4. ASSUME NEW a \in Breakable, dbg_set_breakpoint(a) \/ dbg_clear_breakpoint(a)
      PROVE  EmulatorIInv'
  BY <1>4, DebuggerKeeps DEF dbg_set_breakpoint, dbg_clear_breakpoint, cpuVars
<1>5. CASE enqueue_serial_char
  BY <1>5, SerialKeeps
<1>6. CASE UNCHANGED emulatorVars
  BY <1>6, DebuggerKeeps DEF emulatorVars, cpuVars
<1> QED
  BY <1>1, <1>2, <1>3, <1>4, <1>5, <1>6 DEF EmulatorNext

-----------------------------------------------------------------------------
\* The inductive invariant holds, whatever the programs, the devices and the
\* debugger do.
THEOREM EmulatorInvariance == EmulatorSpec => []EmulatorIInv
BY EmulatorInitIInv, EmulatorNextIInv, PTL DEF EmulatorSpec

\* A program goes on exactly where it was interrupted (raise_trap, Eret): the
\* saved states are as many as the traps taken, and the oldest has the pc and
\* the lane of the instruction that is due.
THEOREM ProgramsResume == EmulatorSpec => []ResumesExactly
<1>1. EmulatorIInv => ResumesExactly
  <2> SUFFICES ASSUME EmulatorIInv, NEW t \in Threads
               PROVE  LET s == thread[t]
                          bottom == IF s.saved = << >> THEN s ELSE s.saved[Len(s.saved)]
                      IN  Len(s.saved) = s.depth /\ <<bottom.pc, bottom.subcycle>> = s.next
    BY DEF ResumesExactly
  <2> DEFINE s == thread[t]
  <2>1. s.saved \in Seq(Slots) /\ Levelled(s)
    BY DEF EmulatorIInv, ThreadsOK, Sound, ThreadStates
  <2> HIDE DEF s
  <2>2. s.saved = << >> <=> Len(s.saved) = 0
    BY <2>1
  <2>3. CASE s.depth = 0
    BY <2>1, <2>2, <2>3 DEF Levelled, s
  <2>4. CASE s.depth # 0
    BY <2>1, <2>2, <2>4 DEF Levelled, s
  <2> QED
    BY <2>3, <2>4
<1> QED
  BY <1>1, EmulatorInvariance, PTL

\* No thread runs with an interrupt enabled, unmasked and pending
\* (try_to_dispatch_interrupt): one latched while interrupts were off is taken
\* when CR_FLAGS or a return turns them on.
THEOREM InterruptsAreDispatched == EmulatorSpec => []InterruptsDispatched
<1>1. EmulatorIInv => InterruptsDispatched
  BY DEF EmulatorIInv, ThreadsOK, Served, InterruptsDispatched
<1> QED
  BY <1>1, EmulatorInvariance, PTL

\* No increment made with a synchronized load and store is lost
\* (invalidate_sync_address), though handlers use the program's register.
THEOREM IncrementsAreCounted == EmulatorSpec => []IncrementsCounted
<1>1. EmulatorIInv => IncrementsCounted
  BY DEF EmulatorIInv, IncrementsCounted
<1> QED
  BY <1>1, EmulatorInvariance, PTL

\* No address has two translations in a TLB (CC_DTLB_INSERT, CC_ITLB_INSERT).
THEOREM TranslationsUnambiguous == EmulatorSpec => []TlbUnambiguous
<1>1. EmulatorIInv => TlbUnambiguous
  <2> SUFFICES ASSUME EmulatorIInv, NEW b \in Buffers, NEW p \in Pages, NEW t \in Threads
               PROVE  Cardinality(Ways(b, p, asid(t))) <= 1
    BY DEF TlbUnambiguous, Buffers
  <2> DEFINE W == Ways(b, p, asid(t))
  <2>1. W \subseteq 0 .. TLB_WAYS - 1
    BY DEF EmulatorIInv, TlbOK, Ways
  <2>2. ASSUME NEW v \in W, NEW w \in W PROVE v = w
    <3>1. v \in 0 .. TLB_WAYS - 1 /\ w \in 0 .. TLB_WAYS - 1
      BY <2>1, <2>2
    <3>2. /\ tlb[b][v].page = p /\ ("global" \in tlb[b][v].flags \/ tlb[b][v].asid = asid(t))
          /\ tlb[b][w].page = p /\ ("global" \in tlb[b][w].flags \/ tlb[b][w].asid = asid(t))
      BY <2>2 DEF Ways, Matches
    <3>3. tlb[b][v].flags = PageFlags[p] /\ tlb[b][w].flags = PageFlags[p]
      BY <3>1, <3>2 DEF EmulatorIInv, TlbOK
    <3>4. v # w => "global" \notin tlb[b][v].flags /\ tlb[b][v].asid # tlb[b][w].asid
      BY <3>1, <3>2 DEF EmulatorIInv, TlbOK
    <3> QED
      BY <3>2, <3>3, <3>4
  <2> HIDE DEF W
  <2>3. CASE W = {}
    <3>1. Cardinality(W) = 0
      BY <2>3, FS_EmptySet
    <3> QED
      BY <3>1 DEF W
  <2>4. ASSUME NEW v \in W PROVE Cardinality(W) <= 1
    <3>1. W = {v}
      BY <2>2, <2>4
    <3>2. Cardinality({v}) = 1
      BY FS_Singleton
    <3> QED
      BY <3>1, <3>2
  <2> QED
    BY <2>3, <2>4 DEF W
<1> QED
  BY <1>1, EmulatorInvariance, PTL

=============================================================================
