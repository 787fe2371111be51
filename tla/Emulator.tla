------------------------------ MODULE Emulator ------------------------------
(***************************************************************************)
(* The instruction set emulator (tools/emulator): hardware threads of one  *)
(* core that share memory, translation buffers, interrupt lines and a      *)
(* timer, run one instruction at a time in any order (the -a option; round *)
(* robin is one such order), under the control of a debugger.  What is     *)
(* modelled is what an instruction does to the control state: traps and    *)
(* their two levels of saved state, interrupts, synchronized accesses,     *)
(* translation, breakpoints.  Arithmetic is left out.  A program counter   *)
(* counts instructions, not bytes.                                         *)
(***************************************************************************)
EXTENDS Integers, Sequences, FiniteSets, FiniteSetsExt, Functions, TLC

CONSTANTS
    NUM_THREADS,       \* threads per core
    NUM_VECTOR_LANES,  \* steps of a gather, 16 in the code
    TRAP_LEVELS,       \* 2 in the code
    TLB_WAYS,          \* 4 in the code; one set is modelled
    Sessions,          \* what is run: records [program, masks, asids, count, stop_on_fault,
                       \* chars, commands], with a function from addresses to
                       \* instructions, what each thread writes to CR_INTERRUPT_ENABLE
                       \* and CR_CURRENT_ASID and to REG_TIMER_INT, and bounds on the
                       \* characters that come in and on the debugger's commands other
                       \* than continue
    TRAP_HANDLER, TLB_MISS_HANDLER,   \* addresses
    PageFlags,         \* the page table: page -> set of flags
    LevelTriggered,    \* interrupts for which CR_INTERRUPT_TRIGGER is set
    SERIAL_BUFFER_SIZE,
    Breakable          \* addresses at which the debugger sets breakpoints

Threads == 0 .. NUM_THREADS - 1
Pages == DOMAIN PageFlags
Interrupts == {"timer", "uart"}

ASSUME EmulatorAssumption ==
    /\ {NUM_THREADS, NUM_VECTOR_LANES, TLB_WAYS, SERIAL_BUFFER_SIZE} \subseteq Nat \ {0}
    /\ \A x \in Sessions : {x.count, x.chars, x.commands} \subseteq Nat /\ x.stop_on_fault \in BOOLEAN
    /\ TRAP_LEVELS \in Nat /\ TRAP_LEVELS >= 2
    /\ {"user", "kernel", "data", "stack"} \subseteq Pages /\ "none" \notin Pages
    /\ LevelTriggered \subseteq Interrupts

\* What is run: three instructions to start with, a program that stays in its
\* own code, and the two handlers.  The handlers have their code and the stack
\* mapped.
UserCode(x) == {a \in DOMAIN x.program : a \in 4 .. TRAP_HANDLER - 1}
Handler == << "save", "push", "serve", "restore", "eret" >>
MissHandler == << "walk", "insert", "eret" >>

ASSUME ProgramsAssumption ==
    /\ {TRAP_HANDLER, TLB_MISS_HANDLER} \subseteq Nat
    /\ 4 < TRAP_HANDLER /\ TRAP_HANDLER + 4 < TLB_MISS_HANDLER
    /\ {"present", "executable"} \subseteq PageFlags["kernel"]
    /\ {"present", "write_enable"} \subseteq PageFlags["stack"]
    /\ \A x \in Sessions :
          /\ x.program[1] = "mask" /\ x.program[2] = "resume" /\ x.program[3] = "flags"
          /\ \A k \in 0 .. 4 : x.program[TRAP_HANDLER + k] = Handler[k + 1]
          /\ \A k \in 0 .. 2 : x.program[TLB_MISS_HANDLER + k] = MissHandler[k + 1]
          /\ \A t \in Threads : x.masks[t] \subseteq Interrupts
          /\ 4 \in UserCode(x)
          /\ \A a \in UserCode(x) :
                \/ x.program[a] \in {"timer", "gather", "load_sync", "store_sync"} /\ a + 1 \in UserCode(x)
                \/ x.program[a] = "retry" /\ {a - 2, a + 1} \subseteq UserCode(x)
                \/ x.program[a] = "load_kernel" /\ "supervisor" \in PageFlags["stack"]
                \/ x.program[a] = "syscall"

VARIABLES
    session,
    thread,                          \* struct thread, for each
    tlb, next_way,                   \* for "i" and "d"
    counter,                         \* the word the synchronized accesses are to
    enabled,                         \* thread_enable_mask
    timer, levels, serial,           \* devices
    crashed, running,
    breakpoints,                     \* address -> restart
    received, commands,              \* bounded
    stored                           \* history: successful synchronized stores

cpuVars == <<tlb, next_way, counter, enabled, serial, crashed, stored>>
debugVars == <<running, breakpoints, commands>>
emulatorVars == <<session, thread, timer, levels, received, cpuVars, debugVars>>

NoEntry == [page |-> "none", asid |-> 0, flags |-> {}]
\* init_processor: only thread 0 runs, in supervisor mode.  "next" and "depth"
\* are history: the step of the program that is due, and the traps taken.
EmulatorInit ==
    /\ session \in Sessions
    /\ thread = [t \in Threads |->
                   [pc |-> 1, subcycle |-> 0, ie |-> FALSE, mmu |-> FALSE, sup |-> TRUE, mask |-> {},
                    latched |-> {}, sync |-> FALSE, reg |-> 0, saved |-> << >>,
                    next |-> <<1, 0>>, depth |-> 0]]
    /\ tlb = [b \in {"i", "d"} |-> [w \in 0 .. TLB_WAYS - 1 |-> NoEntry]]
    /\ next_way = [b \in {"i", "d"} |-> 0]
    /\ counter = 0 /\ enabled = {0}
    /\ timer = 0 /\ levels = {} /\ serial = 0
    /\ crashed = FALSE /\ running = FALSE
    /\ breakpoints = << >> /\ received = 0 /\ commands = 0
    /\ stored = 0

-----------------------------------------------------------------------------
(***************************************************************************)
(* Traps and interrupts.  An operator takes a thread's state and returns   *)
(* the state after it.                                                     *)
(***************************************************************************)
\* raise_trap, past the crash: pc is that of the instruction after the one
\* that trapped, except in the middle of a gather.
SavedPc_previous(s, cause) == s.pc - 1                                  \* mutant
SavedPc(s, cause) == IF s.subcycle # 0 /\ cause = "interrupt" THEN s.pc ELSE s.pc - 1

\* saved_trap_state: the newest first, and no more than there is room for.
\* What a return leaves in the slots is not read again.
Levels(saved) == SubSeq(saved, 1, Min({Len(saved), TRAP_LEVELS}))

raise_trap(s, cause, address, buffer) ==
    [s EXCEPT
        !.saved = Levels(<< [cause |-> cause, buffer |-> buffer, pc |-> SavedPc(s, cause),
                             subcycle |-> s.subcycle, ie |-> s.ie, mmu |-> s.mmu, sup |-> s.sup,
                             address |-> address, scratch |-> 0] >> \o @),
        !.ie = FALSE,
        !.mmu = @ /\ cause # "tlb_miss",
        !.pc = IF cause = "tlb_miss" THEN TLB_MISS_HANDLER ELSE TRAP_HANDLER,
        !.subcycle = 0, !.sup = TRUE, !.depth = @ + 1]

get_pending_interrupts(s, lines) == (LevelTriggered \cap lines) \cup (s.latched \ LevelTriggered)

try_to_dispatch_interrupt(s, lines) ==
    IF s.ie /\ get_pending_interrupts(s, lines) \cap s.mask # {}
    THEN raise_trap([s EXCEPT !.pc = IF s.subcycle = 0 THEN @ + 1 ELSE @], "interrupt", "none", "none")
    ELSE s

\* raise_interrupt, on all threads.
Latched(threads, lines, i) ==
    [t \in Threads |-> try_to_dispatch_interrupt([threads[t] EXCEPT !.latched = @ \cup {i}], lines \cup {i})]

\* Every instruction ends with timer_tick.
Ticks(threads, lines, ticks) ==
    /\ timer' = IF ticks > 0 THEN ticks - 1 ELSE 0
    /\ levels' = IF ticks = 1 THEN lines \cup {"timer"} ELSE lines
    /\ thread' = IF ticks = 1 THEN Latched(threads, lines, "timer") ELSE threads

Becomes(t, s) == Ticks([thread EXCEPT ![t] = s], levels, timer)

-----------------------------------------------------------------------------
(***************************************************************************)
(* Translation.  Threads have address spaces of their own.                 *)
(***************************************************************************)
asid(t) == session.asids[t]
Matches(e, page, id) == e.page = page /\ ("global" \in e.flags \/ e.asid = id)
Ways(b, page, id) == {w \in DOMAIN tlb[b] : Matches(tlb[b][w], page, id)}

\* translate_address returns "ok" or the trap to raise.
translate_address(t, b, page, store) ==
    LET s == thread[t]
        ways == Ways(b, page, asid(t))
        flags == tlb[b][Min(ways)].flags
    IN  CASE ~s.mmu -> "ok"
          [] s.mmu /\ ways = {} -> "tlb_miss"
          [] s.mmu /\ ways # {} ->
               IF "present" \notin flags THEN "page_fault"
               ELSE IF "supervisor" \in flags /\ ~s.sup THEN "supervisor_access"
               ELSE IF "executable" \notin flags /\ b = "i" THEN "not_executable"
               ELSE IF store /\ "write_enable" \notin flags THEN "illegal_store"
               ELSE "ok"

\* A trap that stops the emulator, when it was asked to stop on faults.  (It also
\* stops when no trap handler was set; these programs have set theirs.)
Fatal(cause) == session.stop_on_fault /\ cause \notin {"tlb_miss", "interrupt", "syscall"}

Traps(t, s, cause, page, b) ==
    /\ IF Fatal(cause)
       THEN Becomes(t, [s EXCEPT !.pc = @ - 1]) /\ crashed' = TRUE
       ELSE Becomes(t, raise_trap(s, cause, page, b)) /\ UNCHANGED crashed
    /\ UNCHANGED <<tlb, next_way, counter, enabled, serial, stored>>

\* dtlbinsert, itlbinsert: the flags of a page already there are updated.
Replaced_always(t, b, page) == {}                                       \* mutant
Replaced(t, b, page) == Ways(b, page, asid(t))

Inserted(t, b, page, flags) ==
    LET old == Replaced(t, b, page) IN
    IF old # {} THEN [tlb EXCEPT ![b][Min(old)].flags = flags]
                ELSE [tlb EXCEPT ![b][next_way[b]] = [page |-> page, asid |-> asid(t), flags |-> flags]]

-----------------------------------------------------------------------------
(***************************************************************************)
(* Instructions; s is the thread's state with pc at the next one.          *)
(***************************************************************************)
\* The program is outside of any trap: its next step is the one that is due.
Stepped(s) == IF s.depth = 0 THEN [s EXCEPT !.next = <<s.pc, s.subcycle>>] ELSE s
Keeps == UNCHANGED cpuVars

Set(t, s) == Becomes(t, Stepped(s))

\* A load or a store to a page is done, or it traps.
Allowed(t, page, store) == translate_address(t, "d", page, store) = "ok"
Refused(t, s, page, store) ==
    ~Allowed(t, page, store) /\ Traps(t, s, translate_address(t, "d", page, store), page, "d")

Access(t, s, page, store) ==
    Refused(t, s, page, store) \/ (Allowed(t, page, store) /\ Set(t, s) /\ Keeps)

\* execute_scatter_gather_inst: one lane.
Gather(t, s) ==
    LET last == s.subcycle + 1 = NUM_VECTOR_LANES
        after == [s EXCEPT !.subcycle = IF last THEN 0 ELSE @ + 1, !.pc = IF last THEN @ ELSE @ - 1]
    IN  Refused(t, s, "data", FALSE) \/ (Allowed(t, "data", FALSE) /\ Set(t, after) /\ Keeps)

LoadSync(t, s) ==
    \/ Refused(t, s, "data", FALSE)
    \/ Allowed(t, "data", FALSE) /\ Set(t, [s EXCEPT !.sync = TRUE, !.reg = counter]) /\ Keeps

\* invalidate_sync_address
Invalidated_own(threads, t) == [threads EXCEPT ![t].sync = FALSE]       \* mutant
Invalidated(threads, t) == [u \in Threads |-> [threads[u] EXCEPT !.sync = FALSE]]

\* Stores the loaded value plus one; the register tells whether it did.
StoreSync(t, s) ==
    \/ Refused(t, s, "data", TRUE)
    \/ Allowed(t, "data", TRUE) /\ ~s.sync /\ Set(t, [s EXCEPT !.reg = 0]) /\ Keeps
    \/ /\ Allowed(t, "data", TRUE) /\ s.sync
       /\ Ticks(Invalidated([thread EXCEPT ![t] = Stepped([s EXCEPT !.reg = 1])], t), levels, timer)
       /\ counter' = s.reg + 1 /\ stored' = stored + 1
       /\ UNCHANGED <<tlb, next_way, enabled, serial, crashed>>

\* write_control_register, CR_FLAGS: enter the program.
WriteFlags(t, s) ==
    /\ Becomes(t, try_to_dispatch_interrupt(
                      Stepped([s EXCEPT !.ie = TRUE, !.mmu = TRUE, !.sup = FALSE]), levels))
    /\ Keeps

\* execute_branch_inst, BRANCH_ERET.
Pending_ignored(s) == s                                                 \* mutant
Pending(s) == try_to_dispatch_interrupt(s, levels)

Eret(t, s) ==
    LET to == Head(s.saved)
        r == [s EXCEPT !.ie = to.ie, !.mmu = to.mmu, !.pc = to.pc, !.subcycle = to.subcycle,
                       !.sup = to.sup, !.saved = Tail(@), !.depth = @ - 1]
    IN  Becomes(t, Pending(r)) /\ Keeps

\* REG_SERIAL_INPUT; the interrupt is cleared when the buffer is empty.
ReadSerial(t, s) ==
    LET left == IF serial > 0 THEN serial - 1 ELSE 0 IN
    /\ serial' = left
    /\ Ticks([thread EXCEPT ![t] = s], IF left = 0 THEN levels \ {"uart"} ELSE levels, timer)
    /\ UNCHANGED <<tlb, next_way, counter, enabled, crashed, stored>>

Enables(t, s, e) == enabled' = e /\ Set(t, s) /\ UNCHANGED <<tlb, next_way, counter, serial, crashed, stored>>

\* The device registers, in "timer" and when the serial port is read in "serve",
\* are taken to be translated: a miss on their page, which is one like that on
\* the stack's in "push", is left out.
Instruction(t, s, i) ==
    \* the start of the program, in supervisor mode
    \/ i = "mask" /\ Set(t, [s EXCEPT !.mask = session.masks[t]]) /\ Keeps
    \/ i = "resume" /\ Enables(t, s, IF t = 0 THEN Threads ELSE enabled)
    \/ i = "flags" /\ WriteFlags(t, s)
    \* the program
    \/ i = "timer" /\ Ticks([thread EXCEPT ![t] = Stepped(s)], levels, session.count) /\ Keeps
    \/ i = "gather" /\ Gather(t, s)
    \/ i = "load_sync" /\ LoadSync(t, s)
    \/ i = "store_sync" /\ StoreSync(t, s)
    \/ i = "retry" /\ Set(t, [s EXCEPT !.pc = IF s.reg = 0 THEN @ - 3 ELSE @]) /\ Keeps
    \/ i = "load_kernel" /\ Access(t, s, "stack", FALSE)
    \/ i = "syscall" /\ Traps(t, s, "syscall", "none", "none")
    \* the trap handler: save a register, use the stack, serve the interrupt or
    \* end the program, restore the register and return
    \/ i = "save" /\ Becomes(t, [s EXCEPT !.saved[1].scratch = s.reg, !.reg = 7]) /\ Keeps
    \/ i = "push" /\ Access(t, s, "stack", TRUE)
    \/ /\ i = "serve"
       /\ \/ s.saved[1].cause # "interrupt" /\ Enables(t, s, enabled \ {t})
          \/ s.saved[1].cause = "interrupt" /\ "timer" \in s.latched
             /\ Becomes(t, [s EXCEPT !.latched = @ \ {"timer"}]) /\ Keeps
          \/ s.saved[1].cause = "interrupt" /\ "timer" \notin s.latched /\ ReadSerial(t, s)
    \/ i = "restore" /\ Becomes(t, [s EXCEPT !.reg = s.saved[1].scratch]) /\ Keeps
    \/ i = "eret" /\ Eret(t, s)
    \* the handler of misses: save a register and read the page table, insert
    \/ i = "walk" /\ Becomes(t, [s EXCEPT !.saved[1].scratch = s.reg, !.reg = 8]) /\ Keeps
    \/ /\ i = "insert"
       /\ LET b == s.saved[1].buffer IN
            /\ tlb' = Inserted(t, b, s.saved[1].address, PageFlags[s.saved[1].address])
            /\ next_way' = [next_way EXCEPT ![b] = (@ + 1) % TLB_WAYS]
       /\ Becomes(t, [s EXCEPT !.reg = s.saved[1].scratch])
       /\ UNCHANGED <<counter, enabled, serial, crashed, stored>>

CodePage(pc) == IF pc < TRAP_HANDLER THEN "user" ELSE "kernel"

SetsRestart_never(b) == FALSE                                           \* mutant
SetsRestart(b) == TRUE

\* execute_instruction.  A breakpoint just hit, or met by a single step, is
\* passed; it belongs to no thread.
execute_instruction(t, single_stepping) ==
    LET pc == thread[t].pc
        s == [thread[t] EXCEPT !.pc = @ + 1]
        fetch == translate_address(t, "i", CodePage(pc), FALSE)
        hit == pc \in DOMAIN breakpoints
    IN  IF fetch # "ok"
        THEN Traps(t, s, fetch, CodePage(pc), "i") /\ UNCHANGED <<running, breakpoints>>
        ELSE IF hit /\ ~breakpoints[pc] /\ ~single_stepping
        THEN /\ breakpoints' = [breakpoints EXCEPT ![pc] = SetsRestart(@)]
             /\ running' = FALSE
             /\ UNCHANGED <<thread, timer, levels, cpuVars>>
        ELSE /\ breakpoints' = IF hit THEN [breakpoints EXCEPT ![pc] = FALSE] ELSE breakpoints
             /\ Instruction(t, s, session.program[pc])
             /\ UNCHANGED running

-----------------------------------------------------------------------------
(***************************************************************************)
(* The main loop of the debugger stub, and the devices.                    *)
(***************************************************************************)
\* A turn of execute_instructions.
Run(t) ==
    /\ running /\ ~crashed /\ t \in enabled
    /\ execute_instruction(t, FALSE)
    /\ UNCHANGED <<session, received, commands>>

\* execute_instructions returns: nothing to run.
Halt ==
    /\ running /\ (crashed \/ enabled = {})
    /\ running' = FALSE
    /\ UNCHANGED <<session, thread, timer, levels, received, cpuVars, breakpoints, commands>>

Continue ==
    /\ ~running
    /\ running' = TRUE
    /\ UNCHANGED <<session, thread, timer, levels, received, cpuVars, breakpoints, commands>>

CommandReceived == commands < session.commands /\ commands' = commands + 1

\* run_until_interrupt ends because the debugger has sent something.
Stop ==
    /\ running /\ CommandReceived
    /\ running' = FALSE
    /\ UNCHANGED <<session, thread, timer, levels, received, cpuVars, breakpoints>>

\* dbg_single_step, of any thread, suspended or not.
dbg_single_step(t) ==
    /\ ~running /\ CommandReceived
    /\ execute_instruction(t, TRUE)
    /\ UNCHANGED <<session, received>>

dbg_set_breakpoint(a) ==
    /\ ~running /\ CommandReceived
    /\ a \notin DOMAIN breakpoints
    /\ breakpoints' = breakpoints @@ (a :> FALSE)
    /\ UNCHANGED <<session, thread, timer, levels, received, cpuVars, running>>

dbg_clear_breakpoint(a) ==
    /\ ~running /\ CommandReceived
    /\ a \in DOMAIN breakpoints
    /\ breakpoints' = Restrict(breakpoints, DOMAIN breakpoints \ {a})
    /\ UNCHANGED <<session, thread, timer, levels, received, cpuVars, running>>

\* poll_inputs and enqueue_serial_char: the oldest character is dropped when
\* the buffer is full.
enqueue_serial_char ==
    /\ running /\ received < session.chars /\ received' = received + 1
    /\ serial' = Min({serial + 1, SERIAL_BUFFER_SIZE - 1})
    /\ levels' = levels \cup {"uart"}
    /\ thread' = Latched(thread, levels, "uart")
    /\ UNCHANGED <<session, timer, tlb, next_way, counter, enabled, crashed, stored, debugVars>>

EmulatorNext ==
    \/ \E t \in Threads : Run(t) \/ dbg_single_step(t)
    \/ Halt \/ Continue \/ Stop
    \/ \E a \in Breakable : dbg_set_breakpoint(a) \/ dbg_clear_breakpoint(a)
    \/ enqueue_serial_char

\* Round robin (next_set_bit) gives every enabled thread its turn, and the user of the
\* debugger goes on.
EmulatorFairness ==
    /\ \A t \in Threads : WF_emulatorVars(Run(t))
    /\ WF_emulatorVars(Continue)
EmulatorSpec == EmulatorInit /\ [][EmulatorNext]_emulatorVars /\ EmulatorFairness

-----------------------------------------------------------------------------
\* A program resumes where it was: whatever interrupts, misses and nested
\* misses came between two of its steps, and whatever the debugger did, the
\* oldest saved state is the step that is due, so that no instruction and no
\* lane of a gather is skipped or done twice (raise_trap, BRANCH_ERET,
\* execute_scatter_gather_inst).
ResumesExactly ==
    \A t \in Threads :
        LET s == thread[t]
            bottom == IF s.saved = << >> THEN s ELSE s.saved[Len(s.saved)]
        IN  Len(s.saved) = s.depth /\ <<bottom.pc, bottom.subcycle>> = s.next

\* No thread runs with an interrupt enabled, unmasked and pending: one that was
\* latched while interrupts were off is taken when they are turned on again,
\* by CR_FLAGS or by a return, and one that another thread has served is not.
InterruptsDispatched ==
    \A t \in Threads : LET s == thread[t] IN ~(s.ie /\ get_pending_interrupts(s, levels) \cap s.mask # {})

\* A synchronized store succeeds only if nobody has stored since the load:
\* increments are never lost, though traps save, use and restore the register
\* that holds the loaded value (last_sync_load_addr, scratchpads).
IncrementsCounted == counter = stored

\* Threads that miss on the same page at the same time leave one entry for it
\* (CC_DTLB_INSERT, CC_ITLB_INSERT): no address has two translations.
TlbUnambiguous ==
    \A b \in {"i", "d"}, p \in Pages, t \in Threads : Cardinality(Ways(b, p, asid(t))) <= 1

=============================================================================
