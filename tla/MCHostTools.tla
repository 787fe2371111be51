---------------------------- MODULE MCHostTools ----------------------------
(***************************************************************************)
(* The tools on the host for TLC, side by side: the emulator with two      *)
(* threads, and the serial boot loader with its line.  A behaviour is one  *)
(* of either.                                                              *)
(***************************************************************************)
EXTENDS Emulator, SerialBoot

VARIABLE part

vars == <<part, emulatorVars, serialVars>>

-----------------------------------------------------------------------------
\* Programs.  The handlers are at 21 and 31.
HandlerAt == 21
MissHandlerAt == 31
Handlers ==
    [a \in 21 .. 25 |-> << "save", "push", "serve", "restore", "eret" >>[a - 20]]
        @@ [a \in 31 .. 33 |-> << "walk", "insert", "eret" >>[a - 30]]
Increments ==
    << "mask", "resume", "flags", "timer", "load_sync", "store_sync", "retry", "syscall" >> @@ Handlers
Gathers == << "mask", "resume", "flags", "timer", "gather", "load_kernel" >> @@ Handlers

Flags == [user |-> {"present", "executable"},
          kernel |-> {"present", "executable", "supervisor", "global"},
          data |-> {"present", "write_enable"},
          stack |-> {"present", "write_enable", "supervisor", "global"}]

Each(x) == [t \in Threads |-> x]
Session(code, stop, inputs, debugging) ==
    [program |-> code, masks |-> [Each({}) EXCEPT ![0] = Interrupts], asids |-> Each(1), count |-> 4,
     stop_on_fault |-> stop, chars |-> inputs, commands |-> debugging]

\* Interrupts of both kinds; a debugger, and no timer; faults, fatal or not; address spaces
\* of their own, so that entries are replaced; interrupts on both threads.
TheSessions ==
    { Session(Increments, FALSE, 1, 0), [Session(Increments, FALSE, 0, 2) EXCEPT !.count = 0],
      Session(Gathers, TRUE, 1, 0), Session(Gathers, FALSE, 0, 0),
      [Session(Increments, FALSE, 0, 0) EXCEPT !.asids = [t \in Threads |-> t]],
      [Session(Increments, FALSE, 0, 0) EXCEPT !.masks = Each({"timer"})] }

\* Two segments; the second block of the first is zeros, and two bytes of data
\* have the values of the commands that load memory and start the program.
TheSegments ==
    << [address |-> 1, data |-> << 5, LOAD_MEMORY_REQ, 0 >>],
       [address |-> 5, data |-> << EXECUTE_REQ >>] >>

-----------------------------------------------------------------------------
Init ==
    /\ part \in {"emulator", "serial"} /\ EmulatorInit /\ SerialInit
    /\ part = "serial" => session = Session(Gathers, FALSE, 0, 0)

Emulates(A) == part = "emulator" /\ A /\ UNCHANGED <<part, serialVars>>
Boots(A) == part = "serial" /\ A /\ UNCHANGED <<part, emulatorVars>>

Next == Emulates(EmulatorNext) \/ Boots(SerialNext)

\* EmulatorFairness and SerialFairness, of the part that runs.
Spec ==
    /\ Init /\ [][Next]_vars
    /\ \A t \in Threads : WF_vars(Emulates(Run(t)))
    /\ WF_vars(Emulates(Continue))
    /\ WF_vars(Boots(TargetReads)) /\ WF_vars(Boots(HostStep))

\* Whichever runs comes to its end.  Programs finish, or the emulator stops on
\* a fault: a breakpoint that is continued from is passed, a miss that was
\* served is not repeated for ever, a synchronized store succeeds.  The host
\* reaches the console or gives up, whichever bytes the line loses or damages,
\* if these are finitely many (MAX_LOST): send_segment retries a slice without
\* limit (serial_boot.c:662-690), and on a line that damages every attempt it
\* never ends.
ToolsEnd ==
    <>(IF part = "emulator" THEN enabled = {} \/ crashed ELSE host.at \in {"console", "failed"})

=============================================================================
