----------------------------- MODULE SerialBoot -----------------------------
(***************************************************************************)
(* Loading a program over a serial line: the host (serial_boot.c), the     *)
(* boot loader on the target (boot.c), and a line that may lose bytes.     *)
(* The target takes what it gets as the next byte of what it expects: a    *)
(* lost byte shifts everything after it, and the host must get the two     *)
(* back in step.  An address, a length and a checksum are one byte here    *)
(* instead of four; the checksum is the bytes it is computed from, so that *)
(* different data have different checksums.                                *)
(***************************************************************************)
EXTENDS Integers, Sequences, SequencesExt, FiniteSetsExt

CONSTANTS
    MEMORY,       \* size of the target's memory
    BLOCK_SIZE,   \* 1024 in the code
    Segments,     \* what the host loads: sequence of [address, data]
    MAX_PINGS,    \* attempts of ping_target, 20 in the code
    MAX_RETRIES,  \* attempts of fix_connection, 40 in the code
    MAX_LOST,     \* bound on lost and damaged bytes
    MAX_LATE      \* bound on timeouts that beat an answer under way

\* protocol.h, and the byte that stands for a checksum.
LOAD_MEMORY_REQ == 192
LOAD_MEMORY_ACK == 193
EXECUTE_REQ == 194
EXECUTE_ACK == 195
PING_REQ == 196
PING_ACK == 197
CLEAR_MEMORY_REQ == 198
CLEAR_MEMORY_ACK == 199
BAD_COMMAND == 200
CHECKSUM == 256
\* A byte that is not the one sent.
DAMAGED == 9

ASSUME SerialAssumption ==
    /\ {MEMORY, BLOCK_SIZE, MAX_PINGS, MAX_RETRIES, MAX_LOST, MAX_LATE} \subseteq Nat
    /\ BLOCK_SIZE > 0 /\ MAX_PINGS > 0
\* The segments lie in memory, apart from each other.
ASSUME SegmentsAssumption ==
    \A i, j \in DOMAIN Segments :
        LET cells(k) == Segments[k].address .. Segments[k].address + Len(Segments[k].data) - 1
        IN  cells(i) \subseteq 0 .. MEMORY - 1 /\ (i # j => cells(i) \cap cells(j) = {})

VARIABLES
    toTarget, toHost,   \* the two directions of the line
    host,               \* [at, segment, offset, retry, ping_seen, request]
    target,             \* [at, command, address, length, data, request]
    memory,
    lost, late,         \* faults so far
    stale,              \* the host took the answer to an earlier request for
                        \* the one it waits for
    astray              \* the target took some other byte for an address, a
                        \* length or the command of a store or a start

serialVars == <<toTarget, toHost, host, target, memory, lost, late, stale, astray>>

\* Bytes are tagged with the request they belong to.
Byte(kind, b) == [kind |-> kind, b |-> b, of |-> << >>, request |-> host.request]
Reply(b) == [kind |-> "reply", b |-> b, of |-> << >>, request |-> target.request]
Checksum(data) == [Reply(CHECKSUM) EXCEPT !.of = data]

\* Memory starts with whatever it held: -1 is no byte of a program.
SerialInit ==
    /\ toTarget = << >> /\ toHost = << >>
    /\ host = [at |-> "ping", segment |-> 1, offset |-> 0, retry |-> 0, ping_seen |-> FALSE,
               request |-> 0]
    /\ target = [at |-> "command", command |-> 0, address |-> 0, length |-> 0, data |-> << >>,
                 request |-> 0]
    /\ memory = [a \in 0 .. MEMORY - 1 |-> -1]
    /\ lost = 0 /\ late = 0 /\ stale = FALSE /\ astray = FALSE

-----------------------------------------------------------------------------
(***************************************************************************)
(* The target: main of boot.c, one step per byte.                          *)
(***************************************************************************)
ToCommand == [target EXCEPT !.at = "command", !.data = << >>]

Command(b) ==
    CASE b \in {LOAD_MEMORY_REQ, CLEAR_MEMORY_REQ} ->
            /\ target' = [target EXCEPT !.at = "address", !.command = b,
                                        !.request = Head(toTarget).request]
            /\ UNCHANGED toHost
      [] b = EXECUTE_REQ ->
            /\ target' = [target EXCEPT !.at = "execute"]
            /\ toHost' = Append(toHost, Reply(EXECUTE_ACK))
      [] b = PING_REQ ->
            /\ toHost' = Append(toHost, Reply(PING_ACK))
            /\ UNCHANGED target
      [] OTHER ->
            /\ toHost' = Append(toHost, Reply(BAD_COMMAND))
            /\ UNCHANGED target

\* Stores outside the memory of the model go nowhere.
Store(address, data) ==
    [a \in DOMAIN memory |->
        IF a \in address .. address + Len(data) - 1 THEN data[a - address + 1] ELSE memory[a]]

Length(b) ==
    IF target.command = CLEAR_MEMORY_REQ
    THEN /\ memory' = Store(target.address, [i \in 1 .. b |-> 0])
         /\ toHost' = Append(toHost, Reply(CLEAR_MEMORY_ACK))
         /\ target' = ToCommand
    ELSE IF b = 0
         THEN /\ toHost' = toHost \o << Reply(LOAD_MEMORY_ACK), Checksum(<< >>) >>
              /\ target' = ToCommand
              /\ UNCHANGED memory
         ELSE /\ target' = [target EXCEPT !.at = "data", !.length = b]
              /\ UNCHANGED <<memory, toHost>>

Data(b) ==
    LET data == Append(target.data, b) IN
    /\ memory' = Store(target.address + Len(target.data), << b >>)
    /\ IF Len(data) < target.length
       THEN target' = [target EXCEPT !.data = data] /\ UNCHANGED toHost
       ELSE /\ target' = ToCommand
            /\ toHost' = toHost \o << Reply(LOAD_MEMORY_ACK), Checksum(data) >>

\* Is the byte that is read another than the one the target takes it for?  A
\* byte of data in the place of another shows in the checksum.
Astray ==
    LET r == Head(toTarget) IN
    \/ target.at \in {"address", "length"} /\ r.kind # target.at
    \/ /\ target.at = "command" /\ r.kind # "command"
       /\ r.b \in {LOAD_MEMORY_REQ, CLEAR_MEMORY_REQ, EXECUTE_REQ}

TargetReads ==
    /\ toTarget # << >> /\ target.at # "execute"
    /\ toTarget' = Tail(toTarget)
    /\ LET b == Head(toTarget).b IN
         \/ target.at = "command" /\ Command(b) /\ UNCHANGED memory
         \/ /\ target.at = "address"
            /\ target' = [target EXCEPT !.at = "length", !.address = b]
            /\ UNCHANGED <<memory, toHost>>
         \/ target.at = "length" /\ Length(b)
         \/ target.at = "data" /\ Data(b)
    /\ astray' = (astray \/ Astray)
    /\ UNCHANGED <<host, lost, late, stale>>

-----------------------------------------------------------------------------
(***************************************************************************)
(* The host: read_serial_byte returns a byte or times out.                 *)
(***************************************************************************)
Slice ==
    LET data == Segments[host.segment].data
    IN  SubSeq(data, host.offset + 1, Min({host.offset + BLOCK_SIZE, Len(data)}))
Address == Segments[host.segment].address + host.offset

is_empty(data) == ToSet(data) \subseteq {0}

Requests(c, data) ==
    LET bytes == << Byte("command", c), Byte("address", Address), Byte("length", Len(Slice)) >>
                   \o [i \in DOMAIN data |-> Byte("data", data[i])]
    IN  [i \in DOMAIN bytes |-> [bytes[i] EXCEPT !.request = @ + 1]]

Send(bytes) == toTarget' = toTarget \o bytes

\* ping_target
SendPing ==
    /\ host.at = "ping"
    /\ Send(<< Byte("command", PING_REQ) >>)
    /\ host' = [host EXCEPT !.at = "pinged", !.retry = @ + 1]
    /\ UNCHANGED <<toHost, target, memory, lost, late, stale, astray>>

\* send_segment: clear or load the next slice; send_segments goes on to the
\* next segment, and main to send_execute_command.
SendSlice ==
    /\ host.at = "next"
    /\ host.segment <= Len(Segments)
    /\ LET empty == is_empty(Slice) IN
         /\ Send(IF empty THEN Requests(CLEAR_MEMORY_REQ, << >>) ELSE Requests(LOAD_MEMORY_REQ, Slice))
         /\ host' = [host EXCEPT !.at = IF empty THEN "clear" ELSE "load", !.request = @ + 1]
    /\ UNCHANGED <<toHost, target, memory, lost, late, stale, astray>>

send_execute_command ==
    /\ host.at = "next"
    /\ host.segment > Len(Segments)
    /\ Send(<< Byte("command", EXECUTE_REQ) >>)
    /\ host' = [host EXCEPT !.at = "execute"]
    /\ UNCHANGED <<toHost, target, memory, lost, late, stale, astray>>

\* The slice was copied correctly.
Advance ==
    LET offset == host.offset + Len(Slice) IN
    IF offset < Len(Segments[host.segment].data)
    THEN [host EXCEPT !.at = "next", !.offset = offset]
    ELSE [host EXCEPT !.at = "next", !.offset = 0, !.segment = @ + 1]

Fixing == [host EXCEPT !.at = "drain", !.retry = 0, !.ping_seen = FALSE]
Goes(to) == [host EXCEPT !.at = to]
PingAgain == Goes(IF host.retry < MAX_PINGS THEN "ping" ELSE "failed")

\* A turn of fix_connection's loop after which no ping was seen.
FixAgain ==
    /\ host' = [host EXCEPT !.at = IF host.retry + 1 > MAX_RETRIES THEN "failed" ELSE "fix",
                            !.retry = @ + 1]
    /\ Send(<< Byte("command", PING_REQ) >>)

\* Is the checksum that of the slice?
SumMatches_unchecked(r) == r.b = CHECKSUM                                \* mutant
SumMatches(r) == r.b = CHECKSUM /\ r.of = Slice

\* The answer that ends a request well.
Accepts(r) ==
    \/ host.at = "clear" /\ r.b = CLEAR_MEMORY_ACK
    \/ host.at = "sum" /\ SumMatches(r)

\* One of the four bytes of a checksum may have the value of PING_ACK.
SeenAsPing(r) == {r.b = PING_ACK} \cup (IF r.b = CHECKSUM THEN {TRUE} ELSE {})

HostReads ==
    LET r == Head(toHost) IN
    /\ toHost # << >>
    /\ toHost' = Tail(toHost)
    /\ \/ /\ \/ /\ host.at = "pinged"
                /\ host' = IF r.b = PING_ACK THEN Goes("next") ELSE PingAgain
             \/ /\ host.at = "clear"
                /\ host' = IF Accepts(r) THEN Advance ELSE Goes("failed")
             \/ /\ host.at = "load"
                /\ host' = IF r.b = LOAD_MEMORY_ACK THEN Goes("sum") ELSE Fixing
             \/ /\ host.at = "sum"
                /\ host' = IF Accepts(r) THEN Advance ELSE Fixing
             \/ /\ host.at = "execute"
                /\ host' = Goes(IF r.b = EXECUTE_ACK THEN "console" ELSE "failed")
             \/ /\ host.at = "drain"
                /\ host' = Goes(IF r.b = BAD_COMMAND THEN "drain" ELSE "fix")
             \/ /\ host.at = "fix" /\ host.ping_seen
                /\ UNCHANGED host
             \/ /\ host.at = "fix" /\ ~host.ping_seen /\ TRUE \in SeenAsPing(r)
                /\ host' = [host EXCEPT !.ping_seen = TRUE]
          /\ UNCHANGED toTarget
       \/ /\ host.at = "fix" /\ ~host.ping_seen /\ FALSE \in SeenAsPing(r)
          /\ FixAgain
    /\ stale' = (stale \/ (Accepts(r) /\ r.request # host.request))
    /\ UNCHANGED <<target, memory, lost, late, astray>>

\* Nothing is under way and the target waits for a byte; a timeout at any
\* other time has beaten the answer.
Silent == toHost = << >> /\ (toTarget = << >> \/ target.at = "execute")

HostTimesOut ==
    /\ host.at \in {"pinged", "clear", "load", "sum", "execute", "drain", "fix"}
    /\ toHost = << >>
    /\ \/ Silent /\ UNCHANGED late
       \/ /\ ~Silent /\ host.at \in {"pinged", "drain", "fix"}
          /\ late < MAX_LATE /\ late' = late + 1
    /\ \/ /\ \/ host.at = "pinged" /\ host' = PingAgain
             \/ host.at \in {"load", "sum"} /\ host' = Fixing
             \/ host.at \in {"clear", "execute"} /\ host' = Goes("failed")
             \/ host.at = "drain" /\ host' = Goes("fix")
             \/ host.at = "fix" /\ host.ping_seen /\ host' = Goes("next")
          /\ UNCHANGED toTarget
       \/ host.at = "fix" /\ ~host.ping_seen /\ FixAgain
    /\ UNCHANGED <<toHost, target, memory, lost, stale, astray>>

-----------------------------------------------------------------------------
\* The line loses a byte on its way.
LoseByte ==
    /\ lost < MAX_LOST
    /\ lost' = lost + 1
    /\ \/ /\ toTarget # << >>
          /\ toTarget' = Tail(toTarget)
          /\ UNCHANGED toHost
       \/ /\ toHost # << >>
          /\ toHost' = Tail(toHost)
          /\ UNCHANGED toTarget
    /\ UNCHANGED <<host, target, memory, late, stale, astray>>

\* The line damages a byte on its way to the target.
DamageByte ==
    /\ lost < MAX_LOST
    /\ lost' = lost + 1
    /\ toTarget # << >>
    /\ toTarget' = [toTarget EXCEPT ![1].b = DAMAGED,
                                    ![1].kind = IF @ = "data" THEN "data" ELSE "damaged"]
    /\ UNCHANGED <<toHost, host, target, memory, late, stale, astray>>

SerialEnded == host.at \in {"console", "failed"} /\ UNCHANGED serialVars

HostStep == SendPing \/ SendSlice \/ send_execute_command \/ HostReads \/ HostTimesOut

SerialNext == TargetReads \/ HostStep \/ LoseByte \/ DamageByte \/ SerialEnded

\* The boot loader and the host run; the line need not lose anything.
SerialFairness == WF_serialVars(TargetReads) /\ WF_serialVars(HostStep)
SerialSpec == SerialInit /\ [][SerialNext]_serialVars /\ SerialFairness

-----------------------------------------------------------------------------
\* The bytes of segment i below offset n are in memory.
Loaded(i, n) ==
    \A k \in 1 .. n : memory[Segments[i].address + k - 1] = Segments[i].data[k]

\* What the host has sent and counts as copied is in the target's memory and
\* stays there, whatever data, commands and answers were lost, damaged, sent
\* again or late, and the target starts a program only when all of it is there:
\* a retry never damages a block that was accepted.  Two things break this: a
\* late answer that the host takes for the one to its retry, and a byte that
\* the target takes for a command, an address or a length it is not, because
\* the checksum covers the data only (load_memory, fix_connection; main of
\* boot.c).
AcceptedIsStored ==
    ~stale /\ ~astray => \A i \in DOMAIN Segments :
        /\ i < host.segment \/ target.at = "execute" => Loaded(i, Len(Segments[i].data))
        /\ i = host.segment => Loaded(i, host.offset)

=============================================================================
