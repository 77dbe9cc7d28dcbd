------------------------------ MODULE BootProtocol ------------------------------
(***************************************************************************)
(* Loading a program: the command loop of the boot ROM (BOOTCODE/boot.c,   *)
(* uart0.c), a client that sends an image over a serial line or over       *)
(* Bluetooth (tools/), and the two lines between them, on which at most    *)
(* one byte is damaged or lost.  The ROM writes through the data cache,    *)
(* whose lines are as long as a block: mem is memory as the processor      *)
(* reads it, sdram what the instruction cache will fetch.  A byte has 4    *)
(* bits, an address AddrLen bytes and a block BlockLen bytes (8, 4 and 16  *)
(* in the source).                                                         *)
(***************************************************************************)
EXTENDS Integers, Sequences, SequencesExt, Bitwise, TLC

CONSTANTS AddrLen, BlockLen,
          LoadAddresses, JmpAddress,
          Images,     \* sequences of bytes
          Kinds,      \* of clients: "uart", "ble"
          MaxFaults   \* bytes damaged or lost

Byte == 0 .. 15
Space == 16 ^ AddrLen
\* The characters of the protocol.
Ch(c) == CASE c = "0" -> 1 [] c = "1" -> 2 [] c = "a" -> 3 [] c = "w" -> 4 [] c = "r" -> 5
           [] c = "v" -> 6 [] c = "j" -> 7 [] c = "O" -> 8 [] c = "E" -> 9

ASSUME BootAssumption == /\ LoadAddresses \cup {JmpAddress} \subseteq 0 .. Space - 1
                         /\ Images \subseteq Seq(Byte)

VARIABLES
  rom,                \* "command", "address", "data": what it reads; "jumped"
  buf, tx,            \* bytes read for it; bytes of the reply not sent yet
  mem_ptr, mem, sdram,   \* memory written: seen through the data cache, and in the chip
  kind, image, pos,   \* the client, its file and its position in it
  load_address,       \*   and where the file goes
  client, waiting,    \* what it last sent: "none", "address", "data", "jmp_address", "jump",
                      \* or "done", "failed"; and whether the reply is outstanding
  to_rom, to_client,  \* the lines
  faults              \* what befell a byte: "payload", "command", "reply"

rom_vars == <<rom, buf, tx, mem_ptr, mem, sdram>>
client_vars == <<kind, image, load_address, pos, client, waiting>>
vars == <<rom_vars, client_vars, to_rom, to_client, faults>>

\* Definitions named X_<fault> are faults injected into X to validate the
\* properties; no specification uses them.

Checksum(s) == FoldLeft(LAMBDA x, y : x ^^ y, 0, s)
At(m, a) == IF a \in DOMAIN m THEN m[a] ELSE 0
LineOf(a) == a \div BlockLen

-----------------------------------------------------------------------------
(* The boot ROM.                                                           *)

Number(s) == LET n[i \in 0 .. AddrLen] == IF i = 0 THEN 0 ELSE n[i - 1] + s[i] * 16 ^ (i - 1)
             IN n[AddrLen]

\* How many bytes uart0_blocking_read is called for.
Wanted == CASE rom = "command" -> 1 [] rom = "address" -> AddrLen + 1 [] rom = "data" -> BlockLen + 1

Reply(s) == tx' = s /\ rom' = "command"

DoAddress(s) ==
  LET a == SubSeq(s, 1, AddrLen)
  IN IF Checksum(a) = s[AddrLen + 1]
     THEN mem_ptr' = Number(a) /\ Reply(<<Ch("O")>>) /\ UNCHANGED <<mem, sdram>>
     ELSE Reply(<<Ch("E")>>) /\ UNCHANGED <<mem_ptr, mem, sdram>>

\* sdram once the line of address a, as it is in m, is written back.
WriteBack(m, a) == [i \in {x \in DOMAIN m : LineOf(x) = LineOf(a)} |-> m[i]] @@ sdram

\* flush_dcache_line: a store to another address of the same index.
Flushed_incremented(m) == WriteBack(m, (mem_ptr + BlockLen) % Space)
Flushed(m) == WriteBack(m, mem_ptr)

Accepted(s) == Checksum(SubSeq(s, 1, BlockLen)) = s[BlockLen + 1]
DoData(s) ==
  IF Accepted(s)
  THEN /\ mem' = [i \in {(mem_ptr + k) % Space : k \in 0 .. BlockLen - 1} |->
                    s[((i - mem_ptr) % Space) + 1]] @@ mem
       /\ sdram' = Flushed(mem')
       /\ mem_ptr' = (mem_ptr + BlockLen) % Space
       /\ Reply(<<Ch("O")>>)
  ELSE Reply(<<Ch("E")>>) /\ UNCHANGED <<mem_ptr, mem, sdram>>

DoRead == LET s == [k \in 1 .. BlockLen |-> At(mem, (mem_ptr + k - 1) % Space)]
          IN /\ Reply(Append(s, Checksum(s)))
             /\ mem_ptr' = (mem_ptr + BlockLen) % Space /\ UNCHANGED <<mem, sdram>>

\* Another access of the ROM evicts a line that has not been written back.
Evict == /\ \E a \in DOMAIN mem : /\ At(sdram, a) # mem[a]
                                 /\ sdram' = WriteBack(mem, a)
         /\ UNCHANGED <<rom, buf, tx, mem_ptr, mem, client_vars, to_rom, to_client, faults>>

\* A command: 'a' and 'w' read on, 'j' jumps once its reply is sent.
DoCommand(c) ==
  \/ c = Ch("a") /\ rom' = "address" /\ UNCHANGED <<tx, mem_ptr, mem, sdram>>
  \/ c = Ch("w") /\ rom' = "data" /\ UNCHANGED <<tx, mem_ptr, mem, sdram>>
  \/ c = Ch("r") /\ DoRead
  \/ c = Ch("v") /\ Reply(<<Ch("1")>>) /\ UNCHANGED <<mem_ptr, mem, sdram>>
  \/ c = Ch("j") /\ tx' = <<Ch("O")>> /\ rom' = "jumped" /\ UNCHANGED <<mem_ptr, mem, sdram>>
  \/ /\ c \notin {Ch(x) : x \in {"a", "w", "r", "v", "j"}}
     /\ Reply(<<Ch("E")>>) /\ UNCHANGED <<mem_ptr, mem, sdram>>

\* A byte comes in.  No read is active while the ROM replies, nor after the jump.
RomReceive(b) ==
  IF tx # <<>> \/ rom = "jumped" THEN UNCHANGED rom_vars
  ELSE IF Len(buf) + 1 < Wanted
       THEN buf' = Append(buf, b) /\ UNCHANGED <<rom, tx, mem_ptr, mem, sdram>>
  ELSE LET s == Append(buf, b)
       IN /\ buf' = <<>>
          /\ \/ rom = "command" /\ DoCommand(b)
             \/ rom = "address" /\ DoAddress(s)
             \/ rom = "data" /\ DoData(s)

RomSend == /\ tx # <<>>
           /\ tx' = Tail(tx) /\ to_client' = Append(to_client, Head(tx))
           /\ UNCHANGED <<rom, buf, mem_ptr, mem, sdram, client_vars, to_rom, faults>>

-----------------------------------------------------------------------------
(* The client.                                                             *)

Digits(a) == [i \in 1 .. AddrLen |-> (a \div 16 ^ (i - 1)) % 16]
\* A frame: the command, its bytes and their checksum.
Frame_sumsCommand(c, s) == <<Ch(c)>> \o s \o <<Checksum(<<Ch(c)>> \o s)>>
Frame(c, s) == <<Ch(c)>> \o s \o <<Checksum(s)>>

\* The next block of the file.  The serial client fills the last one up with
\* zeros; the other with '0', but leaves its last byte as the last frame had it.
Chunk == [k \in 1 .. BlockLen |->
            IF pos + k <= Len(image) THEN image[pos + k]
            ELSE IF kind = "uart" THEN 0
            ELSE IF k < BlockLen THEN Ch("0") ELSE IF pos = 0 THEN 0 ELSE image[pos]]

Send(s, what) == to_rom' = to_rom \o s /\ client' = what /\ waiting' = TRUE

SetAddress == /\ client = "none"
              /\ Send(Frame("a", Digits(load_address)), "address")
              /\ UNCHANGED pos
WriteData == /\ client \in {"address", "data"} /\ pos < Len(image)
             /\ Send(Frame("w", Chunk), "data")
             /\ pos' = pos + BlockLen
SetJmpAddress == /\ client \in {"address", "data"} /\ pos >= Len(image)
                 /\ Send(Frame("a", Digits(JmpAddress)), "jmp_address")
                 /\ UNCHANGED pos
InitiateJmp == /\ client = "jmp_address"
               /\ Send(<<Ch("j")>>, "jump")
               /\ UNCHANGED pos
Finish == /\ client = "jump" /\ client' = "done" /\ UNCHANGED <<to_rom, pos, waiting>>

ClientSend == /\ ~waiting
              /\ SetAddress \/ WriteData \/ SetJmpAddress \/ InitiateJmp \/ Finish
              /\ UNCHANGED <<rom_vars, kind, image, load_address, to_client, faults>>

\* A byte of a reply.  A client that expects none leaves it in its buffer (uart)
\* or ignores it (ble): it has then failed or is about to send.
ClientReceive(b) == IF waiting
                    THEN waiting' = FALSE /\ client' = IF b = Ch("O") THEN client ELSE "failed"
                    ELSE UNCHANGED <<client, waiting>>

-----------------------------------------------------------------------------
(* The lines: a byte arrives as it was sent, damaged, or not at all.       *)

Fault(f) == Len(faults) < MaxFaults /\ faults' = Append(faults, f)
Place == IF rom = "command" /\ tx = <<>> THEN "command" ELSE "payload"

ToRom == /\ to_rom # <<>> /\ to_rom' = Tail(to_rom)
         /\ \/ RomReceive(Head(to_rom)) /\ UNCHANGED faults
            \/ Fault(Place) /\ \E b \in Byte \ {Head(to_rom)} : RomReceive(b)
            \/ Fault(Place) /\ UNCHANGED rom_vars
         /\ UNCHANGED <<client_vars, to_client>>

ToClient == /\ to_client # <<>> /\ (waiting \/ kind = "ble")
            /\ to_client' = Tail(to_client)
            /\ \/ ClientReceive(Head(to_client)) /\ UNCHANGED faults
               \/ Fault("reply") /\ \E b \in Byte \ {Head(to_client)} : ClientReceive(b)
               \/ Fault("reply") /\ UNCHANGED <<client, waiting>>
            /\ UNCHANGED <<rom_vars, kind, image, load_address, pos, to_rom>>

Init == /\ rom = "command" /\ buf = <<>> /\ tx = <<>> /\ mem_ptr = 0
        /\ mem = <<>> /\ sdram = <<>>
        /\ kind \in Kinds /\ image \in Images /\ load_address \in LoadAddresses /\ pos = 0 /\ client = "none" /\ waiting = FALSE
        /\ to_rom = <<>> /\ to_client = <<>> /\ faults = <<>>

Next == RomSend \/ Evict \/ ClientSend \/ ToRom \/ ToClient

Spec == Init /\ [][Next]_vars
        /\ WF_vars(RomSend) /\ WF_vars(ClientSend) /\ WF_vars(ToRom) /\ WF_vars(ToClient)

-----------------------------------------------------------------------------
\* The first n bytes of the image are in memory.  The flush of a block that
\* does not start a line leaves its end, in the next line, in the cache.
Loaded(n) == \A k \in 1 .. Len(image) : LET a == (load_address + k - 1) % Space
                                        IN /\ k <= n => At(mem, a) = image[k]
                                           /\ k <= n - (load_address % BlockLen) => At(sdram, a) = image[k]
WholeBlocks == ((Len(image) + BlockLen - 1) \div BlockLen) * BlockLen

\* Whatever byte is damaged or lost, unless it is one that the ROM takes for a
\* command: every block whose 'O' the client has seen is in memory, and the ROM
\* jumps only when the whole image is, and to the address asked for.  For a
\* load address that starts a line it is then all in the SDRAM, from which the
\* program is fetched after fence.i; for another one up to the end of the line
\* in which the last block starts.
LoadedBeforeJump ==
  "command" \notin {faults[i] : i \in DOMAIN faults} =>
    /\ client # "failed" => Loaded(IF waiting /\ client = "data" THEN pos - BlockLen ELSE pos)
    /\ rom = "jumped" => Loaded(WholeBlocks) /\ mem_ptr = JmpAddress

\* If no byte is damaged or lost the client finishes and the program is started.
LoadCompletes == [](faults = <<>>) => <>(client = "done" /\ rom = "jumped")
=============================================================================
