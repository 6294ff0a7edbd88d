-------------------------------- MODULE Uart --------------------------------
(***************************************************************************)
(* The console: msg and check of bios/main.c over the PL011 driver of      *)
(* drivers/uart.c.  Two actors share the two FIFOs of the device: the CPU, *)
(* which polls the flag register and then accesses the data register, and  *)
(* the line, which takes characters from one FIFO and puts characters in   *)
(* the other at any time in between.                                       *)
(*                                                                         *)
(* The device is external: of it, what the driver relies on is modelled.   *)
(***************************************************************************)
EXTENDS Integers, SequencesExt

CONSTANTS
  Char,       \* characters but the two below
  LF, CR,     \* '\n' and '\r'
  FIFO_SIZE,  \* of the device
  BUF_SIZE,   \* of buf in msg: 128
  Texts,      \* what a message may be once formatted
  Leftovers,  \* what may be left to transmit from before the reset
  MAX_MSGS,   \* bound: the messages printed
  MAX_RX      \* bound: the characters received

Symbol == Char \cup {LF, CR}

ASSUME UartAssumption ==
  /\ LF # CR
  /\ FIFO_SIZE \in Nat \ {0} /\ BUF_SIZE \in Nat \ {0}
  /\ Texts \subseteq Seq(Symbol) /\ Leftovers \subseteq Seq(Symbol)
  /\ MAX_MSGS \in Nat /\ MAX_RX \in Nat

VARIABLES
  pc,
  buf, p, ch,     \* of msg, and the argument of uart_putc
  ret,            \* what is after the message: "idle", or "hung" in check
  fen,            \* LCRH: the FIFOs are enabled
  enabled,        \* CR: the device is enabled
  tx, rx,         \* the FIFOs
  wire,           \* history: what was transmitted
  leftover,       \* history: what tx held at the reset
  given,          \* history: the arguments uart_putc was called with
  said,           \* history: the messages
  accepted, got   \* history: received by the device, returned by getchar

cpu == <<pc, buf, p, ch, ret>>

mode == <<fen, enabled>>

output == <<tx, wire>>

input == <<rx, accepted, got>>

vars == <<cpu, mode, output, input, leftover, given, said>>

-----------------------------------------------------------------------------
(* The device.                                                             *)

(* With its FIFOs disabled the device has room for one character.          *)
Depth == IF fen THEN FIFO_SIZE ELSE 1

TXFF == Len(tx) >= Depth

TXFE == tx = <<>>

RXFE == rx = <<>>

(* A character written to a full FIFO is lost.                             *)
WriteData(c) == tx' = IF TXFF THEN tx ELSE Append(tx, c)

(* There is no flow control: CTSEN is not set in CR.                       *)
Transmit ==
  /\ enabled /\ ~TXFE
  /\ wire' = Append(wire, Head(tx))
  /\ tx' = Tail(tx)
  /\ UNCHANGED <<cpu, mode, input, leftover, given, said>>

(* A character that comes in when rx is full is lost.                      *)
Receive(c) ==
  /\ enabled /\ Len(rx) < Depth
  /\ Len(accepted) < MAX_RX
  /\ rx' = Append(rx, c)
  /\ accepted' = Append(accepted, c)
  /\ UNCHANGED <<cpu, mode, output, got, leftover, given, said>>

-----------------------------------------------------------------------------
(* uart_init.  The reset of the CPU may leave the device as it was.        *)

Init ==
  /\ pc = "reset" /\ ret = "idle"
  /\ buf = <<>> /\ p = 1 /\ ch = LF
  /\ fen \in BOOLEAN /\ enabled \in BOOLEAN
  /\ leftover \in {l \in Leftovers : Len(l) <= Depth}
  /\ tx = leftover /\ wire = <<>>
  /\ rx = <<>> /\ accepted = <<>> /\ got = <<>>
  /\ given = <<>> /\ said = <<>>

ConfigureLine ==
  /\ pc = "reset"
  /\ pc' = "enable"
  /\ fen' = TRUE
  /\ UNCHANGED <<buf, p, ch, ret, enabled, output, input, leftover, given,
                 said>>

Enable ==
  /\ pc = "enable"
  /\ pc' = "flush"
  /\ enabled' = TRUE
  /\ UNCHANGED <<buf, p, ch, ret, fen, output, input, leftover, given, said>>

FlushTxFifo ==
  /\ pc = "flush" /\ TXFE
  /\ pc' = "idle"
  /\ UNCHANGED <<buf, p, ch, ret, mode, output, input, leftover, given, said>>

-----------------------------------------------------------------------------
(* msg and check.                                                          *)

(* Mutant: no room is kept for the null byte.                              *)
FormattedWide(text) ==
  SubSeq(text, 1, IF Len(text) < BUF_SIZE THEN Len(text) ELSE BUF_SIZE)

(* What vsnprintf leaves in buf, the null byte aside.                      *)
Formatted(text) ==
  SubSeq(text, 1, IF Len(text) < BUF_SIZE THEN Len(text) ELSE BUF_SIZE - 1)

StartMsg(after) ==
  /\ pc = "idle" /\ Len(said) < MAX_MSGS
  /\ \E text \in Texts :
       /\ buf' = Formatted(text)
       /\ said' = Append(said, Formatted(text))
  /\ p' = 1 /\ ret' = after
  /\ pc' = "loop"
  /\ UNCHANGED <<ch, mode, output, input, leftover, given>>

Msg == StartMsg("idle")

(* The message of a failed CHECK, after which the BIOS loops forever.      *)
Check == StartMsg("hung")

Putc(c) ==
  /\ ch' = c
  /\ given' = Append(given, c)
  /\ pc' = "poll"

Loop ==
  /\ pc = "loop"
  /\ \/ p <= Len(buf) /\ Putc(buf[p])
     \/ p > Len(buf) /\ pc' = ret /\ UNCHANGED <<ch, given>>
  /\ UNCHANGED <<buf, p, ret, mode, output, input, leftover, said>>

(* Mutant: waits for the wrong flag, RXFF, of a FIFO that has room.        *)
PollRx ==
  /\ pc = "poll" /\ Len(rx) < Depth
  /\ pc' = "write"
  /\ UNCHANGED <<buf, p, ch, ret, mode, output, input, leftover, given, said>>

(* Mutant: waits until the FIFO is full.                                   *)
PollFull ==
  /\ pc = "poll" /\ TXFF
  /\ pc' = "write"
  /\ UNCHANGED <<buf, p, ch, ret, mode, output, input, leftover, given, said>>

(* uart_putc waits until there is space in the FIFO ...                    *)
PollTx ==
  /\ pc = "poll" /\ ~TXFF
  /\ pc' = "write"
  /\ UNCHANGED <<buf, p, ch, ret, mode, output, input, leftover, given, said>>

(* Mutant: no '\r'.                                                        *)
WriteTxRaw ==
  /\ pc = "write"
  /\ WriteData(ch)
  /\ p' = p + 1 /\ pc' = "loop"
  /\ UNCHANGED <<buf, ch, ret, mode, wire, input, leftover, given, said>>

(* ... and sends the character.  msg follows a '\n' with a '\r'.           *)
WriteTx ==
  /\ pc = "write"
  /\ WriteData(ch)
  /\ \/ ch = LF /\ Putc(CR) /\ UNCHANGED p
     \/ ch # LF /\ p' = p + 1 /\ pc' = "loop" /\ UNCHANGED <<ch, given>>
  /\ UNCHANGED <<buf, ret, mode, wire, input, leftover, said>>

(* call_kernel: nothing waits for what is still in the FIFO.               *)
EnterKernel ==
  /\ pc = "idle"
  /\ pc' = "kernel"
  /\ UNCHANGED <<buf, p, ch, ret, mode, output, input, leftover, given, said>>

-----------------------------------------------------------------------------
(* uart_getchar, which the BIOS has but does not call.                     *)

Getchar ==
  /\ pc = "idle"
  /\ pc' = "wait"
  /\ UNCHANGED <<buf, p, ch, ret, mode, output, input, leftover, given, said>>

(* Mutant: the test is the wrong way round.                                *)
HaveNoRxData ==
  /\ pc = "wait" /\ RXFE
  /\ pc' = "read"
  /\ UNCHANGED <<buf, p, ch, ret, mode, output, input, leftover, given, said>>

HaveRxData ==
  /\ pc = "wait" /\ ~RXFE
  /\ pc' = "read"
  /\ UNCHANGED <<buf, p, ch, ret, mode, output, input, leftover, given, said>>

(* Of an empty FIFO the data register returns anything.                    *)
DataRead == IF RXFE THEN Symbol ELSE {Head(rx)}

ReadData ==
  /\ pc = "read"
  /\ pc' = "idle"
  /\ \E c \in DataRead : got' = Append(got, c)
  /\ rx' = IF RXFE THEN rx ELSE Tail(rx)
  /\ UNCHANGED <<buf, p, ch, ret, mode, output, accepted, leftover, given,
                 said>>

Cpu ==
  \/ ConfigureLine \/ Enable \/ FlushTxFifo
  \/ Loop \/ PollTx \/ WriteTx
  \/ HaveRxData \/ ReadData

Next ==
  \/ Cpu \/ Msg \/ Check \/ Getchar \/ EnterKernel
  \/ Transmit \/ \E c \in Char : Receive(c)

(* The CPU runs the loops it is in, and the device transmits at its own    *)
(* pace; nobody has to print, to enter the kernel or to type.              *)
Fairness == WF_vars(Cpu) /\ WF_vars(Transmit)

Spec == Init /\ [][Next]_vars /\ Fairness

-----------------------------------------------------------------------------
TypeOK ==
  /\ pc \in {"reset", "enable", "flush", "idle", "loop", "poll", "write",
             "hung", "kernel", "wait", "read"}
  /\ ret \in {"idle", "hung"}
  /\ buf \in Seq(Symbol) /\ p \in Nat \ {0} /\ ch \in Symbol
  /\ fen \in BOOLEAN /\ enabled \in BOOLEAN
  /\ tx \in Seq(Symbol) /\ rx \in Seq(Symbol)
  /\ wire \in Seq(Symbol) /\ leftover \in Seq(Symbol)
  /\ given \in Seq(Symbol) /\ said \in Seq(Seq(Symbol))
  /\ accepted \in Seq(Symbol) /\ got \in Seq(Symbol)
  /\ Len(buf) < BUF_SIZE
  /\ Len(tx) <= FIFO_SIZE /\ Len(rx) <= FIFO_SIZE

(* What was put in tx and, within uart_putc, the character that will be.   *)
Output == IF pc \in {"poll", "write"} THEN Append(wire \o tx, ch)
                                      ELSE wire \o tx

(* Between the poll of TXFF and the write only the device touches the      *)
(* FIFO, and it only makes room: no character given to uart_putc is lost,  *)
(* doubled or overtaken, on a device that still had some to transmit too.  *)
NothingLost == Output = leftover \o given

(* What the CPU has seen in the flag register still holds when it accesses *)
(* the data register: the device only makes room in tx, and only adds to   *)
(* rx.                                                                     *)
Polled ==
  /\ pc = "write" => ~TXFF
  /\ pc = "read" => ~RXFE
  /\ pc \notin {"reset"} => fen
  /\ Len(tx) <= Depth /\ Len(rx) <= Depth

(* What msg sends for a character, for a message and for the first n of    *)
(* the messages: each '\n' is followed by a '\r'.                          *)
Sent(c) == IF c = LF THEN <<LF, CR>> ELSE <<c>>

Wired(text) == FlattenSeq([i \in 1 .. Len(text) |-> Sent(text[i])])

WiredUpTo(n) == FlattenSeq([i \in 1 .. n |-> Wired(said[i])])

(* Between messages all of them, as formatted, are on the line or will be, *)
(* each '\n' with its '\r': what a CHECK reports before it hangs as well.  *)
MessagesComplete ==
  pc \in {"idle", "hung", "kernel", "wait", "read"} =>
    wire \o tx = leftover \o WiredUpTo(Len(said))

(* uart_getchar returns the characters received, in order and each once:   *)
(* it reads the data register only when there is one to read.              *)
ReceivedInOrder == got \o rx = accepted

(* What there was to send before the character at p.                       *)
Before == WiredUpTo(Len(said) - 1) \o Wired(SubSeq(buf, 1, p - 1))

(* What uart_putc was given: that, and what is sent so far of the one at   *)
(* p; after the messages, all of them.                                     *)
GivenSoFar ==
  /\ pc \in {"loop", "poll", "write"} =>
       said # <<>> /\ buf = said[Len(said)] /\ p <= Len(buf) + 1
  /\ pc = "loop" => given = Before
  /\ pc \in {"poll", "write"} =>
       /\ p <= Len(buf)
       /\ \/ ch = buf[p] /\ given = Before \o <<ch>>
          \/ buf[p] = LF /\ ch = CR /\ given = Before \o <<LF, CR>>
  /\ pc \notin {"loop", "poll", "write"} => given = WiredUpTo(Len(said))

(* The inductive invariant.                                                *)
IInv == TypeOK /\ NothingLost /\ ReceivedInOrder /\ Polled /\ GivenSoFar

(* The BIOS waits for the device before each character and it never waits  *)
(* for ever: uart_init, for what was left in the FIFO, as it has enabled   *)
(* the device by then; and a message is seen to its last character, even   *)
(* when the BIOS hangs after it (the one of a failed CHECK) or enters the  *)
(* kernel with some of it still in the FIFO.                               *)
HeardToTheEnd ==
  /\ pc = "reset" ~> pc = "idle"
  /\ \A n \in 1 .. MAX_MSGS :
       Len(said) = n ~>
         Len(said) >= n /\ Len(wire) >= Len(leftover \o WiredUpTo(n))
=============================================================================
