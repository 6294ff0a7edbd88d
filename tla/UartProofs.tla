----------------------------- MODULE UartProofs -----------------------------
(***************************************************************************)
(* What the polled driver of drivers/uart.c promises, for a FIFO of any    *)
(* size, messages of any length and any interleaving with the device.      *)
(***************************************************************************)
EXTENDS Uart, Recursion, SequenceTheorems, TLAPS

-----------------------------------------------------------------------------
(* Sequences.                                                              *)

(* A character put at the end of the second of two sequences.              *)
LEMMA AppendToSecond ==
  \A S : \A s, t \in Seq(S), c \in S :
    s \o Append(t, c) = Append(s \o t, c)
<1> SUFFICES ASSUME NEW S, NEW s \in Seq(S), NEW t \in Seq(S), NEW c \in S
             PROVE  s \o Append(t, c) = Append(s \o t, c)
  OBVIOUS
<1>1. <<c>> \in Seq(S) /\ s \o t \in Seq(S)
  BY ConcatProperties
<1>2. (s \o t) \o <<c>> = s \o (t \o <<c>>)
  BY <1>1, ConcatAssociative
<1> QED BY <1>1, <1>2, AppendIsConcat

(* A sequence with two elements more.                                      *)
LEMMA AppendAfterOne ==
  ASSUME NEW S, NEW s \in Seq(S), NEW b \in S, NEW c \in S
  PROVE  Append(s \o <<b>>, c) = s \o <<b, c>>
<1> DEFINE r == Append(s \o <<b>>, c)
           t == s \o <<b, c>>
<1>1. Len(s) \in Nat /\ s \o <<b>> \in Seq(S) /\ <<b, c>> \in Seq(S)
  OBVIOUS
<1>2. r \in Seq(S) /\ t \in Seq(S) /\ Len(r) = Len(t)
  BY <1>1
<1>3. ASSUME NEW i \in 1 .. Len(r)  PROVE r[i] = t[i]
  BY <1>1
<1> HIDE DEF r, t
<1>4. r = t
  BY <1>2, <1>3, SeqEqual
<1>. QED
  BY <1>4 DEF r, t

(* The first character of t moved to the end of s: what the device does    *)
(* when it transmits, and uart_getchar when it reads.                      *)
LEMMA Transfer ==
  ASSUME NEW S, NEW s \in Seq(S), NEW t \in Seq(S), t # <<>>
  PROVE  Append(s, Head(t)) \o Tail(t) = s \o t
<1>1. /\ Head(t) \in S /\ Tail(t) \in Seq(S) /\ Len(Tail(t)) = Len(t) - 1
      /\ \A i \in 1 .. Len(Tail(t)) : Tail(t)[i] = t[i + 1]
  BY HeadTailProperties
<1>2. t = <<Head(t)>> \o Tail(t)
  <2>1. /\ <<Head(t)>> \in Seq(S) /\ Len(<<Head(t)>>) = 1
        /\ <<Head(t)>>[1] = Head(t) /\ Head(t) = t[1]
    BY <1>1
  <2>2. /\ <<Head(t)>> \o Tail(t) \in Seq(S)
        /\ Len(<<Head(t)>> \o Tail(t)) = 1 + Len(Tail(t))
        /\ \A i \in 1 .. 1 + Len(Tail(t)) : (<<Head(t)>> \o Tail(t))[i] =
             IF i <= 1 THEN <<Head(t)>>[i] ELSE Tail(t)[i - 1]
    BY <1>1, <2>1, ConcatProperties
  <2>3. Len(t) \in Nat
    OBVIOUS
  <2>4. ASSUME NEW i \in 1 .. Len(t)
        PROVE  t[i] = (<<Head(t)>> \o Tail(t))[i]
    BY <1>1, <2>1, <2>2, <2>3, SMT
  <2> QED BY <1>1, <2>2, <2>3, <2>4, SeqEqual
<1>3. <<Head(t)>> \in Seq(S)
  BY <1>1
<1>4. Append(s, Head(t)) = s \o <<Head(t)>>
  BY <1>1, AppendIsConcat
<1>5. (s \o <<Head(t)>>) \o Tail(t) = s \o (<<Head(t)>> \o Tail(t))
  BY <1>1, <1>3, ConcatAssociative
<1> QED BY <1>2, <1>4, <1>5

-----------------------------------------------------------------------------
(* Messages.                                                               *)

(* No message, or one without characters, puts nothing on the line.        *)
LEMMA NothingSent ==
  /\ Wired(<<>>) = <<>>
  /\ WiredUpTo(0) = <<>>
BY DEF Wired, WiredUpTo, FlattenSeq

(* A character as the console sends it.                                    *)
LEMMA SentIs ==
  ASSUME NEW c \in Symbol
  PROVE  Sent(c) \in Seq(Symbol)
<1>1. LF \in Symbol /\ CR \in Symbol
  BY DEF Symbol
<1>2. <<LF, CR>> \in Seq(Symbol) /\ <<c>> \in Seq(Symbol)
  BY <1>1
<1>. QED
  BY <1>2 DEF Sent

(* What is sent for one character more.                                    *)
LEMMA WiredNext ==
  ASSUME NEW text \in Seq(Symbol), NEW k \in 1 .. Len(text)
  PROVE  /\ Wired(SubSeq(text, 1, k - 1)) \in Seq(Symbol)
         /\ Wired(SubSeq(text, 1, k))
              = Wired(SubSeq(text, 1, k - 1)) \o Sent(text[k])
<1> DEFINE before == [i \in 1 .. k - 1 |-> Sent(text[i])]
           last == Sent(text[k])
<1>2. Len(text) \in Nat /\ k \in Nat /\ \A i \in 1 .. k : text[i] \in Symbol
  OBVIOUS
<1>3. \A i \in 1 .. k : Sent(text[i]) \in Seq(Symbol)
  BY <1>2, SentIs
<1>4. before \in Seq(Seq(Symbol)) /\ Len(before) = k - 1
  BY <1>2, <1>3
<1>5. Wired(SubSeq(text, 1, k - 1)) = FlattenSeq(before)
  <2>1. /\ Len(SubSeq(text, 1, k - 1)) = k - 1
        /\ \A i \in 1 .. k - 1 : SubSeq(text, 1, k - 1)[i] = text[i]
    BY <1>2
  <2>2. [i \in 1 .. Len(SubSeq(text, 1, k - 1)) |->
           Sent(SubSeq(text, 1, k - 1)[i])] = before
    BY <2>1
  <2>. QED
    BY <2>2 DEF Wired
<1>6. Wired(SubSeq(text, 1, k)) = FlattenSeq(Append(before, Sent(text[k])))
  <2>1. /\ Len(SubSeq(text, 1, k)) = k
        /\ \A i \in 1 .. k : SubSeq(text, 1, k)[i] = text[i]
    BY <1>2
  <2>2. [i \in 1 .. k |-> Sent(text[i])] = Append(before, Sent(text[k]))
    BY <1>2, <1>4
  <2>3. [i \in 1 .. Len(SubSeq(text, 1, k)) |-> Sent(SubSeq(text, 1, k)[i])]
          = [i \in 1 .. k |-> Sent(text[i])]
    BY <2>1
  <2>. QED
    BY <2>2, <2>3 DEF Wired
<1>7. last \in Seq(Symbol)
  BY <1>2, <1>3
<1> HIDE DEF before, last
<1>8. /\ FlattenSeq(before) \in Seq(Symbol)
      /\ FlattenSeq(Append(before, last)) = FlattenSeq(before) \o last
  BY <1>4, <1>7, FlattenAppend
<1>. QED
  BY <1>5, <1>6, <1>8 DEF last

(* What is sent for a message is a sequence of characters.                 *)
LEMMA WiredIs ==
  ASSUME NEW text \in Seq(Symbol)
  PROVE  Wired(text) \in Seq(Symbol) /\ SubSeq(text, 1, Len(text)) = text
<1>1. SubSeq(text, 1, Len(text)) = text /\ Len(text) \in Nat
  OBVIOUS
<1>2. CASE Len(text) = 0
  <2>1. text = <<>> /\ <<>> \in Seq(Symbol)
    BY <1>2
  <2>. QED
    BY <1>1, <2>1, NothingSent
<1>3. CASE Len(text) # 0
  <2>1. Len(text) \in 1 .. Len(text) /\ text[Len(text)] \in Symbol
    BY <1>1, <1>3
  <2> DEFINE n == Len(text)
             before == Wired(SubSeq(text, 1, n - 1))
             last == Sent(text[n])
  <2>2. last \in Seq(Symbol)
    BY <2>1, SentIs
  <2>3. before \in Seq(Symbol) /\ Wired(SubSeq(text, 1, n)) = before \o last
    BY <2>1, WiredNext
  <2> HIDE DEF before, last
  <2>4. before \o last \in Seq(Symbol)
    BY <2>2, <2>3
  <2>. QED
    BY <1>1, <2>3, <2>4
<1>. QED
  BY <1>1, <1>2, <1>3

(* What is sent for one message more.                                      *)
LEMMA WiredUpToNext ==
  ASSUME said \in Seq(Seq(Symbol)), NEW n \in 1 .. Len(said)
  PROVE  /\ WiredUpTo(n - 1) \in Seq(Symbol)
         /\ WiredUpTo(n) = WiredUpTo(n - 1) \o Wired(said[n])
<1> DEFINE before == [i \in 1 .. n - 1 |-> Wired(said[i])]
           last == Wired(said[n])
<1>1. n \in Nat /\ \A i \in 1 .. n : said[i] \in Seq(Symbol)
  OBVIOUS
<1>2. \A i \in 1 .. n : Wired(said[i]) \in Seq(Symbol)
  BY <1>1, WiredIs
<1>3. before \in Seq(Seq(Symbol)) /\ Len(before) = n - 1
  BY <1>1, <1>2
<1>4. [i \in 1 .. n |-> Wired(said[i])] = Append(before, Wired(said[n]))
  BY <1>1, <1>3
<1>5. last \in Seq(Symbol)
  BY <1>1, <1>2
<1> HIDE DEF before, last
<1>6. /\ FlattenSeq(before) \in Seq(Symbol)
      /\ FlattenSeq(Append(before, last)) = FlattenSeq(before) \o last
  BY <1>3, <1>5, FlattenAppend
<1>7. WiredUpTo(n - 1) = FlattenSeq(before)
  BY DEF before, WiredUpTo
<1>. QED
  BY <1>4, <1>6, <1>7 DEF WiredUpTo, last

(* What is sent for the messages printed does not depend on the next.      *)
LEMMA WiredUpToKept ==
  ASSUME said \in Seq(Seq(Symbol)), NEW text, said' = Append(said, text)
  PROVE  WiredUpTo(Len(said) - 1)' = WiredUpTo(Len(said))
<1>1. /\ Len(said) \in Nat /\ Len(said') - 1 = Len(said)
      /\ \A i \in 1 .. Len(said) : said'[i] = said[i]
  OBVIOUS
<1>2. [i \in 1 .. Len(said') - 1 |-> Wired(said'[i])]
        = [i \in 1 .. Len(said) |-> Wired(said[i])]
  BY <1>1
<1>. QED
  BY <1>2 DEF WiredUpTo

-----------------------------------------------------------------------------
(* The invariant is inductive.                                             *)

(* The invariant holds in the beginning.                                   *)
LEMMA InitInvariant == Init => IInv
<1> SUFFICES ASSUME Init PROVE IInv
  OBVIOUS
<1> USE UartAssumption
<1>1. leftover \in Seq(Symbol) /\ <<>> \in Seq(Symbol)
      /\ <<>> \in Seq(Seq(Symbol)) /\ LF \in Symbol
      /\ Len(leftover) \in Nat
  BY DEF Init, Symbol
<1>2. TypeOK
  BY <1>1 DEF Init, TypeOK, Depth
<1>3. NothingLost
  <2>1. /\ <<>> \o leftover = leftover /\ leftover \o <<>> = leftover
    BY <1>1, ConcatEmptySeq
  <2> QED BY <2>1 DEF Init, NothingLost, Output
<1>4. ReceivedInOrder
  BY <1>1, ConcatEmptySeq DEF Init, ReceivedInOrder
<1>5. Polled
  BY <1>1 DEF Init, Polled, Depth
<1>6. GivenSoFar
  BY NothingSent DEF Init, GivenSoFar
<1> QED BY <1>2, <1>3, <1>4, <1>5, <1>6 DEF IInv

(* What vsnprintf leaves fits the buffer with its null byte.               *)
LEMMA FormattedFits ==
  ASSUME NEW text \in Texts
  PROVE  Formatted(text) \in Seq(Symbol) /\ Len(Formatted(text)) < BUF_SIZE
<1>1. text \in Seq(Symbol) /\ Len(text) \in Nat /\ BUF_SIZE \in Nat \ {0}
  BY UartAssumption
<1> DEFINE n == IF Len(text) < BUF_SIZE THEN Len(text) ELSE BUF_SIZE - 1
<1>2. n \in 0 .. Len(text) /\ n < BUF_SIZE
  BY <1>1
<1>3. \A i \in 1 .. n : text[i] \in Symbol
  BY <1>1, <1>2
<1>4. n \in Int
  BY <1>2
<1>5. /\ SubSeq(text, 1, n) \in Seq(Symbol)
      /\ Len(SubSeq(text, 1, n)) = IF 1 <= n THEN n - 1 + 1 ELSE 0
  BY <1>3, <1>4, SubSeqProperties
<1>6. Len(SubSeq(text, 1, n)) = n
  BY <1>2, <1>5
<1> QED BY <1>2, <1>5, <1>6 DEF Formatted

(* Every step keeps the types.                                             *)
LEMMA TypeStep == IInv /\ [Next]_vars => TypeOK'
<1> SUFFICES ASSUME IInv, [Next]_vars PROVE TypeOK'
  OBVIOUS
<1> USE UartAssumption DEF IInv, TypeOK, cpu, mode, output, input
<1>0. LF \in Symbol /\ CR \in Symbol /\ Char \subseteq Symbol
  BY DEF Symbol
<1>1. CASE ConfigureLine \/ Enable \/ FlushTxFifo \/ EnterKernel
  BY <1>1 DEF ConfigureLine, Enable, FlushTxFifo, EnterKernel
<1>2. CASE PollTx \/ Getchar \/ HaveRxData
  BY <1>2 DEF PollTx, Getchar, HaveRxData
<1>3. CASE Msg \/ Check
  <2>1. PICK text \in Texts : /\ buf' = Formatted(text)
                              /\ said' = Append(said, Formatted(text))
    BY <1>3 DEF Msg, Check, StartMsg
  <2>2. buf' \in Seq(Symbol) /\ Len(buf') < BUF_SIZE
        /\ said' \in Seq(Seq(Symbol))
    BY <2>1, FormattedFits
  <2>3. ret' \in {"idle", "hung"} /\ p' = 1 /\ pc' = "loop"
        /\ UNCHANGED <<ch, mode, output, input, leftover, given>>
    BY <1>3 DEF Msg, Check, StartMsg
  <2> QED BY <2>2, <2>3
<1>4. CASE Loop
  <2>1. UNCHANGED <<buf, p, ret, mode, output, input, leftover, said>>
    BY <1>4 DEF Loop
  <2>2. CASE p <= Len(buf)
    <3>1. buf[p] \in Symbol
      BY <2>2
    <3>2. ch' = buf[p] /\ given' = Append(given, buf[p]) /\ pc' = "poll"
      BY <1>4, <2>2 DEF Loop, Putc
    <3>3. ch' \in Symbol /\ given' \in Seq(Symbol)
      BY <3>1, <3>2
    <3> QED BY <2>1, <3>2, <3>3
  <2>3. CASE ~(p <= Len(buf))
    <3>1. pc' = ret /\ UNCHANGED <<ch, given>>
      BY <1>4, <2>3 DEF Loop
    <3> QED BY <2>1, <3>1
  <2> QED BY <2>2, <2>3
<1>5. CASE WriteTx
  <2>1. tx' \in Seq(Symbol) /\ Len(tx') <= FIFO_SIZE
    BY <1>5 DEF WriteTx, WriteData, TXFF, Depth, Polled
  <2>2. UNCHANGED <<buf, ret, mode, wire, input, leftover, said>>
    BY <1>5 DEF WriteTx
  <2>3. CASE ch = LF
    <3>1. ch' = CR /\ given' = Append(given, CR) /\ pc' = "poll" /\ p' = p
      BY <1>5, <2>3 DEF WriteTx, Putc
    <3> QED BY <1>0, <2>1, <2>2, <3>1
  <2>4. CASE ch # LF
    <3>1. p' = p + 1 /\ pc' = "loop" /\ UNCHANGED <<ch, given>>
      BY <1>5, <2>4 DEF WriteTx
    <3> QED BY <1>0, <2>1, <2>2, <3>1
  <2> QED BY <2>3, <2>4
<1>6. CASE ReadData
  <2>1. ~RXFE
    BY <1>6 DEF ReadData, DataRead, Polled
  <2>2. /\ Head(rx) \in Symbol /\ Tail(rx) \in Seq(Symbol)
        /\ Len(Tail(rx)) = Len(rx) - 1
    BY <2>1, HeadTailProperties DEF RXFE
  <2>3. Len(rx) \in Nat /\ FIFO_SIZE \in Nat
    OBVIOUS
  <2>4. /\ got' = Append(got, Head(rx)) /\ rx' = Tail(rx) /\ pc' = "idle"
        /\ UNCHANGED <<buf, p, ch, ret, mode, output, accepted, leftover,
                       given, said>>
    BY <1>6, <2>1 DEF ReadData, DataRead
  <2>5. Len(rx') <= FIFO_SIZE
    BY <2>2, <2>3, <2>4
  <2> QED BY <2>2, <2>4, <2>5
<1>7. CASE Transmit
  <2>1. /\ Head(tx) \in Symbol /\ Tail(tx) \in Seq(Symbol)
        /\ Len(Tail(tx)) = Len(tx) - 1
    BY <1>7, HeadTailProperties DEF Transmit, TXFE
  <2>2. Len(tx) \in Nat /\ FIFO_SIZE \in Nat
    OBVIOUS
  <2>3. /\ wire' = Append(wire, Head(tx)) /\ tx' = Tail(tx)
        /\ UNCHANGED <<cpu, mode, input, leftover, given, said>>
    BY <1>7 DEF Transmit
  <2>4. Len(tx') <= FIFO_SIZE
    BY <2>1, <2>2, <2>3
  <2> QED BY <2>1, <2>3, <2>4
<1>8. ASSUME NEW c \in Char, Receive(c) PROVE TypeOK'
  <2>1. Len(rx') <= FIFO_SIZE
    BY <1>8 DEF Receive, Depth
  <2> QED BY <1>0, <1>8, <2>1 DEF Receive
<1>9. CASE UNCHANGED vars
  BY <1>9 DEF vars
<1> QED
  BY <1>1, <1>2, <1>3, <1>4, <1>5, <1>6, <1>7, <1>8, <1>9 DEF Next, Cpu

(* Every step keeps what a flag has said.                                  *)
LEMMA PolledStep == IInv /\ [Next]_vars => Polled'
<1> SUFFICES ASSUME IInv, [Next]_vars PROVE Polled'
  OBVIOUS
<1> USE UartAssumption DEF IInv, Polled, cpu, mode, output, input, TXFF, RXFE,
                           Depth
<1>0. /\ Len(tx) \in Nat /\ Len(rx) \in Nat /\ FIFO_SIZE \in Nat \ {0}
      /\ tx \in Seq(Symbol) /\ rx \in Seq(Symbol) /\ fen \in BOOLEAN
      /\ LF \in Symbol /\ CR \in Symbol /\ Char \subseteq Symbol
      /\ ch \in Symbol /\ ret \in {"idle", "hung"}
  BY DEF TypeOK, Symbol
<1>1. CASE ConfigureLine \/ Enable \/ FlushTxFifo \/ EnterKernel
  BY <1>0, <1>1 DEF ConfigureLine, Enable, FlushTxFifo, EnterKernel
<1>2. CASE PollTx \/ Getchar \/ HaveRxData
  BY <1>0, <1>2 DEF PollTx, Getchar, HaveRxData
<1>3. CASE Msg \/ Check
  BY <1>0, <1>3 DEF Msg, Check, StartMsg
<1>4. CASE Loop
  BY <1>0, <1>4 DEF Loop, Putc
<1>5. CASE WriteTx
  <2>1. Len(tx') = Len(tx) + 1 /\ fen
    BY <1>0, <1>5 DEF WriteTx, WriteData
  <2>2. pc' \in {"poll", "loop"} /\ UNCHANGED <<mode, rx>>
    BY <1>5 DEF WriteTx, Putc
  <2>3. Len(tx) < FIFO_SIZE
    BY <1>0, <1>5, <2>1 DEF WriteTx
  <2> QED BY <1>0, <2>1, <2>2, <2>3
<1>6. CASE ReadData
  <2>1. rx # <<>>
    BY <1>6 DEF ReadData, DataRead
  <2>2. Len(Tail(rx)) = Len(rx) - 1
    BY <1>0, <2>1, HeadTailProperties
  <2>3. rx' = Tail(rx) /\ pc' = "idle" /\ UNCHANGED <<mode, output>>
    BY <1>6, <2>1 DEF ReadData, DataRead
  <2>4. pc = "read"
    BY <1>6 DEF ReadData, DataRead
  <2>5. fen /\ Len(rx') = Len(rx) - 1 /\ fen' = fen /\ tx' = tx
    BY <2>2, <2>3, <2>4
  <2> QED BY <1>0, <2>3, <2>5
<1>7. CASE Transmit
  <2>1. Len(Tail(tx)) = Len(tx) - 1
    BY <1>0, <1>7, HeadTailProperties DEF Transmit, TXFE
  <2>2. tx' = Tail(tx) /\ UNCHANGED <<cpu, mode, input>>
    BY <1>7 DEF Transmit
  <2> QED BY <1>0, <2>1, <2>2
<1>8. ASSUME NEW c \in Char, Receive(c) PROVE Polled'
  <2>1. /\ Len(rx') = Len(rx) + 1 /\ rx' # <<>> /\ Len(rx) < Depth
        /\ UNCHANGED <<cpu, mode, output>>
    BY <1>0, <1>8 DEF Receive
  <2> QED BY <1>0, <2>1
<1>9. CASE UNCHANGED vars
  BY <1>9 DEF vars
<1> QED
  BY <1>1, <1>2, <1>3, <1>4, <1>5, <1>6, <1>7, <1>8, <1>9 DEF Next, Cpu

(* Every step keeps the output.                                            *)
LEMMA OutputStep == IInv /\ [Next]_vars => NothingLost'
<1> SUFFICES ASSUME IInv, [Next]_vars PROVE NothingLost'
  OBVIOUS
<1>0. /\ wire \in Seq(Symbol) /\ tx \in Seq(Symbol) /\ ch \in Symbol
      /\ leftover \in Seq(Symbol) /\ given \in Seq(Symbol)
      /\ buf \in Seq(Symbol) /\ p \in Nat \ {0} /\ CR \in Symbol
      /\ ret \in {"idle", "hung"}
  BY DEF IInv, TypeOK, Symbol
<1>1. NothingLost
  BY DEF IInv
<1>2. CASE \/ ConfigureLine \/ Enable \/ FlushTxFifo \/ EnterKernel
           \/ PollTx \/ Getchar \/ HaveRxData \/ ReadData
           \/ \E c \in Char : Receive(c)
  BY <1>1, <1>2 DEF ConfigureLine, Enable, FlushTxFifo, EnterKernel, PollTx,
              Getchar, HaveRxData, ReadData, Receive, NothingLost, Output,
              cpu, output
<1>3. CASE Msg \/ Check
  BY <1>1, <1>3 DEF Msg, Check, StartMsg, NothingLost, Output, output
<1>4. CASE Loop
  <2>1. CASE p <= Len(buf)
    <3>1. buf[p] \in Symbol
      BY <1>0, <2>1
    <3>2. /\ pc = "loop" /\ pc' = "poll" /\ ch' = buf[p]
          /\ given' = Append(given, buf[p]) /\ UNCHANGED <<output, leftover>>
      BY <1>0, <1>4, <2>1 DEF Loop, Putc
    <3>3. wire \o tx = leftover \o given
      BY <1>1, <3>2 DEF NothingLost, Output
    <3>4. leftover \o Append(given, buf[p]) = Append(leftover \o given, buf[p])
      BY <1>0, <3>1, AppendToSecond
    <3> QED BY <3>2, <3>3, <3>4 DEF NothingLost, Output, output
  <2>2. CASE ~(p <= Len(buf))
    BY <1>0, <1>1, <1>4, <2>2 DEF Loop, NothingLost, Output, output
  <2> QED BY <2>1, <2>2
<1>5. CASE WriteTx
  <2>1. /\ tx' = Append(tx, ch) /\ pc = "write"
        /\ UNCHANGED <<wire, leftover>>
    BY <1>5 DEF WriteTx, WriteData, IInv, Polled
  <2>2. Append(wire \o tx, ch) = leftover \o given
    BY <1>1, <2>1 DEF NothingLost, Output
  <2>3. wire \o tx' = leftover \o given
    <3>1. wire \o Append(tx, ch) = Append(wire \o tx, ch)
      BY <1>0, AppendToSecond
    <3> QED BY <2>1, <2>2, <3>1
  <2>4. CASE ch = LF
    <3>1. pc' = "poll" /\ ch' = CR /\ given' = Append(given, CR)
      BY <1>5, <2>4 DEF WriteTx, Putc
    <3>2. leftover \o Append(given, CR) = Append(leftover \o given, CR)
      BY <1>0, AppendToSecond
    <3> QED BY <2>1, <2>3, <3>1, <3>2 DEF NothingLost, Output
  <2>5. CASE ch # LF
    <3>1. pc' = "loop" /\ given' = given
      BY <1>5, <2>5 DEF WriteTx
    <3> QED BY <2>1, <2>3, <3>1 DEF NothingLost, Output
  <2> QED BY <2>4, <2>5
<1>6. CASE Transmit
  <2>1. /\ tx # <<>> /\ wire' = Append(wire, Head(tx)) /\ tx' = Tail(tx)
        /\ UNCHANGED <<pc, ch, leftover, given>>
    BY <1>6 DEF Transmit, TXFE, cpu
  <2>2. wire' \o tx' = wire \o tx
    BY <1>0, <2>1, Transfer
  <2> QED BY <1>1, <2>1, <2>2 DEF NothingLost, Output
<1>7. CASE UNCHANGED vars
  BY <1>1, <1>7 DEF vars, NothingLost, Output, cpu, output
<1> QED BY <1>2, <1>3, <1>4, <1>5, <1>6, <1>7 DEF Next, Cpu

(* Every step keeps the input.                                             *)
LEMMA InputStep == IInv /\ [Next]_vars => ReceivedInOrder'
<1> SUFFICES ASSUME IInv, [Next]_vars PROVE ReceivedInOrder'
  OBVIOUS
<1>0. rx \in Seq(Symbol) /\ got \in Seq(Symbol) /\ Char \subseteq Symbol
  BY DEF IInv, TypeOK, Symbol
<1>1. got \o rx = accepted
  BY DEF IInv, ReceivedInOrder
<1>2. CASE \/ ConfigureLine \/ Enable \/ FlushTxFifo \/ EnterKernel
           \/ PollTx \/ Getchar \/ HaveRxData \/ Msg \/ Check \/ Loop
           \/ WriteTx \/ Transmit
  BY <1>1, <1>2 DEF ConfigureLine, Enable, FlushTxFifo, EnterKernel, PollTx,
              Getchar, HaveRxData, Msg, Check, StartMsg, Loop, WriteTx,
              Transmit, ReceivedInOrder, input
<1>3. CASE ReadData
  <2>1. /\ rx # <<>> /\ got' = Append(got, Head(rx)) /\ rx' = Tail(rx)
        /\ UNCHANGED accepted
    BY <1>3 DEF ReadData, DataRead, IInv, Polled, RXFE
  <2> QED BY <1>0, <1>1, <2>1, Transfer DEF ReceivedInOrder
<1>4. ASSUME NEW c \in Char, Receive(c) PROVE ReceivedInOrder'
  <2>1. /\ rx' = Append(rx, c) /\ accepted' = Append(accepted, c)
        /\ UNCHANGED got
    BY <1>4 DEF Receive
  <2>2. got \o Append(rx, c) = Append(got \o rx, c)
    BY <1>0, AppendToSecond
  <2> QED BY <1>1, <2>1, <2>2 DEF ReceivedInOrder
<1>5. CASE UNCHANGED vars
  BY <1>1, <1>5 DEF vars, ReceivedInOrder, input
<1> QED BY <1>2, <1>3, <1>4, <1>5 DEF Next, Cpu

(* Every step keeps what is given of each message.                         *)
LEMMA GivenStep == IInv /\ [Next]_vars => GivenSoFar'
<1> SUFFICES ASSUME IInv, [Next]_vars PROVE GivenSoFar'
  OBVIOUS
<1>0. /\ buf \in Seq(Symbol) /\ p \in Nat \ {0} /\ ch \in Symbol
      /\ given \in Seq(Symbol) /\ said \in Seq(Seq(Symbol))
      /\ Len(said) \in Nat /\ Len(buf) \in Nat
      /\ LF \in Symbol /\ CR \in Symbol /\ LF # CR
      /\ ret \in {"idle", "hung"} /\ GivenSoFar
  BY UartAssumption DEF IInv, TypeOK, Symbol
<1>1. CASE UNCHANGED <<buf, p, ch, given, said>> /\ UNCHANGED pc
  BY <1>0, <1>1 DEF GivenSoFar, Before, WiredUpTo
<1>2. CASE \/ ConfigureLine \/ Enable \/ FlushTxFifo \/ EnterKernel
           \/ PollTx \/ Getchar \/ HaveRxData \/ ReadData
  <2>1. /\ UNCHANGED <<buf, p, ch, given, said>>
        /\ \/ pc = "poll" /\ pc' = "write"
           \/ {pc, pc'} \cap {"loop", "poll", "write"} = {}
    BY <1>2 DEF ConfigureLine, Enable, FlushTxFifo, EnterKernel, PollTx,
                Getchar, HaveRxData, ReadData
  <2>. QED
    BY <1>0, <2>1 DEF GivenSoFar, Before, WiredUpTo
<1>3. CASE Msg \/ Check
  <2>1. PICK text \in Texts : /\ buf' = Formatted(text)
                              /\ said' = Append(said, Formatted(text))
    BY <1>3 DEF Msg, Check, StartMsg
  <2>2. pc = "idle" /\ pc' = "loop" /\ p' = 1 /\ given' = given
    BY <1>3 DEF Msg, Check, StartMsg
  <2>3. buf' \in Seq(Symbol) /\ Len(buf') \in Nat
    BY <2>1, FormattedFits
  <2>4. said' # <<>> /\ buf' = said'[Len(said')] /\ p' <= Len(buf') + 1
    <3> DEFINE text0 == Formatted(text)
    <3>1. text0 \in Seq(Symbol)
      BY FormattedFits
    <3>2. said' = Append(said, text0) /\ buf' = text0
      BY <2>1
    <3> HIDE DEF text0
    <3>3. Len(said') = Len(said) + 1 /\ said'[Len(said) + 1] = text0
      BY <1>0, <3>1, <3>2
    <3>4. said' # <<>>
      BY <1>0, <3>3
    <3>5. p' <= Len(buf') + 1
      BY <2>2, <2>3
    <3>. QED
      BY <3>2, <3>3, <3>4, <3>5
  <2>5. given' = WiredUpTo(Len(said))
    BY <1>0, <2>2 DEF GivenSoFar
  <2>6. WiredUpTo(Len(said) - 1)' = WiredUpTo(Len(said))
    BY <1>0, <2>1, WiredUpToKept
  <2>7. Wired(SubSeq(buf', 1, p' - 1)) = <<>>
    <3>1. SubSeq(buf', 1, p' - 1) = <<>>
      BY <2>2, <2>3
    <3>. QED
      BY <3>1, NothingSent
  <2>8. given' = Before'
    <3>1. given' \o <<>> = given'
      BY <1>0, <2>2
    <3>. QED
      BY <2>5, <2>6, <2>7, <3>1 DEF Before
  <2>. QED
    BY <2>2, <2>4, <2>8 DEF GivenSoFar
<1>4. CASE Loop
  <2>1. /\ UNCHANGED <<buf, p, said>> /\ Before' = Before /\ pc = "loop"
    BY <1>4 DEF Loop, Before, WiredUpTo
  <2>2. /\ said # <<>> /\ buf = said[Len(said)] /\ p <= Len(buf) + 1
        /\ given = Before
    BY <1>0, <2>1 DEF GivenSoFar
  <2>3. CASE p <= Len(buf)
    <3>1. /\ pc' = "poll" /\ ch' = buf[p] /\ given' = Append(given, buf[p])
      BY <1>0, <1>4, <2>3 DEF Loop, Putc
    <3>2. given' = Before' \o <<ch'>>
      <4>1. buf[p] \in Symbol
        BY <1>0, <2>3
      <4>2. Append(given, buf[p]) = given \o <<buf[p]>>
        BY <1>0, <4>1, AppendIsConcat
      <4>. QED
        BY <2>1, <2>2, <3>1, <4>2
    <3>. QED
      BY <2>1, <2>2, <2>3, <3>1, <3>2 DEF GivenSoFar
  <2>4. CASE ~(p <= Len(buf))
    <3>1. pc' = ret /\ given' = given
      BY <1>4, <2>4 DEF Loop
    <3>2. p - 1 = Len(buf)
      BY <1>0, <2>2, <2>4
    <3>3. SubSeq(buf, 1, p - 1) = buf
      BY <1>0, <3>2, WiredIs
    <3>4. Len(said) \in 1 .. Len(said)
      BY <1>0, <2>2
    <3>5. given = WiredUpTo(Len(said))
      BY <1>0, <2>2, <3>3, <3>4, WiredUpToNext DEF Before
    <3>6. (WiredUpTo(Len(said)))' = WiredUpTo(Len(said))
      BY <2>1 DEF WiredUpTo
    <3>. QED
      BY <1>0, <3>1, <3>5, <3>6 DEF GivenSoFar
  <2>. QED
    BY <2>3, <2>4
<1>5. CASE WriteTx
  <2>1. /\ UNCHANGED <<buf, said>> /\ pc = "write"
        /\ said # <<>> /\ buf = said[Len(said)] /\ p <= Len(buf)
    BY <1>0, <1>5 DEF WriteTx, GivenSoFar
  <2>2. Len(said) \in 1 .. Len(said) /\ p \in 1 .. Len(buf)
    BY <1>0, <2>1
  <2> DEFINE all == WiredUpTo(Len(said) - 1)
             done == Wired(SubSeq(buf, 1, p - 1))
             next == Sent(buf[p])
  <2>3. all \in Seq(Symbol)
    BY <1>0, <2>2, WiredUpToNext
  <2>4. done \in Seq(Symbol) /\ Wired(SubSeq(buf, 1, p)) = done \o next
    BY <1>0, <2>2, WiredNext
  <2>5. next \in Seq(Symbol)
    BY <1>0, <2>2, SentIs
  <2>6. all' = all
    BY <2>1 DEF WiredUpTo
  <2>7. Before = all \o done
    BY DEF Before
  <2>8. ASSUME p' = p + 1, given' = given, given = Before \o next
        PROVE  given' = Before'
    <3>1. SubSeq(buf', 1, p' - 1) = SubSeq(buf, 1, p)
      BY <1>0, <2>1, <2>8
    <3>2. Before' = all \o (done \o next)
      BY <2>4, <2>6, <3>1 DEF Before
    <3> HIDE DEF all, done, next
    <3>3. (all \o done) \o next = all \o (done \o next)
      BY <2>3, <2>4, <2>5, ConcatAssociative
    <3>. QED
      BY <2>7, <2>8, <3>2, <3>3
  <2>9. CASE ch = LF
    <3>1. /\ pc' = "poll" /\ ch' = CR /\ given' = Append(given, CR) /\ p' = p
      BY <1>5, <2>9 DEF WriteTx, Putc
    <3>2. buf[p] = LF /\ given = Before \o <<LF>>
      BY <1>0, <2>1, <2>9 DEF GivenSoFar
    <3>3. Before' = Before
      BY <2>1, <3>1 DEF Before, WiredUpTo
    <3>4. given' = Before' \o <<LF, CR>>
      <4>1. Before \in Seq(Symbol)
        <5> HIDE DEF all, done
        <5>. QED
          BY <2>3, <2>4, <2>7
      <4>2. Append(Before \o <<LF>>, CR) = Before \o <<LF, CR>>
        BY <1>0, <4>1, AppendAfterOne
      <4>. QED
        BY <3>1, <3>2, <3>3, <4>2
    <3>5. /\ said' # <<>> /\ buf' = said'[Len(said')]
          /\ p' <= Len(buf') /\ p' <= Len(buf') + 1 /\ buf'[p'] = LF
      BY <1>0, <2>1, <2>2, <3>1, <3>2
    <3>. QED
      BY <3>1, <3>4, <3>5 DEF GivenSoFar
  <2>10. CASE ch # LF
    <3>1. pc' = "loop" /\ p' = p + 1 /\ given' = given
      BY <1>5, <2>10 DEF WriteTx
    <3>2. given = Before \o next
      <4>1. CASE ch = buf[p] /\ given = Before \o <<ch>>
        BY <2>10, <4>1 DEF Sent
      <4>2. CASE buf[p] = LF /\ ch = CR /\ given = Before \o <<LF, CR>>
        BY <4>2 DEF Sent
      <4>. QED
        BY <1>0, <2>1, <4>1, <4>2 DEF GivenSoFar
    <3>3. given' = Before'
      BY <2>8, <3>1, <3>2
    <3>4. p' <= Len(buf') + 1
      BY <1>0, <2>1, <3>1
    <3>. QED
      BY <2>1, <3>1, <3>3, <3>4 DEF GivenSoFar
  <2>. QED
    BY <2>9, <2>10
<1>6. CASE Transmit \/ \E c \in Char : Receive(c)
  BY <1>1, <1>6 DEF Transmit, Receive, cpu
<1>7. CASE UNCHANGED vars
  BY <1>1, <1>7 DEF vars, cpu
<1>. QED
  BY <1>2, <1>3, <1>4, <1>5, <1>6, <1>7 DEF Next, Cpu

(* The invariant the theorems below are read from: that the two FIFOs are  *)
(* never in a worse state than the CPU saw them in is what makes the rest  *)
(* inductive.                                                              *)
THEOREM Invariance == Spec => []IInv
<1>1. IInv /\ [Next]_vars => IInv'
  BY TypeStep, PolledStep, OutputStep, InputStep, GivenStep DEF IInv
<1> QED BY InitInvariant, <1>1, PTL DEF Spec

(* Every variable keeps its type: a formatted message fits buf, and the    *)
(* driver never has more in a FIFO than the device can hold.               *)
THEOREM TypeCorrect == Spec => []TypeOK
<1>1. IInv => TypeOK
  BY DEF IInv
<1> QED BY Invariance, <1>1, PTL

(* uart_putc loses, doubles and reorders nothing, whenever the device      *)
(* transmits.                                                              *)
THEOREM OutputIsKept == Spec => []NothingLost
<1>1. IInv => NothingLost
  BY DEF IInv
<1> QED BY Invariance, <1>1, PTL

(* uart_getchar returns what came in, in order.                            *)
THEOREM InputIsKept == Spec => []ReceivedInOrder
<1>1. IInv => ReceivedInOrder
  BY DEF IInv
<1> QED BY Invariance, <1>1, PTL

(* Whatever the device does in between, each message printed is put on the *)
(* line as a whole, in turn and with a '\r' after each '\n'.               *)
THEOREM MessagesAreComplete == Spec => []MessagesComplete
<1>1. IInv => MessagesComplete
  BY DEF IInv, NothingLost, Output, GivenSoFar, MessagesComplete
<1> QED BY Invariance, <1>1, PTL
=============================================================================
