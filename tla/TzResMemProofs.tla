--------------------------- MODULE TzResMemProofs ---------------------------
(***************************************************************************)
(* Proofs about TzResMem, for every width of a cell, every place of the    *)
(* reserved range and every set of device trees.                           *)
(***************************************************************************)
EXTENDS TzResMem, TLAPS

-----------------------------------------------------------------------------
(* The arithmetic of put_val and of start + len.                           *)

(* put_val puts a value of one cell.                                       *)
LEMMA PutValType ==
  ASSUME NEW val \in Int
  PROVE  PutVal(val) \in 0 .. W32 - 1
BY LayoutAssumption, SMT DEF PutVal, TZ_RES_MEM_END

(* put_val loses nothing of a value that one cell can hold.                *)
LEMMA PutValExact ==
  ASSUME NEW val \in 0 .. W32 - 1
  PROVE  PutVal(val) = val
BY LayoutAssumption, SMT DEF PutVal, TZ_RES_MEM_END

(* start + len is again a number of two cells.                             *)
LEMMA RegionEndType ==
  ASSUME NEW r \in Region
  PROVE  RegionEnd(r) \in 0 .. W64 - 1
BY LayoutAssumption DEF Region, RegionEnd

-----------------------------------------------------------------------------
(* What the branches of tz_res_mem_carve put.                              *)

LEMMA RegionFields ==
  ASSUME NEW r \in Region
  PROVE  /\ r.start \in 0 .. W64 - 1
         /\ r.len \in 0 .. W64 - 1
         /\ r.start \in Nat
         /\ r.len \in Nat
BY LayoutAssumption DEF Region

LEMMA PutType ==
  ASSUME NEW start \in Int, NEW len \in Int
  PROVE  Put(start, len) \in Region
<1>1. PutVal(start) \in 0 .. W64 - 1 /\ PutVal(len) \in 0 .. W64 - 1
  BY PutValType, LayoutAssumption
<1>. QED  BY <1>1 DEF Put, Region

LEMMA KeptType ==
  ASSUME NEW r \in Region
  PROVE  Kept(r) \in Seq(Region)
<1>. DEFINE end  == RegionEnd(r)
            head == Put(r.start, TZ_RES_MEM_START - r.start)
            tail == Put(TZ_RES_MEM_END, end - TZ_RES_MEM_END)
<1>1. /\ end \in Int /\ r.start \in Int
      /\ TZ_RES_MEM_START \in Int /\ TZ_RES_MEM_END \in Int
  BY RegionEndType, RegionFields, LayoutAssumption DEF TZ_RES_MEM_END
<1>2. head \in Region
  BY <1>1, PutType
<1>3. tail \in Region
  BY <1>1, PutType
<1>4. \/ Kept(r) = <<>>
      \/ Kept(r) = <<head>>
      \/ Kept(r) = <<tail>>
      \/ Kept(r) = <<head, tail>>
  BY DEF Kept
<1>. HIDE DEF head, tail
<1>5. <<head>> \in Seq(Region) /\ <<tail>> \in Seq(Region)
  BY <1>2, <1>3
<1>6. <<head, tail>> \in Seq(Region)
  BY <1>2, <1>3
<1>7. <<>> \in Seq(Region)
  OBVIOUS
<1>. QED  BY <1>4, <1>5, <1>6, <1>7

(* An address is in a concatenation when it is in one of its parts.        *)
LEMMA CoveredConcat ==
  ASSUME NEW s \in Seq(Region), NEW t \in Seq(Region), NEW a
  PROVE  Covered(a, s \o t) <=> Covered(a, s) \/ Covered(a, t)
<1>1. ASSUME Covered(a, s \o t)  PROVE Covered(a, s) \/ Covered(a, t)
  <2>1. PICK i \in 1 .. Len(s \o t) : InRegion(a, (s \o t)[i])
    BY <1>1 DEF Covered
  <2>2. CASE i <= Len(s)
    BY <2>1, <2>2 DEF Covered
  <2>3. CASE i > Len(s)
    <3>1. i - Len(s) \in 1 .. Len(t) /\ (s \o t)[i] = t[i - Len(s)]
      BY <2>3
    <3>. QED  BY <2>1, <3>1 DEF Covered
  <2>. QED  BY <2>2, <2>3
<1>2. ASSUME Covered(a, s)  PROVE Covered(a, s \o t)
  <2>1. PICK i \in 1 .. Len(s) : InRegion(a, s[i])
    BY <1>2 DEF Covered
  <2>2. i \in 1 .. Len(s \o t) /\ (s \o t)[i] = s[i]
    OBVIOUS
  <2>. QED  BY <2>1, <2>2 DEF Covered
<1>3. ASSUME Covered(a, t)  PROVE Covered(a, s \o t)
  <2>1. PICK i \in 1 .. Len(t) : InRegion(a, t[i])
    BY <1>3 DEF Covered
  <2>2. i + Len(s) \in 1 .. Len(s \o t) /\ (s \o t)[i + Len(s)] = t[i]
    OBVIOUS
  <2>. QED  BY <2>1, <2>2 DEF Covered
<1>. QED  BY <1>1, <1>2, <1>3

LEMMA CoveredShort ==
  ASSUME NEW h, NEW t, NEW a
  PROVE  /\ ~Covered(a, <<>>)
         /\ Covered(a, <<h>>) <=> InRegion(a, h)
         /\ Covered(a, <<h, t>>) <=> InRegion(a, h) \/ InRegion(a, t)
<1>1. ~Covered(a, <<>>)
  BY DEF Covered
<1>2. Covered(a, <<h>>) <=> InRegion(a, h)
  BY DEF Covered
<1>3. Covered(a, <<h, t>>) <=> InRegion(a, h) \/ InRegion(a, t)
  BY DEF Covered
<1>. QED  BY <1>1, <1>2, <1>3

(* A head ends where the reserved range begins.                            *)
LEMMA HeadRegion ==
  ASSUME NEW start \in Nat, start < TZ_RES_MEM_START
  PROVE  LET head == Put(start, TZ_RES_MEM_START - start)
         IN  head.start = start /\ RegionEnd(head) = TZ_RES_MEM_START
<1>1. /\ start \in 0 .. W32 - 1
      /\ TZ_RES_MEM_START - start \in 0 .. W32 - 1
  BY LayoutAssumption DEF TZ_RES_MEM_END
<1>2. /\ PutVal(start) = start
      /\ PutVal(TZ_RES_MEM_START - start) = TZ_RES_MEM_START - start
  BY <1>1, PutValExact
<1>. QED  BY <1>2, LayoutAssumption DEF Put, RegionEnd, TZ_RES_MEM_END

(* A tail begins where the reserved range ends, even when its length lost  *)
(* its upper cell.                                                         *)
LEMMA TailRegion ==
  ASSUME NEW end \in 0 .. W64 - 1, TZ_RES_MEM_END < end
  PROVE  LET tail == Put(TZ_RES_MEM_END, end - TZ_RES_MEM_END)
         IN  /\ tail.start = TZ_RES_MEM_END
             /\ end - TZ_RES_MEM_END < W32 => RegionEnd(tail) = end
<1>1. TZ_RES_MEM_END \in 0 .. W32 - 1
  BY LayoutAssumption DEF TZ_RES_MEM_END
<1>2. PutVal(TZ_RES_MEM_END) = TZ_RES_MEM_END
  BY <1>1, PutValExact
<1>3. ASSUME end - TZ_RES_MEM_END < W32
      PROVE  PutVal(end - TZ_RES_MEM_END) = end - TZ_RES_MEM_END
  <2>1. end - TZ_RES_MEM_END \in 0 .. W32 - 1
    BY <1>1, <1>3, LayoutAssumption
  <2>. QED  BY <2>1, PutValExact
<1>. QED  BY <1>1, <1>2, <1>3, LayoutAssumption DEF Put, RegionEnd

(* No branch puts a region with a reserved address.                        *)
LEMMA KeptHidden ==
  ASSUME NEW r \in Region, NEW a \in Reserved
  PROVE  ~Covered(a, Kept(r))
<1>. DEFINE end  == RegionEnd(r)
            head == Put(r.start, TZ_RES_MEM_START - r.start)
            tail == Put(TZ_RES_MEM_END, end - TZ_RES_MEM_END)
<1>1. ASSUME r.start < TZ_RES_MEM_START  PROVE ~InRegion(a, head)
  BY <1>1, HeadRegion, RegionFields, LayoutAssumption
     DEF InRegion, Reserved, TZ_RES_MEM_END
<1>2. ASSUME TZ_RES_MEM_END < end  PROVE ~InRegion(a, tail)
  BY <1>2, TailRegion, RegionEndType, LayoutAssumption
     DEF InRegion, Reserved, TZ_RES_MEM_END
<1>3. \/ Kept(r) = <<>>
      \/ Kept(r) = <<head, tail>> /\ r.start < TZ_RES_MEM_START /\ TZ_RES_MEM_END < end
      \/ Kept(r) = <<head>> /\ r.start < TZ_RES_MEM_START
      \/ Kept(r) = <<tail>> /\ TZ_RES_MEM_END < end
  BY RegionFields, RegionEndType, LayoutAssumption DEF Kept, TZ_RES_MEM_END
<1>. HIDE DEF head, tail, end
<1>. QED  BY <1>1, <1>2, <1>3, CoveredShort

-----------------------------------------------------------------------------
(* The inductive invariant, action by action.                              *)

LEMMA InitIInv == Init => IInv
<1>. SUFFICES ASSUME Init  PROVE IInv
  OBVIOUS
<1>1. dtb.regs \in Seq(Region)
  BY DtbsAssumption DEF Init, Dtb
<1>2. TypeOK
  BY <1>1, LayoutAssumption DEF Init, TypeOK, PcValues, TZ_RES_MEM_END
<1>3. SearchOrder
  BY LayoutAssumption DEF Init, SearchOrder, TZ_RES_MEM_END
<1>4. FoundIsCovered
  BY LayoutAssumption DEF Init, FoundIsCovered, Reserved, TZ_RES_MEM_END
<1>5. SecureMemHidden
  BY CoveredShort DEF Init, SecureMemHidden
<1>6. RegUntouched /\ NotInPass /\ AvailSound /\ RefusedOnlyIfMissing
  BY DEF Init, RegUntouched, NotInPass, AvailSound, RefusedOnlyIfMissing,
         Checked
<1>. QED  BY <1>2, <1>3, <1>4, <1>5, <1>6 DEF IInv

(* What a step of the search may rely on about the region it reads.        *)
LEMMA CurrentFacts ==
  ASSUME IInv, pc # "done", offs < Len(reg)
  PROVE  /\ reg = dtb.regs
         /\ offs + 1 \in 1 .. Len(dtb.regs)
         /\ Current = dtb.regs[offs + 1]
         /\ Current \in Region
         /\ Current.start \in Nat
         /\ RegionEnd(Current) \in Nat
         /\ \A a : InRegion(a, Current) => Covered(a, dtb.regs)
<1>1. reg = dtb.regs /\ reg \in Seq(Region) /\ offs \in Nat
  BY DEF IInv, RegUntouched, TypeOK
<1>2. offs + 1 \in 1 .. Len(dtb.regs) /\ Current = dtb.regs[offs + 1]
  BY <1>1 DEF Current
<1>3. Current \in Region
  BY <1>1, <1>2
<1>4. Current.start \in Nat /\ RegionEnd(Current) \in Nat
  BY <1>3, RegionFields, RegionEndType
<1>5. \A a : InRegion(a, Current) => Covered(a, dtb.regs)
  BY <1>2 DEF Covered
<1>. QED  BY <1>1, <1>2, <1>3, <1>4, <1>5

(* The range still looked for, as numbers.                                 *)
LEMMA SearchFacts ==
  ASSUME IInv
  PROVE  /\ TZ_RES_MEM_START \in Nat /\ TZ_RES_MEM_END \in Nat
         /\ res_start \in Nat /\ res_end \in Nat
         /\ last_res_start \in Nat /\ last_res_end \in Nat
         /\ SearchOrder
         /\ Reserved \subseteq Nat
BY LayoutAssumption DEF IInv, TypeOK, TZ_RES_MEM_END, Reserved

LEMMA FindMemoryIInv == IInv /\ FindMemory => IInv'
<1>. SUFFICES ASSUME IInv, FindMemory  PROVE IInv'
  OBVIOUS
<1>. USE DEF FindMemory, search
<1>1. TypeOK'
  BY DEF IInv, TypeOK, PcValues
<1>2. SearchOrder' /\ FoundIsCovered'
  BY DEF IInv, SearchOrder, FoundIsCovered
<1>3. RegUntouched' /\ NotInPass' /\ AvailSound' /\ RefusedOnlyIfMissing'
  BY DEF IInv, RegUntouched, NotInPass, AvailSound, RefusedOnlyIfMissing,
         Checked
<1>4. SecureMemHidden'
  BY DEF IInv, SecureMemHidden
<1>. QED  BY <1>1, <1>2, <1>3, <1>4 DEF IInv

LEMMA BeginPassIInv == IInv /\ BeginPass => IInv'
<1>. SUFFICES ASSUME IInv, BeginPass  PROVE IInv'
  OBVIOUS
<1>. USE DEF BeginPass
<1>1. TypeOK'
  BY DEF IInv, TypeOK, PcValues
<1>2. SearchOrder'
  BY SearchFacts DEF SearchOrder
<1>3. FoundIsCovered'
  BY DEF IInv, FoundIsCovered
<1>4. NotInPass'
  BY DEF NotInPass
<1>5. RegUntouched' /\ AvailSound' /\ RefusedOnlyIfMissing'
  BY DEF IInv, RegUntouched, AvailSound, RefusedOnlyIfMissing, Checked
<1>6. SecureMemHidden'
  BY DEF IInv, SecureMemHidden
<1>. QED  BY <1>1, <1>2, <1>3, <1>4, <1>5, <1>6 DEF IInv

LEMMA FoundAllIInv == IInv /\ FoundAll => IInv'
<1>. SUFFICES ASSUME IInv, FoundAll  PROVE IInv'
  OBVIOUS
<1>. USE DEF FoundAll, Scanning, search
<1>1. TypeOK'
  BY DEF IInv, TypeOK, PcValues
<1>2. SearchOrder' /\ FoundIsCovered'
  BY DEF IInv, SearchOrder, FoundIsCovered
<1>3. AvailSound'
  <2>1. SUFFICES ASSUME NEW a \in Reserved  PROVE Covered(a, dtb.regs)
    BY DEF AvailSound
  <2>2. CASE a < res_start \/ res_end <= a
    BY <2>2 DEF IInv, FoundIsCovered
  <2>3. CASE ~(a < res_start \/ res_end <= a)
    BY <2>3, CurrentFacts, SearchFacts DEF CoversAll, InRegion
  <2>. QED  BY <2>2, <2>3
<1>4. RegUntouched' /\ NotInPass' /\ RefusedOnlyIfMissing'
  BY DEF IInv, RegUntouched, NotInPass, RefusedOnlyIfMissing
<1>5. SecureMemHidden'
  BY DEF IInv, SecureMemHidden
<1>. QED  BY <1>1, <1>2, <1>3, <1>4, <1>5 DEF IInv

LEMMA FoundStartIInv == IInv /\ FoundStart => IInv'
<1>. SUFFICES ASSUME IInv, FoundStart  PROVE IInv'
  OBVIOUS
<1>. USE DEF FoundStart, Scanning
<1>1. /\ res_start' \in Nat
      /\ res_start < res_start' /\ res_start' <= res_end
      /\ res_start' <= RegionEnd(Current)
      /\ Current.start <= res_start
  BY CurrentFacts, SearchFacts DEF CoversStart, Least, SearchOrder
<1>2. TypeOK'
  BY <1>1, CurrentFacts DEF IInv, TypeOK, PcValues
<1>3. SearchOrder'
  BY <1>1, SearchFacts DEF SearchOrder
<1>4. FoundIsCovered'
  <2>1. SUFFICES ASSUME NEW a \in Reserved, a < res_start' \/ res_end <= a
                 PROVE  Covered(a, dtb.regs)
    BY DEF FoundIsCovered
  <2>2. CASE a < res_start \/ res_end <= a
    BY <2>2 DEF IInv, FoundIsCovered
  <2>3. CASE ~(a < res_start \/ res_end <= a)
    BY <1>1, <2>1, <2>3, CurrentFacts, SearchFacts DEF InRegion
  <2>. QED  BY <2>2, <2>3
<1>5. NotInPass'
  BY <1>1, SearchFacts DEF NotInPass, SearchOrder
<1>6. RegUntouched' /\ AvailSound' /\ RefusedOnlyIfMissing'
  BY DEF IInv, RegUntouched, AvailSound, RefusedOnlyIfMissing, Checked
<1>7. SecureMemHidden'
  BY DEF IInv, SecureMemHidden
<1>. QED  BY <1>2, <1>3, <1>4, <1>5, <1>6, <1>7 DEF IInv

LEMMA FoundEndIInv == IInv /\ FoundEnd => IInv'
<1>. SUFFICES ASSUME IInv, FoundEnd  PROVE IInv'
  OBVIOUS
<1>. USE DEF FoundEnd, Scanning
<1>1. /\ res_end' \in Nat
      /\ res_start <= res_end' /\ res_end' < res_end
      /\ Current.start <= res_end'
      /\ res_end <= RegionEnd(Current)
  BY CurrentFacts, SearchFacts DEF CoversEnd, Greatest, SearchOrder
<1>2. TypeOK'
  BY <1>1, CurrentFacts DEF IInv, TypeOK, PcValues
<1>3. SearchOrder'
  BY <1>1, SearchFacts DEF SearchOrder
<1>4. FoundIsCovered'
  <2>1. SUFFICES ASSUME NEW a \in Reserved, a < res_start \/ res_end' <= a
                 PROVE  Covered(a, dtb.regs)
    BY DEF FoundIsCovered
  <2>2. CASE a < res_start \/ res_end <= a
    BY <2>2 DEF IInv, FoundIsCovered
  <2>3. CASE ~(a < res_start \/ res_end <= a)
    BY <1>1, <2>1, <2>3, CurrentFacts, SearchFacts DEF InRegion
  <2>. QED  BY <2>2, <2>3
<1>5. NotInPass'
  BY <1>1, SearchFacts DEF NotInPass, SearchOrder
<1>6. RegUntouched' /\ AvailSound' /\ RefusedOnlyIfMissing'
  BY DEF IInv, RegUntouched, AvailSound, RefusedOnlyIfMissing, Checked
<1>7. SecureMemHidden'
  BY DEF IInv, SecureMemHidden
<1>. QED  BY <1>2, <1>3, <1>4, <1>5, <1>6, <1>7 DEF IInv

LEMMA FoundNothingIInv == IInv /\ FoundNothing => IInv'
<1>. SUFFICES ASSUME IInv, FoundNothing  PROVE IInv'
  OBVIOUS
<1>. USE DEF FoundNothing, Scanning, search
<1>1. TypeOK'
  BY CurrentFacts DEF IInv, TypeOK, PcValues
<1>2. SearchOrder' /\ FoundIsCovered'
  BY DEF IInv, SearchOrder, FoundIsCovered
<1>3. NotInPass'
  <2>1. ~InRegion(res_start, Current)
    BY CurrentFacts, SearchFacts DEF CoversStart, InRegion
  <2>2. offs \in Nat /\ \A j \in 1 .. offs' : j \in 1 .. offs \/ j = offs + 1
    BY DEF IInv, TypeOK
  <2>. QED  BY <2>1, <2>2, CurrentFacts DEF IInv, NotInPass
<1>4. RegUntouched' /\ AvailSound' /\ RefusedOnlyIfMissing'
  BY DEF IInv, RegUntouched, AvailSound, RefusedOnlyIfMissing, Checked
<1>5. SecureMemHidden'
  BY DEF IInv, SecureMemHidden
<1>. QED  BY <1>1, <1>2, <1>3, <1>4, <1>5 DEF IInv

LEMMA EndPassIInv == IInv /\ EndPass => IInv'
<1>. SUFFICES ASSUME IInv, EndPass  PROVE IInv'
  OBVIOUS
<1>. USE DEF EndPass, search
<1>1. TypeOK'
  BY DEF IInv, TypeOK, PcValues
<1>2. SearchOrder' /\ FoundIsCovered'
  BY DEF IInv, SearchOrder, FoundIsCovered
<1>3. AvailSound'
  <2>1. SUFFICES ASSUME NEW a \in Reserved, Checked'
                 PROVE  Covered(a, dtb.regs)
    BY DEF AvailSound
  <2>2. res_start = res_end
    BY <2>1 DEF Checked
  <2>3. a < res_start \/ res_end <= a
    BY <2>2, SearchFacts
  <2>. QED  BY <2>3 DEF IInv, FoundIsCovered
<1>4. RefusedOnlyIfMissing'
  <2>1. SUFFICES ASSUME pc' = "refused"
                 PROVE  res_start \in Reserved /\ ~Covered(res_start, dtb.regs)
    BY DEF RefusedOnlyIfMissing
  <2>2. /\ res_start < res_end
        /\ last_res_start = res_start /\ last_res_end = res_end
    BY <2>1, SearchFacts DEF SearchOrder
  <2>3. offs = Len(dtb.regs)
    <3>1. reg = dtb.regs /\ ~(offs < Len(reg))
      BY <2>2, SearchFacts DEF IInv, RegUntouched, Scanning
    <3>2. offs \in 0 .. Len(dtb.regs) /\ Len(dtb.regs) \in Nat
      BY <3>1 DEF IInv, TypeOK
    <3>. QED  BY <3>1, <3>2
  <2>4. ~Covered(res_start, dtb.regs)
    BY <2>2, <2>3 DEF IInv, NotInPass, Covered
  <2>5. res_start \in Reserved
    BY <2>2, SearchFacts DEF Reserved, SearchOrder
  <2>. QED  BY <2>4, <2>5
<1>5. RegUntouched' /\ NotInPass'
  BY DEF IInv, RegUntouched, NotInPass
<1>6. SecureMemHidden'
  BY DEF IInv, SecureMemHidden
<1>. QED  BY <1>1, <1>2, <1>3, <1>4, <1>5, <1>6 DEF IInv

LEMMA BeginCarveIInv == IInv /\ BeginCarve => IInv'
<1>. SUFFICES ASSUME IInv, BeginCarve  PROVE IInv'
  OBVIOUS
<1>. USE DEF BeginCarve, search
<1>1. TypeOK'
  BY DEF IInv, TypeOK, PcValues, RegUntouched
<1>2. SearchOrder' /\ FoundIsCovered'
  BY DEF IInv, SearchOrder, FoundIsCovered
<1>3. RegUntouched' /\ NotInPass' /\ AvailSound' /\ RefusedOnlyIfMissing'
  BY DEF IInv, RegUntouched, NotInPass, AvailSound, RefusedOnlyIfMissing,
         Checked
<1>4. SecureMemHidden'
  BY DEF IInv, SecureMemHidden
<1>. QED  BY <1>1, <1>2, <1>3, <1>4 DEF IInv

LEMMA CarveRegionIInv == IInv /\ CarveRegion => IInv'
<1>. SUFFICES ASSUME IInv, CarveRegion  PROVE IInv'
  OBVIOUS
<1>. USE DEF CarveRegion, search
<1>1. Current \in Region /\ Kept(Current) \in Seq(Region)
  BY CurrentFacts, KeptType
<1>2. TypeOK'
  BY <1>1, CurrentFacts DEF IInv, TypeOK, PcValues
<1>3. SearchOrder' /\ FoundIsCovered'
  BY DEF IInv, SearchOrder, FoundIsCovered
<1>4. RegUntouched' /\ NotInPass' /\ AvailSound' /\ RefusedOnlyIfMissing'
  BY DEF IInv, RegUntouched, NotInPass, AvailSound, RefusedOnlyIfMissing,
         Checked
<1>5. SecureMemHidden'
  <2>1. SUFFICES ASSUME NEW a \in Reserved  PROVE ~Covered(a, data')
    BY DEF SecureMemHidden
  <2>2. ~Covered(a, data) /\ ~Covered(a, Kept(Current))
    BY <1>1, KeptHidden DEF IInv, SecureMemHidden
  <2>. QED  BY <1>1, <2>2, CoveredConcat DEF IInv, TypeOK
<1>. QED  BY <1>2, <1>3, <1>4, <1>5 DEF IInv

LEMMA EndCarveIInv == IInv /\ EndCarve => IInv'
<1>. SUFFICES ASSUME IInv, EndCarve  PROVE IInv'
  OBVIOUS
<1>. USE DEF EndCarve, search
<1>1. TypeOK'
  BY DEF IInv, TypeOK, PcValues
<1>2. SearchOrder' /\ FoundIsCovered'
  BY DEF IInv, SearchOrder, FoundIsCovered
<1>3. RegUntouched' /\ NotInPass' /\ AvailSound' /\ RefusedOnlyIfMissing'
  BY DEF IInv, RegUntouched, NotInPass, AvailSound, RefusedOnlyIfMissing,
         Checked
<1>4. SecureMemHidden'
  BY DEF IInv, SecureMemHidden
<1>. QED  BY <1>1, <1>2, <1>3, <1>4 DEF IInv

LEMMA SetRegIInv == IInv /\ SetReg => IInv'
<1>. SUFFICES ASSUME IInv, SetReg  PROVE IInv'
  OBVIOUS
<1>. USE DEF SetReg, search
<1>1. TypeOK'
  BY DEF IInv, TypeOK, PcValues
<1>2. SearchOrder' /\ FoundIsCovered'
  BY DEF IInv, SearchOrder, FoundIsCovered
<1>3. RegUntouched' /\ NotInPass' /\ AvailSound' /\ RefusedOnlyIfMissing'
  BY DEF IInv, RegUntouched, NotInPass, AvailSound, RefusedOnlyIfMissing,
         Checked
<1>4. SecureMemHidden'
  BY DEF IInv, SecureMemHidden
<1>. QED  BY <1>1, <1>2, <1>3, <1>4 DEF IInv

LEMMA UnchangedIInv == IInv /\ UNCHANGED vars => IInv'
<1>. SUFFICES ASSUME IInv, UNCHANGED vars  PROVE IInv'
  OBVIOUS
<1>. USE DEF vars
<1>1. TypeOK'
  BY DEF IInv, TypeOK
<1>2. SearchOrder' /\ FoundIsCovered'
  BY DEF IInv, SearchOrder, FoundIsCovered
<1>3. RegUntouched' /\ NotInPass' /\ AvailSound' /\ RefusedOnlyIfMissing'
  BY DEF IInv, RegUntouched, NotInPass, AvailSound, RefusedOnlyIfMissing,
         Checked
<1>4. SecureMemHidden'
  BY DEF IInv, SecureMemHidden
<1>. QED  BY <1>1, <1>2, <1>3, <1>4 DEF IInv

LEMMA NextIInv == IInv /\ [Next]_vars => IInv'
<1>1. IInv /\ Stopped => IInv'
  BY UnchangedIInv DEF Stopped
<1>. QED
  BY <1>1, FindMemoryIInv, BeginPassIInv, FoundAllIInv, FoundStartIInv,
     FoundEndIInv, FoundNothingIInv, EndPassIInv, BeginCarveIInv,
     CarveRegionIInv, EndCarveIInv, SetRegIInv, UnchangedIInv DEF Next

(* The inductive invariant holds in every reachable state.                 *)
THEOREM Invariance == Spec => []IInv
BY InitIInv, NextIInv, PTL DEF Spec

(* Type correctness of TzResMem, whatever the trees and the layout.        *)
THEOREM TypeCorrect == Spec => []TypeOK
<1>1. IInv => TypeOK
  BY DEF IInv
<1>. QED  BY <1>1, Invariance, PTL

(* tz_res_mem_check_avail lets the boot go on only when every reserved     *)
(* address is in some region of /memory.                                   *)
THEOREM AvailableIsCovered == Spec => []AvailSound
<1>1. IInv => AvailSound
  BY DEF IInv
<1>. QED  BY <1>1, Invariance, PTL

(* tz_res_mem_check_avail stops the boot only when a reserved address is   *)
(* in no region: its passes find all there is to find.                     *)
THEOREM RefusedIsMissing == Spec => []RefusedOnlyIfMissing
<1>1. IInv => RefusedOnlyIfMissing
  BY DEF IInv
<1>. QED  BY <1>1, Invariance, PTL

(* The property the kernel is given has no reserved address in it.         *)
THEOREM SecureMemoryIsHidden == Spec => []SecureMemHidden
<1>1. IInv => SecureMemHidden
  BY DEF IInv
<1>. QED  BY <1>1, Invariance, PTL

(* A pass is repeated only after one that found something, and nothing     *)
(* found is looked for again.                                              *)
THEOREM Progress == Spec => PassesMakeProgress
<1>. DEFINE A == /\ res_start <= res_start' /\ res_end' <= res_end
                 /\ pc = "scan" /\ pc' = "pass" =>
                      res_end - res_start < last_res_end - last_res_start
<1>1. IInv /\ [Next]_vars => [A]_vars
  <2>. SUFFICES ASSUME IInv, Next  PROVE A
    OBVIOUS
  <2>1. CASE FoundStart
    BY <2>1, CurrentFacts, SearchFacts
       DEF FoundStart, Scanning, CoversStart, Least, SearchOrder
  <2>2. CASE FoundEnd
    BY <2>2, CurrentFacts, SearchFacts
       DEF FoundEnd, Scanning, CoversEnd, Greatest, SearchOrder
  <2>3. CASE EndPass
    BY <2>3, SearchFacts DEF EndPass, SearchOrder, search
  <2>4. CASE UNCHANGED <<res_start, res_end>> /\ pc' # "pass"
    BY <2>4, SearchFacts
  <2>5. CASE UNCHANGED <<res_start, res_end>> /\ pc # "scan"
    BY <2>5, SearchFacts
  <2>6. CASE UNCHANGED <<res_start, res_end, pc>>
    BY <2>6, SearchFacts
  <2>. QED
    BY <2>1, <2>2, <2>3, <2>4, <2>5, <2>6
       DEF Next, FindMemory, BeginPass, FoundAll, FoundNothing, BeginCarve,
           CarveRegion, EndCarve, SetReg, Stopped, search, vars
<1>. QED  BY <1>1, Invariance, PTL DEF Spec, PassesMakeProgress

-----------------------------------------------------------------------------
(* Trees whose regions are all carvable: the carve is exact, and with it   *)
(* tz_res_mem implements SecureReservation.                                *)

(* A carvable region leaves what it had outside the reserved range.        *)
LEMMA KeptExact ==
  ASSUME NEW r \in Region, Carvable(r), NEW a \in Addresses
  PROVE  Covered(a, Kept(r)) <=> InRegion(a, r) /\ a \notin Reserved
<1>. DEFINE end  == RegionEnd(r)
            head == Put(r.start, TZ_RES_MEM_START - r.start)
            tail == Put(TZ_RES_MEM_END, end - TZ_RES_MEM_END)
<1>1. /\ a \in Nat /\ r.start \in Nat /\ r.len \in Nat /\ end \in Nat
      /\ TZ_RES_MEM_START \in Nat /\ TZ_RES_MEM_END \in Nat
      /\ TZ_RES_MEM_START < TZ_RES_MEM_END
      /\ TZ_RES_MEM_START + TZ_RES_MEM_SIZE = TZ_RES_MEM_END
      /\ TZ_RES_MEM_SIZE \in Nat
  BY RegionFields, RegionEndType, LayoutAssumption
     DEF Addresses, TZ_RES_MEM_END
<1>2. /\ r.start < TZ_RES_MEM_END /\ TZ_RES_MEM_START < end
      /\ end = r.start + r.len
      /\ end - TZ_RES_MEM_END < W32
  BY <1>1 DEF Carvable, InRegion, Reserved
<1>3. a \in Reserved <=> TZ_RES_MEM_START <= a /\ a < TZ_RES_MEM_END
  BY <1>1 DEF Reserved
<1>4. InRegion(a, r) <=> r.start <= a /\ a < end
  BY DEF InRegion
<1>5. ASSUME r.start < TZ_RES_MEM_START
      PROVE  InRegion(a, head) <=> r.start <= a /\ a < TZ_RES_MEM_START
  BY <1>1, <1>5, HeadRegion DEF InRegion
<1>6. ASSUME TZ_RES_MEM_END < end
      PROVE  InRegion(a, tail) <=> TZ_RES_MEM_END <= a /\ a < end
  BY <1>1, <1>2, <1>6, TailRegion, RegionEndType DEF InRegion
<1>7. \/ /\ Kept(r) = <<>>
         /\ TZ_RES_MEM_START <= r.start /\ end <= TZ_RES_MEM_END
      \/ /\ Kept(r) = <<head, tail>>
         /\ r.start < TZ_RES_MEM_START /\ TZ_RES_MEM_END < end
      \/ /\ Kept(r) = <<head>>
         /\ r.start < TZ_RES_MEM_START /\ end <= TZ_RES_MEM_END
      \/ /\ Kept(r) = <<tail>>
         /\ TZ_RES_MEM_START <= r.start /\ TZ_RES_MEM_END < end
  BY <1>1, <1>2 DEF Kept
<1>. HIDE DEF head, tail, end
<1>8. CASE /\ Kept(r) = <<>>
           /\ TZ_RES_MEM_START <= r.start /\ end <= TZ_RES_MEM_END
  <2>1. ~Covered(a, Kept(r))
    BY <1>8, CoveredShort
  <2>. QED  BY <2>1, <1>1, <1>3, <1>4, <1>8
<1>9. CASE /\ Kept(r) = <<head, tail>>
           /\ r.start < TZ_RES_MEM_START /\ TZ_RES_MEM_END < end
  <2>1. Covered(a, Kept(r)) <=> InRegion(a, head) \/ InRegion(a, tail)
    BY <1>9, CoveredShort
  <2>. QED  BY <2>1, <1>1, <1>3, <1>4, <1>5, <1>6, <1>9
<1>10. CASE /\ Kept(r) = <<head>>
            /\ r.start < TZ_RES_MEM_START /\ end <= TZ_RES_MEM_END
  <2>1. Covered(a, Kept(r)) <=> InRegion(a, head)
    BY <1>10, CoveredShort
  <2>. QED  BY <2>1, <1>1, <1>2, <1>3, <1>4, <1>5, <1>10
<1>11. CASE /\ Kept(r) = <<tail>>
            /\ TZ_RES_MEM_START <= r.start /\ TZ_RES_MEM_END < end
  <2>1. Covered(a, Kept(r)) <=> InRegion(a, tail)
    BY <1>11, CoveredShort
  <2>. QED  BY <2>1, <1>1, <1>2, <1>3, <1>4, <1>6, <1>11
<1>. QED  BY <1>7, <1>8, <1>9, <1>10, <1>11

CInv == CarvedSoFar /\ CarveExact

LEMMA InitCInv == Init => CInv
BY DEF Init, CInv, CarvedSoFar, CarveExact

(* A region more has been read and what is left of it has been put.        *)
LEMMA CarveRegionCInv == IInv /\ CInv /\ CarveRegion => CInv'
<1>. SUFFICES ASSUME IInv, CInv, CarveRegion  PROVE CInv'
  OBVIOUS
<1>1. SUFFICES ASSUME AllCarvable, NEW a \in Addresses
               PROVE  Covered(a, data') <=>
                        /\ \E j \in 1 .. offs' : InRegion(a, dtb.regs[j])
                        /\ a \notin Reserved
  BY DEF CarveRegion, CInv, CarvedSoFar, CarveExact, AllCarvable
<1>2. /\ Current \in Region /\ Current = dtb.regs[offs + 1]
      /\ Carvable(Current)
  BY <1>1, CurrentFacts DEF CarveRegion, AllCarvable
<1>3. Covered(a, Kept(Current)) <=> InRegion(a, Current) /\ a \notin Reserved
  BY <1>2, KeptExact
<1>4. Covered(a, data) <=> /\ \E j \in 1 .. offs : InRegion(a, dtb.regs[j])
                          /\ a \notin Reserved
  BY <1>1 DEF CInv, CarvedSoFar, CarveRegion
<1>5. Covered(a, data') <=> Covered(a, data) \/ Covered(a, Kept(Current))
  BY <1>2, KeptType, CoveredConcat DEF CarveRegion, IInv, TypeOK
<1>6. /\ offs \in Nat /\ offs' = offs + 1
      /\ \A j : j \in 1 .. offs' <=> j \in 1 .. offs \/ j = offs + 1
  BY DEF IInv, TypeOK, CarveRegion
<1>. QED  BY <1>2, <1>3, <1>4, <1>5, <1>6

LEMMA NextCInv == IInv /\ CInv /\ [Next]_vars => CInv'
<1>. SUFFICES ASSUME IInv, CInv, [Next]_vars  PROVE CInv'
  OBVIOUS
<1>. USE DEF CInv, CarvedSoFar, CarveExact, AllCarvable
<1>1. CASE BeginCarve
  <2>1. \A a : ~Covered(a, data')
    BY <1>1, CoveredShort DEF BeginCarve
  <2>2. ~(\E j \in 1 .. offs' : TRUE)
    BY <1>1 DEF BeginCarve
  <2>. QED  BY <1>1, <2>1, <2>2 DEF BeginCarve
<1>2. CASE CarveRegion
  BY <1>2, CarveRegionCInv
<1>3. CASE EndCarve
  <2>1. offs = Len(dtb.regs)
    BY <1>3 DEF EndCarve, IInv, RegUntouched
  <2>. QED  BY <1>3, <2>1 DEF EndCarve, Covered, search
<1>4. CASE SetReg
  BY <1>4 DEF SetReg, search
<1>5. CASE UNCHANGED <<dtb, reg, data>> /\ pc' = pc /\ UNCHANGED offs
  BY <1>5
<1>6. CASE /\ UNCHANGED <<dtb, reg, data>>
           /\ pc \in {"find", "pass", "scan"}
           /\ pc' \in {"pass", "scan", "avail", "refused", "hang"}
  BY <1>6
<1>. QED
  BY <1>1, <1>2, <1>3, <1>4, <1>5, <1>6
     DEF Next, FindMemory, BeginPass, FoundAll, FoundStart, FoundEnd,
         FoundNothing, EndPass, Stopped, Scanning, search, vars

LEMMA CarveInvariance == Spec => [](IInv /\ CInv)
BY InitIInv, NextIInv, InitCInv, NextCInv, PTL DEF Spec

(* tz_res_mem gives the kernel the memory it had less the reserved range,  *)
(* when every region has some of that range.                               *)
THEOREM CarveIsExact == Spec => []CarveExact
<1>1. CInv => CarveExact
  BY DEF CInv
<1>. QED  BY <1>1, CarveInvariance, PTL

-----------------------------------------------------------------------------
(* The bounds of the array.                                                *)

(* A branch puts two regions only for a region that splits.                *)
LEMMA KeptLength ==
  ASSUME NEW r \in Region
  PROVE  /\ Len(Kept(r)) \in Nat
         /\ (Len(Kept(r)) <= 1) \/ (Len(Kept(r)) = 2 /\ Splits(r))
<1>. DEFINE end  == RegionEnd(r)
            head == Put(r.start, TZ_RES_MEM_START - r.start)
            tail == Put(TZ_RES_MEM_END, end - TZ_RES_MEM_END)
<1>1. \/ Kept(r) = <<>>
      \/ Kept(r) = <<head>>
      \/ Kept(r) = <<tail>>
      \/ (Kept(r) = <<head, tail>>) /\ Splits(r)
  BY RegionFields, LayoutAssumption DEF Kept, Splits, TZ_RES_MEM_END
<1>. HIDE DEF head, tail
<1>2. Len(<<>>) = 0 /\ Len(<<head>>) = 1 /\ Len(<<tail>>) = 1 /\ Len(<<head, tail>>) = 2
  OBVIOUS
<1>3. CASE Kept(r) = <<>>
  <2>1. Len(Kept(r)) = 0
    BY <1>2, <1>3
  <2>. QED  BY <2>1
<1>4. CASE Kept(r) = <<head>> \/ Kept(r) = <<tail>>
  <2>1. Len(Kept(r)) = 1
    BY <1>2, <1>4
  <2>. QED  BY <2>1
<1>5. CASE (Kept(r) = <<head, tail>>) /\ Splits(r)
  <2>1. Len(Kept(r)) = 2
    BY <1>2, <1>5
  <2>. QED  BY <1>5, <2>1
<1>. QED  BY <1>1, <1>3, <1>4, <1>5

(* Two regions that split both have the first reserved address.            *)
LEMMA SplitsOverlap ==
  ASSUME NEW rs \in Seq(Region), Disjoint(rs),
         NEW i \in 1 .. Len(rs), NEW j \in 1 .. Len(rs),
         Splits(rs[i]), Splits(rs[j])
  PROVE  i = j
<1>1. TZ_RES_MEM_START \in Addresses /\ TZ_RES_MEM_START < TZ_RES_MEM_END
  BY LayoutAssumption DEF Addresses, TZ_RES_MEM_END
<1>2. ASSUME NEW r \in Region, Splits(r)  PROVE InRegion(TZ_RES_MEM_START, r)
  <2>1. r.start \in Nat /\ RegionEnd(r) \in Nat /\ TZ_RES_MEM_END \in Nat
        /\ TZ_RES_MEM_START \in Nat
    BY <1>1, RegionFields, RegionEndType, LayoutAssumption
       DEF Addresses, TZ_RES_MEM_END
  <2>. QED  BY <1>1, <1>2, <2>1 DEF Splits, InRegion
<1>3. rs[i] \in Region /\ rs[j] \in Region
  OBVIOUS
<1>. QED  BY <1>1, <1>2, <1>3 DEF Disjoint

LEMMA CarveRegionOneSplits ==
  IInv /\ OneSplits /\ CarveRegion => OneSplits'
<1>. SUFFICES ASSUME IInv, OneSplits, CarveRegion, Disjoint(dtb.regs)
              PROVE  \/ Len(data') <= offs'
                     \/ /\ Len(data') = offs' + 1
                        /\ \E j \in 1 .. offs' : Splits(dtb.regs[j])
  BY DEF OneSplits, CarveRegion, Disjoint
<1>1. /\ Current \in Region /\ Current = dtb.regs[offs + 1]
      /\ offs + 1 \in 1 .. Len(dtb.regs) /\ offs \in Nat /\ offs' = offs + 1
      /\ dtb.regs \in Seq(Region)
  BY CurrentFacts DEF CarveRegion, IInv, TypeOK, RegUntouched
<1>2. Len(data') = Len(data) + Len(Kept(Current)) /\ Len(data) \in Nat
  BY <1>1, KeptType DEF CarveRegion, IInv, TypeOK
<1>3. \/ Len(data) <= offs
      \/ (Len(data) = offs + 1) /\ (\E j \in 1 .. offs : Splits(dtb.regs[j]))
  BY DEF OneSplits, CarveRegion
<1>4. /\ Len(Kept(Current)) \in Nat
      /\ (Len(Kept(Current)) <= 1) \/ (Len(Kept(Current)) = 2 /\ Splits(Current))
  BY <1>1, KeptLength
<1>5. CASE Len(Kept(Current)) <= 1
  <2>1. CASE Len(data) <= offs
    BY <1>1, <1>2, <1>4, <1>5, <2>1
  <2>2. CASE (Len(data) = offs + 1) /\ \E j \in 1 .. offs : Splits(dtb.regs[j])
    <3>1. \E j \in 1 .. offs' : Splits(dtb.regs[j])
      BY <1>1, <2>2
    <3>2. Len(data') <= offs' + 1 /\ Len(data') \in Nat /\ offs' \in Nat
      BY <1>1, <1>2, <1>4, <1>5, <2>2
    <3>. QED  BY <3>1, <3>2
  <2>. QED  BY <1>3, <2>1, <2>2
<1>6. CASE Len(Kept(Current)) = 2 /\ Splits(Current)
  <2>1. ~ \E j \in 1 .. offs : Splits(dtb.regs[j])
    <3>. SUFFICES ASSUME NEW j \in 1 .. offs, Splits(dtb.regs[j])
                  PROVE  FALSE
      OBVIOUS
    <3>1. j \in 1 .. Len(dtb.regs) /\ j # offs + 1
      BY <1>1
    <3>. QED  BY <1>1, <1>6, <3>1, SplitsOverlap
  <2>2. \/ Len(data') <= offs'
        \/ Len(data') = offs' + 1
    BY <1>1, <1>2, <1>3, <1>6, <2>1
  <2>3. offs' \in 1 .. offs' /\ Splits(dtb.regs[offs'])
    BY <1>1, <1>6
  <2>. QED  BY <2>2, <2>3
<1>. QED  BY <1>4, <1>5, <1>6

LEMMA NextOneSplits == IInv /\ OneSplits /\ [Next]_vars => OneSplits'
<1>. SUFFICES ASSUME IInv, OneSplits, [Next]_vars  PROVE OneSplits'
  OBVIOUS
<1>. USE DEF OneSplits, Disjoint, Capacity
<1>1. /\ Len(<<>>) = 0 /\ Len(reg) \in Nat /\ Len(data) \in Nat
      /\ pc # "done" => reg = dtb.regs
  BY DEF IInv, TypeOK, RegUntouched
<1>2. CASE BeginCarve
  BY <1>1, <1>2 DEF BeginCarve
<1>3. CASE CarveRegion
  BY <1>3, CarveRegionOneSplits
<1>4. CASE EndCarve
  <2>1. offs = Len(dtb.regs)
    BY <1>4 DEF EndCarve, IInv, RegUntouched
  <2>. QED  BY <1>1, <1>4, <2>1 DEF EndCarve, search
<1>5. CASE SetReg
  BY <1>1, <1>5 DEF SetReg, search
<1>6. CASE UNCHANGED <<dtb, reg, data>> /\ pc' = pc /\ UNCHANGED offs
  BY <1>6
<1>7. CASE /\ UNCHANGED <<dtb, reg, data>>
           /\ pc \in {"find", "pass", "scan"}
           /\ pc' \in {"pass", "scan", "avail", "refused", "hang"}
  BY <1>1, <1>7
<1>. QED
  BY <1>2, <1>3, <1>4, <1>5, <1>6, <1>7
     DEF Next, FindMemory, BeginPass, FoundAll, FoundStart, FoundEnd,
         FoundNothing, EndPass, Stopped, Scanning, search, vars

(* The array on the stack of tz_res_mem is never overrun by a tree whose   *)
(* regions do not overlap, whatever their number.                          *)
THEOREM ArrayIsNotOverrun == Spec => []InBounds
<1>1. Init => OneSplits
  BY DEF Init, OneSplits
<1>2. IInv /\ OneSplits => InBounds
  <2>. SUFFICES ASSUME IInv, OneSplits, Disjoint(dtb.regs)
                PROVE  Len(data) <= Capacity
    BY DEF InBounds
  <2>1. /\ Len(data) \in Nat /\ Len(reg) \in Nat /\ offs \in Nat
        /\ offs <= Len(dtb.regs) /\ Len(<<>>) = 0
        /\ pc # "done" => reg = dtb.regs
    BY DEF IInv, TypeOK, RegUntouched
  <2>. QED  BY <2>1 DEF IInv, TypeOK, PcValues, OneSplits, Capacity
<1>. QED
  BY <1>1, <1>2, InitIInv, NextIInv, NextOneSplits, PTL DEF Spec

-----------------------------------------------------------------------------
(* On such trees the steps of tz_res_mem are steps of SecureReservation.   *)
THEOREM Refinement ==
  ASSUME \A d \in Dtbs : \A i \in 1 .. Len(d.regs) : Carvable(d.regs[i])
  PROVE  Spec => Reservation!Safety
<1>1. Init => Reservation!Init
  BY DEF Init, Reservation!Init, outcome, usable
<1>2. IInv /\ CInv /\ CInv' /\ IInv' /\ [Next]_vars
        => [Reservation!Next]_Reservation!vars
  <2>. SUFFICES ASSUME IInv, CInv, IInv', CInv', [Next]_vars
                PROVE  [Reservation!Next]_Reservation!vars
    OBVIOUS
  <2>. USE DEF Reservation!Next, Reservation!vars, outcome, search
  <2>1. AllCarvable
    BY DEF IInv, TypeOK, AllCarvable
  <2>2. ASSUME reg' = reg  PROVE usable' = usable
    BY <2>2 DEF usable
  <2>3. CASE SetReg /\ pc' = "done"
    <3>1. Reserved \subseteq usable
      <4>1. Reserved \subseteq Addresses
        BY LayoutAssumption DEF Reserved, Addresses, TZ_RES_MEM_END
      <4>2. reg = dtb.regs /\ \A a \in Reserved : Covered(a, dtb.regs)
        BY <2>3 DEF SetReg, IInv, RegUntouched, AvailSound, Checked
      <4>. QED  BY <4>1, <4>2 DEF usable
    <3>2. usable' = usable \ Reserved
      <4>1. dtb' = dtb /\ reg = dtb.regs
        BY <2>3 DEF SetReg, IInv, RegUntouched
      <4>2. \A a \in Addresses :
              Covered(a, reg') <=> Covered(a, dtb.regs) /\ a \notin Reserved
        BY <2>1, <2>3, <4>1 DEF CInv, CarveExact, AllCarvable
      <4>. QED  BY <4>1, <4>2 DEF usable
    <3>3. pc = "set"
      BY <2>3 DEF SetReg
    <3>. QED  BY <2>3, <3>1, <3>2, <3>3 DEF Reservation!Reserve
  <2>4. CASE EndPass /\ pc' = "refused"
    <3>1. ~(Reserved \subseteq usable)
      <4>1. dtb' = dtb /\ reg = dtb.regs
        BY <2>4 DEF EndPass, IInv, RegUntouched
      <4>2. \E a \in Reserved : ~Covered(a, dtb.regs)
        BY <2>4, <4>1 DEF IInv, RefusedOnlyIfMissing
      <4>. QED  BY <4>1, <4>2 DEF usable
    <3>. QED  BY <2>2, <2>4, <3>1 DEF Reservation!Refuse, EndPass
  <2>5. CASE reg' = reg /\ pc' = "hang" /\ pc \in {"find", "carve", "set"}
    BY <2>2, <2>5 DEF Reservation!Halt
  <2>6. CASE /\ reg' = reg
             /\ pc \notin {"done", "refused", "hang"}
             /\ pc' \notin {"done", "refused", "hang"}
    BY <2>2, <2>6
  <2>7. CASE UNCHANGED <<reg, pc>>
    BY <2>2, <2>7
  <2>. QED
    BY <2>3, <2>4, <2>5, <2>6, <2>7
       DEF Next, FindMemory, BeginPass, FoundAll, FoundStart, FoundEnd,
           FoundNothing, EndPass, BeginCarve, CarveRegion, EndCarve, SetReg,
           Stopped, Scanning, vars
<1>. QED
  BY <1>1, <1>2, CarveInvariance, PTL DEF Spec, Reservation!Safety
=============================================================================
