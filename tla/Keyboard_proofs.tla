--------------------------- MODULE Keyboard_proofs ---------------------------
(***************************************************************************)
(* Proofs about the keyboard driver, for every size of the ring buffer,    *)
(* every keymap, every set of keys and every number of key events.         *)
(***************************************************************************)
EXTENDS Keyboard, SequenceTheorems, TLAPS

-----------------------------------------------------------------------------
(* The arithmetic of the ring buffer.                                      *)

\* The ring has room for one character at least.
LEMMA BufSize == BUFSZ \in Nat /\ BUFSZ > 1
<1>1. BUFSZ \in Nat \ {0, 1}
  BY KeyboardAssumption, Zenon
<1> QED BY <1>1

\* The "% BUFSZ" of buf_push and keyboard_get is a wrap to 0 at the end.
LEMMA SuccWraps ==
  ASSUME NEW i \in 0..BUFSZ-1
  PROVE  /\ Succ(i) = IF i + 1 = BUFSZ THEN 0 ELSE i + 1
         /\ Succ(i) \in 0..BUFSZ-1
<1> DEFINE q == (i + 1) \div BUFSZ
           r == (i + 1) % BUFSZ
<1>1. BUFSZ \in Nat /\ BUFSZ > 1 /\ i \in Nat /\ i < BUFSZ
  BY BufSize
<1>2. q \in Int /\ r \in 0..BUFSZ-1 /\ i + 1 = BUFSZ * q + r
  BY <1>1
<1> HIDE DEF q, r
<1>3. q >= 0
  <2>1. SUFFICES ASSUME q <= -1 PROVE FALSE
    BY <1>2
  <2>2. BUFSZ * q <= -BUFSZ
    BY <1>1, <1>2, <2>1
  <2> QED BY <1>1, <1>2, <2>2
<1>4. q <= 1
  <2>1. SUFFICES ASSUME q >= 2 PROVE FALSE
    BY <1>2
  <2>2. BUFSZ * q >= 2 * BUFSZ
    BY <1>1, <1>2, <2>1
  <2> QED BY <1>1, <1>2, <2>2
<1>5. CASE q = 0
  <2>1. BUFSZ * q = 0 BY <1>1, <1>5
  <2>2. r = i + 1 BY <1>1, <1>2, <2>1
  <2> QED BY <1>1, <1>2, <2>2 DEF Succ, r
<1>6. CASE q = 1
  <2>1. BUFSZ * q = BUFSZ BY <1>1, <1>6
  <2>2. r = 0 /\ i + 1 = BUFSZ BY <1>1, <1>2, <2>1
  <2> QED BY <1>1, <1>2, <2>2 DEF Succ, r
<1> QED BY <1>2, <1>3, <1>4, <1>5, <1>6

\* The types the ring arithmetic needs.
RingTypeOK ==
  /\ buf \in [0..BUFSZ-1 -> 0..265]
  /\ buf_head \in 0..BUFSZ-1 /\ buf_tail \in 0..BUFSZ-1

\* What the ring type says of its parts.
LEMMA RingType ==
  ASSUME RingTypeOK
  PROVE  /\ Count \in 0..BUFSZ-1
         /\ \A i \in 0..BUFSZ-1 : Slot(i) \in 0..BUFSZ-1
         /\ Ring \in Seq(0..265) /\ Len(Ring) = Count
         /\ buf_head = buf_tail <=> Count = 0
<1>1. BUFSZ \in Nat /\ BUFSZ > 1
  BY BufSize
<1>2. Count \in 0..BUFSZ-1
  BY <1>1 DEF RingTypeOK, Count
<1>3. \A i \in 0..BUFSZ-1 : Slot(i) \in 0..BUFSZ-1
  BY <1>1 DEF RingTypeOK, Slot
<1>4. \A i \in 1..Count : buf[Slot(i - 1)] \in 0..265
  <2> TAKE i \in 1..Count
  <2>1. i - 1 \in 0..BUFSZ-1 BY <1>1, <1>2
  <2>2. Slot(i - 1) \in 0..BUFSZ-1 BY <1>3, <2>1
  <2> QED BY <2>2 DEF RingTypeOK
<1>5. Ring \in [1..Count -> 0..265] /\ Count \in Nat
  BY <1>2, <1>4 DEF Ring
<1>6. Ring \in Seq(0..265) /\ Len(Ring) = Count
  BY <1>5
<1>7. buf_head = buf_tail <=> Count = 0
  BY <1>1 DEF RingTypeOK, Count
<1> QED BY <1>2, <1>3, <1>6, <1>7

\* The same of the ring after a step.
LEMMA RingTypeNext ==
  RingTypeOK' => (Ring \in Seq(0..265) /\ Len(Ring) = Count)'
<1>1. RingTypeOK => Ring \in Seq(0..265) /\ Len(Ring) = Count
  BY RingType
<1> QED BY <1>1, PTL

\* Storing a key in the free slot at buf_head appends it to what waits; a ring
\* that has a free slot besides the one kept empty holds fewer than BUFSZ - 1.
LEMMA PushAppends ==
  ASSUME RingTypeOK, NEW k \in 0..265,
         Succ(buf_head) # buf_tail,
         buf' = [buf EXCEPT ![buf_head] = k],
         buf_head' = Succ(buf_head),
         buf_tail' = buf_tail
  PROVE  /\ RingTypeOK'
         /\ Count < BUFSZ - 1 /\ Count' = Count + 1
         /\ Ring' = Append(Ring, k)
         /\ Count > 0 => buf'[buf_tail'] = buf[buf_tail]
<1>1. BUFSZ \in Nat /\ BUFSZ > 1 /\ buf_head \in 0..BUFSZ-1 /\ buf_tail \in 0..BUFSZ-1
  BY BufSize DEF RingTypeOK
<1>2. /\ buf_head' = IF buf_head + 1 = BUFSZ THEN 0 ELSE buf_head + 1
      /\ buf_head' \in 0..BUFSZ-1
  BY <1>1, SuccWraps
<1>3. RingTypeOK'
  BY <1>1, <1>2 DEF RingTypeOK
<1>4. Count \in 0..BUFSZ-1 /\ Count < BUFSZ - 1 /\ Count' = Count + 1
  BY <1>1, <1>2 DEF Count
<1>5. Slot(Count) = buf_head
  BY <1>1 DEF Slot, Count
<1>6. \A i \in 0..Count-1 : Slot(i) \in 0..BUFSZ-1 /\ Slot(i) # buf_head
  BY <1>1, <1>4 DEF Slot, Count
<1>7. \A i \in 0..Count-1 : buf'[Slot(i)] = buf[Slot(i)]
  BY <1>6 DEF RingTypeOK
<1>8. buf'[Slot(Count)] = k
  BY <1>1, <1>5 DEF RingTypeOK
<1>9. \A i \in 0..BUFSZ-1 : Slot(i)' = Slot(i)
  BY DEF Slot
<1>10. Ring' = Append(Ring, k)
  <2>1. Ring' = [i \in 1..Count + 1 |-> buf'[Slot(i - 1)]]
    BY <1>4 DEF Ring, Slot
  <2>2. Ring \in Seq(0..265) /\ Len(Ring) = Count
    BY RingType
  <2>3. /\ Append(Ring, k) \in Seq(0..265) /\ Len(Append(Ring, k)) = Count + 1
        /\ \A i \in 1..Count : Append(Ring, k)[i] = Ring[i]
        /\ Append(Ring, k)[Count + 1] = k
    BY <2>2, AppendProperties
  <2>4. ASSUME NEW i \in 1..Count + 1
        PROVE  Ring'[i] = Append(Ring, k)[i]
    <3>1. CASE i = Count + 1
      BY <1>4, <1>8, <2>1, <2>3, <3>1
    <3>2. CASE i # Count + 1
      <4>1. i \in 1..Count /\ i - 1 \in 0..Count-1
        BY <1>4, <3>2
      <4>2. Ring[i] = buf[Slot(i - 1)]
        BY <4>1 DEF Ring
      <4> QED BY <1>7, <2>1, <2>3, <4>1, <4>2
    <3> QED BY <3>1, <3>2
  <2>5. Ring' \in Seq(0..265) /\ Len(Ring') = Count + 1
    <3>1. Ring' \in Seq(0..265) /\ Len(Ring') = Count'
      BY <1>3, RingTypeNext
    <3> QED BY <1>4, <3>1
  <2> QED BY <2>3, <2>4, <2>5, SeqEqual
<1>11. Count > 0 => buf'[buf_tail'] = buf[buf_tail]
  <2>1. Slot(0) = buf_tail
    BY <1>1 DEF Slot
  <2> QED BY <1>4, <1>7, <2>1
<1> QED BY <1>3, <1>4, <1>10, <1>11

\* Moving buf_tail on takes the first of the waiting keys away.
LEMMA AdvanceTakes ==
  ASSUME RingTypeOK, Count > 0,
         buf' = buf, buf_head' = buf_head,
         buf_tail' = Succ(buf_tail)
  PROVE  /\ RingTypeOK'
         /\ Ring # <<>> /\ Head(Ring) = buf[buf_tail]
         /\ Ring' = Tail(Ring)
<1>1. BUFSZ \in Nat /\ BUFSZ > 1 /\ buf_head \in 0..BUFSZ-1 /\ buf_tail \in 0..BUFSZ-1
  BY BufSize DEF RingTypeOK
<1>2. /\ buf_tail' = IF buf_tail + 1 = BUFSZ THEN 0 ELSE buf_tail + 1
      /\ buf_tail' \in 0..BUFSZ-1
  BY <1>1, SuccWraps
<1>3. RingTypeOK'
  BY <1>1, <1>2 DEF RingTypeOK
<1>4. Count \in 1..BUFSZ-1 /\ Count' = Count - 1
  BY <1>1, <1>2 DEF Count
<1>5. Ring \in Seq(0..265) /\ Len(Ring) = Count
  BY RingType
<1>6. Ring # <<>> /\ Head(Ring) = Ring[1]
  BY <1>4, <1>5
<1>7. Ring[1] = buf[buf_tail]
  <2>1. Slot(0) = buf_tail
    BY <1>1 DEF Slot
  <2>2. Ring[1] = buf[Slot(1 - 1)]
    BY <1>4 DEF Ring
  <2> QED BY <2>1, <2>2
<1>8. Ring' = Tail(Ring)
  <2>1. Ring' = [i \in 1..Count - 1 |-> buf[Slot(i - 1)']]
    BY <1>4 DEF Ring
  <2>2. /\ Tail(Ring) \in Seq(0..265) /\ Len(Tail(Ring)) = Count - 1
        /\ \A i \in 1..Count - 1 : Tail(Ring)[i] = Ring[i + 1]
    BY <1>5, <1>6, HeadTailProperties
  <2>3. ASSUME NEW i \in 1..Count - 1
        PROVE  Ring'[i] = Tail(Ring)[i]
    <3>1. i + 1 \in 1..Count /\ i - 1 \in 0..BUFSZ-1 /\ i \in 0..BUFSZ-1
      BY <1>4, <1>1
    <3>2. Slot(i - 1)' = Slot(i)
      BY <1>1, <1>2, <3>1 DEF Slot
    <3>3. Ring[i + 1] = buf[Slot((i + 1) - 1)] /\ (i + 1) - 1 = i
      BY <3>1 DEF Ring
    <3> QED BY <2>1, <2>2, <3>2, <3>3
  <2>4. Ring' \in Seq(0..265) /\ Len(Ring') = Count - 1
    <3>1. Ring' \in Seq(0..265) /\ Len(Ring') = Count'
      BY <1>3, RingTypeNext
    <3> QED BY <1>4, <3>1
  <2> QED BY <2>2, <2>3, <2>4, SeqEqual
<1> QED BY <1>3, <1>6, <1>7, <1>8

-----------------------------------------------------------------------------
(* The inductive invariant.                                                *)

\* NothingLostOrRepeated and NoStrandedCode, with what makes them inductive:
\* the types, and that the controller asks for no second interrupt while the
\* handler of the first has yet to read the port.
KbInv ==
  /\ TypeOK
  /\ NothingLostOrRepeated
  /\ NoStrandedCode
  /\ cpu = "keyboard" => 1 \notin irr

\* Nothing pressed, nothing queued.
LEMMA KbInvInit == Init => KbInv
<1> SUFFICES ASSUME Init PROVE KbInv
  OBVIOUS
<1>1. BUFSZ \in Nat /\ BUFSZ > 1
  BY BufSize
<1>2. TypeOK
  <2>1. held \subseteq 1..127 /\ events \in 0..MaxEvents /\ port \in 0..255
    <3>1. MaxEvents \in Nat
      BY KeyboardAssumption, Zenon
    <3> QED BY <3>1 DEF Init
  <2>2. wire \in Seq(1..255) /\ pushed \in Seq(KeyValues) /\ taken \in Seq(KeyValues)
    BY DEF Init
  <2>3. buf \in [0..BUFSZ-1 -> 0..265] /\ buf_head \in 0..BUFSZ-1 /\ buf_tail \in 0..BUFSZ-1
    BY <1>1 DEF Init
  <2>4. /\ irr \subseteq {0, 1} /\ isr \subseteq {0, 1} /\ c \in 0..265
        /\ cpu \in {"main", "timer", "keyboard", "eoi"}
        /\ pc \in {"away", "check", "hlt", "halted", "read", "advance"}
    BY DEF Init
  <2>5. shift_down \in BOOLEAN /\ ctrl_down \in BOOLEAN
    BY DEF Init
  <2> QED BY <2>1, <2>2, <2>3, <2>4, <2>5, ZenonT(30) DEF TypeOK
<1>3. RingTypeOK
  BY <1>2 DEF TypeOK, RingTypeOK
<1>4. Count = 0
  BY DEF Init, Count
<1>5. Ring = <<>>
  BY <1>3, <1>4, RingType
<1>6. NothingLostOrRepeated
  BY <1>5 DEF Init, NothingLostOrRepeated
<1> QED BY <1>2, <1>6 DEF Init, KbInv, NoStrandedCode

\* A step that leaves the ring and its history alone keeps what they promise.
LEMMA RingUntouched ==
  ASSUME NothingLostOrRepeated, UNCHANGED <<ring, pushed, taken, c>>,
         pc' \in {"read", "advance"} => pc' = pc
  PROVE  NothingLostOrRepeated'
BY DEF NothingLostOrRepeated, ring, Ring, Count, Slot

\* A key goes down or up: only what the keyboard has to send changes.
LEMMA SendKeeps ==
  ASSUME KbInv, NEW k \in Plain \union Extended, Press(k) \/ Release(k)
  PROVE  KbInv'
<1>1. PICK up \in BOOLEAN : Send(k, up)
  BY DEF Press, Release
<1>2. k \in 1..127
  BY KeyboardAssumption
<1>3. wire' \in Seq(1..255)
  <2>1. (IF up THEN k + 128 ELSE k) \in 1..255 /\ 224 \in 1..255
    BY <1>2
  <2>2. <<IF up THEN k + 128 ELSE k>> \in Seq(1..255)
    BY <2>1
  <2>3. wire \in Seq(1..255) /\ Append(wire, 224) \in Seq(1..255)
    BY <2>1, AppendProperties DEF KbInv, TypeOK
  <2>4. wire' = (IF k \in Extended THEN Append(wire, 224) ELSE wire)
                  \o <<IF up THEN k + 128 ELSE k>>
    BY <1>1 DEF Send
  <2> QED BY <2>2, <2>3, <2>4, ConcatProperties
<1>4. held' \subseteq 1..127 /\ events' \in 0..MaxEvents
  <2>1. held' = held \union {k} \/ held' = held \ {k}
    BY DEF Press, Release
  <2>2. events' = events + 1 /\ events < MaxEvents /\ MaxEvents \in Nat
    BY <1>1, KeyboardAssumption DEF Send
  <2>3. held \subseteq 1..127 /\ events \in 0..MaxEvents
    BY DEF KbInv, TypeOK
  <2>4. held' \subseteq 1..127
    BY <1>2, <2>1, <2>3
  <2> QED BY <2>2, <2>3, <2>4
<1>5. UNCHANGED <<port, pic, cpu, ring, mods, thread, pushed, taken>>
  BY <1>1 DEF Send
<1>6. TypeOK'
  BY <1>3, <1>4, <1>5 DEF KbInv, TypeOK, pic, ring, mods, thread
<1>7. NothingLostOrRepeated'
  BY <1>5, RingUntouched DEF KbInv, thread
<1> QED BY <1>5, <1>6, <1>7 DEF KbInv, NoStrandedCode, pic

\* The controller, the timer and the processor leave the ring alone.
LEMMA DeviceKeeps ==
  ASSUME KbInv, Fill \/ Tick \/ (\E irq \in 0..1 : Deliver(irq)) \/ timer_irq \/ eoi
  PROVE  KbInv'
<1>1. CASE Fill
  <2>1. /\ wire \in Seq(1..255) /\ Head(wire) \in 1..255 /\ Tail(wire) \in Seq(1..255)
    BY <1>1, HeadTailProperties DEF KbInv, TypeOK, Fill
  <2>2. TypeOK'
    <3>1. port' \in 0..255 /\ wire' \in Seq(1..255)
      BY <1>1, <2>1 DEF Fill
    <3>2. irr' \subseteq {0, 1}
      BY <1>1 DEF Fill, KbInv, TypeOK
    <3>3. UNCHANGED <<held, events, isr, cpu, ring, mods, thread, pushed, taken>>
      BY <1>1 DEF Fill
    <3> QED BY <3>1, <3>2, <3>3 DEF KbInv, TypeOK, ring, mods, thread
  <2>3. NothingLostOrRepeated'
    BY <1>1, RingUntouched DEF KbInv, Fill, thread
  <2>4. port' # 0 /\ 1 \in irr' /\ cpu' # "keyboard"
    <3>1. port' = Head(wire)
      BY <1>1 DEF Fill
    <3>2. Head(wire) # 0
      <4>1. 0 \notin 1..255
        OBVIOUS
      <4> QED BY <2>1, <4>1, Zenon
    <3>3. port = 0 /\ irr' = irr \union {1} /\ cpu' = cpu
      BY <1>1 DEF Fill
    <3> QED BY <3>1, <3>2, <3>3 DEF KbInv, NoStrandedCode
  <2> QED BY <2>2, <2>3, <2>4 DEF KbInv, NoStrandedCode
<1>2. CASE Tick
  <2>1. TypeOK'
    BY <1>2 DEF KbInv, TypeOK, Tick, device, ring, mods, thread
  <2>2. NothingLostOrRepeated'
    BY <1>2, RingUntouched DEF KbInv, Tick, thread
  <2> QED BY <1>2, <2>1, <2>2 DEF KbInv, NoStrandedCode, Tick, device
<1>3. ASSUME NEW irq \in 0..1, Deliver(irq) PROVE KbInv'
  <2>1. irq = 0 \/ irq = 1
    OBVIOUS
  <2>2. TypeOK'
    BY <1>3, <2>1 DEF KbInv, TypeOK, Deliver, device, ring, mods
  <2>3. NothingLostOrRepeated'
    BY <1>3, RingUntouched DEF KbInv, Deliver
  <2> QED BY <1>3, <2>1, <2>2, <2>3 DEF KbInv, NoStrandedCode, Deliver, device
<1>4. CASE timer_irq
  <2>1. TypeOK'
    BY <1>4 DEF KbInv, TypeOK, timer_irq, device, pic, ring, mods, thread
  <2>2. NothingLostOrRepeated'
    BY <1>4, RingUntouched DEF KbInv, timer_irq, thread
  <2> QED BY <1>4, <2>1, <2>2 DEF KbInv, NoStrandedCode, timer_irq, device, pic
<1>5. CASE eoi
  <2>1. TypeOK'
    BY <1>5 DEF KbInv, TypeOK, eoi, device, ring, mods, thread
  <2>2. NothingLostOrRepeated'
    BY <1>5, RingUntouched DEF KbInv, eoi, thread
  <2> QED BY <1>5, <2>1, <2>2 DEF KbInv, NoStrandedCode, eoi, device
<1> QED BY <1>1, <1>2, <1>3, <1>4, <1>5

\* What a code means is a key value or nothing.
LEMMA KeyOfType ==
  ASSUME NEW code \in 0..127
  PROVE  KeyOf(code) \in 0..265
<1>1. keymap[code] \in 0..255 /\ keymap_shift[code] \in 0..255
  <2>1. keymap \in [0..127 -> 0..255] /\ keymap_shift \in [0..127 -> 0..255]
    BY KeyboardAssumption, Zenon
  <2> QED BY <2>1
<1>2. code \in DOMAIN Cursor => Cursor[code] \in 256..263
  BY DEF Cursor
<1>3. KB_CTRL_D = 264 /\ KB_CTRL_C = 265
  BY DEF KB_CTRL_D, KB_CTRL_C
<1>4. KeyOf(code) \in {KB_CTRL_D, KB_CTRL_C, keymap[code], keymap_shift[code]}
      \/ (code \in DOMAIN Cursor /\ KeyOf(code) = Cursor[code])
  BY Zenon DEF KeyOf
<1> QED BY <1>1, <1>2, <1>3, <1>4, SMTT(30)

\* buf_push, whether it finds room or drops the key.
LEMMA PushKeeps ==
  ASSUME RingTypeOK, pushed \in Seq(KeyValues), taken \in Seq(KeyValues),
         NothingLostOrRepeated,
         NEW k \in KeyValues, buf_push(k), UNCHANGED <<thread, taken>>
  PROVE  RingTypeOK' /\ pushed' \in Seq(KeyValues) /\ NothingLostOrRepeated'
<1>1. CASE Succ(buf_head) = buf_tail
  BY <1>1 DEF buf_push, ring, thread, RingTypeOK, NothingLostOrRepeated, Ring, Count, Slot
<1>2. CASE Succ(buf_head) # buf_tail
  <2>1. /\ buf' = [buf EXCEPT ![buf_head] = k]
        /\ buf_head' = Succ(buf_head) /\ buf_tail' = buf_tail
        /\ pushed' = Append(pushed, k)
    BY <1>2 DEF buf_push
  <2>2. k \in 0..265
    BY SMTT(30) DEF KeyValues
  <2>3. /\ RingTypeOK' /\ Count' = Count + 1
        /\ Ring' = Append(Ring, k)
        /\ Count > 0 => buf'[buf_tail'] = buf[buf_tail]
    BY <1>2, <2>1, <2>2, PushAppends
  <2>4. pushed' \in Seq(KeyValues)
    BY <2>1, AppendProperties
  <2>5. pushed' = taken' \o Ring'
    <3>1. taken \in Seq(0..265) /\ Ring \in Seq(0..265)
      BY RingType, SeqMonotonic DEF KeyValues
    <3>2. Append(taken \o Ring, k) = taken \o Append(Ring, k)
      BY <2>2, <3>1
    <3> QED BY <2>1, <2>3, <3>2 DEF NothingLostOrRepeated
  <2>6. Count \in Nat
    BY RingType
  <2> QED BY <2>3, <2>4, <2>5, <2>6 DEF NothingLostOrRepeated, thread
<1> QED BY <1>1, <1>2

\* The interrupt handler keeps the invariant.
LEMMA KeyboardIrqKeeps ==
  ASSUME KbInv, keyboard_irq
  PROVE  KbInv'
<1> DEFINE code == port % 128
<1>1. code \in 0..127
  BY DEF KbInv, TypeOK
<1>2. KeyOf(code) \in 0..265
  BY <1>1, KeyOfType
<1>3. /\ RingTypeOK /\ pushed \in Seq(KeyValues) /\ taken \in Seq(KeyValues)
      /\ NothingLostOrRepeated
  BY DEF KbInv, TypeOK, RingTypeOK
<1>4. UNCHANGED <<ring, pushed>> \/ (KeyOf(code) # 0 /\ buf_push(KeyOf(code)))
  BY DEF keyboard_irq
<1>5. UNCHANGED <<thread, taken>>
  BY DEF keyboard_irq
<1>6. RingTypeOK' /\ pushed' \in Seq(KeyValues) /\ NothingLostOrRepeated'
  <2>1. CASE UNCHANGED <<ring, pushed>>
    <3>1. NothingLostOrRepeated'
      BY <1>3, <1>5, <2>1, RingUntouched DEF thread
    <3> QED BY <1>3, <2>1, <3>1 DEF RingTypeOK, ring
  <2>2. CASE KeyOf(code) # 0 /\ buf_push(KeyOf(code))
    <3>1. KeyOf(code) \in KeyValues
      BY <1>2, <2>2 DEF KeyValues
    <3> QED BY <1>3, <1>5, <2>2, <3>1, PushKeeps
  <2> QED BY <1>4, <2>1, <2>2
<1>7. cpu' = "eoi" /\ port' = 0 /\ UNCHANGED <<held, events, wire, pic>> /\ cpu = "keyboard"
  BY DEF keyboard_irq
<1>8. shift_down' \in BOOLEAN /\ ctrl_down' \in BOOLEAN
  <2>1. shift_down \in BOOLEAN /\ ctrl_down \in BOOLEAN
    BY DEF KbInv, TypeOK
  <2> QED BY <2>1, Zenon DEF keyboard_irq
<1>9. TypeOK'
  <2>1. /\ held' \subseteq 1..127 /\ events' \in 0..MaxEvents /\ wire' \in Seq(1..255)
        /\ irr' \subseteq {0, 1} /\ isr' \subseteq {0, 1} /\ c' \in 0..265
        /\ pc' \in {"away", "check", "hlt", "halted", "read", "advance"}
    BY <1>5, <1>7 DEF KbInv, TypeOK, pic, thread
  <2>2. port' \in 0..255 /\ cpu' \in {"main", "timer", "keyboard", "eoi"}
    BY <1>7
  <2>3. taken' \in Seq(KeyValues)
    BY <1>3, <1>5
  <2> QED BY <1>6, <1>8, <2>1, <2>2, <2>3, Zenon DEF TypeOK, RingTypeOK
<1>10. NoStrandedCode' /\ (cpu = "keyboard" => 1 \notin irr)'
  BY <1>7 DEF KbInv, NoStrandedCode, pic
<1> QED BY <1>6, <1>9, <1>10 DEF KbInv

\* The steps of keyboard_get that only test the ring or halt, and the one
\* that reads a key without taking it out.
LEMMA WaitKeeps ==
  ASSUME KbInv, Call \/ Check \/ Hlt \/ Read
  PROVE  KbInv'
<1>1. /\ UNCHANGED <<device, pic, cpu, mods, ring, pushed, taken>>
      /\ c' = c \/ (Read /\ c' = buf[buf_tail])
      /\ pc' \in {"check", "hlt", "read", "halted", "advance"}
  BY DEF Call, Check, Hlt, Read, Step
<1>2. TypeOK'
  <2>1. c' \in 0..265
    <3>1. RingTypeOK /\ c \in 0..265
      BY DEF KbInv, TypeOK, RingTypeOK
    <3>2. buf[buf_tail] \in 0..265
      BY <3>1 DEF RingTypeOK
    <3> QED BY <1>1, <3>1, <3>2
  <2> QED BY <1>1, <2>1 DEF KbInv, TypeOK, device, pic, mods, ring
<1>3. NothingLostOrRepeated'
  <2>1. Ring' = Ring /\ Count' = Count
    BY <1>1 DEF ring, Ring, Count, Slot
  <2>2. pc' \in {"read", "advance"} => Count > 0
    <3>1. CASE Call \/ Hlt
      BY <3>1 DEF Call, Hlt, Step
    <3>2. CASE Check
      <4>1. pc' = "read" => buf_head # buf_tail
        BY <3>2 DEF Check, Step, IsEmpty
      <4>2. Count \in Nat /\ (buf_head = buf_tail <=> Count = 0)
        <5>1. RingTypeOK
          BY DEF KbInv, TypeOK, RingTypeOK
        <5> QED BY <5>1, RingType
      <4> QED BY <1>1, <3>2, <4>1, <4>2 DEF Check, Step
    <3>3. CASE Read
      BY <3>3 DEF Read, Step, KbInv, NothingLostOrRepeated
    <3> QED BY <3>1, <3>2, <3>3
  <2>3. pc' = "advance" => c' = buf'[buf_tail']
    BY <1>1 DEF Call, Check, Hlt, Read, Step, ring
  <2> QED BY <1>1, <2>1, <2>2, <2>3 DEF KbInv, NothingLostOrRepeated
<1> QED BY <1>1, <1>2, <1>3 DEF KbInv, NoStrandedCode, device, pic

\* The key returned is the first that waits, whatever interrupts came since it was read.
LEMMA AdvanceStep ==
  ASSUME KbInv, Advance
  PROVE  /\ RingTypeOK'
         /\ Ring # <<>> /\ c = Head(Ring) /\ c \in KeyValues
         /\ Ring' = Tail(Ring)
<1>1. RingTypeOK /\ Count > 0 /\ c = buf[buf_tail]
  BY DEF KbInv, TypeOK, RingTypeOK, NothingLostOrRepeated, Advance, Step
<1>2. buf' = buf /\ buf_head' = buf_head /\ buf_tail' = Succ(buf_tail)
  BY DEF Advance
<1>3. /\ RingTypeOK' /\ Ring # <<>> /\ Head(Ring) = buf[buf_tail]
      /\ Ring' = Tail(Ring)
  BY <1>1, <1>2, AdvanceTakes
<1>4. c \in KeyValues
  <2>1. pushed \in Seq(KeyValues) /\ taken \in Seq(KeyValues) /\ pushed = taken \o Ring
    BY DEF KbInv, TypeOK, NothingLostOrRepeated
  <2>2. taken \in Seq(0..265) /\ Ring \in Seq(0..265) /\ Len(Ring) = Count /\ Count \in Nat
    BY <1>1, <2>1, RingType, SeqMonotonic DEF KeyValues
  <2>3. /\ Len(pushed) = Len(taken) + Count /\ Len(taken) \in Nat
        /\ pushed[Len(taken) + 1] = Ring[1]
    <3>1. /\ Len(taken \o Ring) = Len(taken) + Len(Ring)
          /\ \A i \in 1..Len(taken) + Len(Ring) :
               (taken \o Ring)[i] = IF i <= Len(taken) THEN taken[i] ELSE Ring[i - Len(taken)]
      BY <2>2, ConcatProperties, ZenonT(30)
    <3>2. Len(taken) \in Nat
      BY <2>2
    <3>3. Len(taken) + 1 \in 1..Len(taken) + Len(Ring) /\ ~(Len(taken) + 1 <= Len(taken))
          /\ (Len(taken) + 1) - Len(taken) = 1
      BY <1>1, <2>2, <3>2
    <3> QED BY <2>1, <2>2, <3>1, <3>2, <3>3
  <2>4. pushed[Len(taken) + 1] \in KeyValues
    BY <1>1, <2>1, <2>2, <2>3, ElementOfSeq
  <2>5. Head(Ring) = Ring[1]
    BY <1>3, <2>2
  <2> QED BY <1>1, <1>3, <2>3, <2>4, <2>5
<1> QED BY <1>1, <1>3, <1>4

\* A step of keyboard_get keeps it.
LEMMA AdvanceKeeps ==
  ASSUME KbInv, Advance
  PROVE  KbInv'
<1>1. /\ RingTypeOK'
      /\ Ring # <<>> /\ c = Head(Ring) /\ c \in KeyValues
      /\ Ring' = Tail(Ring)
  BY AdvanceStep
<1>2. /\ UNCHANGED <<device, pic, cpu, mods, pushed>> /\ c' = c
      /\ taken' = Append(taken, c) /\ pc' = "away"
  BY DEF Advance, Step
<1>3. taken' \in Seq(KeyValues)
  BY <1>1, <1>2, AppendProperties DEF KbInv, TypeOK
<1>4. TypeOK'
  BY <1>1, <1>2, <1>3 DEF KbInv, TypeOK, RingTypeOK, device, pic, mods
<1>5. pushed' = taken' \o Ring'
  <2>1. taken \in Seq(0..265) /\ Ring \in Seq(0..265)
    <3>1. RingTypeOK /\ taken \in Seq(KeyValues)
      BY DEF KbInv, TypeOK, RingTypeOK
    <3> QED BY <3>1, RingType, SeqMonotonic DEF KeyValues
  <2>2. Append(taken, Head(Ring)) \o Tail(Ring) = taken \o Ring
    BY <1>1, <2>1
  <2> QED BY <1>1, <1>2, <2>2 DEF KbInv, NothingLostOrRepeated
<1>6. NothingLostOrRepeated'
  BY <1>2, <1>5 DEF NothingLostOrRepeated
<1> QED BY <1>2, <1>4, <1>6 DEF KbInv, NoStrandedCode, device, pic

\* Every step keeps it.
LEMMA KbInvNext == KbInv /\ [Next]_vars => KbInv'
<1> SUFFICES ASSUME KbInv, [Next]_vars PROVE KbInv'
  OBVIOUS
<1>1. ASSUME NEW k \in Plain \union Extended, Press(k) \/ Release(k) PROVE KbInv'
  BY <1>1, SendKeeps
<1>2. CASE Fill \/ Tick \/ (\E irq \in 0..1 : Deliver(irq)) \/ timer_irq \/ eoi
  BY <1>2, DeviceKeeps
<1>3. CASE keyboard_irq
  BY <1>3, KeyboardIrqKeeps
<1>4. CASE Call \/ Check \/ Hlt \/ Read
  BY <1>4, WaitKeeps
<1>5. CASE Advance
  BY <1>5, AdvanceKeeps
<1>6. CASE UNCHANGED vars
  <2>1. TypeOK'
    BY <1>6 DEF KbInv, TypeOK, vars, device, pic, ring, mods, thread
  <2>2. NothingLostOrRepeated'
    BY <1>6, RingUntouched DEF KbInv, vars, thread
  <2> QED BY <1>6, <2>1, <2>2 DEF KbInv, NoStrandedCode, vars, device, pic
<1> QED BY <1>1, <1>2, <1>3, <1>4, <1>5, <1>6 DEF Next, Handlers, keyboard_get, InCall

\* The inductive invariant of the driver holds in every reachable state.
THEOREM KeyboardInvariant == Spec => []KbInv
<1> QED BY KbInvInit, KbInvNext, PTL DEF Spec

\* The variables of the driver keep their types: the indices stay within the
\* ring, and no scan code has a meaning outside of the key values.
THEOREM KeyboardTypeCorrect == Spec => []TypeOK
<1>1. KbInv => TypeOK BY DEF KbInv
<1> QED BY <1>1, KeyboardInvariant, PTL

\* Every key buf_push accepted is returned by keyboard_get once and in order.
THEOREM KeysNeitherLostNorRepeated == Spec => []NothingLostOrRepeated
<1>1. KbInv => NothingLostOrRepeated BY DEF KbInv
<1> QED BY <1>1, KeyboardInvariant, PTL

\* A scan code in port 0x60 always has its interrupt requested or running.
THEOREM NoCodeStranded == Spec => []NoStrandedCode
<1>1. KbInv => NoStrandedCode BY DEF KbInv
<1> QED BY <1>1, KeyboardInvariant, PTL

-----------------------------------------------------------------------------
(* The ring buffer is a bounded queue.                                     *)

\* An empty ring is an empty queue.
LEMMA QueueInit == Init => Queue!Init
<1> SUFFICES ASSUME Init PROVE Ring = <<>> /\ taken = <<>>
  BY DEF Queue!Init
<1>1. RingTypeOK
  BY KbInvInit DEF KbInv, TypeOK, RingTypeOK
<1>2. Count = 0
  BY DEF Init, Count
<1> QED BY <1>1, <1>2, RingType DEF Init

\* Storing a key is Put, moving buf_tail is Take, and all else is a stutter.
LEMMA QueueStep == KbInv /\ [Next]_vars => [Queue!Next]_Queue!vars
<1> SUFFICES ASSUME KbInv, [Next]_vars PROVE [Queue!Next]_Queue!vars
  OBVIOUS
<1>1. RingTypeOK
  BY DEF KbInv, TypeOK, RingTypeOK
<1>2. ASSUME UNCHANGED <<ring, taken>> PROVE UNCHANGED Queue!vars
  BY <1>2 DEF Queue!vars, ring, Ring, Count, Slot
<1>3. CASE keyboard_irq
  <2> DEFINE k == KeyOf(port % 128)
  <2>1. k \in 0..265
    <3>1. port % 128 \in 0..127
      BY DEF KbInv, TypeOK
    <3> QED BY <3>1, KeyOfType, SMTT(30)
  <2>2. CASE UNCHANGED ring
    BY <1>2, <1>3, <2>2 DEF keyboard_irq
  <2>3. CASE ~UNCHANGED ring
    <3>1. k # 0 /\ buf_push(k) /\ taken' = taken
      BY <1>3, <2>3 DEF keyboard_irq
    <3>2. /\ Succ(buf_head) # buf_tail
          /\ buf' = [buf EXCEPT ![buf_head] = k]
          /\ buf_head' = Succ(buf_head) /\ buf_tail' = buf_tail
      BY <2>3, <3>1 DEF buf_push
    <3>3. Count < BUFSZ - 1 /\ Ring' = Append(Ring, k) /\ Len(Ring) = Count
      BY <1>1, <2>1, <3>2, PushAppends, RingType
    <3>4. k \in KeyValues
      BY <2>1, <3>1 DEF KeyValues
    <3> QED BY <3>1, <3>3, <3>4 DEF Queue!Next, Queue!Put
  <2> QED BY <2>2, <2>3
<1>4. CASE Advance
  <2>1. Ring # <<>> /\ c = Head(Ring) /\ Ring' = Tail(Ring)
    BY <1>4, AdvanceStep
  <2>2. taken' = Append(taken, c)
    BY <1>4 DEF Advance
  <2> QED BY <2>1, <2>2 DEF Queue!Next, Queue!Take
<1>5. CASE \E k \in Plain \union Extended : Press(k) \/ Release(k)
  BY <1>2, <1>5 DEF Press, Release, Send
<1>6. CASE Fill \/ Tick \/ timer_irq \/ eoi
  BY <1>2, <1>6 DEF Fill, Tick, timer_irq, eoi
<1>7. CASE \E irq \in 0..1 : Deliver(irq)
  BY <1>2, <1>7 DEF Deliver
<1>8. CASE Call \/ Check \/ Hlt \/ Read
  BY <1>2, <1>8 DEF Call, Check, Hlt, Read
<1>9. CASE UNCHANGED vars
  BY <1>2, <1>9 DEF vars
<1> QED BY <1>3, <1>4, <1>5, <1>6, <1>7, <1>8, <1>9 DEF Next, Handlers, keyboard_get, InCall

\* keyboard.c's ring buffer, with interrupts between any two steps of
\* keyboard_get, behaves as a queue of BUFSZ - 1 keys.
THEOREM RingImplementsQueue == Spec => ImplementsQueue
<1> QED BY QueueInit, QueueStep, KeyboardInvariant, PTL DEF Spec, ImplementsQueue, Queue!Spec
-----------------------------------------------------------------------------
(* The modifiers.  What shift_down and ctrl_down will be is told by the    *)
(* last of their codes among those that are still to be handled.           *)

\* The scan codes of ctrl, and those of the two shifts.
CtrlCodes  == {CTRL, CTRL + 128}
ShiftCodes == {LSHIFT, RSHIFT, LSHIFT + 128, RSHIFT + 128}

\* The codes that may come last while the keys in h are down.
CtrlLast(h)  == IF CTRL \in h THEN {CTRL} ELSE {CTRL + 128}
ShiftLast(h) == {LSHIFT + 128, RSHIFT + 128} \union (h \cap {LSHIFT, RSHIFT})

\* No code of S is queued; the last that is queued is in G.
NoneIn(q, S) == \A i \in 1..Len(q) : q[i] \notin S
LastIn(q, S, G) == \E i \in 1..Len(q) : /\ q[i] \in S /\ q[i] \in G
                                        /\ \A j \in 1..Len(q) : j > i => q[j] \notin S

\* The codes still to be handled.
Pending == IF port = 0 THEN wire ELSE <<port>> \o wire

\* The modifiers the driver has are those of the keys, once what is queued is read.
ModInv ==
  /\ Pending \in Seq(1..255)
  /\ \/ LastIn(Pending, CtrlCodes, CtrlLast(held))
     \/ NoneIn(Pending, CtrlCodes) /\ (ctrl_down <=> CTRL \in held)
  /\ \/ LastIn(Pending, ShiftCodes, ShiftLast(held))
     \/ NoneIn(Pending, ShiftCodes) /\ (shift_down => {LSHIFT, RSHIFT} \cap held # {})

\* A code of another key at the end changes nothing.
LEMMA AppendOther ==
  ASSUME NEW q \in Seq(1..255), NEW x \in 1..255, NEW S, NEW G, x \notin S
  PROVE  /\ Append(q, x) \in Seq(1..255)
         /\ LastIn(q, S, G) => LastIn(Append(q, x), S, G)
         /\ NoneIn(q, S) => NoneIn(Append(q, x), S)
<1> DEFINE r == Append(q, x)
<1>1. /\ r \in Seq(1..255) /\ Len(q) \in Nat /\ Len(r) = Len(q) + 1
      /\ r[Len(q) + 1] = x /\ \A i \in 1..Len(q) : r[i] = q[i]
  OBVIOUS
<1> HIDE DEF r
<1>2. ASSUME NEW j \in 1..Len(r), r[j] \in S PROVE j \in 1..Len(q)
  BY <1>1, <1>2
<1>3. ASSUME LastIn(q, S, G) PROVE LastIn(r, S, G)
  <2>1. PICK i \in 1..Len(q) : /\ q[i] \in S /\ q[i] \in G
                               /\ \A j \in 1..Len(q) : j > i => q[j] \notin S
    BY <1>3 DEF LastIn
  <2>2. i \in 1..Len(r) /\ r[i] \in S /\ r[i] \in G
    BY <1>1, <2>1
  <2>3. ASSUME NEW j \in 1..Len(r), j > i PROVE r[j] \notin S
    BY <1>1, <1>2, <2>1, <2>3
  <2> QED BY <2>2, <2>3 DEF LastIn
<1>4. ASSUME NoneIn(q, S) PROVE NoneIn(r, S)
  BY <1>1, <1>2, <1>4 DEF NoneIn
<1> QED BY <1>1, <1>3, <1>4 DEF r

\* The code at the end is the last one.
LEMMA AppendLast ==
  ASSUME NEW q \in Seq(1..255), NEW x \in 1..255, NEW S, NEW G, x \in S, x \in G
  PROVE  Append(q, x) \in Seq(1..255) /\ LastIn(Append(q, x), S, G)
<1> DEFINE r == Append(q, x)
<1>1. /\ r \in Seq(1..255) /\ Len(q) \in Nat /\ Len(r) = Len(q) + 1
      /\ r[Len(q) + 1] = x
  OBVIOUS
<1> HIDE DEF r
<1>2. LastIn(r, S, G)
  BY <1>1 DEF LastIn
<1> QED BY <1>1, <1>2 DEF r

\* The first code is handled: it was the last one, or that is still to come.
LEMMA HandleFirst ==
  ASSUME NEW q \in Seq(1..255), NEW x \in 1..255, NEW S, NEW G
  PROVE  /\ LastIn(<<x>> \o q, S, G) =>
              LastIn(q, S, G) \/ (x \in S /\ x \in G /\ NoneIn(q, S))
         /\ NoneIn(<<x>> \o q, S) => x \notin S /\ NoneIn(q, S)
<1> DEFINE r == <<x>> \o q
<1>1. /\ Len(q) \in Nat /\ Len(r) = Len(q) + 1 /\ r[1] = x
      /\ \A i \in 1..Len(q) : r[i + 1] = q[i]
  OBVIOUS
<1> HIDE DEF r
<1>2. ASSUME LastIn(r, S, G)
      PROVE  LastIn(q, S, G) \/ (x \in S /\ x \in G /\ NoneIn(q, S))
  <2>1. PICK i \in 1..Len(r) : /\ r[i] \in S /\ r[i] \in G
                               /\ \A j \in 1..Len(r) : j > i => r[j] \notin S
    BY <1>2 DEF LastIn
  <2>2. ASSUME NEW j \in 1..Len(q), j + 1 > i PROVE q[j] \notin S
    BY <1>1, <2>1, <2>2
  <2>3. CASE i = 1
    <3>1. NoneIn(q, S)
      BY <1>1, <2>2, <2>3 DEF NoneIn
    <3> QED BY <1>1, <2>1, <2>3, <3>1
  <2>4. CASE i # 1
    <3>1. i - 1 \in 1..Len(q) /\ q[i - 1] = r[i]
      BY <1>1, <2>1, <2>4
    <3>2. ASSUME NEW j \in 1..Len(q), j > i - 1 PROVE q[j] \notin S
      BY <1>1, <2>2, <3>2
    <3> QED BY <2>1, <3>1, <3>2 DEF LastIn
  <2> QED BY <2>3, <2>4
<1>3. ASSUME NoneIn(r, S) PROVE x \notin S /\ NoneIn(q, S)
  BY <1>1, <1>3 DEF NoneIn
<1> QED BY <1>2, <1>3 DEF r

\* A modifier that goes down or up puts its code last; another key's codes do
\* not matter.
LEMMA SendModifiers ==
  ASSUME KbInv, ModInv, NEW k \in Plain \union Extended, Press(k) \/ Release(k)
  PROVE  ModInv'
<1>1. PICK up \in BOOLEAN :
        Send(k, up) /\ held' = IF up THEN held \ {k} ELSE held \union {k}
  BY DEF Press, Release
<1>2. k \in 1..127
  BY KeyboardAssumption
<1> DEFINE x == IF up THEN k + 128 ELSE k
           q == IF k \in Extended THEN Append(Pending, 224) ELSE Pending
<1>3. x \in 1..255 /\ wire \in Seq(1..255) /\ port \in 0..255 /\ held \subseteq 1..127
  BY <1>2 DEF KbInv, TypeOK
<1>4. Pending' = Append(q, x)
  <2>1. /\ port' = port
        /\ wire' = (IF k \in Extended THEN Append(wire, 224) ELSE wire) \o <<x>>
    BY <1>1 DEF Send
  <2>2. wire' = Append(IF k \in Extended THEN Append(wire, 224) ELSE wire, x)
    BY <1>3, <2>1
  <2>3. CASE port = 0
    BY <2>1, <2>2, <2>3 DEF Pending
  <2>4. CASE port # 0
    <3>1. port \in 1..255
      BY <1>3, <2>4
    <3>2. \A s \in Seq(1..255), y \in 1..255 : <<port>> \o Append(s, y) = Append(<<port>> \o s, y)
      BY <3>1
    <3>3. 224 \in 1..255 /\ Append(wire, 224) \in Seq(1..255)
      BY <1>3
    <3> HIDE DEF x
    <3>4. Pending = <<port>> \o wire /\ Pending' = <<port>> \o wire'
      BY <2>1, <2>4 DEF Pending
    <3>5. CASE k \in Extended
      <4>1. <<port>> \o Append(wire, 224) = Append(<<port>> \o wire, 224)
        BY <1>3, <3>2, <3>3
      <4>2. <<port>> \o Append(Append(wire, 224), x) = Append(<<port>> \o Append(wire, 224), x)
        BY <1>3, <3>2, <3>3
      <4>3. wire' = Append(Append(wire, 224), x) /\ q = Append(Pending, 224)
        BY <2>2, <3>5
      <4> HIDE DEF q
      <4> QED BY <3>4, <4>1, <4>2, <4>3
    <3>6. CASE k \notin Extended
      <4>1. <<port>> \o Append(wire, x) = Append(<<port>> \o wire, x)
        BY <1>3, <3>2
      <4>2. wire' = Append(wire, x) /\ q = Pending
        BY <2>2, <3>6
      <4> HIDE DEF q
      <4> QED BY <3>4, <4>1, <4>2
    <3> QED BY <3>5, <3>6
  <2> QED BY <2>3, <2>4
<1>5. 224 \in 1..255 /\ 224 \notin CtrlCodes /\ 224 \notin ShiftCodes
  BY DEF CtrlCodes, ShiftCodes, CTRL, LSHIFT, RSHIFT
<1>6. /\ q \in Seq(1..255)
      /\ \A G : /\ LastIn(Pending, CtrlCodes, G) => LastIn(q, CtrlCodes, G)
                /\ LastIn(Pending, ShiftCodes, G) => LastIn(q, ShiftCodes, G)
      /\ NoneIn(Pending, CtrlCodes) => NoneIn(q, CtrlCodes)
      /\ NoneIn(Pending, ShiftCodes) => NoneIn(q, ShiftCodes)
  <2>1. Pending \in Seq(1..255)
    BY DEF ModInv
  <2>2. CASE k \in Extended
    <3>1. q = Append(Pending, 224)
      BY <2>2
    <3>2. Append(Pending, 224) \in Seq(1..255)
      BY <1>5, <2>1
    <3> HIDE DEF q, x
    <3> DEFINE e == 224
    <3>0. e \in 1..255 /\ e \notin CtrlCodes /\ e \notin ShiftCodes
      BY <1>5
    <3> HIDE DEF e
    <3>3. /\ \A G : LastIn(Pending, CtrlCodes, G) => LastIn(Append(Pending, e), CtrlCodes, G)
          /\ NoneIn(Pending, CtrlCodes) => NoneIn(Append(Pending, e), CtrlCodes)
      BY <3>0, <2>1, AppendOther, Zenon
    <3>4. /\ \A G : LastIn(Pending, ShiftCodes, G) => LastIn(Append(Pending, e), ShiftCodes, G)
          /\ NoneIn(Pending, ShiftCodes) => NoneIn(Append(Pending, e), ShiftCodes)
      BY <3>0, <2>1, AppendOther, Zenon
    <3> QED BY <3>1, <3>2, <3>3, <3>4 DEF e
  <2>3. CASE k \notin Extended
    <3>1. q = Pending
      BY <2>3
    <3> HIDE DEF q, x
    <3> QED BY <2>1, <3>1
  <2> QED BY <2>2, <2>3
<1>7. ctrl_down' = ctrl_down /\ shift_down' = shift_down
  BY <1>1 DEF Send, mods
<1> HIDE DEF q
<1>8. \/ LastIn(Pending', CtrlCodes, CtrlLast(held'))
      \/ NoneIn(Pending', CtrlCodes) /\ (ctrl_down' <=> CTRL \in held')
  <2>1. CASE k = CTRL
    <3>1. x \in CtrlCodes /\ x \in CtrlLast(held')
      BY <1>1, <2>1 DEF CtrlCodes, CtrlLast, CTRL
    <3> HIDE DEF x
    <3> QED BY <1>3, <1>4, <1>6, <3>1, AppendLast
  <2>2. CASE k # CTRL
    <3>1. x \notin CtrlCodes /\ (CTRL \in held' <=> CTRL \in held)
      BY <1>1, <1>2, <2>2 DEF CtrlCodes, CTRL
    <3>2. CtrlLast(held') = CtrlLast(held)
      BY <3>1 DEF CtrlLast
    <3> HIDE DEF x
    <3>3. /\ LastIn(q, CtrlCodes, CtrlLast(held)) => LastIn(Append(q, x), CtrlCodes, CtrlLast(held))
          /\ NoneIn(q, CtrlCodes) => NoneIn(Append(q, x), CtrlCodes)
      BY <1>3, <1>6, <3>1, AppendOther
    <3> QED BY <1>4, <1>6, <1>7, <3>1, <3>2, <3>3 DEF ModInv
  <2> QED BY <2>1, <2>2
<1>9. \/ LastIn(Pending', ShiftCodes, ShiftLast(held'))
      \/ NoneIn(Pending', ShiftCodes) /\ (shift_down' => {LSHIFT, RSHIFT} \cap held' # {})
  <2>1. CASE k \in {LSHIFT, RSHIFT}
    <3>1. x \in ShiftCodes /\ x \in ShiftLast(held')
      BY <1>1, <2>1 DEF ShiftCodes, ShiftLast, LSHIFT, RSHIFT
    <3> HIDE DEF x
    <3> QED BY <1>3, <1>4, <1>6, <3>1, AppendLast
  <2>2. CASE k \notin {LSHIFT, RSHIFT}
    <3>1. x \notin ShiftCodes
      BY <1>1, <1>2, <2>2 DEF ShiftCodes, LSHIFT, RSHIFT
    <3>2. held' \cap {LSHIFT, RSHIFT} = held \cap {LSHIFT, RSHIFT}
      BY <1>1, <2>2
    <3>3. /\ ShiftLast(held') = ShiftLast(held)
          /\ {LSHIFT, RSHIFT} \cap held' = {LSHIFT, RSHIFT} \cap held
      BY <3>2 DEF ShiftLast
    <3> HIDE DEF x
    <3>4. /\ LastIn(q, ShiftCodes, ShiftLast(held)) => LastIn(Append(q, x), ShiftCodes, ShiftLast(held))
          /\ NoneIn(q, ShiftCodes) => NoneIn(Append(q, x), ShiftCodes)
      BY <1>3, <1>6, <3>1, AppendOther
    <3> QED BY <1>4, <1>6, <1>7, <3>3, <3>4 DEF ModInv
  <2> QED BY <2>1, <2>2
<1>10. Pending' \in Seq(1..255)
  <2> HIDE DEF x
  <2> QED BY <1>3, <1>4, <1>6
<1> QED BY <1>8, <1>9, <1>10 DEF ModInv

\* The handler of the code that comes first does what the code says.
LEMMA HandleModifiers ==
  ASSUME KbInv, ModInv, keyboard_irq
  PROVE  ModInv'
<1>1. /\ wire \in Seq(1..255) /\ port \in 1..255 /\ held \subseteq 1..127
      /\ wire' = wire /\ port' = 0 /\ held' = held
  BY DEF KbInv, TypeOK, NoStrandedCode, keyboard_irq
<1>2. Pending = <<port>> \o wire /\ Pending' = wire
  BY <1>1 DEF Pending
<1> DEFINE code == port % 128
<1>3. code = IF port >= 128 THEN port - 128 ELSE port
  BY <1>1
<1>4. \/ LastIn(wire, CtrlCodes, CtrlLast(held))
      \/ NoneIn(wire, CtrlCodes) /\ (ctrl_down' <=> CTRL \in held)
  <2>1. ctrl_down' = IF code = CTRL THEN ~(port >= 128) ELSE ctrl_down
    BY DEF keyboard_irq
  <2>2. CASE LastIn(Pending, CtrlCodes, CtrlLast(held))
    <3>1. LastIn(wire, CtrlCodes, CtrlLast(held))
            \/ (port \in CtrlCodes /\ port \in CtrlLast(held) /\ NoneIn(wire, CtrlCodes))
      BY <1>1, <1>2, <2>2, HandleFirst
    <3>2. ASSUME port \in CtrlCodes, port \in CtrlLast(held)
          PROVE  code = CTRL /\ (~(port >= 128) <=> CTRL \in held)
      BY <1>3, <3>2 DEF CtrlCodes, CtrlLast, CTRL
    <3> HIDE DEF code
    <3> QED BY <2>1, <3>1, <3>2
  <2>3. CASE NoneIn(Pending, CtrlCodes) /\ (ctrl_down <=> CTRL \in held)
    <3>1. port \notin CtrlCodes /\ NoneIn(wire, CtrlCodes)
      BY <1>1, <1>2, <2>3, HandleFirst
    <3>2. code # CTRL
      BY <1>1, <1>3, <3>1 DEF CtrlCodes, CTRL
    <3> HIDE DEF code
    <3> QED BY <2>1, <2>3, <3>1, <3>2
  <2> QED BY <2>2, <2>3 DEF ModInv
<1>5. \/ LastIn(wire, ShiftCodes, ShiftLast(held))
      \/ NoneIn(wire, ShiftCodes) /\ (shift_down' => {LSHIFT, RSHIFT} \cap held # {})
  <2>1. shift_down' = IF code \in {LSHIFT, RSHIFT} THEN ~(port >= 128) ELSE shift_down
    BY DEF keyboard_irq
  <2>2. CASE LastIn(Pending, ShiftCodes, ShiftLast(held))
    <3>1. LastIn(wire, ShiftCodes, ShiftLast(held))
            \/ (port \in ShiftCodes /\ port \in ShiftLast(held) /\ NoneIn(wire, ShiftCodes))
      BY <1>1, <1>2, <2>2, HandleFirst
    <3>2. ASSUME port \in ShiftCodes, port \in ShiftLast(held)
          PROVE  code \in {LSHIFT, RSHIFT} /\ (~(port >= 128) => {LSHIFT, RSHIFT} \cap held # {})
      BY <1>3, <3>2 DEF ShiftCodes, ShiftLast, LSHIFT, RSHIFT
    <3> HIDE DEF code
    <3> QED BY <2>1, <3>1, <3>2
  <2>3. CASE NoneIn(Pending, ShiftCodes) /\ (shift_down => {LSHIFT, RSHIFT} \cap held # {})
    <3>1. port \notin ShiftCodes /\ NoneIn(wire, ShiftCodes)
      BY <1>1, <1>2, <2>3, HandleFirst
    <3>2. code \notin {LSHIFT, RSHIFT}
      BY <1>1, <1>3, <3>1 DEF ShiftCodes, LSHIFT, RSHIFT
    <3> HIDE DEF code
    <3> QED BY <2>1, <2>3, <3>1, <3>2
  <2> QED BY <2>2, <2>3 DEF ModInv
<1> QED BY <1>1, <1>2, <1>4, <1>5 DEF ModInv

\* Every step leaves the modifiers to what the last of their codes says.
LEMMA ModInvNext == KbInv /\ ModInv /\ [Next]_vars => ModInv'
<1> SUFFICES ASSUME KbInv, ModInv, [Next]_vars PROVE ModInv'
  OBVIOUS
<1>1. ASSUME NEW k \in Plain \union Extended, Press(k) \/ Release(k) PROVE ModInv'
  BY <1>1, SendModifiers
<1>2. CASE keyboard_irq
  BY <1>2, HandleModifiers
<1>3. CASE Fill
  <2>1. /\ wire \in Seq(1..255) /\ wire # <<>> /\ port = 0
        /\ port' = Head(wire) /\ wire' = Tail(wire)
    BY <1>3 DEF Fill, KbInv, TypeOK
  <2>2. /\ Head(wire) \in 1..255 /\ Head(wire) = wire[1] /\ Tail(wire) \in Seq(1..255)
        /\ Len(wire) \in Nat \ {0} /\ Len(Tail(wire)) = Len(wire) - 1
        /\ \A i \in 1..Len(wire)-1 : Tail(wire)[i] = wire[i + 1]
    BY <2>1, HeadTailProperties
  <2>3. <<Head(wire)>> \o Tail(wire) = wire
    <3> DEFINE t == Tail(wire)
               h == Head(wire)
               r == <<h>> \o t
    <3> HIDE DEF t, h
    <3>1. t \in Seq(1..255) /\ h \in 1..255
      BY <2>2 DEF t, h
    <3>2. /\ r \in Seq(1..255) /\ Len(r) = Len(t) + 1 /\ r[1] = h
          /\ \A i \in 1..Len(t) : r[i + 1] = t[i]
      BY <3>1
    <3> HIDE DEF r
    <3>3. Len(r) = Len(wire)
      BY <2>2, <3>2 DEF t
    <3>4. ASSUME NEW i \in 1..Len(wire) PROVE r[i] = wire[i]
      <4>1. CASE i = 1
        BY <2>2, <3>2, <4>1 DEF h
      <4>2. CASE i # 1
        <5>1. i - 1 \in 1..Len(t) /\ (i - 1) + 1 = i
          BY <2>2, <4>2 DEF t
        <5>2. r[i] = t[i - 1]
          BY <3>2, <5>1
        <5>3. t[i - 1] = wire[i]
          BY <2>2, <5>1 DEF t
        <5> QED BY <5>2, <5>3
      <4> QED BY <4>1, <4>2
    <3>5. r = wire
      BY <2>1, <3>2, <3>3, <3>4
    <3> QED BY <3>5 DEF r, t, h
  <2>4. Pending' = Pending /\ UNCHANGED <<held, mods>>
    <3>1. Head(wire) # 0
      <4>1. \A z \in 1..255 : z # 0
        OBVIOUS
      <4> QED BY <2>2, <4>1, Zenon
    <3>2. UNCHANGED <<held, mods>>
      BY <1>3 DEF Fill
    <3> QED BY <2>1, <2>3, <3>1, <3>2 DEF Pending
  <2> QED BY <2>4 DEF ModInv, mods
<1>4. CASE Tick \/ (\E irq \in 0..1 : Deliver(irq)) \/ timer_irq \/ eoi
  <2>1. UNCHANGED <<device, mods>>
    BY <1>4 DEF Tick, Deliver, timer_irq, eoi
  <2> QED BY <2>1 DEF ModInv, Pending, device, mods
<1>5. CASE Call \/ Check \/ Hlt \/ Read \/ Advance
  <2>1. UNCHANGED <<device, mods>>
    BY <1>5 DEF Call, Check, Hlt, Read, Advance, Step
  <2> QED BY <2>1 DEF ModInv, Pending, device, mods
<1>6. CASE UNCHANGED vars
  BY <1>6 DEF vars, ModInv, Pending, device, mods
<1> QED BY <1>1, <1>2, <1>3, <1>4, <1>5, <1>6 DEF Next, Handlers, keyboard_get, InCall

\* With every code handled, Ctrl is taken for down exactly while it is, and
\* Shift only while a shift key is, whatever the ring dropped (keyboard_irq of
\* src/keyboard.c looks at modifiers before it looks at the ring).
THEOREM NoModifierStuck == Spec => []NoStuckModifier
<1>1. Init => ModInv
  BY DEF Init, ModInv, Pending, NoneIn
<1>2. ModInv => NoStuckModifier
  <2> SUFFICES ASSUME ModInv, wire = <<>>, port = 0
               PROVE  /\ ctrl_down <=> CTRL \in held
                      /\ shift_down => {LSHIFT, RSHIFT} \cap held # {}
    BY DEF NoStuckModifier
  <2>1. \A S, G : ~LastIn(Pending, S, G)
    BY DEF Pending, LastIn
  <2> QED BY <2>1 DEF ModInv
<1> QED BY <1>1, <1>2, ModInvNext, KeyboardInvariant, PTL DEF Spec
=============================================================================
