--------------------------- MODULE MsgStreamProof ---------------------------
(***************************************************************************)
(* Theorems about MsgStream, for all message sizes and buffer sizes that   *)
(* are even: the reader never takes a message for something else, and      *)
(* implements Fifo.                                                        *)
(***************************************************************************)
EXTENDS MsgStream, TLAPS

\* Positions where a message begins or will begin.
Bounds == DOMAIN starts \cup {end}

\* Messages lie one after the other, and all of them are of even size.
Framed ==
  /\ \A p \in DOMAIN starts : p + starts[p] \in Bounds /\ p + starts[p] <= end
  /\ \A p, q \in DOMAIN starts : p < q => p + starts[p] <= q
  /\ \A p \in Bounds : p % 2 = 0

\* The reader stands between two messages, and the phases know what is read.
Placed ==
  /\ base \in Bounds /\ base + rdpos \in Bounds
  /\ pc = "read" => len = 0 /\ rdpos = 0
  /\ pc \in {"find", "fragment"} =>
       /\ len = MaxRead /\ base + MaxRead <= end
       /\ rdpos > 0 => /\ base + rdpos - msglen \in DOMAIN starts
                       /\ starts[base + rdpos - msglen] = msglen
                       /\ msglen <= rdpos /\ rdpos - msglen < MaxRead
  /\ pc = "fragment" => rdpos > MaxRead
  /\ pc = "dispatch" => base + len \in Bounds /\ rdpos <= len
  /\ pc # "failed"

Inv == TypeOK /\ Framed /\ Placed

LEMMA Numbers ==
  /\ Hdr \in Nat \ {0} /\ MaxLen \in Nat /\ MaxRead \in Nat \ {0}
  /\ MaxRead % 2 = 0 /\ Hdr + 2 <= MaxRead
  /\ \A s \in Sizes : s \in Nat /\ Hdr + 2 <= s /\ s <= MaxLen /\ s % 2 = 0 /\ s > 0
  BY StreamAssumption

LEMMA EvenDifference ==
  ASSUME NEW b \in Nat, NEW n \in Nat, b % 2 = 0, (b + n) % 2 = 0
  PROVE  n % 2 = 0
  BY SMT

LEMMA EvenSum ==
  ASSUME NEW b \in Nat, NEW n \in Nat, b % 2 = 0, n % 2 = 0
  PROVE  (b + n) % 2 = 0
  BY SMT

LEMMA BoundsFacts ==
  ASSUME Inv
  PROVE  /\ \A p \in Bounds : p \in Nat /\ p <= end /\ p % 2 = 0
         /\ \A p \in Bounds : p < end => p \in DOMAIN starts
         /\ \A p \in DOMAIN starts :
              /\ starts[p] \in Sizes /\ starts[p] \in Nat /\ Hdr + 2 <= starts[p]
              /\ p + starts[p] \in Bounds
              /\ \A q \in Bounds : p < q => p + starts[p] <= q
  <1>1. \A p \in DOMAIN starts : starts[p] \in Sizes /\ p \in Nat /\ starts[p] \in Nat /\ Hdr + 2 <= starts[p]
    BY Numbers DEF Inv, TypeOK
  <1>2. end \in Nat /\ Hdr \in Nat
    BY Numbers DEF Inv, TypeOK
  <1>3. \A p \in DOMAIN starts : p + starts[p] <= end /\ p + starts[p] \in Bounds
    BY DEF Inv, Framed
  <1>4. \A p \in DOMAIN starts : p <= end
    BY <1>1, <1>2, <1>3
  <1>5. \A p \in Bounds : p \in Nat /\ p <= end /\ p % 2 = 0
    BY <1>1, <1>2, <1>4 DEF Inv, Framed, Bounds
  <1>6. \A p \in Bounds : p < end => p \in DOMAIN starts
    BY <1>2 DEF Bounds
  <1>7. ASSUME NEW p \in DOMAIN starts, NEW q \in Bounds, p < q
        PROVE  p + starts[p] <= q
    BY <1>3, <1>7 DEF Inv, Framed, Bounds
  <1>. QED  BY <1>1, <1>3, <1>5, <1>6, <1>7

\* While there is more in the buffer the reader sees the header of a message.
LEMMA HeaderSeen ==
  ASSUME Inv, base + rdpos < end, rdpos + 2 <= len
  PROVE  /\ base + rdpos \in DOMAIN starts
         /\ header_len(rdpos) = {starts[base + rdpos]}
         /\ starts[base + rdpos] # 0
  <1>1. base + rdpos \in DOMAIN starts
    BY BoundsFacts DEF Inv, Placed
  <1>2. starts[base + rdpos] # 0
    BY <1>1, BoundsFacts, Numbers
  <1>. QED  BY <1>1, <1>2 DEF header_len

LEMMA WriteStep ==
  ASSUME Inv, spr16_write_msg
  PROVE  Inv' /\ handled' = handled
  <1>1. PICK s \in Sizes :
          /\ end' = end + s
          /\ starts' = [p \in DOMAIN starts \cup {end} |-> IF p = end THEN s ELSE starts[p]]
          /\ UNCHANGED <<base, len, rdpos, msglen, pc>>
    BY DEF spr16_write_msg
  <1>2. s \in Nat /\ s > 0 /\ s % 2 = 0 /\ end \in Nat
    BY Numbers DEF Inv, TypeOK
  <1>3. DOMAIN starts' = Bounds /\ Bounds' = Bounds \cup {end + s}
    BY <1>1 DEF Bounds
  <1>4. end \notin DOMAIN starts
    <2>1. \A p \in DOMAIN starts : p + starts[p] <= end /\ starts[p] \in Nat /\ starts[p] > 0 /\ p \in Nat
      BY BoundsFacts, Numbers DEF Inv, Framed, TypeOK
    <2>. QED  BY <1>2, <2>1
  <1>5. starts'[end] = s /\ \A p \in DOMAIN starts : starts'[p] = starts[p]
    BY <1>1, <1>4
  <1>6. TypeOK'
    <2>1. DOMAIN starts' \subseteq Nat
      BY <1>3, BoundsFacts
    <2>2. starts' \in [DOMAIN starts' -> Sizes]
      BY <1>1, <1>5 DEF Inv, TypeOK
    <2>. QED  BY <1>1, <1>2, <2>1, <2>2 DEF Inv, TypeOK
  <1>7. Framed'
    <2>1. \A p \in DOMAIN starts' : p + starts'[p] \in Bounds' /\ p + starts'[p] <= end'
      <3>1. \A p \in DOMAIN starts : p + starts[p] \in Bounds /\ p + starts[p] <= end /\ p + starts[p] \in Nat
        BY BoundsFacts
      <3>2. \A p \in DOMAIN starts : p + starts[p] \in Bounds' /\ p + starts[p] <= end'
        BY <1>1, <1>2, <1>3, <3>1
      <3>. QED  BY <1>1, <1>2, <1>3, <1>5, <3>2 DEF Bounds
    <2>2. \A p, q \in DOMAIN starts' : p < q => p + starts'[p] <= q
      <3>1. \A p \in DOMAIN starts : \A q \in Bounds : p < q => p + starts[p] <= q
        BY BoundsFacts
      <3>2. \A q \in Bounds : ~(end < q)
        BY <1>2, BoundsFacts
      <3>. QED  BY <1>3, <1>5, <3>1, <3>2 DEF Bounds
    <2>3. \A p \in Bounds' : p % 2 = 0
      <3>1. end % 2 = 0
        BY BoundsFacts DEF Bounds
      <3>2. (end + s) % 2 = 0
        BY <1>2, <3>1, EvenSum
      <3>. QED  BY <1>3, <3>2, BoundsFacts
    <2>. QED  BY <2>1, <2>2, <2>3 DEF Framed
  <1>8. Placed'
    <2>1. \A p \in Bounds : p \in Bounds'
      BY <1>3
    <2>2. \A p \in DOMAIN starts : p \in DOMAIN starts' /\ starts'[p] = starts[p]
      BY <1>3, <1>5 DEF Bounds
    <2>3. base + MaxRead <= end => base + MaxRead <= end'
      BY <1>1, <1>2, Numbers DEF Inv, TypeOK
    <2>. QED  BY <1>1, <2>1, <2>2, <2>3 DEF Inv, Placed
  <1>. QED  BY <1>1, <1>6, <1>7, <1>8 DEF Inv, handled

LEMMA FramedKept ==
  ASSUME Inv, UNCHANGED <<starts, end>>
  PROVE  Framed' /\ Bounds' = Bounds
  BY DEF Inv, Framed, Bounds

LEMMA ReadStep ==
  ASSUME Inv, spr16_read_msgs
  PROVE  Inv' /\ handled' = handled
  <1>1. base \in DOMAIN starts /\ base + starts[base] <= end /\ Hdr + 2 <= starts[base]
    BY BoundsFacts DEF spr16_read_msgs, Inv, Placed
  <1>. DEFINE r == IF end - base < MaxRead THEN end - base ELSE MaxRead
  <1>2. r \in Nat /\ ~(r < Hdr + 2) /\ r <= MaxRead /\ base + r <= end
        /\ (r # MaxRead => base + r = end)
    BY <1>1, Numbers, BoundsFacts DEF Inv, TypeOK
  <1>3. /\ len' = r /\ pc' = (IF r = MaxRead THEN "find" ELSE "dispatch")
        /\ UNCHANGED <<base, rdpos, msglen, starts, end>> /\ pc = "read"
    BY <1>2 DEF spr16_read_msgs
  <1>4. rdpos = 0
    BY <1>3 DEF Inv, Placed
  <1>. HIDE DEF r
  <1>5. TypeOK'
    BY <1>2, <1>3, Numbers DEF Inv, TypeOK
  <1>6. Placed'
    <2>1. base' \in Bounds' /\ base' + rdpos' \in Bounds'
      BY <1>3, FramedKept DEF Inv, Placed
    <2>2. CASE r = MaxRead
      BY <1>2, <1>3, <1>4, <2>1, <2>2 DEF Placed
    <2>3. CASE r # MaxRead
      <3>1. base' + len' \in Bounds'
        BY <1>2, <1>3, <2>3 DEF Bounds
      <3>. QED  BY <1>2, <1>3, <1>4, <2>1, <2>3, <3>1 DEF Placed
    <2>. QED  BY <2>2, <2>3
  <1>. QED  BY <1>3, <1>4, <1>5, <1>6, FramedKept DEF Inv, handled

LEMMA FindStep ==
  ASSUME Inv, find_fragment
  PROVE  Inv' /\ handled' = handled
  <1>1. pc = "find" /\ rdpos < MaxRead /\ len = MaxRead /\ base + MaxRead <= end
    BY DEF find_fragment, Inv, Placed
  <1>2. base \in Nat /\ rdpos \in Nat /\ end \in Nat /\ MaxRead \in Nat /\ MaxRead % 2 = 0
    BY Numbers DEF Inv, TypeOK
  <1>3. base % 2 = 0 /\ (base + rdpos) % 2 = 0
    BY BoundsFacts DEF Inv, Placed
  <1>4. base + rdpos < end /\ rdpos + 2 <= len
    BY <1>1, <1>2, <1>3
  <1>. DEFINE p == base + rdpos
              s == starts[p]
  <1>5. p \in DOMAIN starts /\ header_len(rdpos) = {s} /\ s # 0
    BY <1>4, HeaderSeen
  <1>6. rdpos' = rdpos + s /\ msglen' = s /\ UNCHANGED <<base, len, pc, starts, end>>
    BY <1>5 DEF find_fragment
  <1>7. s \in Sizes /\ s \in Nat /\ p + s \in Bounds
    BY <1>5, BoundsFacts
  <1>. HIDE DEF s
  <1>8. base + (rdpos + s) = p + s /\ base + (rdpos + s) - s = p /\ rdpos + s - s = rdpos
        /\ s <= rdpos + s /\ rdpos + s \in Nat
    BY <1>2, <1>7
  <1>9. TypeOK'
    BY <1>6, <1>7, <1>8 DEF Inv, TypeOK
  <1>10. Placed'
    <2>1. base' \in Bounds' /\ base' + rdpos' \in Bounds'
      BY <1>6, <1>7, <1>8, FramedKept DEF Inv, Placed
    <2>2. /\ base' + rdpos' - msglen' \in DOMAIN starts'
          /\ starts'[base' + rdpos' - msglen'] = msglen'
          /\ msglen' <= rdpos' /\ rdpos' - msglen' < MaxRead
      <3>1. base' + rdpos' - msglen' = p /\ msglen' = s /\ starts' = starts
        BY <1>6, <1>8
      <3>2. starts'[p] = s
        BY <3>1 DEF s
      <3>3. msglen' <= rdpos' /\ rdpos' - msglen' < MaxRead
        <4>1. msglen' = s /\ rdpos' = rdpos + s /\ s \in Nat /\ rdpos \in Nat
          BY <1>2, <1>6, <1>7
        <4>2. msglen' <= rdpos' /\ rdpos' - msglen' = rdpos
          BY ONLY <4>1
        <4>. QED  BY <1>1, <4>2
      <3>. HIDE DEF p
      <3>. QED  BY <1>5, <3>1, <3>2, <3>3
    <2>. QED  BY <1>1, <1>6, <2>1, <2>2 DEF Placed
  <1>. QED  BY <1>1, <1>6, <1>9, <1>10, FramedKept DEF Inv, handled

LEMMA FoundStep ==
  ASSUME Inv, found_fragment
  PROVE  Inv' /\ handled' = handled
  <1>1. /\ pc = "find" /\ rdpos >= MaxRead /\ len = MaxRead /\ base + MaxRead <= end
        /\ rdpos > 0
    BY Numbers DEF found_fragment, Inv, Placed, TypeOK
  <1>2. base \in Nat /\ rdpos \in Nat /\ msglen \in Nat /\ MaxRead \in Nat /\ MaxRead % 2 = 0
    BY Numbers DEF Inv, TypeOK
  <1>3. base + rdpos - msglen \in DOMAIN starts /\ rdpos - msglen < MaxRead /\ msglen <= rdpos
    BY <1>1 DEF Inv, Placed
  <1>4. base % 2 = 0 /\ (base + rdpos - msglen) % 2 = 0
    BY <1>3, BoundsFacts DEF Inv, Placed, Bounds
  <1>5. CASE fragbytes = msglen
    <2>1. rdpos = MaxRead
      BY <1>2, <1>5 DEF fragbytes
    <2>2. pc' = "dispatch" /\ rdpos' = 0 /\ msglen' = 0 /\ UNCHANGED <<base, len, starts, end>>
      BY <1>5 DEF found_fragment
    <2>3. base' + rdpos' \in Bounds' /\ base' \in Bounds' /\ base' + len' \in Bounds' /\ rdpos' <= len'
      BY <1>1, <1>2, <2>1, <2>2, FramedKept DEF Inv, Placed
    <2>4. Placed'
      BY <2>2, <2>3 DEF Placed
    <2>5. TypeOK'
      BY <2>2 DEF Inv, TypeOK
    <2>6. handled' = handled
      BY <1>1, <1>2, <2>2 DEF handled
    <2>. QED  BY <2>2, <2>4, <2>5, <2>6, FramedKept DEF Inv
  <1>6. CASE fragbytes # msglen
    <2>1. rdpos > MaxRead
      BY <1>1, <1>2, <1>6 DEF fragbytes
    <2>. DEFINE g == rdpos - msglen
    <2>2. g \in Int /\ g % 2 = 0 /\ g < MaxRead
      BY <1>2, <1>3, <1>4
    <2>3. fragbytes = MaxRead - g
      BY <1>2 DEF fragbytes
    <2>. HIDE DEF g
    <2>4. ~(fragbytes < 2)
      BY <1>2, <2>2, <2>3
    <2>5. pc' = "fragment" /\ UNCHANGED <<base, len, rdpos, msglen, starts, end>>
      BY <1>6, <2>4 DEF found_fragment
    <2>6. Placed'
      BY <1>1, <2>1, <2>5, FramedKept DEF Inv, Placed
    <2>. QED  BY <1>1, <2>5, <2>6, FramedKept DEF Inv, TypeOK, handled
  <1>. QED  BY <1>5, <1>6

LEMMA FragmentStep ==
  ASSUME Inv, read_fragment
  PROVE  Inv' /\ handled' = handled
  <1>1. /\ pc = "fragment" /\ rdpos > MaxRead /\ len = MaxRead
        /\ rdpos - msglen < MaxRead /\ base + rdpos \in Bounds
    BY Numbers DEF read_fragment, Inv, Placed, TypeOK
  <1>2. base \in Nat /\ rdpos \in Nat /\ msglen \in Nat /\ MaxRead \in Nat /\ end \in Nat
        /\ msglen <= MaxLen /\ MaxLen \in Nat
    BY Numbers DEF Inv, TypeOK
  <1>3. msglen - fragbytes = rdpos - MaxRead
    BY <1>2 DEF fragbytes
  <1>4. ~(end - (base + len) < rdpos - MaxRead)
    <2>1. base + rdpos <= end
      BY <1>1, BoundsFacts
    <2>. QED  BY <1>1, <1>2, <2>1
  <1>5. len' = MaxRead + (rdpos - MaxRead) /\ rdpos' = 0 /\ msglen' = 0 /\ pc' = "dispatch"
        /\ UNCHANGED <<base, starts, end>>
    BY <1>3, <1>4 DEF read_fragment
  <1>6. len' = rdpos /\ rdpos <= MaxRead + MaxLen
    BY <1>1, <1>2, <1>5
  <1>7. TypeOK'
    BY <1>2, <1>5, <1>6 DEF Inv, TypeOK
  <1>8. Placed'
    <2>1. base' + 0 = base' /\ base' \in Bounds' /\ base' + len' \in Bounds'
      BY <1>1, <1>2, <1>5, <1>6, FramedKept DEF Inv, Placed
    <2>. QED  BY <1>2, <1>5, <1>6, <2>1 DEF Placed
  <1>9. handled' = handled
    BY <1>1, <1>2, <1>5 DEF handled
  <1>. QED  BY <1>5, <1>7, <1>8, <1>9, FramedKept DEF Inv

LEMMA DispatchStep ==
  ASSUME Inv, dispatch_msg
  PROVE  /\ Inv'
         /\ handled \in DOMAIN starts /\ handled' = handled + starts[handled]
         /\ UNCHANGED <<starts, end>>
  <1>1. pc = "dispatch" /\ rdpos + Hdr < len /\ base + len \in Bounds
    BY DEF dispatch_msg, Inv, Placed
  <1>2. base \in Nat /\ rdpos \in Nat /\ len \in Nat /\ Hdr \in Nat \ {0} /\ end \in Nat
    BY Numbers DEF Inv, TypeOK
  <1>3. base + rdpos < base + len /\ base + len <= end
    BY <1>1, <1>2, BoundsFacts
  <1>4. base + rdpos < end /\ rdpos + 2 <= len
    BY <1>1, <1>2, <1>3
  <1>. DEFINE p == base + rdpos
              s == starts[p]
  <1>5. p \in DOMAIN starts /\ header_len(rdpos) = {s} /\ s # 0
    BY <1>4, HeaderSeen
  <1>6. s \in Nat /\ p + s \in Bounds /\ p + s <= base + len
    BY <1>1, <1>3, <1>5, BoundsFacts
  <1>7. rdpos + s <= len /\ base + (rdpos + s) = p + s /\ rdpos + s \in Nat
    <2>. HIDE DEF s
    <2>. QED  BY <1>2, <1>6
  <1>8. rdpos' = rdpos + s /\ UNCHANGED <<base, len, msglen, pc, starts, end>>
    BY <1>2, <1>5, <1>6, <1>7 DEF dispatch_msg
  <1>9. TypeOK'
    BY <1>7, <1>8 DEF Inv, TypeOK
  <1>10. Placed'
    BY <1>1, <1>6, <1>7, <1>8, FramedKept DEF Inv, Placed
  <1>11. handled = p /\ handled' = p + s
    BY <1>1, <1>7, <1>8 DEF handled
  <1>. QED  BY <1>5, <1>8, <1>9, <1>10, <1>11, FramedKept DEF Inv

LEMMA DoneStep ==
  ASSUME Inv, dispatched
  PROVE  Inv' /\ handled' = handled /\ UNCHANGED <<starts, end>>
  <1>1. /\ pc = "dispatch" /\ rdpos + Hdr >= len /\ base + len \in Bounds /\ rdpos <= len
        /\ base + rdpos \in Bounds
    BY DEF dispatched, Inv, Placed
  <1>2. base \in Nat /\ rdpos \in Nat /\ len \in Nat /\ Hdr \in Nat \ {0} /\ end \in Nat
    BY Numbers DEF Inv, TypeOK
  <1>3. rdpos = len
    <2>. SUFFICES ASSUME rdpos < len  PROVE FALSE
      BY <1>1, <1>2
    <2>. DEFINE p == base + rdpos
                s == starts[p]
    <2>1. p < base + len /\ base + len <= end
      BY <1>1, <1>2, BoundsFacts
    <2>2. p \in DOMAIN starts
      BY <1>1, <1>2, <2>1, BoundsFacts
    <2>3. s \in Nat /\ Hdr + 2 <= s /\ p + s <= base + len
      BY <1>1, <2>1, <2>2, BoundsFacts
    <2>. HIDE DEF s
    <2>. QED  BY <1>1, <1>2, <2>3
  <1>4. base' = base + len /\ len' = 0 /\ rdpos' = 0 /\ pc' = "read" /\ UNCHANGED <<starts, end, msglen>>
    BY DEF dispatched
  <1>5. TypeOK'
    BY <1>2, <1>4, Numbers DEF Inv, TypeOK
  <1>6. Placed'
    <2>1. base' + 0 = base' /\ base' \in Bounds'
      BY <1>1, <1>2, <1>4, FramedKept
    <2>. QED  BY <1>4, <2>1 DEF Placed
  <1>7. handled' = handled
    BY <1>1, <1>2, <1>3, <1>4 DEF handled
  <1>. QED  BY <1>4, <1>5, <1>6, <1>7, FramedKept DEF Inv

LEMMA InitInv == Init => Inv
  <1>. SUFFICES ASSUME Init  PROVE Inv
    OBVIOUS
  <1>1. DOMAIN starts = {} /\ starts \in [DOMAIN starts -> Sizes] /\ Bounds = {0}
    BY DEF Init, Bounds
  <1>2. TypeOK
    BY <1>1, Numbers DEF Init, TypeOK
  <1>3. Framed
    BY <1>1 DEF Framed
  <1>4. Placed
    BY <1>1 DEF Init, Placed
  <1>. QED  BY <1>2, <1>3, <1>4 DEF Inv

LEMMA Step ==
  Inv /\ [Next]_vars => Inv' /\ [FifoSpec!Write \/ FifoSpec!Handle]_(FifoSpec!vars)
  <1>. SUFFICES ASSUME Inv, [Next]_vars
                PROVE  Inv' /\ [FifoSpec!Write \/ FifoSpec!Handle]_(FifoSpec!vars)
    OBVIOUS
  <1>1. CASE spr16_write_msg
    <2>1. Inv' /\ handled' = handled
      BY <1>1, WriteStep
    <2>2. PICK s \in Sizes :
            /\ end' = end + s
            /\ starts' = [p \in DOMAIN starts \cup {end} |-> IF p = end THEN s ELSE starts[p]]
      BY <1>1 DEF spr16_write_msg
    <2>3. end' > end /\ s = end' - end
      BY <2>2, Numbers DEF Inv, TypeOK
    <2>4. FifoSpec!Write
      BY <2>1, <2>2, <2>3 DEF FifoSpec!Write
    <2>. QED  BY <2>1, <2>4
  <1>2. CASE dispatch_msg
    BY <1>2, DispatchStep DEF FifoSpec!Handle
  <1>3. ASSUME \/ spr16_read_msgs \/ find_fragment \/ found_fragment \/ read_fragment
               \/ dispatched
        PROVE  Inv' /\ UNCHANGED <<starts, end, handled>>
    <2>1. UNCHANGED <<starts, end>>
      BY <1>3 DEF spr16_read_msgs, find_fragment, found_fragment, read_fragment, dispatched
    <2>. QED  BY <1>3, <2>1, ReadStep, FindStep, FoundStep, FragmentStep, DoneStep
  <1>4. CASE UNCHANGED vars
    <2>1. UNCHANGED <<starts, end, handled>>
      BY <1>4 DEF vars, handled
    <2>2. Inv'
      BY <1>4 DEF vars, Inv, TypeOK, Framed, Placed, Bounds
    <2>. QED  BY <2>1, <2>2 DEF FifoSpec!vars
  <1>. QED  BY <1>1, <1>2, <1>3, <1>4 DEF Next, Reader, FifoSpec!vars

\* The buffer never overflows (messages.c:43).
THEOREM StreamTypeCorrect == Spec => []TypeOK
  <1>1. Inv => TypeOK
    BY DEF Inv
  <1>. QED  BY <1>1, InitInv, Step, PTL DEF Spec

\* No read, and no cut, ever turns well-formed messages into a protocol error
\* (messages.c:104-186).
THEOREM Reassembly == Spec => []NeverMisread
  <1>1. Inv => NeverMisread
    BY DEF Inv, Placed, NeverMisread
  <1>. QED  BY <1>1, InitInv, Step, PTL DEF Spec

\* The reader handles what was written whole, once and in order.
THEOREM StreamRefinesFifo == Spec => ImplementsFifo
  <1>1. Init => FifoSpec!Init
    BY DEF Init, FifoSpec!Init, handled
  <1>. QED  BY <1>1, InitInv, Step, PTL DEF Spec, ImplementsFifo, FifoSpec!Spec
=============================================================================
