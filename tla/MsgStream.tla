----------------------------- MODULE MsgStream -----------------------------
(***************************************************************************)
(* Framing of messages on one direction of a stream socket (messages.c,    *)
(* the dispatch loops of client.c and server.c).  spr16_write_msg writes   *)
(* one message at a time; spr16_read_msgs reads up to MaxRead bytes into   *)
(* g_msgbuf, and if the buffer came back full, looks for the message that  *)
(* was cut and reads the rest of it.                                       *)
(*                                                                         *)
(* Bytes have no values: the header at a position where a message begins   *)
(* tells its size, any other position may look like any header.  The       *)
(* kernel takes the few bytes of a message whole or not at all (then the   *)
(* message is dropped, spr16_write_msg returns -1).                        *)
(***************************************************************************)
EXTENDS Integers

CONSTANTS
  Sizes,     \* of the messages of this direction, header included
  Hdr,       \* sizeof(struct spr16_msghdr)
  MaxLen,    \* SPR16_MAXMSGLEN
  MaxRead,   \* MAX_MSGBUF_READ
  MaxBytes   \* bound on the bytes ever written

ASSUME StreamAssumption ==
  /\ {Hdr, MaxLen, MaxRead, MaxBytes} \subseteq Nat \ {0}
  /\ Sizes \subseteq Nat
  /\ \A s \in Sizes : Hdr + 2 <= s /\ s <= MaxLen /\ s % 2 = 0
  /\ MaxRead % 2 = 0 /\ Hdr + 2 <= MaxRead

VARIABLES
  starts, end,  \* all that was written, as in Fifo
  base,         \* position of the byte in g_msgbuf[0]
  len,          \* bytes in g_msgbuf
  rdpos,        \* in g_msgbuf, of the loop that runs
  msglen,       \* spr16_reassemble_fragment: the last message it saw
  pc            \* "read", "find", "fragment", "dispatch" or "failed"

vars == <<starts, end, base, len, rdpos, msglen, pc>>

TypeOK ==
  /\ starts \in [DOMAIN starts -> Sizes] /\ DOMAIN starts \subseteq Nat
  /\ {end, base, len, rdpos} \subseteq Nat
  /\ len <= MaxRead + MaxLen
  /\ msglen \in Sizes \cup {0}
  /\ pc \in {"read", "find", "fragment", "dispatch", "failed"}

Init ==
  /\ starts = <<>> /\ end = 0
  /\ base = 0 /\ len = 0 /\ rdpos = 0 /\ msglen = 0
  /\ pc = "read"

\* get_msghdr_typelen, with the header's own size: 0 for a bad type.  Only the
\* first two bytes of the header, the type, have to be in the buffer.
header_len(pos) ==
  IF base + pos \in DOMAIN starts /\ pos + 2 <= len THEN {starts[base + pos]}
  ELSE Sizes \cup {0}

fail == pc' = "failed" /\ UNCHANGED <<base, len, rdpos, msglen>>

-----------------------------------------------------------------------------

spr16_write_msg ==
  \E s \in Sizes :
    /\ end + s <= MaxBytes
    /\ end' = end + s
    /\ starts' = [p \in DOMAIN starts \cup {end} |-> IF p = end THEN s ELSE starts[p]]
    /\ UNCHANGED <<base, len, rdpos, msglen, pc>>

\* spr16_read_msgs: the first read.
spr16_read_msgs ==
  /\ pc = "read" /\ base < end
  /\ LET r == IF end - base < MaxRead THEN end - base ELSE MaxRead IN
       IF r < Hdr + 2 THEN fail
       ELSE /\ len' = r
            /\ pc' = IF r = MaxRead THEN "find" ELSE "dispatch"
            /\ UNCHANGED <<base, rdpos, msglen>>
  /\ UNCHANGED <<starts, end>>

\* spr16_reassemble_fragment: one round of its loop.
find_fragment ==
  /\ pc = "find" /\ rdpos < MaxRead
  /\ \E s \in header_len(rdpos) :
       IF s = 0 THEN fail
       ELSE rdpos' = rdpos + s /\ msglen' = s /\ UNCHANGED <<base, len, pc>>
  /\ UNCHANGED <<starts, end>>

fragbytes == msglen - (rdpos - MaxRead)

\* Mutant: a message that ends with the buffer counts as cut.
found_fragment_always_cut ==
  /\ pc = "find" /\ rdpos >= MaxRead
  /\ IF fragbytes < 2 \/ msglen - fragbytes <= 0 THEN fail
     ELSE pc' = "fragment" /\ UNCHANGED <<base, len, rdpos, msglen>>
  /\ UNCHANGED <<starts, end>>

\* The loop is over: the last message is whole, or cut after fragbytes.
found_fragment ==
  /\ pc = "find" /\ rdpos >= MaxRead
  /\ \/ /\ fragbytes = msglen
        /\ pc' = "dispatch" /\ rdpos' = 0 /\ msglen' = 0
        /\ UNCHANGED <<base, len>>
     \/ /\ fragbytes # msglen
        /\ IF fragbytes < 2 THEN fail
           ELSE pc' = "fragment" /\ UNCHANGED <<base, len, rdpos, msglen>>
  /\ UNCHANGED <<starts, end>>

\* The second read, of the rest of the message: it has to be there already.
read_fragment ==
  /\ pc = "fragment"
  /\ LET bytesleft == msglen - fragbytes IN
       IF end - (base + len) < bytesleft THEN fail
       ELSE /\ len' = MaxRead + bytesleft /\ rdpos' = 0 /\ msglen' = 0
            /\ pc' = "dispatch" /\ UNCHANGED base
  /\ UNCHANGED <<starts, end>>

\* Mutant: the header is not counted.
dispatch_msg_no_header ==
  /\ pc = "dispatch" /\ rdpos + Hdr < len
  /\ \E s \in header_len(rdpos) :
       IF s = 0 \/ rdpos + s > len THEN fail
       ELSE rdpos' = rdpos + s - Hdr /\ UNCHANGED <<base, len, msglen, pc>>
  /\ UNCHANGED <<starts, end>>

\* Mutant: the last message of the buffer is left out.
dispatch_msg_all_but_one ==
  /\ pc = "dispatch" /\ rdpos + MaxLen < len
  /\ \E s \in header_len(rdpos) :
       IF s = 0 \/ rdpos + s > len THEN fail
       ELSE rdpos' = rdpos + s /\ UNCHANGED <<base, len, msglen, pc>>
  /\ UNCHANGED <<starts, end>>

\* One round of spr16_dispatch_client_msgs or spr16_dispatch_server_msgs.
dispatch_msg ==
  /\ pc = "dispatch" /\ rdpos + Hdr < len
  /\ \E s \in header_len(rdpos) :
       IF s = 0 \/ rdpos + s > len THEN fail
       ELSE rdpos' = rdpos + s /\ UNCHANGED <<base, len, msglen, pc>>
  /\ UNCHANGED <<starts, end>>

\* The dispatch loop ends; the next read overwrites the buffer.
dispatched ==
  /\ pc = "dispatch" /\ rdpos + Hdr >= len
  /\ base' = base + len /\ len' = 0 /\ rdpos' = 0 /\ pc' = "read"
  /\ UNCHANGED <<starts, end, msglen>>

Reader ==
  \/ spr16_read_msgs \/ find_fragment \/ found_fragment \/ read_fragment
  \/ dispatch_msg \/ dispatched

Next == spr16_write_msg \/ Reader

Spec == Init /\ [][Next]_vars

\* A readable socket is reported again until it has been read (epoll is level
\* triggered), and the process that reads it keeps running.
FairSpec == Spec /\ WF_vars(Reader)

-----------------------------------------------------------------------------
(* Properties.                                                             *)

\* Messages of a peer that writes well-formed messages are never taken for a
\* protocol error, wherever the reads cut them (messages.c:104-186): such an
\* error costs the client its connection (server.c:1042-1050).
NeverMisread == pc # "failed"

\* What was handled of the stream.
handled == base + (IF pc = "dispatch" THEN rdpos ELSE 0)

\* Each message is handled whole, once and in order, although one read may
\* return many messages and the last one in parts.
FifoSpec == INSTANCE Fifo WITH next <- handled

ImplementsFifo == FifoSpec!Spec

\* Every message that was written is handled in the end, also when no further
\* one follows it (client.c:403-451, server.c:957-1015).
AllHandled == \A n \in 0..MaxBytes : end = n ~> handled >= n
=============================================================================
