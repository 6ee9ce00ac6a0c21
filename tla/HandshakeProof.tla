--------------------------- MODULE HandshakeProof ---------------------------
(***************************************************************************)
(* Theorems about Handshake, for every bound on what is in flight: its     *)
(* types, where the descriptor is received, and that it implements         *)
(* SharedSprite.                                                           *)
(***************************************************************************)
EXTENDS Handshake, SequenceTheorems, TLAPS

-----------------------------------------------------------------------------
(* What reading and writing does to a channel.                             *)

Elements(s) == {s[i] : i \in DOMAIN s}

LEMMA Nothing ==
  ASSUME NEW S, NEW s \in Seq(S)
  PROVE  /\ <<>> \in Seq(S) /\ Elements(<<>>) = {} /\ Len(<<>>) = 0 /\ DOMAIN <<>> = {}
         /\ Len(s) \in Nat /\ DOMAIN s = 1 .. Len(s) /\ Elements(s) \subseteq S
         /\ s = <<>> <=> Len(s) = 0
         /\ s = <<>> <=> Elements(s) = {}
  <1>1. <<>> \in Seq(S) /\ Len(<<>>) = 0 /\ (s # <<>> => Len(s) \in Nat \ {0})
    BY EmptySeq
  <1>2. Len(s) \in Nat /\ DOMAIN s = 1 .. Len(s) /\ s \in [1 .. Len(s) -> S]
    BY LenProperties
  <1>3. DOMAIN <<>> = {}
    OBVIOUS
  <1>4. s # <<>> => 1 \in DOMAIN s
    BY <1>1, <1>2
  <1>. QED  BY <1>1, <1>2, <1>3, <1>4 DEF Elements

LEMMA Written ==
  ASSUME NEW S, NEW s \in Seq(S), NEW m \in S
  PROVE  /\ Append(s, m) \in Seq(S) /\ Append(s, m) # <<>>
         /\ Len(Append(s, m)) = Len(s) + 1
         /\ DOMAIN Append(s, m) = 1 .. Len(s) + 1
         /\ \A i \in DOMAIN s : Append(s, m)[i] = s[i]
         /\ Append(s, m)[Len(s) + 1] = m
         /\ Elements(Append(s, m)) = Elements(s) \cup {m}
  <1>1. /\ Append(s, m) \in Seq(S) /\ Len(Append(s, m)) = Len(s) + 1
        /\ \A i \in 1 .. Len(s) : Append(s, m)[i] = s[i]
        /\ Append(s, m)[Len(s) + 1] = m
    BY AppendProperties
  <1>2. Len(s) \in Nat /\ DOMAIN s = 1 .. Len(s)
        /\ DOMAIN Append(s, m) = 1 .. Len(s) + 1
    BY <1>1, LenProperties
  <1>3. Elements(Append(s, m)) = Elements(s) \cup {m}
    BY <1>1, <1>2 DEF Elements
  <1>. QED  BY <1>1, <1>2, <1>3, EmptySeq

\* The first message of an empty channel.
LEMMA WrittenFirst ==
  ASSUME NEW S, NEW m \in S
  PROVE  /\ Append(<<>>, m) \in Seq(S) /\ Len(Append(<<>>, m)) = 1
         /\ DOMAIN Append(<<>>, m) = {1} /\ Append(<<>>, m)[1] = m
         /\ \A i \in DOMAIN Append(<<>>, m) : Append(<<>>, m)[i] = m
         /\ Elements(Append(<<>>, m)) = {m}
  <1>1. <<>> \in Seq(S) /\ Len(<<>>) = 0 /\ Elements(<<>>) = {}
    BY Nothing, EmptySeq
  <1>2. ASSUME NEW s \in Seq(S), Len(s) = 0, Elements(s) = {}
        PROVE  /\ Append(s, m) \in Seq(S) /\ Len(Append(s, m)) = 1
               /\ DOMAIN Append(s, m) = {1} /\ Append(s, m)[1] = m
               /\ Elements(Append(s, m)) = {m}
    <2>1. 0 + 1 = 1 /\ 1 .. 1 = {1}
      OBVIOUS
    <2>2. /\ Append(s, m) \in Seq(S) /\ Len(Append(s, m)) = Len(s) + 1
          /\ DOMAIN Append(s, m) = 1 .. Len(s) + 1 /\ Append(s, m)[Len(s) + 1] = m
          /\ Elements(Append(s, m)) = Elements(s) \cup {m}
      BY Written
    <2>. QED  BY <1>2, <2>1, <2>2
  <1>3. /\ Append(<<>>, m) \in Seq(S) /\ Len(Append(<<>>, m)) = 1
        /\ DOMAIN Append(<<>>, m) = {1} /\ Append(<<>>, m)[1] = m
        /\ Elements(Append(<<>>, m)) = {m}
    BY <1>1, <1>2
  <1>. QED  BY <1>3

LEMMA Read ==
  ASSUME NEW S, NEW s \in Seq(S), s # <<>>
  PROVE  /\ Head(s) \in S /\ Head(s) = s[1] /\ 1 \in DOMAIN s /\ Head(s) \in Elements(s)
         /\ Tail(s) \in Seq(S) /\ Len(Tail(s)) = Len(s) - 1
         /\ DOMAIN Tail(s) = 1 .. Len(s) - 1
         /\ \A i \in DOMAIN Tail(s) : i + 1 \in DOMAIN s /\ Tail(s)[i] = s[i + 1]
         /\ Elements(Tail(s)) \subseteq Elements(s)
         /\ Len(s) \in Nat \ {0}
         /\ Len(s) = 1 => Tail(s) = <<>>
  <1>1. /\ Head(s) \in S /\ Tail(s) \in Seq(S) /\ Len(Tail(s)) = Len(s) - 1
        /\ \A i \in 1 .. Len(Tail(s)) : Tail(s)[i] = s[i + 1]
    BY HeadTailProperties
  <1>2. Len(s) \in Nat \ {0} /\ DOMAIN s = 1 .. Len(s) /\ DOMAIN Tail(s) = 1 .. Len(Tail(s))
    BY <1>1, EmptySeq, LenProperties
  <1>3. Head(s) = s[1] /\ 1 \in DOMAIN s
    BY <1>2
  <1>4. \A i \in DOMAIN Tail(s) : i + 1 \in DOMAIN s /\ Tail(s)[i] = s[i + 1]
    BY <1>1, <1>2
  <1>5. Elements(Tail(s)) \subseteq Elements(s)
    BY <1>4 DEF Elements
  <1>6. Head(s) \in Elements(s)
    BY <1>3 DEF Elements
  <1>7. Len(s) = 1 => Tail(s) = <<>>
    <2>1. Len(s) = 1 => Len(Tail(s)) = 0
      BY <1>1
    <2>. QED  BY <1>1, <2>1, EmptySeq
  <1>. QED  BY <1>1, <1>2, <1>3, <1>4, <1>5, <1>6, <1>7

-----------------------------------------------------------------------------
(* The invariant.                                                         *)

Requests == Elements(received) \cup Elements(to_server)
Answers  == Elements(batch) \cup Elements(to_client)

\* How the flags of both sides depend on each other.
Flags ==
  /\ memory <=> (handshaking \/ connected)
  /\ handshaking => ~connected
  /\ recv_fd_wait => memory
  /\ g_handshaking <=> ~mapped
  /\ mapped => memory
  /\ connected => mapped

\* Nothing is said before the connection is accepted.
Waiting ==
  spc = "backlog" =>
    /\ cpc \in {"update", "closed"} /\ ~memory
    /\ batch = <<>> /\ to_client = <<>> /\ received = <<>> /\ to_server = <<>>

\* SERVINFO and RECV_FD are each the only thing on the way: the server waits
\* for what the client answers.
Announced ==
  cpc = "update" /\ Answers \cap {"servinfo", "recv_fd"} # {} =>
    /\ g_handshaking
    /\ received = <<>> /\ to_server = <<>>
    /\ Len(batch) + Len(to_client) <= 1
    /\ "recv_fd" \in Answers => memory

\* REGISTER is the only thing on the way.
Registering ==
  "register" \in Requests =>
    /\ g_handshaking /\ cpc \in {"update", "closed"}
    /\ batch = <<>> /\ (cpc = "update" => to_client = <<>>)
    /\ Len(received) + Len(to_server) <= 1

\* SEND_FD comes first of what the server reads, while the client waits for
\* the descriptor or has given up.
Fetching ==
  /\ "send_fd" \in Requests =>
       /\ g_handshaking
       /\ cpc \in {"receive", "failed", "closed"}
       /\ cpc # "closed" => to_client = <<>>
  /\ \A i \in DOMAIN received : received[i] = "send_fd" => i = 1
  /\ \A i \in DOMAIN to_server : to_server[i] = "send_fd" => i = 1 /\ received = <<>>

\* The client speaks of its sprite only once it is mapped.
Agreed == Requests \cap {"established", "sync"} # {} => mapped

\* What may be on the way while the client is in recv_fd or gone.
Away ==
  /\ cpc = "clear" =>
       /\ g_handshaking /\ memory
       /\ received = <<>> /\ to_server = <<>>
  /\ cpc = "receive" =>
       /\ g_handshaking /\ memory
       /\ Requests \subseteq {"send_fd"} /\ Answers \subseteq {"F"}
  /\ cpc = "failed" => g_handshaking /\ Requests \subseteq {"send_fd", "nack"}
  /\ cpc # "update" => batch = <<>>
  /\ "F" \notin Elements(batch)

IInv == Flags /\ Waiting /\ Announced /\ Registering /\ Fetching /\ Agreed /\ Away

Inv == TypeOK /\ FdIsExpected /\ IInv

LEMMA InitInv == Init => Inv
  <1>1. <<>> \in Seq(ToClient) /\ <<>> \in Seq(ToServer) /\ Elements(<<>>) = {} /\ DOMAIN <<>> = {}
    BY Nothing, EmptySeq
  <1>. QED
    BY <1>1 DEF Init, Inv, TypeOK, FdIsExpected, IInv, Flags, Waiting, Announced, Registering,
                Fetching, Agreed, Away, Requests, Answers

-----------------------------------------------------------------------------
(* The steps of the client.                                                *)

\* The facts about the four channels a step may read.
LEMMA Channels ==
  ASSUME TypeOK
  PROVE  /\ batch \in Seq(ToClient) /\ to_client \in Seq(ToClient)
         /\ received \in Seq(ToServer) /\ to_server \in Seq(ToServer)
         /\ {Len(batch), Len(to_client), Len(received), Len(to_server)} \subseteq Nat
         /\ <<>> \in Seq(ToServer) /\ <<>> \in Seq(ToClient)
         /\ Elements(<<>>) = {} /\ Len(<<>>) = 0 /\ DOMAIN <<>> = {}
         /\ \A s \in {batch, to_client, received, to_server} : Elements(s) = {} => s = <<>>
  BY Nothing, EmptySeq DEF TypeOK

\* While the client handles messages the descriptor is not on its way.
LEMMA NoneOnItsWay ==
  ASSUME FdIsExpected, cpc \in {"update", "clear"}
  PROVE  "F" \notin Elements(to_client)
  BY DEF FdIsExpected, Elements

LEMMA UpdateKeeps ==
  ASSUME Inv, spr16_client_update
  PROVE  Inv'
  <1>. USE Channels DEF Inv, IInv
  <1>1. /\ TypeOK'
        /\ cpc = "update" /\ batch = <<>> /\ Answers = Elements(to_client)
        /\ UNCHANGED <<Requests, size, mapped, memory, g_handshaking, handshaking, connected,
                       recv_fd_wait, received, to_server, spc>>
    BY DEF TypeOK, spr16_client_update, close, server, Requests, Answers
  <1>2. CASE batch' = to_client /\ to_client' = <<>> /\ UNCHANGED cpc
    <2>1. Answers' = Answers /\ "F" \notin Elements(batch')
      BY <1>1, <1>2, NoneOnItsWay DEF Answers
    <2>2. FdIsExpected' /\ Waiting'
      BY <1>1, <1>2, Nothing DEF FdIsExpected, Waiting, spr16_client_update
    <2>3. Announced'
      BY <1>1, <1>2, <2>1 DEF Announced
    <2>4. Registering' /\ Fetching'
      BY <1>1, <1>2 DEF Registering, Fetching
    <2>. QED  BY <1>1, <1>2, <2>1, <2>2, <2>3, <2>4 DEF Flags, Agreed, Away
  <1>3. CASE close /\ UNCHANGED to_client
    <2>1. FdIsExpected'
      BY <1>1, <1>3 DEF FdIsExpected, close
    <2>. QED  BY <1>1, <1>3, <2>1 DEF close, Flags, Waiting, Announced, Registering,
                Fetching, Agreed, Away
  <1>. QED BY <1>2, <1>3 DEF spr16_client_update
\* The client goes away, whatever it was doing.
LEMMA CloseKeeps ==
  ASSUME Inv, close, UNCHANGED <<size, g_handshaking, mapped, server, to_client, to_server>>
  PROVE  Inv'
  <1>. USE Channels DEF Inv, IInv
  <1>1. /\ TypeOK' /\ cpc' = "closed" /\ batch' = <<>>
        /\ UNCHANGED <<Requests, mapped, memory, g_handshaking, handshaking, connected,
                       recv_fd_wait, received, to_server, to_client, spc>>
    BY DEF TypeOK, close, server, Requests
  <1>2. FdIsExpected'
    BY <1>1 DEF FdIsExpected
  <1>. QED  BY <1>1, <1>2 DEF Flags, Waiting, Announced, Registering, Fetching, Agreed, Away

LEMMA MessageKeeps ==
  ASSUME Inv, spr16_dispatch_client_msgs
  PROVE  Inv'
  <1>. USE Channels DEF Inv, IInv
  <1>1. /\ cpc = "update" /\ batch # <<>> /\ Head(batch) \in Elements(batch)
        /\ Head(batch) \in Answers /\ Elements(Tail(batch)) \subseteq Elements(batch)
        /\ Tail(batch) \in Seq(ToClient) /\ Len(Tail(batch)) = Len(batch) - 1
        /\ Len(batch) \in Nat \ {0} /\ (Len(batch) = 1 => Tail(batch) = <<>>)
        /\ UNCHANGED <<g_handshaking, mapped, server, to_client>>
    BY Read DEF spr16_dispatch_client_msgs, Answers
  <1>2. /\ spc # "backlog" /\ "register" \notin Requests /\ "F" \notin Elements(batch)
    BY <1>1 DEF Waiting, Registering, Away
  <1>3. \/ close /\ UNCHANGED <<size, to_server>>
        \/ /\ Head(batch) = "servinfo" /\ size' \in {"zero", "fits"}
           /\ to_server' = Append(to_server, "register")
           /\ batch' = Tail(batch) /\ cpc' = cpc
        \/ /\ Head(batch) = "recv_fd" /\ cpc' = "clear" /\ batch' = Tail(batch)
           /\ UNCHANGED <<size, to_server>>
        \/ batch' = Tail(batch) /\ UNCHANGED <<cpc, size, to_server>>
    BY DEF spr16_dispatch_client_msgs, spr16_client_servinfo
  <1>4. CASE close /\ UNCHANGED <<size, to_server>>
    BY <1>1, <1>4, CloseKeeps
  <1>5. CASE /\ Head(batch) = "servinfo" /\ size' \in {"zero", "fits"}
             /\ to_server' = Append(to_server, "register")
             /\ batch' = Tail(batch) /\ cpc' = cpc
    <2>1. /\ g_handshaking /\ received = <<>> /\ to_server = <<>>
          /\ Len(batch) + Len(to_client) <= 1
      BY <1>1, <1>5 DEF Announced
    <2>2. batch' = <<>> /\ to_client = <<>>
      BY <1>1, <1>5, <2>1, Nothing
    <2>3. /\ to_server' \in Seq(ToServer) /\ Len(to_server') = 1
          /\ Elements(to_server') = {"register"}
          /\ \A i \in DOMAIN to_server' : to_server'[i] = "register"
      <3>1. "register" \in ToServer
        BY DEF ToServer
      <3>. QED  BY <1>5, <2>1, <3>1, WrittenFirst
    <2>4. TypeOK' /\ UNCHANGED <<spc, received, handshaking, connected, recv_fd_wait, memory>>
      BY <1>1, <1>5, <2>2, <2>3 DEF TypeOK, server
    <2>5. Answers' = {} /\ Requests' = {"register"}
      BY <1>1, <2>1, <2>2, <2>3, <2>4 DEF Answers, Requests
    <2>. QED
      BY <1>1, <1>2, <1>5, <2>1, <2>2, <2>3, <2>4, <2>5
         DEF FdIsExpected, Flags, Waiting, Announced, Registering, Fetching, Agreed, Away
  <1>6. CASE /\ Head(batch) = "recv_fd" /\ cpc' = "clear" /\ batch' = Tail(batch)
             /\ UNCHANGED <<size, to_server>>
    <2>1. /\ g_handshaking /\ received = <<>> /\ to_server = <<>> /\ memory
          /\ Len(batch) + Len(to_client) <= 1
      BY <1>1, <1>6 DEF Announced
    <2>2. batch' = <<>> /\ to_client = <<>>
      BY <1>1, <1>6, <2>1, Nothing
    <2>3. TypeOK' /\ UNCHANGED <<spc, received, handshaking, connected, recv_fd_wait, memory>>
      BY <1>1, <1>6, <2>2 DEF TypeOK, server
    <2>4. Answers' = {} /\ Requests' = {}
      BY <1>1, <1>6, <2>1, <2>2, <2>3 DEF Answers, Requests
    <2>. QED
      BY <1>1, <1>2, <1>6, <2>1, <2>2, <2>3, <2>4
         DEF FdIsExpected, Flags, Waiting, Announced, Registering, Fetching, Agreed, Away
  <1>7. CASE batch' = Tail(batch) /\ UNCHANGED <<cpc, size, to_server>>
    <2>1. TypeOK' /\ UNCHANGED <<spc, received, handshaking, connected, recv_fd_wait, memory>>
      BY <1>1, <1>7 DEF TypeOK, server
    <2>2. Answers' \subseteq Answers /\ Requests' = Requests
      BY <1>1, <1>7, <2>1 DEF Answers, Requests
    <2>3. Announced'
      BY <1>1, <1>7, <2>1, <2>2 DEF Announced
    <2>. QED
      BY <1>1, <1>2, <1>7, <2>1, <2>2, <2>3
         DEF FdIsExpected, Flags, Waiting, Registering, Fetching, Agreed, Away
  <1>. QED  BY <1>3, <1>4, <1>5, <1>6, <1>7

LEMMA ClearKeeps ==
  ASSUME Inv, recv_fd_clear
  PROVE  Inv'
  <1>. USE Channels DEF Inv, IInv
  \* There is nothing to throw away.
  <1>1. /\ cpc = "clear" /\ to_client = <<>> /\ batch = <<>>
        /\ g_handshaking /\ memory /\ received = <<>> /\ to_server = <<>> /\ spc # "backlog"
    BY DEF recv_fd_clear, FdIsExpected, Away, Waiting
  <1>2. CASE spc = "closed"
    BY <1>1, <1>2, CloseKeeps DEF recv_fd_clear
  <1>3. CASE spc # "closed"
    <2>1. /\ to_server' = Append(to_server, "send_fd") /\ cpc' = "receive"
          /\ UNCHANGED <<batch, to_client, size, g_handshaking, mapped, server>>
      BY <1>1, <1>3 DEF recv_fd_clear
    <2>2. /\ to_server' \in Seq(ToServer) /\ DOMAIN to_server' = {1}
          /\ Elements(to_server') = {"send_fd"}
      <3>1. "send_fd" \in ToServer
        BY DEF ToServer
      <3>. QED  BY <1>1, <2>1, <3>1, WrittenFirst
    <2>3. TypeOK' /\ UNCHANGED <<spc, received, handshaking, connected, recv_fd_wait, memory>>
      BY <1>1, <2>1, <2>2 DEF TypeOK, server
    <2>4. Answers' = {} /\ Requests' = {"send_fd"}
      BY <1>1, <2>1, <2>2, <2>3 DEF Answers, Requests
    <2>. QED
      BY <1>1, <2>1, <2>2, <2>3, <2>4
         DEF FdIsExpected, Flags, Waiting, Announced, Registering, Fetching, Agreed, Away
  <1>. QED  BY <1>2, <1>3

\* recv_fd gives up and says so.
LEMMA NackKeeps ==
  ASSUME Inv, cpc = "receive", send_nack,
         to_client' = to_client \/ (to_client # <<>> /\ to_client' = Tail(to_client)),
         UNCHANGED <<size, g_handshaking, mapped, server>>
  PROVE  Inv'
  <1>. USE Channels DEF Inv, IInv
  <1>1. /\ g_handshaking /\ memory /\ batch' = <<>> /\ cpc' = "failed" /\ spc # "backlog"
        /\ Requests \subseteq {"send_fd"}
    BY DEF Away, Waiting, send_nack
  <1>2. /\ to_client' \in Seq(ToClient)
        /\ \A i \in DOMAIN to_client' : to_client'[i] = "F" => i = 1
        /\ to_client = <<>> => to_client' = <<>>
    <2>1. CASE to_client' = to_client
      BY <2>1 DEF FdIsExpected
    <2>2. CASE to_client # <<>> /\ to_client' = Tail(to_client)
      <3>1. \A i \in DOMAIN Tail(to_client) :
              i \in Nat /\ i > 0 /\ i + 1 \in DOMAIN to_client /\ Tail(to_client)[i] = to_client[i + 1]
        BY <2>2, Read
      <3>. QED  BY <2>2, <3>1, Read DEF FdIsExpected
    <2>. QED  BY <2>1, <2>2
  <1>3. /\ to_server' \in Seq(ToServer)
        /\ Elements(to_server') = Elements(to_server) \cup {"nack"}
        /\ \A i \in DOMAIN to_server' :
             to_server'[i] = "send_fd" => i \in DOMAIN to_server /\ to_server[i] = "send_fd"
    <2>1. "nack" \in ToServer /\ to_server' = Append(to_server, "nack")
      BY DEF ToServer, send_nack
    <2>2. Len(to_server) \in Nat /\ DOMAIN to_server = 1 .. Len(to_server)
      BY Nothing
    <2>. QED  BY <2>1, <2>2, Written
  <1>4. TypeOK' /\ UNCHANGED <<spc, received, handshaking, connected, recv_fd_wait, memory>>
    BY <1>1, <1>2, <1>3 DEF TypeOK, server
  <1>5. Requests' = Requests \cup {"nack"}
    BY <1>3, <1>4 DEF Requests
  <1>6. FdIsExpected'
    BY <1>1, <1>2 DEF FdIsExpected
  <1>. QED
    BY <1>1, <1>2, <1>3, <1>4, <1>5, <1>6
       DEF Flags, Waiting, Announced, Registering, Fetching, Agreed, Away

LEMMA ReceiveKeeps ==
  ASSUME Inv, recv_fd
  PROVE  Inv'
  <1>. USE Channels DEF Inv, IInv
  <1>1. CASE send_nack /\ UNCHANGED <<mapped, g_handshaking>>
    BY <1>1, NackKeeps DEF recv_fd
  <1>2. CASE /\ Head(to_client) = "F" /\ spc # "closed"
             /\ mapped' = TRUE /\ g_handshaking' = FALSE
             /\ to_server' = Append(to_server, "established")
             /\ cpc' = "update" /\ UNCHANGED batch
    \* The descriptor is alone in its channel and the other one is empty.
    <2>1. /\ cpc = "receive" /\ to_client # <<>> /\ to_client' = Tail(to_client)
          /\ UNCHANGED <<size, server>> /\ batch = <<>> /\ memory /\ spc # "backlog"
          /\ Requests = {} /\ received = <<>> /\ to_server = <<>>
      BY DEF recv_fd, Away, Waiting, Fetching, Requests
    <2>2. to_client' = <<>>
      <3>1. \A i \in DOMAIN Tail(to_client) :
              i + 1 # 1 /\ i + 1 \in DOMAIN to_client /\ Tail(to_client)[i] = to_client[i + 1]
        BY <2>1, Read
      <3>2. \A i \in DOMAIN to_client : to_client[i] = "F"
        BY <2>1 DEF Away, Answers, Elements
      <3>3. DOMAIN Tail(to_client) = {}
        BY <3>1, <3>2 DEF FdIsExpected
      <3>4. Tail(to_client) \in Seq(ToClient) /\ Elements(Tail(to_client)) = {}
        BY <2>1, <3>3, Read DEF Elements
      <3>. QED  BY <2>1, <3>4, Nothing
    <2>3. to_server' \in Seq(ToServer) /\ DOMAIN to_server' = {1}
          /\ to_server'[1] = "established" /\ Elements(to_server') = {"established"}
      <3>1. "established" \in ToServer
        BY DEF ToServer
      <3>. QED  BY <1>2, <2>1, <3>1, WrittenFirst
    <2>4. TypeOK' /\ UNCHANGED <<spc, received, handshaking, connected, recv_fd_wait, memory>>
      BY <1>2, <2>1, <2>2, <2>3 DEF TypeOK, server
    <2>5. Answers' = {} /\ Requests' = {"established"}
      BY <1>2, <2>1, <2>2, <2>3, <2>4 DEF Answers, Requests
    <2>. QED
      BY <1>2, <2>1, <2>2, <2>3, <2>4, <2>5
         DEF FdIsExpected, Flags, Waiting, Announced, Registering, Fetching, Agreed, Away
  <1>. QED  BY <1>1, <1>2 DEF recv_fd

LEMMA SyncKeeps ==
  ASSUME Inv, spr16_client_sync
  PROVE  Inv'
  <1>. USE Channels DEF Inv, IInv
  <1>1. /\ cpc = "update" /\ batch = <<>> /\ mapped /\ ~g_handshaking /\ spc # "backlog"
        /\ to_server' = Append(to_server, "sync") /\ UNCHANGED <<client, server, to_client>>
        /\ Requests \cap {"register", "send_fd"} = {}
    BY DEF spr16_client_sync, Flags, Waiting, Registering, Fetching
  <1>2. to_server' \in Seq(ToServer) /\ Elements(to_server') = Elements(to_server) \cup {"sync"}
    <2>1. "sync" \in ToServer
      BY DEF ToServer
    <2>. QED  BY <1>1, <2>1, Written
  <1>3. /\ TypeOK' /\ UNCHANGED <<spc, received, handshaking, connected, recv_fd_wait, memory>>
        /\ UNCHANGED <<cpc, batch, g_handshaking, mapped>>
    BY <1>1, <1>2 DEF TypeOK, server, client
  <1>4. Requests' = Requests \cup {"sync"} /\ Answers' = Answers
    BY <1>1, <1>2, <1>3 DEF Requests, Answers
  <1>5. \A i \in DOMAIN to_server' : to_server'[i] # "send_fd"
    BY <1>1, <1>4 DEF Requests, Elements
  <1>. QED
    BY <1>1, <1>2, <1>3, <1>4, <1>5
       DEF FdIsExpected, Flags, Waiting, Announced, Registering, Fetching, Agreed, Away
-----------------------------------------------------------------------------
(* The steps of the server.                                                *)

LEMMA AddKeeps ==
  ASSUME Inv, server_addclient
  PROVE  Inv'
  <1>. USE Channels DEF Inv, IInv
  <1>1. /\ batch = <<>> /\ to_client = <<>> /\ received = <<>> /\ to_server = <<>>
        /\ ~memory /\ g_handshaking /\ spc' \in {"open", "closed"}
        /\ UNCHANGED <<client, received, handshaking, connected, recv_fd_wait, memory, to_server>>
    BY DEF server_addclient, Waiting, Flags
  <1>2. CASE cpc = "closed"
    <2>1. TypeOK' /\ to_client' = to_client /\ UNCHANGED <<cpc, batch, g_handshaking, mapped>>
      BY <1>1, <1>2 DEF TypeOK, client, server_addclient, write
    <2>2. Requests' = {} /\ Answers' = {}
      BY <1>1, <2>1 DEF Requests, Answers
    <2>. QED
      BY <1>1, <1>2, <2>1, <2>2
         DEF FdIsExpected, Flags, Waiting, Announced, Registering, Fetching, Agreed, Away
  <1>3. CASE cpc # "closed"
    <2>1. /\ cpc = "update" /\ to_client' = Append(to_client, "servinfo")
      BY <1>3 DEF server_addclient, Waiting, write
    <2>2. /\ to_client' \in Seq(ToClient) /\ Elements(to_client') = {"servinfo"}
          /\ Len(to_client') = 1
      <3>1. "servinfo" \in ToClient
        BY DEF ToClient
      <3>. QED  BY <1>1, <2>1, <3>1, WrittenFirst
    <2>3. TypeOK' /\ UNCHANGED <<cpc, batch, g_handshaking, mapped>>
      BY <1>1, <2>2 DEF TypeOK, client
    <2>4. Requests' = {} /\ Answers' = {"servinfo"}
      BY <1>1, <2>2, <2>3 DEF Requests, Answers
    <2>5. \A i \in DOMAIN to_client' : to_client'[i] # "F"
      BY <2>2 DEF Elements
    <2>. QED
      BY <1>1, <2>1, <2>2, <2>3, <2>4, <2>5
         DEF FdIsExpected, Flags, Waiting, Announced, Registering, Fetching, Agreed, Away
  <1>. QED  BY <1>2, <1>3

\* server_remove_client, or a register that fails: what was received is
\* dropped, and the client may be told when it is not about to read the
\* descriptor.
LEMMA RemoveKeeps ==
  ASSUME Inv, spc = "open", spc' = "removed", received' = <<>>, NEW m \in {"nack", "disconnect"},
         \/ to_client' = to_client
         \/ /\ received # <<>> /\ cpc \in {"update", "failed"}
            /\ to_client' = Append(to_client, m),
         UNCHANGED <<client, handshaking, connected, recv_fd_wait, memory, to_server>>
  PROVE  Inv'
  <1>. USE Channels DEF Inv, IInv
  <1>1. /\ UNCHANGED <<cpc, batch, g_handshaking, mapped, size>>
        /\ Requests' = Elements(to_server) /\ Elements(to_server) \subseteq Requests
    BY DEF client, Requests
  <1>2. CASE to_client' = to_client
    <2>1. TypeOK' /\ Answers' = Answers
      BY <1>1, <1>2 DEF TypeOK, Answers
    <2>. QED
      BY <1>1, <1>2, <2>1
         DEF FdIsExpected, Flags, Waiting, Announced, Registering, Fetching, Agreed, Away
  <1>3. CASE received # <<>> /\ cpc \in {"update", "failed"} /\ to_client' = Append(to_client, m)
    <2>1. /\ to_client' \in Seq(ToClient) /\ Elements(to_client') = Elements(to_client) \cup {m}
          /\ \A i \in DOMAIN to_client' :
               to_client'[i] = "F" => i \in DOMAIN to_client /\ to_client[i] = "F"
      <3>1. m \in ToClient /\ m # "F"
        BY DEF ToClient
      <3>2. /\ Append(to_client, m) \in Seq(ToClient)
            /\ Elements(Append(to_client, m)) = Elements(to_client) \cup {m}
            /\ DOMAIN Append(to_client, m) = 1 .. Len(to_client) + 1
            /\ Append(to_client, m)[Len(to_client) + 1] = m
            /\ \A i \in DOMAIN to_client : Append(to_client, m)[i] = to_client[i]
        BY <3>1, Written
      <3>3. \A i \in 1 .. Len(to_client) + 1 : i \in DOMAIN to_client \/ i = Len(to_client) + 1
        BY Nothing
      <3>. QED  BY <1>3, <3>1, <3>2, <3>3
    <2>2. TypeOK' /\ Answers' = Answers \cup {m}
      BY <1>1, <2>1 DEF TypeOK, Answers
    <2>3. /\ "register" \notin Requests' /\ "send_fd" \notin Requests'
          /\ \A i \in DOMAIN to_server : to_server[i] # "send_fd"
      <3>1. Len(received) # 0 /\ (Elements(to_server) # {} => Len(to_server) # 0)
        BY <1>3, Nothing
      <3>2. "register" \notin Elements(to_server)
        BY <1>1, <3>1 DEF Registering
      <3>3. \A i \in DOMAIN to_server : to_server[i] # "send_fd"
        BY <1>3 DEF Fetching
      <3>. QED  BY <1>1, <3>2, <3>3 DEF Elements
    <2>4. Announced'
      BY <1>1, <1>3, <2>2 DEF Announced
    <2>5. FdIsExpected'
      BY <1>1, <1>3, <2>1 DEF FdIsExpected
    <2>. QED
      BY <1>1, <1>3, <2>1, <2>2, <2>3, <2>4, <2>5
         DEF Flags, Waiting, Registering, Fetching, Agreed, Away
  <1>. QED  BY <1>2, <1>3

LEMMA CallbackKeeps ==
  ASSUME Inv, client_callback
  PROVE  Inv'
  <1>. USE Channels DEF Inv, IInv
  <1>1. /\ spc = "open" /\ received = <<>>
        /\ UNCHANGED <<client, handshaking, connected, recv_fd_wait, memory>>
    BY DEF client_callback
  <1>2. CASE cpc = "closed" /\ server_remove_client /\ UNCHANGED to_server
    <2>1. spc' = "removed" /\ received' = <<>> /\ to_client' = to_client
      BY <1>2 DEF server_remove_client, write
    <2>. QED  BY <1>1, <1>2, <2>1, RemoveKeeps
  <1>3. CASE received' = to_server /\ to_server' = <<>> /\ UNCHANGED <<spc, to_client>>
    <2>1. /\ TypeOK' /\ UNCHANGED <<cpc, batch, g_handshaking, mapped>>
          /\ Requests' = Requests /\ Answers' = Answers
      BY <1>1, <1>3 DEF TypeOK, client, Requests, Answers
    <2>2. Announced'
      BY <1>1, <1>3, <2>1 DEF Announced
    <2>3. Registering' /\ Fetching'
      BY <1>1, <1>3, <2>1 DEF Registering, Fetching
    <2>. QED
      BY <1>1, <1>3, <2>1, <2>2, <2>3 DEF FdIsExpected, Flags, Waiting, Agreed, Away
  <1>. QED  BY <1>2, <1>3 DEF client_callback

\* What is left when the next message has been taken: no request of the
\* handshake, because there is one at a time.
LEMMA Taken ==
  ASSUME Inv, spc = "open", received # <<>>
  PROVE  /\ Head(received) \in Requests /\ Tail(received) \in Seq(ToServer)
         /\ Elements(Tail(received)) \cup Elements(to_server)
              \subseteq Requests \ {"register", "send_fd"}
         /\ "register" \in Requests => Tail(received) = <<>> /\ to_server = <<>>
         /\ \A i \in DOMAIN Tail(received) : Tail(received)[i] # "send_fd"
         /\ \A i \in DOMAIN to_server : to_server[i] # "send_fd"
  <1>. USE Channels DEF Inv, IInv
  <1>1. /\ Head(received) \in Elements(received) /\ Tail(received) \in Seq(ToServer)
        /\ Elements(Tail(received)) \subseteq Elements(received)
        /\ Len(received) \in Nat \ {0} /\ (Len(received) = 1 => Tail(received) = <<>>)
        /\ \A i \in DOMAIN Tail(received) :
             i \in Nat \ {0} /\ i + 1 \in DOMAIN received /\ Tail(received)[i] = received[i + 1]
    BY Read
  <1>2. "register" \in Requests => Tail(received) = <<>> /\ to_server = <<>>
    <2>. SUFFICES ASSUME "register" \in Requests  PROVE Tail(received) = <<>> /\ to_server = <<>>
      OBVIOUS
    <2>1. Len(received) + Len(to_server) <= 1
      BY DEF Registering
    <2>2. Len(received) = 1 /\ Len(to_server) = 0
      <3>1. Len(to_server) \in Nat
        BY Nothing
      <3>2. Len(received) \in Nat \ {0}
        BY <1>1
      <3>3. \A a \in Nat \ {0}, b \in Nat : a + b <= 1 => a = 1 /\ b = 0
        OBVIOUS
      <3>. HIDE Channels DEF Inv, IInv
      <3>. QED  BY <2>1, <3>1, <3>2, <3>3
    <2>. QED  BY <1>1, <2>2, Nothing
  <1>3. \A i \in DOMAIN Tail(received) : Tail(received)[i] # "send_fd"
    BY <1>1 DEF Fetching
  <1>4. \A i \in DOMAIN to_server : to_server[i] # "send_fd"
    BY DEF Fetching
  <1>5. "send_fd" \notin Elements(Tail(received)) \cup Elements(to_server)
    BY <1>3, <1>4 DEF Elements
  <1>. QED  BY <1>1, <1>2, <1>3, <1>4, <1>5 DEF Requests

LEMMA RegisterKeeps ==
  ASSUME Inv, spr16_dispatch_server_msgs, Head(received) = "register",
         spr16_server_register_sprite, UNCHANGED connected
  PROVE  Inv'
  <1>. USE Channels DEF Inv, IInv
  <1>1. /\ spc = "open" /\ received # <<>> /\ UNCHANGED <<client, to_server>>
        /\ UNCHANGED <<cpc, batch, size, g_handshaking, mapped>>
        /\ "register" \in Requests /\ Tail(received) = <<>> /\ to_server = <<>>
        /\ g_handshaking /\ cpc \in {"update", "closed"} /\ batch = <<>>
        /\ cpc = "update" => to_client = <<>>
    BY Taken DEF spr16_dispatch_server_msgs, client, Registering
  <1>2. CASE /\ cpc # "closed" /\ handshaking' = TRUE /\ memory' = TRUE /\ recv_fd_wait' = TRUE
             /\ write("recv_fd") /\ ~handshaking /\ ~connected
             /\ received' = Tail(received) /\ UNCHANGED spc
    <2>1. cpc = "update" /\ to_client = <<>> /\ to_client' = Append(to_client, "recv_fd")
      BY <1>1, <1>2 DEF write
    <2>2. /\ to_client' \in Seq(ToClient) /\ Elements(to_client') = {"recv_fd"}
          /\ Len(to_client') = 1
      <3>1. "recv_fd" \in ToClient
        BY DEF ToClient
      <3>. QED  BY <2>1, <3>1, WrittenFirst
    <2>3. TypeOK' /\ Requests' = {} /\ Answers' = {"recv_fd"}
      BY <1>1, <1>2, <2>2 DEF TypeOK, Requests, Answers
    <2>4. \A i \in DOMAIN to_client' : to_client'[i] # "F"
      BY <2>2 DEF Elements
    <2>. QED
      BY <1>1, <1>2, <2>1, <2>2, <2>3, <2>4
         DEF FdIsExpected, Flags, Waiting, Announced, Registering, Fetching, Agreed, Away
  <1>3. CASE /\ spc' = "removed" /\ received' = <<>> /\ write("nack")
             /\ UNCHANGED <<handshaking, memory, recv_fd_wait>>
    BY <1>1, <1>3, RemoveKeeps DEF write
  <1>. QED  BY <1>2, <1>3 DEF spr16_server_register_sprite

\* server_remove_client by the dispatcher, for a client connected or not.
LEMMA DropKeeps ==
  ASSUME Inv, spr16_dispatch_server_msgs, server_remove_client,
         UNCHANGED <<handshaking, connected, recv_fd_wait, memory>>
  PROVE  Inv'
  <1>1. /\ spc = "open" /\ received # <<>> /\ UNCHANGED <<client, to_server>>
        /\ spc' = "removed" /\ received' = <<>>
        /\ connected => write("disconnect")
        /\ ~connected => to_client' = to_client
    BY DEF spr16_dispatch_server_msgs, server_remove_client
  <1>2. connected => cpc \in {"update", "closed"}
    BY DEF Inv, TypeOK, IInv, Flags, Away
  <1>. QED  BY <1>1, <1>2, RemoveKeeps DEF write

LEMMA SendFdKeeps ==
  ASSUME Inv, spr16_dispatch_server_msgs, Head(received) = "send_fd",
         handle_ack_send_fd, UNCHANGED memory
  PROVE  Inv'
  <1>. USE Channels DEF Inv, IInv
  <1>1. /\ spc = "open" /\ received # <<>> /\ UNCHANGED <<client, to_server>>
        /\ UNCHANGED <<cpc, batch, size, g_handshaking, mapped, handshaking, connected>>
    BY DEF spr16_dispatch_server_msgs, client, handle_ack_send_fd
  <1>2. CASE server_remove_client /\ UNCHANGED recv_fd_wait
    BY <1>1, <1>2, DropKeeps
  <1>3. CASE /\ cpc # "closed" /\ recv_fd_wait' = FALSE /\ write("F")
             /\ received' = Tail(received) /\ UNCHANGED spc
    \* The client is in recv_fd, or has left it for good, and has nothing to read.
    <2>1. /\ g_handshaking /\ cpc \in {"receive", "failed"} /\ to_client = <<>> /\ batch = <<>>
          /\ "register" \notin Requests
      BY <1>1, <1>3, Taken DEF Fetching, Registering, Away
    <2>2. /\ to_client' \in Seq(ToClient) /\ Elements(to_client') = {"F"}
          /\ DOMAIN to_client' = {1}
      <3>1. "F" \in ToClient /\ to_client' = Append(to_client, "F")
        BY <1>3 DEF ToClient, write
      <3>. QED  BY <2>1, <3>1, WrittenFirst
    <2>3. /\ TypeOK' /\ Answers' = {"F"}
          /\ Requests' \subseteq Requests \ {"register", "send_fd"}
      BY <1>1, <1>3, <2>1, <2>2, Taken DEF TypeOK, Requests, Answers
    <2>4. FdIsExpected'
      BY <1>1, <2>1, <2>2 DEF FdIsExpected
    <2>5. Fetching'
      BY <1>1, <1>3, <2>3, Taken DEF Fetching
    <2>. QED
      BY <1>1, <1>3, <2>1, <2>2, <2>3, <2>4, <2>5
         DEF Flags, Waiting, Announced, Registering, Agreed, Away
  <1>. QED  BY <1>2, <1>3 DEF handle_ack_send_fd

\* A message is taken and nobody is told anything.
LEMMA TakeKeeps ==
  ASSUME Inv, spr16_dispatch_server_msgs, received' = Tail(received),
         UNCHANGED <<spc, to_client, recv_fd_wait, memory>>,
         handshaking' \in BOOLEAN, connected' \in BOOLEAN,
         Flags'
  PROVE  Inv'
  <1>. USE Channels DEF Inv, IInv
  <1>1. /\ spc = "open" /\ received # <<>> /\ UNCHANGED <<client, to_server>>
        /\ UNCHANGED <<cpc, batch, size, g_handshaking, mapped>>
    BY DEF spr16_dispatch_server_msgs, client
  <1>2. /\ TypeOK' /\ Answers' = Answers
        /\ Requests' \subseteq Requests \ {"register", "send_fd"}
    BY <1>1, Taken DEF TypeOK, Requests, Answers
  <1>3. Fetching'
    BY <1>1, <1>2, Taken DEF Fetching
  <1>4. Announced'
    BY <1>1, <1>2 DEF Announced
  <1>. QED
    BY <1>1, <1>2, <1>3, <1>4 DEF FdIsExpected, Flags, Waiting, Registering, Agreed, Away

LEMMA DispatchKeeps ==
  ASSUME Inv, spr16_dispatch_server_msgs
  PROVE  Inv'
  <1>1. /\ spc = "open" /\ received # <<>> /\ UNCHANGED <<client, to_server>>
        /\ UNCHANGED <<g_handshaking, mapped>> /\ Flags
    BY DEF spr16_dispatch_server_msgs, client, Inv, IInv
  <1>2. CASE Head(received) = "register" /\ spr16_server_register_sprite /\ UNCHANGED connected
    BY <1>2, RegisterKeeps
  <1>3. CASE Head(received) = "send_fd" /\ handle_ack_send_fd /\ UNCHANGED memory
    BY <1>3, SendFdKeeps
  <1>4. CASE /\ Head(received) = "established" /\ handle_ack_established
             /\ UNCHANGED <<recv_fd_wait, memory>>
    <2>1. CASE handshaking
      <3>1. "established" \in Requests
        BY <1>1, <1>4, Taken
      <3>2. /\ mapped /\ connected' = TRUE /\ handshaking' = FALSE
            /\ received' = Tail(received) /\ UNCHANGED <<spc, to_client>>
        BY <1>4, <2>1, <3>1 DEF handle_ack_established, Inv, IInv, Agreed
      <3>. QED  BY <1>1, <1>4, <2>1, <3>2, TakeKeeps DEF Flags
    <2>2. CASE ~handshaking
      BY <1>4, <2>2, DropKeeps DEF handle_ack_established
    <2>. QED  BY <2>1, <2>2
  <1>5. CASE server_remove_client /\ UNCHANGED <<handshaking, connected, recv_fd_wait, memory>>
    BY <1>5, DropKeeps
  <1>6. CASE /\ received' = Tail(received) /\ UNCHANGED <<spc, to_client>>
             /\ UNCHANGED <<handshaking, connected, recv_fd_wait, memory>>
    BY <1>1, <1>6, TakeKeeps DEF Flags, Inv, TypeOK
  <1>. QED  BY <1>2, <1>3, <1>4, <1>5, <1>6 DEF spr16_dispatch_server_msgs

LEMMA InputKeeps ==
  ASSUME Inv, server_input
  PROVE  Inv'
  <1>. USE Channels DEF Inv, IInv
  <1>1. /\ spc = "open" /\ connected /\ mapped /\ ~g_handshaking /\ cpc \in {"update", "closed"}
        /\ UNCHANGED <<client, server, to_server>> /\ write("input")
        /\ UNCHANGED <<cpc, batch, size, g_handshaking, mapped>>
        /\ UNCHANGED <<spc, received, handshaking, connected, recv_fd_wait, memory>>
    BY DEF server_input, Flags, Away, TypeOK, client, server
  <1>2. /\ to_client' \in Seq(ToClient)
        /\ Elements(to_client') \subseteq Elements(to_client) \cup {"input"}
        /\ \A i \in DOMAIN to_client' :
             to_client'[i] = "F" => i \in DOMAIN to_client /\ to_client[i] = "F"
    <2>1. "input" \in ToClient /\ Len(to_client) \in Nat /\ DOMAIN to_client = 1 .. Len(to_client)
      BY Nothing DEF ToClient
    <2>2. CASE to_client' = Append(to_client, "input")
      BY <2>1, <2>2, Written
    <2>. QED  BY <1>1, <2>2 DEF write
  <1>3. /\ TypeOK' /\ Requests' = Requests /\ Answers' \subseteq Answers \cup {"input"}
    BY <1>1, <1>2 DEF TypeOK, Requests, Answers
  <1>4. Announced'
    BY <1>1, <1>3 DEF Announced
  <1>. QED
    BY <1>1, <1>2, <1>3, <1>4
       DEF FdIsExpected, Flags, Waiting, Registering, Fetching, Agreed, Away

\* The server closes the socket, or goes away.
LEMMA EndKeeps ==
  ASSUME Inv, spc' = "closed", received' \in {received, <<>>},
         UNCHANGED <<client, handshaking, connected, recv_fd_wait, memory, to_client, to_server>>
  PROVE  Inv'
  <1>. USE Channels DEF Inv, IInv
  <1>1. /\ UNCHANGED <<cpc, batch, size, g_handshaking, mapped>>
        /\ TypeOK' /\ Answers' = Answers /\ Requests' \subseteq Requests
    BY DEF TypeOK, client, Answers, Requests
  <1>2. Registering'
    BY <1>1 DEF Registering
  <1>. QED
    BY <1>1, <1>2 DEF FdIsExpected, Flags, Waiting, Announced, Fetching, Agreed, Away

LEMMA Step == Inv /\ [Next]_vars => Inv'
  <1>. SUFFICES ASSUME Inv, [Next]_vars  PROVE Inv'
    OBVIOUS
  <1>1. CASE Client
    BY <1>1, UpdateKeeps, MessageKeeps, ClearKeeps, ReceiveKeeps, NackKeeps
       DEF Client, recv_fd_fails
  <1>2. CASE handshake_timeout \/ client_exit
    BY <1>2, CloseKeeps DEF handshake_timeout, client_exit
  <1>3. CASE spr16_client_sync
    BY <1>3, SyncKeeps
  <1>4. CASE server_free_list \/ server_exit
    BY <1>4, EndKeeps DEF server_free_list, server_exit
  <1>5. CASE Server
    BY <1>4, <1>5, AddKeeps, CallbackKeeps, DispatchKeeps DEF Server
  <1>6. CASE server_input
    BY <1>6, InputKeeps
  <1>7. CASE UNCHANGED vars
    BY <1>7 DEF vars, client, server, Inv, TypeOK, FdIsExpected, IInv, Flags, Waiting, Announced,
            Registering, Fetching, Agreed, Away, Requests, Answers
  <1>. QED  BY <1>1, <1>2, <1>3, <1>4, <1>5, <1>6, <1>7 DEF Next

-----------------------------------------------------------------------------
(* The life of the sprite, step by step.                                   *)

LifeSteps ==
  [\/ Shared!Step("new", "created") \/ Shared!Step("created", "mapped")
   \/ Shared!Step("mapped", "shown") \/ Shared!End]_life

\* What life is made of, and the end of the connection.
LEMMA LifeStutters ==
  ASSUME UNCHANGED <<spc, connected, mapped, memory>>
  PROVE  LifeSteps
  BY DEF LifeSteps, life

LEMMA LifeEnds ==
  ASSUME spc' \in {"removed", "closed"}
  PROVE  LifeSteps
  BY DEF LifeSteps, Shared!End, life

LEMMA ClientLives ==
  ASSUME Inv, Client \/ handshake_timeout \/ spr16_client_sync \/ client_exit
  PROVE  LifeSteps
  <1>1. UNCHANGED <<spc, connected, memory>>
    BY DEF Client, spr16_client_update, spr16_dispatch_client_msgs, recv_fd_clear, recv_fd,
           recv_fd_fails, handshake_timeout, spr16_client_sync, client_exit, server
  <1>2. CASE UNCHANGED mapped
    BY <1>1, <1>2, LifeStutters
  <1>3. CASE mapped' # mapped
    \* Only recv_fd maps the memory, which the server has created and does not show yet.
    <2>1. cpc = "receive" /\ mapped' = TRUE
      BY <1>3 DEF Client, spr16_client_update, spr16_dispatch_client_msgs, recv_fd_clear, recv_fd,
           recv_fd_fails, handshake_timeout, spr16_client_sync, client_exit, client
    <2>2. memory /\ ~mapped /\ ~connected
      BY <2>1 DEF Inv, TypeOK, IInv, Away, Flags
    <2>. QED  BY <1>1, <2>1, <2>2 DEF LifeSteps, Shared!Step, life
  <1>. QED  BY <1>2, <1>3

LEMMA DispatchLives ==
  ASSUME Inv, spr16_dispatch_server_msgs
  PROVE  LifeSteps
  <1>1. spc = "open" /\ received # <<>> /\ UNCHANGED mapped
    BY DEF spr16_dispatch_server_msgs, client
  <1>2. CASE spc' = "removed"
    BY <1>2, LifeEnds
  <1>3. CASE spc' # "removed"
    <2>1. ~server_remove_client
      BY <1>3 DEF server_remove_client
    <2>2. CASE Head(received) = "register"
      <3>1. /\ ~handshaking /\ ~connected /\ memory' = TRUE /\ connected' = connected /\ spc' = spc
        BY <1>3, <2>1, <2>2 DEF spr16_dispatch_server_msgs, spr16_server_register_sprite
      <3>2. ~memory /\ ~mapped
        BY <3>1 DEF Inv, IInv, Flags
      <3>. QED  BY <1>1, <3>1, <3>2 DEF LifeSteps, Shared!Step, life
    <2>3. CASE Head(received) = "established"
      <3>1. /\ handshaking /\ connected' = TRUE /\ spc' = spc /\ memory' = memory
        BY <1>3, <2>1, <2>3 DEF spr16_dispatch_server_msgs, handle_ack_established
      <3>2. mapped /\ ~connected
        BY <1>1, <2>3, <3>1, Taken DEF Inv, IInv, Flags, Agreed
      <3>. QED  BY <1>1, <3>1, <3>2 DEF LifeSteps, Shared!Step, life
    <2>4. CASE Head(received) \notin {"register", "established"}
      <3>1. UNCHANGED <<spc, connected, memory>>
        BY <2>1, <2>4 DEF spr16_dispatch_server_msgs, handle_ack_send_fd
      <3>. QED  BY <1>1, <3>1, LifeStutters
    <2>. QED  BY <2>2, <2>3, <2>4
  <1>. QED  BY <1>2, <1>3

LEMMA OtherLives ==
  ASSUME server_addclient \/ client_callback \/ server_free_list \/ server_input \/ server_exit
  PROVE  LifeSteps
  <1>1. CASE server_free_list \/ server_exit
    BY <1>1, LifeEnds DEF server_free_list, server_exit
  <1>2. CASE server_addclient
    <2>1. /\ spc = "backlog" /\ spc' \in {"open", "closed"}
          /\ UNCHANGED <<connected, mapped, memory>>
      BY <1>2 DEF server_addclient, client
    <2>. QED  BY <2>1, LifeEnds DEF LifeSteps, life
  <1>3. CASE client_callback
    <2>1. UNCHANGED <<connected, mapped, memory>> /\ (spc' = "removed" \/ spc' = spc)
      BY <1>3 DEF client_callback, server_remove_client, client
    <2>. QED  BY <2>1, LifeStutters, LifeEnds
  <1>4. CASE server_input
    BY <1>4, LifeStutters DEF server_input, client, server
  <1>. QED  BY <1>1, <1>2, <1>3, <1>4

LEMMA Lives == Inv /\ [Next]_vars => LifeSteps
  <1>1. UNCHANGED vars => LifeSteps
    BY LifeStutters DEF vars, client, server
  <1>. QED
    BY <1>1, ClientLives, DispatchLives, OtherLives DEF Next, Server

-----------------------------------------------------------------------------
(* The theorems.                                                           *)

\* Only messages of the protocol are ever on their way, in either direction
\* (client.c, server.c).
THEOREM HandshakeTypeCorrect == Spec => []TypeOK
  <1>1. Inv => TypeOK
    BY DEF Inv
  <1>. QED  BY <1>1, InitInv, Step, PTL DEF Spec

\* The byte with the descriptor reaches afunix_recv_fd and no plain read,
\* and recv_fd throws nothing away, whoever fails or goes away in between
\* (messages.c:281, client.c:192-197, 403).
THEOREM DescriptorIsExpected == Spec => []FdIsExpected
  <1>1. Inv => FdIsExpected
    BY DEF Inv
  <1>. QED  BY <1>1, InitInv, Step, PTL DEF Spec

\* A sprite is created, then mapped, then shown, and nothing follows the end
\* of the connection (server.c:304-511, client.c:180-260).
THEOREM HandshakeImplementsShared == Spec => ImplementsShared
  <1>1. Init => Shared!Init
    BY DEF Init, Shared!Init, life
  <1>. QED
    BY <1>1, Lives, InitInv, Step, PTL DEF Spec, ImplementsShared, Shared!Spec, LifeSteps
=============================================================================
