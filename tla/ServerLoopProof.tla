-------------------------- MODULE ServerLoopProof --------------------------
(***************************************************************************)
(* Theorems about ServerLoop, for every set of connections and every value *)
(* of the limits.                                                          *)
(***************************************************************************)
EXTENDS ServerLoop, SequenceTheorems, FiniteSetTheorems, TLAPS

-----------------------------------------------------------------------------
(* What Append, Tail and RemoveAt, the operations the server performs on   *)
(* its lists, do to the set of elements and to their being distinct.       *)

\* No element twice.
Distinct(s) == \A i, j \in DOMAIN s : s[i] = s[j] => i = j

LEMMA AppendSet ==
  ASSUME NEW S, NEW s \in Seq(S), NEW e \in S
  PROVE  /\ Append(s, e) \in Seq(S)
         /\ ToSet(Append(s, e)) = ToSet(s) \cup {e}
         /\ Distinct(s) /\ e \notin ToSet(s) => Distinct(Append(s, e))
  <1>1. /\ Append(s, e) \in Seq(S) /\ Len(Append(s, e)) = Len(s) + 1
        /\ \A i \in 1..Len(s) : Append(s, e)[i] = s[i]
        /\ Append(s, e)[Len(s) + 1] = e
    BY AppendProperties
  <1>2. DOMAIN s = 1..Len(s) /\ DOMAIN Append(s, e) = 1..(Len(s) + 1) /\ Len(s) \in Nat
    BY <1>1, LenProperties
  <1>. QED  BY <1>1, <1>2 DEF ToSet, Distinct

LEMMA TailSet ==
  ASSUME NEW S, NEW s \in Seq(S), s # <<>>
  PROVE  /\ Head(s) \in S /\ Tail(s) \in Seq(S)
         /\ ToSet(s) = {Head(s)} \cup ToSet(Tail(s))
         /\ Distinct(s) => Distinct(Tail(s)) /\ Head(s) \notin ToSet(Tail(s))
  <1>1. /\ Head(s) \in S /\ Tail(s) \in Seq(S) /\ Len(Tail(s)) = Len(s) - 1
        /\ \A i \in 1..Len(Tail(s)) : Tail(s)[i] = s[i + 1]
    BY HeadTailProperties
  <1>2. /\ DOMAIN s = 1..Len(s) /\ DOMAIN Tail(s) = 1..(Len(s) - 1)
        /\ Len(s) \in Nat /\ Len(s) > 0
    BY <1>1, LenProperties, EmptySeq
  <1>3. Head(s) = s[1]
    BY <1>2
  <1>4. ToSet(s) \subseteq {Head(s)} \cup ToSet(Tail(s))
    <2>. SUFFICES ASSUME NEW i \in 1..Len(s), i # 1
                  PROVE  s[i] \in ToSet(Tail(s))
      BY <1>2, <1>3 DEF ToSet
    <2>1. i - 1 \in 1..(Len(s) - 1) /\ Tail(s)[i - 1] = s[i]
      BY <1>1, <1>2
    <2>. QED  BY <2>1, <1>2 DEF ToSet
  <1>5. {Head(s)} \cup ToSet(Tail(s)) \subseteq ToSet(s)
    BY <1>1, <1>2, <1>3 DEF ToSet
  <1>6. ASSUME Distinct(s)
        PROVE  Distinct(Tail(s)) /\ Head(s) \notin ToSet(Tail(s))
    <2>1. \A i \in 1..(Len(s) - 1) : i + 1 \in DOMAIN s /\ Tail(s)[i] = s[i + 1]
      BY <1>1, <1>2
    <2>. QED  BY <1>2, <1>3, <1>6, <2>1 DEF ToSet, Distinct
  <1>. QED  BY <1>1, <1>4, <1>5, <1>6

LEMMA RotateSet ==
  ASSUME NEW S, NEW s \in Seq(S), s # <<>>, Distinct(s)
  PROVE  /\ ToSet(Append(Tail(s), Head(s))) = ToSet(s)
         /\ Distinct(Append(Tail(s), Head(s)))
  <1>. DEFINE t == Tail(s)
              e == Head(s)
  <1>1. /\ e \in S /\ t \in Seq(S)
        /\ ToSet(s) = {e} \cup ToSet(t) /\ Distinct(t) /\ e \notin ToSet(t)
    BY TailSet
  <1>. HIDE DEF t, e
  <1>2. ToSet(Append(t, e)) = ToSet(t) \cup {e} /\ Distinct(Append(t, e))
    BY <1>1, AppendSet
  <1>. QED  BY <1>1, <1>2 DEF t, e

LEMMA RemoveElements ==
  ASSUME NEW S, NEW s \in Seq(S), NEW i \in DOMAIN s
  PROVE  /\ RemoveAt(s, i) \in Seq(S)
         /\ DOMAIN RemoveAt(s, i) = 1..(Len(s) - 1)
         /\ \A k \in 1..(Len(s) - 1) :
              RemoveAt(s, i)[k] = IF k < i THEN s[k] ELSE s[k + 1]
  <1>. DEFINE a == SubSeq(s, 1, i - 1)
              b == SubSeq(s, i + 1, Len(s))
              r == RemoveAt(s, i)
  <1>1. DOMAIN s = 1..Len(s) /\ Len(s) \in Nat /\ i \in 1..Len(s)
        /\ \A k \in 1..Len(s) : s[k] \in S
    BY LenProperties, ElementOfSeq
  <1>2. /\ a \in Seq(S) /\ Len(a) = i - 1 /\ \A k \in 1..(i - 1) : a[k] = s[k]
    <2>1. \A k \in 1..(i - 1) : s[k] \in S
      BY <1>1
    <2>. QED  BY <1>1, <2>1, SubSeqProperties
  <1>3. /\ b \in Seq(S) /\ Len(b) = Len(s) - i
        /\ \A k \in 1..(Len(s) - i) : b[k] = s[k + i]
    <2>1. \A k \in (i + 1)..Len(s) : s[k] \in S
      BY <1>1
    <2>2. /\ b \in Seq(S) /\ Len(b) = IF i + 1 <= Len(s) THEN Len(s) - (i + 1) + 1 ELSE 0
          /\ \A k \in 1..(Len(s) - (i + 1) + 1) : b[k] = s[i + 1 + k - 1]
      BY <1>1, <2>1, SubSeqProperties
    <2>3. Len(s) - (i + 1) + 1 = Len(s) - i /\ \A k \in Int : i + 1 + k - 1 = k + i
      BY <1>1
    <2>4. Len(b) = Len(s) - i
      BY <1>1, <2>2
    <2>5. ASSUME NEW k \in 1..(Len(s) - i)
          PROVE  b[k] = s[k + i]
      <3>1. k \in 1..(Len(s) - (i + 1) + 1) /\ i + 1 + k - 1 = k + i
        BY <1>1, <2>3
      <3>2. b[k] = s[i + 1 + k - 1]
        BY ONLY <2>2, <3>1
      <3>. QED  BY ONLY <3>1, <3>2
    <2>. QED  BY <2>2, <2>4, <2>5
  <1>4. r = a \o b
    BY DEF RemoveAt
  <1>. HIDE DEF a, b, r
  <1>5. /\ r \in Seq(S) /\ Len(r) = Len(s) - 1
        /\ \A k \in 1..(Len(s) - 1) : r[k] = IF k < i THEN s[k] ELSE s[k + 1]
    <2>1. /\ r \in Seq(S) /\ Len(r) = Len(a) + Len(b)
          /\ \A k \in 1..(Len(a) + Len(b)) : r[k] = IF k <= Len(a) THEN a[k] ELSE b[k - Len(a)]
      BY <1>2, <1>3, <1>4, ConcatProperties
    <2>2. Len(a) + Len(b) = Len(s) - 1
      BY <1>1, <1>2, <1>3
    <2>3. ASSUME NEW k \in 1..(Len(s) - 1)
          PROVE  r[k] = IF k < i THEN s[k] ELSE s[k + 1]
      <3>1. CASE k < i
        <4>1. k <= Len(a) /\ k \in 1..(i - 1)
          BY <1>1, <1>2, <3>1
        <4>. QED  BY <1>2, <2>1, <2>2, <3>1, <4>1
      <3>2. CASE k >= i
        <4>1. ~(k <= Len(a)) /\ k - Len(a) \in 1..(Len(s) - i) /\ k - Len(a) + i = k + 1
          BY <1>1, <1>2, <3>2
        <4>2. r[k] = b[k - Len(a)]
          BY <2>1, <2>2, <4>1
        <4>3. b[k - Len(a)] = s[k + 1]
          BY <1>3, <4>1
        <4>. QED  BY <1>1, <3>2, <4>2, <4>3
      <3>. QED  BY <1>1, <3>1, <3>2
    <2>. QED  BY <2>1, <2>2, <2>3
  <1>6. DOMAIN r = 1..(Len(s) - 1)
    BY <1>5, LenProperties
  <1>. QED  BY <1>5, <1>6 DEF r

LEMMA RemoveSet ==
  ASSUME NEW S, NEW s \in Seq(S), NEW i \in DOMAIN s
  PROVE  /\ RemoveAt(s, i) \in Seq(S)
         /\ Distinct(s) => /\ ToSet(RemoveAt(s, i)) = ToSet(s) \ {s[i]}
                           /\ Distinct(RemoveAt(s, i))
  <1>. DEFINE r == RemoveAt(s, i)
  <1>1. DOMAIN s = 1..Len(s) /\ Len(s) \in Nat /\ i \in 1..Len(s)
    BY LenProperties
  <1>5. /\ r \in Seq(S)
        /\ \A k \in 1..(Len(s) - 1) : r[k] = IF k < i THEN s[k] ELSE s[k + 1]
    BY RemoveElements
  <1>6. DOMAIN r = 1..(Len(s) - 1)
    BY RemoveElements
  <1>. HIDE DEF r
  <1>7. ASSUME Distinct(s)
        PROVE  ToSet(r) = ToSet(s) \ {s[i]} /\ Distinct(r)
    <2>1. \A k \in 1..(Len(s) - 1) :
             r[k] = IF k < i THEN s[k] ELSE s[k + 1]
      BY <1>5
    <2>2. Distinct(r)
      <3>. SUFFICES ASSUME NEW k \in 1..(Len(s) - 1), NEW l \in 1..(Len(s) - 1), r[k] = r[l]
                    PROVE  k = l
        BY <1>6 DEF Distinct
      <3>. DEFINE from(n) == IF n < i THEN n ELSE n + 1
      <3>1. /\ from(k) \in DOMAIN s /\ from(l) \in DOMAIN s
            /\ r[k] = s[from(k)] /\ r[l] = s[from(l)]
        BY <1>1, <2>1
      <3>2. from(k) = from(l)
        BY <1>7, <3>1 DEF Distinct
      <3>. QED  BY <1>1, <3>2
    <2>3. ToSet(r) \subseteq ToSet(s) \ {s[i]}
      <3>. SUFFICES ASSUME NEW k \in 1..(Len(s) - 1)
                    PROVE  r[k] \in ToSet(s) \ {s[i]}
        BY <1>6 DEF ToSet
      <3>1. CASE k < i
        BY <1>1, <1>7, <2>1, <3>1 DEF ToSet, Distinct
      <3>2. CASE k >= i
        <4>1. k + 1 \in DOMAIN s /\ k + 1 # i /\ r[k] = s[k + 1]
          BY <1>1, <2>1, <3>2
        <4>. QED  BY <1>1, <1>7, <4>1 DEF ToSet, Distinct
      <3>. QED  BY <1>1, <3>1, <3>2
    <2>4. ToSet(s) \ {s[i]} \subseteq ToSet(r)
      <3>. SUFFICES ASSUME NEW k \in 1..Len(s), k # i
                    PROVE  s[k] \in ToSet(r)
        BY <1>1 DEF ToSet
      <3>1. CASE k < i
        <4>1. k \in 1..(Len(s) - 1) /\ r[k] = s[k]
          BY <1>1, <2>1, <3>1
        <4>. QED  BY <1>6, <4>1 DEF ToSet
      <3>2. CASE k > i
        <4>1. k - 1 \in 1..(Len(s) - 1) /\ r[k - 1] = s[k]
          BY <1>1, <2>1, <3>2
        <4>. QED  BY <1>6, <4>1 DEF ToSet
      <3>. QED  BY <1>1, <3>1, <3>2
    <2>. QED  BY <2>2, <2>3, <2>4
  <1>. QED  BY <1>5, <1>7 DEF r

-----------------------------------------------------------------------------

\* What each phase of spr16_server_update may count on.
PhaseOK ==
  /\ ListenFd \in batch => backlog # <<>>
  /\ pc \in {"messages", "servinfo"} => serving \in DOMAIN nodes /\ nodes[serving] \in cb_data
  /\ pc = "servinfo" => unread > 0
  /\ pc \notin {"dispatch", "messages", "servinfo", "crashed"} => batch = {}
  /\ pc \in {"sync", "free", "wait"} => removals = {}

TypeInv == TypeOK /\ PhaseOK

LEMMA FdsDiffer == ListenFd \notin Fds /\ KbdFd \notin Fds /\ ListenFd # KbdFd /\ 0 \in Fds
  BY ConstantsAssumption DEF ListenFd, KbdFd, Fds

LEMMA SeqElements ==
  ASSUME NEW S, NEW s \in Seq(S)
  PROVE  ToSet(s) \subseteq S
  BY ElementOfSeq, LenProperties DEF ToSet

\* A removal, counted or not, leaves the handler table well typed.
LEMMA RemovalTyped ==
  ASSUME TypeOK, NEW f \in Fds, fdpoll_handler_remove(f)
  PROVE  /\ DOMAIN nodes' \subseteq Fds /\ nodes' \in [DOMAIN nodes' -> Conns]
         /\ count' \in Nat /\ drift' \in Nat
         /\ \A g \in DOMAIN nodes \ {f} : g \in DOMAIN nodes' /\ nodes'[g] = nodes[g]
  BY DEF TypeOK, fdpoll_handler_remove

LEMMA DropTyped ==
  ASSUME TypeOK, NEW f \in Fds, HasData(f), drop_client(f)
  PROVE  /\ DOMAIN nodes' \subseteq Fds /\ nodes' \in [DOMAIN nodes' -> Conns]
         /\ count' \in Nat /\ drift' \in Nat
         /\ removals' \subseteq Fds /\ cb_data' \subseteq Conns
         /\ pending_clients' \subseteq Conns /\ screens' \in Seq(Conns \cup {Free})
         /\ sync_clients' \subseteq Conns /\ free_list' \subseteq Conns
         /\ dangling' = dangling
  <1>. DEFINE c == nodes[f]
  <1>1. c \in Conns
    BY DEF TypeOK, HasData
  <1>2. removals' \subseteq Fds /\ cb_data' \subseteq Conns
    BY DEF drop_client, TypeOK
  <1>3. PICK failed \in BOOLEAN : \/ remove_shown(f, c, failed)
                                  \/ remove_pending(f, c, failed)
                                  \/ remove_unknown(f, c, failed)
    BY DEF drop_client
  <1>4. CASE remove_shown(f, c, failed)
    <2>1. PICK i \in DOMAIN screens :
            /\ screens[i] = c
            /\ fdpoll_handler_remove(f)
            /\ failed = ~remove_succeeds(f)
            /\ IF failed
               THEN /\ screens' = ReplaceAt(screens, i, Free)
                    /\ UNCHANGED <<free_list, sync_clients>>
               ELSE /\ screens' = RemoveAt(screens, i)
                    /\ free_list' = free_list \cup {c}
                    /\ sync_clients' = server_sync_fullscreen(screens')
      BY <1>4 DEF remove_shown
    <2>2. screens \in Seq(Conns \cup {Free}) /\ i \in 1..Len(screens)
      BY LenProperties DEF TypeOK
    <2>3. screens' \in Seq(Conns \cup {Free})
      <3>1. ReplaceAt(screens, i, Free) \in Seq(Conns \cup {Free})
        BY <2>2, ExceptSeq DEF ReplaceAt
      <3>2. RemoveAt(screens, i) \in Seq(Conns \cup {Free})
        BY <2>2, RemoveSet
      <3>. QED  BY <2>1, <3>1, <3>2
    <2>4. sync_clients' \subseteq Conns
      <3>1. screens' # <<>> => Head(screens') \in Conns \cup {Free}
        BY <2>3, TailSet
      <3>. QED  BY <2>1, <3>1 DEF server_sync_fullscreen, TypeOK
    <2>. QED  BY <1>1, <1>2, <1>4, <2>1, <2>3, <2>4, RemovalTyped DEF TypeOK, remove_shown
  <1>5. CASE remove_pending(f, c, failed)
    BY <1>1, <1>2, <1>5, RemovalTyped DEF remove_pending, TypeOK
  <1>6. CASE remove_unknown(f, c, failed)
    BY <1>2, <1>6 DEF remove_unknown, TypeOK, lists
  <1>. QED  BY <1>3, <1>4, <1>5, <1>6

\* Type correctness of the server loop, with what each phase relies on.
LEMMA TypeStep == TypeInv /\ [Next]_vars => TypeInv'
  <1>. SUFFICES ASSUME TypeInv, [Next]_vars  PROVE TypeInv'
    OBVIOUS
  <1>. USE DEF TypeInv, TypeOK, PhaseOK, Phases, Stages, vars, kernel, fdpoll, loop, clients, lists
  <1>1. ASSUME NEW c \in Conns, connect(c)  PROVE TypeInv'
    <2>1. backlog' \in Seq(Conns) /\ backlog' # <<>>
      BY <1>1, AppendProperties DEF connect
    <2>2. inbox' \in [Conns -> 0..MaxInbox]
      BY <1>1, ConstantsAssumption DEF connect
    <2>. QED  BY <1>1, <2>1, <2>2 DEF connect
  <1>2. ASSUME NEW c \in Conns, client_write(c)  PROVE TypeInv'
    <2>1. inbox' \in [Conns -> 0..MaxInbox]
      BY <1>2, ConstantsAssumption DEF client_write
    <2>. QED  BY <1>2, <2>1 DEF client_write
  <1>3. ASSUME NEW c \in Conns, client_close(c) \/ client_read(c)  PROVE TypeInv'
    BY <1>3 DEF client_close, client_read
  <1>4. CASE epoll_wait
    BY <1>4, FdsDiffer DEF epoll_wait
  <1>5. CASE begin_removals
    BY <1>5 DEF begin_removals
  <1>6. ASSUME NEW f \in Fds, queued_removal(f)  PROVE TypeInv'
    BY <1>6, RemovalTyped DEF queued_removal
  <1>7. CASE end_poll
    BY <1>7 DEF end_poll
  <1>8. CASE accept_fails
    BY <1>8 DEF accept_fails, Callback, Handled
  <1>9. CASE listener_callback
    <2>1. backlog # <<>> /\ Head(backlog) \in Conns /\ Tail(backlog) \in Seq(Conns)
      BY <1>9, HeadTailProperties DEF listener_callback, Callback
    <2>2. PICK f \in Fds : server_addclient(f, Head(backlog))
      BY <1>9 DEF listener_callback
    <2>3. /\ files' \in [Fds -> Conns \cup {Free, Own}]
          /\ stage' \in [Conns -> Stages] /\ socket' \in [Conns -> Fds]
          /\ pending_clients' \subseteq Conns /\ cb_data' \subseteq Conns
      BY <2>1, <2>2 DEF server_addclient
    <2>4. DOMAIN nodes' \subseteq Fds /\ nodes' \in [DOMAIN nodes' -> Conns] /\ count' \in Nat
      BY <2>1, <2>2 DEF server_addclient
    <2>5. PhaseOK'
      BY <1>9 DEF listener_callback, Callback, Handled
    <2>6. backlog' \in Seq(Conns) /\ batch' \subseteq Fds \cup {ListenFd, KbdFd}
      BY <1>9, <2>1 DEF listener_callback, Handled
    <2>. QED  BY <1>9, <2>3, <2>4, <2>5, <2>6 DEF listener_callback
  <1>10. CASE listener_rejects
    <2>1. backlog # <<>> /\ Head(backlog) \in Conns /\ Tail(backlog) \in Seq(Conns)
      BY <1>10, HeadTailProperties DEF listener_rejects, Callback
    <2>2. inbox' \in [Conns -> 0..MaxInbox]
      BY <1>10, <2>1, ConstantsAssumption DEF listener_rejects
    <2>3. files' \in [Fds -> Conns \cup {Free, Own}]
      BY <1>10, FdsDiffer DEF listener_rejects
    <2>. QED  BY <1>10, <2>1, <2>2, <2>3 DEF listener_rejects, Callback, Handled
  <1>11. CASE listener_leaves_dangling
    <2>1. backlog # <<>> /\ Head(backlog) \in Conns /\ Tail(backlog) \in Seq(Conns)
      BY <1>11, HeadTailProperties DEF listener_leaves_dangling, Callback
    <2>2. inbox' \in [Conns -> 0..MaxInbox]
      BY <1>11, <2>1, ConstantsAssumption DEF listener_leaves_dangling
    <2>. QED  BY <1>11, <2>1, <2>2 DEF listener_leaves_dangling, Callback, Handled
  <1>12. ASSUME NEW f \in Fds, client_callback_hup(f)  PROVE TypeInv'
    BY <1>12, DropTyped DEF client_callback_hup, Callback, Handled
  <1>13. ASSUME NEW f \in Fds, client_callback_read(f)  PROVE TypeInv'
    BY <1>13, ConstantsAssumption DEF client_callback_read, Callback, Handled, HasData
  <1>14. ASSUME NEW f \in Fds, client_callback_read_fails(f)  PROVE TypeInv'
    BY <1>14, DropTyped DEF client_callback_read_fails, Callback, Handled
  <1>15. ASSUME NEW f \in Fds, client_callback_stale(f)  PROVE TypeInv'
    BY <1>15 DEF client_callback_stale, Callback
  <1>b. CASE walk_meets_freed
    <2>1. batch' = batch /\ pc' = "crashed" /\ pc \in {"dispatch", "messages", "servinfo"}
      BY <1>b DEF walk_meets_freed, Callback
    <2>. QED  BY <1>b, <2>1 DEF walk_meets_freed
  <1>16. CASE hotkey_callback
    <2>1. CASE UNCHANGED <<screens, sync_clients>>
      BY <1>16, <2>1 DEF hotkey_callback, Callback, Handled
    <2>2. CASE /\ Len(screens) > 1
               /\ screens' = Append(Tail(screens), Head(screens))
               /\ sync_clients' = server_sync_fullscreen(screens')
      <3>1. screens # <<>>
        BY <2>2, EmptySeq
      <3>2. screens' \in Seq(Conns \cup {Free})
        BY <2>2, <3>1, TailSet, AppendSet
      <3>3. screens' # <<>> => Head(screens') \in Conns \cup {Free}
        BY <3>2, TailSet
      <3>. QED  BY <1>16, <2>2, <3>2, <3>3
                DEF hotkey_callback, Callback, Handled, server_sync_fullscreen
    <2>. QED  BY <1>16, <2>1, <2>2 DEF hotkey_callback
  <1>a. ASSUME NEW m, Dispatch(m) \/ pc = "servinfo", next_message
        PROVE  /\ Client \in Conns
               /\ unread' \in 0..MaxInbox /\ serving' \in Fds /\ PhaseOK'
    <2>1. pc \in {"messages", "servinfo"} /\ unread \in 1..MaxInbox /\ Client \in Conns
      BY <1>a, ConstantsAssumption DEF Dispatch, Client
    <2>2. unread' \in 0..MaxInbox /\ serving' \in Fds
      BY <1>a, <2>1, FdsDiffer, ConstantsAssumption DEF next_message
    <2>3. PhaseOK'
      BY <1>a, <2>1 DEF next_message
    <2>. QED  BY <2>1, <2>2, <2>3
  <1>17. CASE dispatch_servinfo
    BY <1>17, <1>a DEF dispatch_servinfo, next_message
  <1>c. CASE servinfo_again
    BY <1>c DEF servinfo_again, Dispatch, Client
  <1>18. CASE spr16_server_register_sprite
    <2>1. stage' \in [Conns -> Stages] /\ recv_fd_wait' \subseteq Conns
      BY <1>18, <1>a DEF spr16_server_register_sprite
    <2>. QED  BY <1>18, <1>a, <2>1 DEF spr16_server_register_sprite, next_message
  <1>19. CASE handle_ack_send_fd
    BY <1>19, <1>a DEF handle_ack_send_fd, next_message
  <1>20. CASE handle_ack_established
    <2>1. Client \in Conns /\ Client \in Conns \cup {Free}
      BY <1>20, <1>a DEF handle_ack_established
    <2>2. screens' \in Seq(Conns \cup {Free})
      BY <1>20, <2>1, AppendSet DEF handle_ack_established
    <2>3. stage' \in [Conns -> Stages] /\ pending_clients' \subseteq Conns
      BY <1>20, <2>1 DEF handle_ack_established
    <2>. QED  BY <1>20, <1>a, <2>2, <2>3 DEF handle_ack_established, next_message
  <1>21. CASE spr16_server_sync
    BY <1>21, <1>a DEF spr16_server_sync, next_message
  <1>22. CASE dispatch_fails
    <2>1. HasData(serving) /\ serving \in Fds
      BY <1>22 DEF dispatch_fails, HasData
    <2>2. /\ UNCHANGED <<open, backlog, inbox, files, batch, hup, stage, recv_fd_wait, socket>>
          /\ full' = {} /\ unread' = 0 /\ serving' = 0 /\ pc' = "dispatch"
          /\ drop_client(serving)
      BY <1>22 DEF dispatch_fails
    <2>3. TypeOK'
      <3>1. /\ DOMAIN nodes' \subseteq Fds /\ nodes' \in [DOMAIN nodes' -> Conns]
            /\ count' \in Nat /\ drift' \in Nat
            /\ removals' \subseteq Fds /\ cb_data' \subseteq Conns
            /\ pending_clients' \subseteq Conns /\ screens' \in Seq(Conns \cup {Free})
            /\ sync_clients' \subseteq Conns /\ free_list' \subseteq Conns
            /\ dangling' = dangling
        BY <2>1, <2>2, DropTyped
      <3>2. unread' \in 0..MaxInbox /\ serving' \in Fds /\ pc' \in Phases
        BY <2>2, FdsDiffer, ConstantsAssumption
      <3>. QED  BY <2>2, <3>1, <3>2
    <2>4. PhaseOK'
      BY <2>2
    <2>. QED  BY <2>3, <2>4
  <1>23. CASE sync_loop
    BY <1>23 DEF sync_loop
  <1>24. CASE server_free_list
    BY <1>24, FdsDiffer, ConstantsAssumption DEF server_free_list
  <1>25. CASE crashed \/ UNCHANGED vars
    BY <1>25 DEF crashed
  <1>. QED
    BY <1>1, <1>2, <1>3, <1>4, <1>5, <1>6, <1>7, <1>8, <1>9, <1>10, <1>11, <1>12, <1>13,
       <1>14, <1>15, <1>16, <1>17, <1>18, <1>19, <1>20, <1>21, <1>22, <1>23, <1>24, <1>25,
       <1>b, <1>c
       DEF Next, Peers, Server, Poll, Listener, ClientCallback, Messaging
-----------------------------------------------------------------------------
(* The count of handlers.                                                  *)

LEMMA NodesFinite ==
  ASSUME TypeOK
  PROVE  IsFiniteSet(DOMAIN nodes) /\ Cardinality(DOMAIN nodes) \in Nat
  <1>1. IsFiniteSet(Fds)
    BY FS_Interval, ConstantsAssumption DEF Fds
  <1>2. DOMAIN nodes \in SUBSET Fds
    BY DEF TypeOK
  <1>. QED  BY <1>1, <1>2, FS_Subset, FS_CardinalityType

\* A removal keeps count + drift - (length of the list) what it is.
LEMMA RemovalCounted ==
  ASSUME TypeOK, CountDrift, NEW f \in Fds, fdpoll_handler_remove(f)
  PROVE  CountDrift'
  <1>1. CASE count = 0
    BY <1>1 DEF fdpoll_handler_remove, CountDrift
  <1>2. CASE count # 0
    <2>1. DOMAIN nodes' = DOMAIN nodes \ {f}
      BY <1>2 DEF fdpoll_handler_remove
    <2>2. Cardinality(DOMAIN nodes') = IF f \in DOMAIN nodes
                                       THEN Cardinality(DOMAIN nodes) - 1
                                       ELSE Cardinality(DOMAIN nodes)
      BY <2>1, NodesFinite, FS_RemoveElement
    <2>3. Cardinality(DOMAIN nodes) \in Nat /\ count \in Nat /\ drift \in Nat /\ Others \in Nat
      BY NodesFinite, ConstantsAssumption DEF TypeOK
    <2>4. count' = count - 1
          /\ drift' = IF f \in DOMAIN nodes THEN drift ELSE drift + 1
      BY <1>2 DEF fdpoll_handler_remove
    <2>. QED  BY <2>2, <2>3, <2>4 DEF CountDrift
  <1>. QED  BY <1>1, <1>2

LEMMA DropCounted ==
  ASSUME TypeOK, CountDrift, NEW f \in Fds, drop_client(f)
  PROVE  CountDrift'
  BY RemovalCounted DEF drop_client, remove_shown, remove_pending, remove_unknown, CountDrift

LEMMA CountStep == TypeInv /\ CountDrift /\ [Next]_vars => CountDrift'
  <1>. SUFFICES ASSUME TypeInv, CountDrift, [Next]_vars  PROVE CountDrift'
    OBVIOUS
  <1>. USE DEF TypeInv
  <1>1. CASE UNCHANGED fdpoll
    BY <1>1 DEF fdpoll, CountDrift
  <1>2. ASSUME NEW f \in Fds, queued_removal(f)  PROVE CountDrift'
    BY <1>2, RemovalCounted DEF queued_removal
  <1>3. CASE listener_callback
    <2>1. PICK f \in Fds : f \notin DOMAIN nodes /\ server_addclient(f, Head(backlog))
      BY <1>3 DEF listener_callback
    <2>2. DOMAIN nodes' = DOMAIN nodes \cup {f} /\ count' = count + 1 /\ drift' = drift
      BY <1>3, <2>1 DEF server_addclient, listener_callback
    <2>3. Cardinality(DOMAIN nodes') = Cardinality(DOMAIN nodes) + 1
      BY <2>1, <2>2, NodesFinite, FS_AddElement
    <2>4. Cardinality(DOMAIN nodes) \in Nat /\ count \in Nat /\ drift \in Nat /\ Others \in Nat
      BY NodesFinite, ConstantsAssumption DEF TypeOK
    <2>. QED  BY <2>2, <2>3, <2>4 DEF CountDrift
  <1>4. ASSUME NEW f \in Fds, client_callback_hup(f) \/ client_callback_read_fails(f)
        PROVE  CountDrift'
    BY <1>4, DropCounted DEF client_callback_hup, client_callback_read_fails
  <1>5. CASE dispatch_fails
    BY <1>5, DropCounted DEF dispatch_fails, TypeOK
  <1>6. ASSUME NEW c \in Conns, connect(c) \/ client_write(c) \/ client_read(c) \/ client_close(c)
        PROVE  UNCHANGED fdpoll
    BY <1>6 DEF connect, client_write, client_read, client_close
  <1>7. ASSUME epoll_wait \/ begin_removals \/ end_poll \/ accept_fails
               \/ listener_rejects \/ listener_leaves_dangling
        PROVE  UNCHANGED fdpoll
    BY <1>7 DEF epoll_wait, begin_removals, end_poll, accept_fails, listener_rejects,
                listener_leaves_dangling
  <1>8. ASSUME NEW f \in Fds, client_callback_read(f) \/ client_callback_stale(f)
        PROVE  UNCHANGED fdpoll
    BY <1>8 DEF client_callback_read, client_callback_stale
  <1>a. CASE walk_meets_freed \/ servinfo_again
    BY <1>1, <1>a DEF walk_meets_freed, servinfo_again
  <1>9. ASSUME dispatch_servinfo \/ spr16_server_register_sprite \/ handle_ack_send_fd
               \/ handle_ack_established \/ spr16_server_sync
        PROVE  UNCHANGED fdpoll
    BY <1>9 DEF dispatch_servinfo, spr16_server_register_sprite, handle_ack_send_fd,
                handle_ack_established, spr16_server_sync, next_message
  <1>10. ASSUME hotkey_callback \/ sync_loop \/ server_free_list \/ crashed \/ UNCHANGED vars
         PROVE  UNCHANGED fdpoll
    BY <1>10 DEF hotkey_callback, sync_loop, server_free_list, crashed, vars
  <1>. QED
    BY <1>1, <1>2, <1>3, <1>4, <1>5, <1>6, <1>7, <1>8, <1>9, <1>10, <1>a
       DEF Next, Peers, Server, Poll, Listener, ClientCallback, Messaging

LEMMA InitTyped == Init => TypeInv /\ CountDrift
  <1>. SUFFICES ASSUME Init  PROVE TypeInv /\ CountDrift
    OBVIOUS
  <1>1. DOMAIN nodes = {} /\ Cardinality(DOMAIN nodes) = 0
    BY FS_EmptySet DEF Init
  <1>2. CountDrift
    BY <1>1, ConstantsAssumption DEF Init, CountDrift
  <1>3. backlog \in Seq(Conns) /\ screens \in Seq(Conns \cup {Free})
    BY EmptySeq DEF Init
  <1>. QED  BY <1>1, <1>2, <1>3, FdsDiffer, ConstantsAssumption
            DEF Init, TypeInv, TypeOK, PhaseOK, Phases, Stages

\* Every variable of the server stays in its domain: fdpoll's unsigned count
\* does not go below zero, the buffer and the descriptor table are used within
\* their limits, whatever the peers do.
THEOREM TypeCorrect == Spec => []TypeOK
  <1>1. Init => TypeInv
    BY InitTyped
  <1>2. TypeInv => TypeOK
    BY DEF TypeInv
  <1>. QED  BY <1>1, <1>2, TypeStep, PTL DEF Spec

\* fdpoll_handler.count is wrong by exactly the number of removals that were
\* counted without removing a handler.
THEOREM CountAccounted == Spec => []CountDrift
  BY InitTyped, TypeStep, CountStep, PTL DEF Spec
-----------------------------------------------------------------------------
(* The inductive invariant.  While the server is healthy, every live client *)
(* has its handler and every handler its client; the point of the invariant *)
(* is Retired: a client that was removed keeps its descriptor open and out  *)
(* of the handler table until the queued removals are over, so that neither *)
(* accept4 nor the second removal can meet another client there.            *)

Retired ==
  /\ \A f \in removals : \E c \in free_list : socket[c] = f
  /\ \A c \in free_list : files[socket[c]] = c /\ socket[c] \notin DOMAIN nodes

SocketsOwned ==
  \A f \in Fds : files[f] \in Conns =>
    files[f] \in Live \cup free_list /\ socket[files[f]] = f

BacklogFresh == Distinct(backlog) /\ \A c \in ToSet(backlog) : stage[c] = "none"

EventsHandled ==
  /\ batch \cap Fds \subseteq DOMAIN nodes
  /\ pc \in {"messages", "servinfo"} => serving \notin batch

Core == OwnedOnce /\ HandlersOfLive /\ Retired /\ SocketsOwned /\ BacklogFresh /\ EventsHandled

HealthInv == Healthy => Core

\* While the server is healthy, count is positive.
LEMMA CountPositive ==
  ASSUME TypeOK, CountDrift, Healthy  PROVE count > 0
  <1>1. /\ count \in Nat /\ drift \in Nat /\ Others \in Nat
        /\ Cardinality(DOMAIN nodes) \in Nat
    BY NodesFinite, ConstantsAssumption DEF TypeOK
  <1>. QED  BY <1>1 DEF CountDrift, Healthy

\* Dropping a healthy client succeeds, and moves it to free_list.
LEMMA DropHealthy ==
  ASSUME TypeInv, CountDrift, Healthy, Core, NEW f \in Fds, HasData(f), drop_client(f)
  PROVE  LET c == nodes[f] IN
         /\ c \in Live /\ socket[c] = f /\ files[f] = c
         /\ Live' = Live \ {c} /\ free_list' = free_list \cup {c}
         /\ pending_clients' = pending_clients \ {c}
         /\ Shown' = Shown \ {c} /\ Distinct(screens')
         /\ nodes' = [g \in DOMAIN nodes \ {f} |-> nodes[g]]
         /\ drift' = drift /\ cb_data' = cb_data \ {c}
         /\ removals' \subseteq removals \cup {f}
  <1>. DEFINE c == nodes[f]
  <1>1. /\ c \in Conns /\ c \in Live /\ socket[c] = f /\ files[f] = c /\ f \in DOMAIN nodes
    BY DEF HasData, Core, HandlersOfLive, TypeInv, TypeOK
  <1>2. count > 0 /\ remove_succeeds(f)
    BY <1>1, CountPositive DEF remove_succeeds, Watched, TypeInv
  <1>3. fdpoll_handler_remove(f) => /\ nodes' = [g \in DOMAIN nodes \ {f} |-> nodes[g]]
                                    /\ drift' = drift
    BY <1>1, <1>2 DEF fdpoll_handler_remove
  <1>4. cb_data' = cb_data \ {c} /\ removals' \subseteq removals \cup {f}
    BY DEF drop_client
  <1>5. PICK failed \in BOOLEAN : \/ remove_shown(f, c, failed)
                                  \/ remove_pending(f, c, failed)
                                  \/ remove_unknown(f, c, failed)
    BY DEF drop_client
  <1>6. screens \in Seq(Conns \cup {Free}) /\ Distinct(screens) /\ pending_clients \cap Shown = {}
    BY DEF TypeInv, TypeOK, Core, OwnedOnce, Distinct
  <1>7. CASE remove_shown(f, c, failed)
    <2>1. PICK i \in DOMAIN screens :
            /\ screens[i] = c
            /\ fdpoll_handler_remove(f)
            /\ screens' = RemoveAt(screens, i)
            /\ free_list' = free_list \cup {c}
      BY <1>2, <1>7 DEF remove_shown
    <2>2. ToSet(screens') = ToSet(screens) \ {c} /\ Distinct(screens')
      BY <1>6, <2>1, RemoveSet
    <2>3. c \in Shown /\ pending_clients' = pending_clients
      BY <1>7, <2>1 DEF Shown, ToSet, remove_shown
    <2>. QED  BY <1>1, <1>3, <1>4, <1>6, <2>1, <2>2, <2>3 DEF Live, Shown
  <1>8. CASE remove_pending(f, c, failed)
    BY <1>1, <1>2, <1>3, <1>4, <1>6, <1>8 DEF remove_pending, Live, Shown
  <1>9. CASE remove_unknown(f, c, failed)
    BY <1>1, <1>9 DEF remove_unknown
  <1>. QED  BY <1>5, <1>7, <1>8, <1>9

\* The parts of the invariant survive the drop of a client.
LEMMA DropKeeps ==
  ASSUME TypeInv, CountDrift, Healthy, Core, NEW f \in Fds, HasData(f), drop_client(f),
         UNCHANGED <<files, stage, socket, backlog>>,
         batch' \subseteq batch \ {f}, pc' \notin {"messages", "servinfo"}
  PROVE  Core'
  <1>. DEFINE c == nodes[f]
  <1>1. /\ c \in Live /\ socket[c] = f /\ files[f] = c
        /\ Live' = Live \ {c} /\ free_list' = free_list \cup {c}
        /\ pending_clients' = pending_clients \ {c}
        /\ Shown' = Shown \ {c} /\ Distinct(screens')
        /\ nodes' = [g \in DOMAIN nodes \ {f} |-> nodes[g]]
        /\ cb_data' = cb_data \ {c}
        /\ removals' \subseteq removals \cup {f}
    BY DropHealthy
  <1>2. DOMAIN nodes' = DOMAIN nodes \ {f} /\ \A g \in DOMAIN nodes' : nodes'[g] = nodes[g]
    BY <1>1
  <1>3. \A g \in DOMAIN nodes : nodes[g] = c => g = f
    BY <1>1 DEF Core, HandlersOfLive
  <1>4. OwnedOnce'
    BY <1>1 DEF Core, OwnedOnce, Allocated, Distinct
  <1>5. HandlersOfLive'
    <2>1. \A g \in DOMAIN nodes' :
             socket'[nodes'[g]] = g /\ files'[g] = nodes'[g] /\ nodes'[g] \in cb_data'
      BY <1>1, <1>2, <1>3 DEF Core, HandlersOfLive
    <2>2. {nodes'[g] : g \in DOMAIN nodes'} = Live'
      BY <1>1, <1>2, <1>3 DEF Core, HandlersOfLive
    <2>. QED  BY <2>1, <2>2 DEF HandlersOfLive
  <1>6. Retired'
    BY <1>1, <1>2 DEF Core, Retired
  <1>7. SocketsOwned'
    BY <1>1 DEF Core, SocketsOwned
  <1>8. BacklogFresh' /\ EventsHandled'
    BY <1>2 DEF Core, BacklogFresh, EventsHandled
  <1>. QED  BY <1>4, <1>5, <1>6, <1>7, <1>8 DEF Core
\* Health is never regained.
LEMMA HealthyBefore ==
  ASSUME TypeInv, [Next]_vars, Healthy'
  PROVE  Healthy
  <1>1. drift \in Nat /\ Others \in Nat /\ 0 \in Fds /\ Own # Free /\ Own \notin Conns
    BY FdsDiffer, ConstantsAssumption DEF TypeInv, TypeOK
  <1>2. ASSUME UNCHANGED <<drift, files, dangling>>  PROVE Healthy
    BY <1>2 DEF Healthy
  <1>3. ASSUME NEW f \in Fds, fdpoll_handler_remove(f)  PROVE drift' \in Nat /\ drift <= drift'
    BY <1>1, <1>3 DEF fdpoll_handler_remove
  <1>4. ASSUME NEW f \in Fds, drop_client(f)
        PROVE  drift' \in Nat /\ drift <= drift' /\ dangling' = dangling
    BY <1>1, <1>3, <1>4 DEF drop_client, remove_shown, remove_pending, remove_unknown, lists
  <1>5. ASSUME drift' \in Nat, drift <= drift', files' = files, dangling' = dangling
        PROVE  Healthy
    BY <1>1, <1>5 DEF Healthy
  <1>6. ASSUME NEW f \in Fds, queued_removal(f)  PROVE Healthy
    BY <1>3, <1>5, <1>6 DEF queued_removal, kernel, lists
  <1>7. CASE listener_callback
    <2>1. backlog # <<>> /\ Head(backlog) \in Conns
      BY <1>7, HeadTailProperties DEF listener_callback, Callback, TypeInv, TypeOK, PhaseOK
    <2>. QED  BY <1>1, <1>7, <2>1 DEF listener_callback, server_addclient, Healthy, TypeInv, TypeOK
  <1>8. CASE listener_rejects
    <2>1. drift' = drift /\ dangling' = dangling
      BY <1>8 DEF listener_rejects, fdpoll, lists
    <2>2. files' = files \/ files'[0] = Free
      BY <1>1, <1>8 DEF listener_rejects, TypeInv, TypeOK
    <2>. QED  BY <1>1, <2>1, <2>2 DEF Healthy
  <1>9. ASSUME NEW f \in Fds, client_callback_hup(f) \/ client_callback_read_fails(f)
        PROVE  Healthy
    BY <1>4, <1>5, <1>9 DEF client_callback_hup, client_callback_read_fails, kernel
  <1>10. CASE dispatch_fails
    BY <1>4, <1>5, <1>10 DEF dispatch_fails, kernel, TypeInv, TypeOK
  <1>11. CASE server_free_list
    BY <1>1, <1>11 DEF server_free_list, fdpoll, Healthy, TypeInv, TypeOK
  <1>12. ASSUME NEW c \in Conns, connect(c) \/ client_write(c) \/ client_read(c) \/ client_close(c)
         PROVE  Healthy
    BY <1>2, <1>12 DEF connect, client_write, client_read, client_close, fdpoll, lists
  <1>13. ASSUME epoll_wait \/ begin_removals \/ end_poll \/ accept_fails
         PROVE  Healthy
    BY <1>2, <1>13 DEF epoll_wait, begin_removals, end_poll, accept_fails, fdpoll, kernel, lists
  <1>14. ASSUME NEW f \in Fds, client_callback_read(f) \/ client_callback_stale(f)
         PROVE  Healthy
    BY <1>2, <1>14 DEF client_callback_read, client_callback_stale, fdpoll, kernel, lists
  <1>15. ASSUME dispatch_servinfo \/ spr16_server_register_sprite \/ handle_ack_send_fd
                \/ handle_ack_established \/ spr16_server_sync
         PROVE  Healthy
    BY <1>2, <1>15 DEF dispatch_servinfo, spr16_server_register_sprite, handle_ack_send_fd,
                       handle_ack_established, spr16_server_sync, next_message, fdpoll, kernel,
                       lists
  <1>16. ASSUME hotkey_callback \/ sync_loop \/ crashed \/ UNCHANGED vars
         PROVE  Healthy
    BY <1>2, <1>16 DEF hotkey_callback, sync_loop, crashed, vars, fdpoll, kernel, lists
  <1>17. ASSUME walk_meets_freed \/ servinfo_again  PROVE Healthy
    BY <1>2, <1>17 DEF walk_meets_freed, servinfo_again, fdpoll, kernel, lists
  <1>18. CASE listener_leaves_dangling
    BY <1>18 DEF listener_leaves_dangling, Healthy
  <1>. QED
    BY <1>6, <1>7, <1>8, <1>9, <1>10, <1>11, <1>12, <1>13, <1>14, <1>15, <1>16, <1>17, <1>18
       DEF Next, Peers, Server, Poll, Listener, ClientCallback, Messaging

\* A healthy server does not meet an accepted descriptor that is still in use.
LEMMA FreeIsFresh ==
  ASSUME TypeInv, Core, NEW f \in Fds, files[f] = Free
  PROVE  /\ f \notin DOMAIN nodes /\ f \notin removals
         /\ ~server_getclient(f)
         /\ \A c \in Live \cup free_list : socket[c] # f
  <1>1. \A c \in Live : c \in Conns /\ files[socket[c]] = c
    BY DEF Core, HandlersOfLive, TypeInv, TypeOK
  <1>2. \A c \in free_list : c \in Conns /\ files[socket[c]] = c
    BY DEF Core, Retired, TypeInv, TypeOK
  <1>3. Free \notin Conns
    BY ConstantsAssumption
  <1>4. f \notin DOMAIN nodes
    BY <1>3 DEF Core, HandlersOfLive, TypeInv, TypeOK
  <1>5. \A c \in Live \cup free_list : socket[c] # f
    BY <1>1, <1>2, <1>3
  <1>. QED  BY <1>4, <1>5 DEF Core, Retired, server_getclient, on_screen, Live

\* accept4: the new client gets a descriptor nobody else has.
LEMMA AcceptKeeps ==
  ASSUME TypeInv, Core, listener_callback
  PROVE  Core'
  <1>. DEFINE c == Head(backlog)
  <1>1. PICK f \in Fds : files[f] = Free /\ server_addclient(f, c)
    BY DEF listener_callback, LowestFree
  <1>2. /\ backlog \in Seq(Conns) /\ backlog # <<>> /\ c \in Conns
        /\ ToSet(backlog) = {c} \cup ToSet(Tail(backlog))
        /\ Distinct(Tail(backlog)) /\ c \notin ToSet(Tail(backlog))
    BY TailSet DEF listener_callback, Callback, TypeInv, TypeOK, PhaseOK, Core, BacklogFresh
  <1>3. stage[c] = "none" /\ c \notin Live /\ c \notin free_list
    BY <1>2 DEF Core, BacklogFresh, OwnedOnce, Allocated
  <1>4. f \notin DOMAIN nodes /\ f \notin removals /\ \A d \in Live \cup free_list : socket[d] # f
    BY <1>1, FreeIsFresh
  <1>5. /\ screens' = screens /\ free_list' = free_list /\ removals' = removals
        /\ pending_clients' = pending_clients \cup {c} /\ Shown' = Shown
        /\ Live' = Live \cup {c}
    BY <1>1 DEF listener_callback, server_addclient, Live, Shown
  <1>6. /\ files' = [files EXCEPT ![f] = c] /\ stage' = [stage EXCEPT ![c] = "new"]
        /\ socket' = [socket EXCEPT ![c] = f] /\ cb_data' = cb_data \cup {c}
        /\ DOMAIN nodes' = DOMAIN nodes \cup {f} /\ nodes'[f] = c
        /\ \A g \in DOMAIN nodes : nodes'[g] = nodes[g]
    BY <1>1, <1>4 DEF server_addclient
  <1>7. \A d \in Live \cup free_list : d \in Conns /\ d # c /\ socket'[d] = socket[d]
    BY <1>2, <1>3, <1>6 DEF Core, OwnedOnce, Allocated, TypeInv, TypeOK
  <1>8. OwnedOnce'
    <2>1. Allocated' = Allocated \cup {c}
      BY <1>2, <1>6 DEF Allocated, TypeInv, TypeOK
    <2>2. \A d \in pending_clients' : stage'[d] \in {"new", "handshaking"}
      BY <1>2, <1>5, <1>6 DEF Core, OwnedOnce, TypeInv, TypeOK
    <2>3. \A d \in Shown' : stage'[d] = "connected"
      BY <1>2, <1>5, <1>6, <1>7 DEF Core, OwnedOnce, TypeInv, TypeOK, Live
    <2>. QED  BY <1>3, <1>5, <2>1, <2>2, <2>3 DEF Core, OwnedOnce, Live
  <1>9. HandlersOfLive'
    <2>1. \A g \in DOMAIN nodes : g # f /\ nodes[g] \in Live
      BY <1>4 DEF Core, HandlersOfLive
    <2>2. \A g \in DOMAIN nodes' :
             socket'[nodes'[g]] = g /\ files'[g] = nodes'[g] /\ nodes'[g] \in cb_data'
      BY <1>2, <1>6, <1>7, <2>1 DEF Core, HandlersOfLive, TypeInv, TypeOK
    <2>3. {nodes'[g] : g \in DOMAIN nodes'} = Live'
      BY <1>5, <1>6, <2>1 DEF Core, HandlersOfLive
    <2>. QED  BY <2>2, <2>3 DEF HandlersOfLive
  <1>10. Retired'
    BY <1>4, <1>5, <1>6, <1>7 DEF Core, Retired
  <1>11. SocketsOwned'
    BY <1>2, <1>5, <1>6, <1>7 DEF Core, SocketsOwned, TypeInv, TypeOK
  <1>12. BacklogFresh'
    <2>1. backlog' = Tail(backlog)
      BY DEF listener_callback
    <2>2. \A d \in ToSet(backlog') : stage'[d] = "none"
      BY <1>2, <1>6, <2>1, SeqElements, TailSet DEF Core, BacklogFresh, TypeInv, TypeOK
    <2>. QED  BY <1>2, <2>1, <2>2 DEF BacklogFresh
  <1>13. EventsHandled'
    BY <1>6 DEF Core, EventsHandled, listener_callback, Handled, Callback
  <1>. QED  BY <1>8, <1>9, <1>10, <1>11, <1>12, <1>13 DEF Core
\* server_free_list: after the batch, descriptors of retired clients go.
LEMMA FreeListKeeps ==
  ASSUME TypeInv, Core, server_free_list
  PROVE  Core'
  <1>1. /\ removals = {} /\ batch = {} /\ pc' = "wait" /\ free_list' = {}
        /\ UNCHANGED <<backlog, nodes, batch, removals, cb_data, pending_clients, screens>>
    BY DEF server_free_list, TypeInv, PhaseOK, fdpoll
  <1>2. /\ \A c \in Conns : c \in free_list => stage'[c] = "none"
        /\ \A c \in Conns \ free_list : stage'[c] = stage[c] /\ socket'[c] = socket[c]
        /\ \A f \in Fds : files'[f] = files[f] \/ files'[f] = Free
        /\ \A f \in Fds : files'[f] \in Conns => files[f] \notin free_list
    BY ConstantsAssumption DEF server_free_list, Core, SocketsOwned
  <1>3. Live' = Live /\ Shown' = Shown /\ pending_clients' = pending_clients
    BY <1>1 DEF Live, Shown
  <1>4. \A c \in Live : c \in Conns \ free_list
    BY DEF Core, OwnedOnce, Allocated
  <1>5. OwnedOnce'
    <2>1. Allocated' = Allocated \ free_list
      BY <1>2 DEF Allocated
    <2>. QED  BY <1>1, <1>2, <1>3, <1>4, <2>1 DEF Core, OwnedOnce, Live
  <1>6. HandlersOfLive'
    <2>1. \A f \in DOMAIN nodes : nodes[f] \in Live /\ f \in Fds
      BY DEF Core, HandlersOfLive, TypeInv, TypeOK
    <2>2. \A f \in DOMAIN nodes : files'[f] = nodes[f]
      BY <1>4, <2>1 DEF server_free_list, Core, HandlersOfLive
    <2>. QED  BY <1>1, <1>2, <1>3, <1>4, <2>1, <2>2 DEF Core, HandlersOfLive
  <1>7. Retired' /\ EventsHandled'
    BY <1>1 DEF Retired, EventsHandled
  <1>8. SocketsOwned'
    <2>. SUFFICES ASSUME NEW f \in Fds, files'[f] \in Conns
                  PROVE  files'[f] \in Live' /\ socket'[files'[f]] = f
      BY DEF SocketsOwned
    <2>1. files'[f] = files[f] /\ files[f] \in Live
      BY <1>2, ConstantsAssumption DEF Core, SocketsOwned
    <2>. QED  BY <1>2, <1>3, <1>4, <2>1 DEF Core, SocketsOwned
  <1>9. BacklogFresh'
    <2>1. \A c \in ToSet(backlog) : c \in Conns /\ stage[c] = "none"
      BY SeqElements DEF Core, BacklogFresh, TypeInv, TypeOK
    <2>. QED  BY <1>1, <1>2, <2>1 DEF Core, BacklogFresh
  <1>. QED  BY <1>5, <1>6, <1>7, <1>8, <1>9 DEF Core

\* The end of the handshake moves the client from pending to the last screen.
LEMMA EstablishedKeeps ==
  ASSUME TypeInv, Core, handle_ack_established
  PROVE  Core'
  <1>1. /\ Client \in Conns /\ Client \in pending_clients /\ pc = "messages"
        /\ screens \in Seq(Conns \cup {Free}) /\ Client \in Conns \cup {Free}
    BY DEF handle_ack_established, Dispatch, accepts, Client, TypeInv, TypeOK, PhaseOK
  <1>2. Client \notin Shown
    BY <1>1 DEF Core, OwnedOnce
  <1>3. Shown' = Shown \cup {Client} /\ Distinct(screens')
    BY <1>1, <1>2, AppendSet DEF handle_ack_established, Shown, Core, OwnedOnce, Distinct
  <1>4. Live' = Live
    BY <1>1, <1>3 DEF Live, handle_ack_established
  <1>5. /\ pending_clients' = pending_clients \ {Client}
        /\ stage' = [stage EXCEPT ![Client] = "connected"]
        /\ UNCHANGED <<files, backlog, nodes, batch, removals, socket, cb_data, free_list>>
    BY DEF handle_ack_established, next_message, kernel, fdpoll
  <1>6. OwnedOnce'
    <2>1. Allocated' = Allocated
      BY <1>1, <1>5 DEF Allocated, Core, OwnedOnce, TypeInv, TypeOK
    <2>2. \A c \in Live : c \in Conns
      BY DEF Core, OwnedOnce, Allocated
    <2>. QED  BY <1>1, <1>2, <1>3, <1>4, <1>5, <2>1, <2>2
              DEF Core, OwnedOnce, TypeInv, TypeOK, Live, Distinct
  <1>7. HandlersOfLive'
    BY <1>4, <1>5 DEF Core, HandlersOfLive
  <1>8. Retired' /\ SocketsOwned'
    BY <1>4, <1>5 DEF Core, Retired, SocketsOwned
  <1>9. BacklogFresh'
    <2>1. Client \in Conns /\ stage[Client] # "none" /\ stage \in [Conns -> Stages]
      BY <1>1 DEF OwnedOnce, Core, TypeInv, TypeOK
    <2>2. \A c \in ToSet(backlog) : c \in Conns /\ stage[c] = "none"
      BY SeqElements DEF Core, BacklogFresh, TypeInv, TypeOK
    <2>. QED  BY <1>5, <2>1, <2>2 DEF Core, BacklogFresh
  <1>10. EventsHandled'
    BY <1>1, <1>5 DEF Core, EventsHandled, handle_ack_established, next_message
  <1>. QED  BY <1>6, <1>7, <1>8, <1>9, <1>10 DEF Core

\* Rotating the screens loses none of them.
LEMMA HotkeyKeeps ==
  ASSUME TypeInv, Core, hotkey_callback
  PROVE  Core'
  <1>1. /\ pending_clients' = pending_clients /\ batch' \subseteq batch
        /\ UNCHANGED <<files, backlog, nodes, removals, pc, serving, stage, socket, cb_data, free_list>>
    BY DEF hotkey_callback, Handled, kernel, fdpoll, clients
  <1>2. Shown' = Shown /\ Distinct(screens')
    <2>1. CASE screens' = screens
      BY <2>1 DEF Shown, Core, OwnedOnce, Distinct
    <2>2. CASE Len(screens) > 1 /\ screens' = Append(Tail(screens), Head(screens))
      <3>1. screens # <<>> /\ screens \in Seq(Conns \cup {Free}) /\ Distinct(screens)
        BY <2>2, EmptySeq DEF TypeInv, TypeOK, Core, OwnedOnce, Distinct
      <3>2. ToSet(screens') = ToSet(screens) /\ Distinct(screens')
        BY <2>2, <3>1, RotateSet
      <3>. QED  BY <3>2 DEF Shown
    <2>. QED  BY <2>1, <2>2 DEF hotkey_callback
  <1>3. Live' = Live
    BY <1>1, <1>2 DEF Live
  <1>. QED  BY <1>1, <1>2, <1>3
            DEF Core, OwnedOnce, Allocated, Distinct, HandlersOfLive, Retired, SocketsOwned,
                BacklogFresh, EventsHandled

\* A peer connects: its record was released before.
LEMMA ConnectKeeps ==
  ASSUME TypeInv, Core, NEW c \in Conns, connect(c)
  PROVE  Core'
  <1>1. /\ c \notin ToSet(backlog) /\ stage[c] = "none" /\ backlog \in Seq(Conns)
        /\ backlog' = Append(backlog, c)
        /\ UNCHANGED <<files, nodes, batch, removals, pc, serving, stage, socket, cb_data,
                       pending_clients, screens, free_list>>
    BY DEF connect, Attached, TypeInv, TypeOK, fdpoll, loop, clients, lists
  <1>2. BacklogFresh'
    BY <1>1, AppendSet DEF Core, BacklogFresh
  <1>. QED  BY <1>1, <1>2
            DEF Core, OwnedOnce, Allocated, Shown, Live, HandlersOfLive, Retired, SocketsOwned,
                EventsHandled

\* Steps that change none of the records, lists, handlers and descriptors.
LEMMA QuietKeeps ==
  ASSUME Core,
         UNCHANGED <<files, backlog, nodes, removals, stage, socket, cb_data,
                     pending_clients, screens, free_list>>,
         EventsHandled'
  PROVE  Core'
  BY DEF Core, OwnedOnce, Allocated, Shown, Live, HandlersOfLive, Retired, SocketsOwned,
         BacklogFresh

LEMMA HealthStep == TypeInv /\ CountDrift /\ HealthInv /\ [Next]_vars => HealthInv'
  <1>. SUFFICES ASSUME TypeInv, CountDrift, HealthInv, [Next]_vars, Healthy'
                PROVE  Core'
    BY DEF HealthInv
  <1>1. Healthy /\ Core
    BY HealthyBefore DEF HealthInv
  <1>2. ASSUME NEW c \in Conns, connect(c)  PROVE Core'
    BY <1>1, <1>2, ConnectKeeps
  <1>3. ASSUME NEW c \in Conns, client_write(c) \/ client_read(c) \/ client_close(c)
        PROVE  Core'
    BY <1>1, <1>3, QuietKeeps
       DEF client_write, client_read, client_close, fdpoll, loop, clients, lists, Core, EventsHandled
  <1>4. CASE epoll_wait
    BY <1>1, <1>4, QuietKeeps, FdsDiffer
       DEF epoll_wait, kernel, fdpoll, clients, lists, EventsHandled
  <1>5. CASE begin_removals \/ end_poll \/ sync_loop
    BY <1>1, <1>5, QuietKeeps
       DEF begin_removals, end_poll, sync_loop, kernel, fdpoll, clients, lists, Core, EventsHandled
  <1>6. ASSUME NEW f \in Fds, queued_removal(f)  PROVE Core'
    <2>1. f \notin DOMAIN nodes
      BY <1>1, <1>6 DEF Core, Retired, queued_removal
    <2>2. nodes' = nodes
      <3>1. nodes = [g \in DOMAIN nodes |-> nodes[g]]
        BY DEF TypeInv, TypeOK
      <3>2. DOMAIN nodes \ {f} = DOMAIN nodes
        BY <2>1
      <3>3. \/ nodes' = nodes
            \/ nodes' = [g \in DOMAIN nodes \ {f} |-> nodes[g]]
        BY <1>6 DEF queued_removal, fdpoll_handler_remove
      <3>. QED  BY ONLY <3>1, <3>2, <3>3
    <2>3. /\ removals' \subseteq removals
          /\ UNCHANGED <<files, backlog, batch, pc, serving, stage, socket, cb_data,
                         pending_clients, screens, free_list>>
      BY <1>6 DEF queued_removal, kernel, clients, lists
    <2>. QED  BY <1>1, <2>2, <2>3
              DEF Core, OwnedOnce, Allocated, Shown, Live, HandlersOfLive, Retired,
                  SocketsOwned, BacklogFresh, EventsHandled
  <1>7. CASE accept_fails
    BY <1>1, <1>7, QuietKeeps
       DEF accept_fails, Callback, Handled, kernel, fdpoll, clients, lists, Core, EventsHandled
  <1>a. CASE listener_leaves_dangling
    BY <1>a DEF listener_leaves_dangling, Healthy
  <1>b. CASE walk_meets_freed
    BY <1>1, <1>b DEF walk_meets_freed, reads_freed, Healthy
  <1>c. CASE servinfo_again
    BY <1>1, <1>c, QuietKeeps
       DEF servinfo_again, Dispatch, kernel, fdpoll, clients, lists, Core, EventsHandled
  <1>8. CASE listener_callback
    BY <1>1, <1>8, AcceptKeeps
  <1>9. CASE listener_rejects
    <2>1. PICK f \in Fds :
            /\ files[f] = Free
            /\ \/ server_getclient(f)
               \/ files' = [files EXCEPT ![0] = Free]
      BY <1>9 DEF listener_rejects, LowestFree
    <2>2. ~server_getclient(f)
      BY <1>1, <2>1, FreeIsFresh
    <2>3. files'[0] = Free
      BY <2>1, <2>2, FdsDiffer DEF TypeInv, TypeOK
    <2>. QED  BY <2>3, ConstantsAssumption DEF Healthy
  <1>10. ASSUME NEW f \in Fds, client_callback_hup(f) \/ client_callback_read_fails(f)
         PROVE  Core'
    BY <1>1, <1>10, DropKeeps
       DEF client_callback_hup, client_callback_read_fails, Callback, Handled, kernel
  <1>11. ASSUME NEW f \in Fds, client_callback_read(f) \/ client_callback_stale(f)
         PROVE  Core'
    BY <1>1, <1>11, QuietKeeps
       DEF client_callback_read, client_callback_stale, Callback, Handled, kernel, fdpoll,
           clients, lists, Core, EventsHandled
  <1>12. CASE hotkey_callback
    BY <1>1, <1>12, HotkeyKeeps
  <1>13. CASE dispatch_servinfo \/ handle_ack_send_fd \/ spr16_server_sync
    BY <1>1, <1>13, QuietKeeps
       DEF dispatch_servinfo, handle_ack_send_fd, spr16_server_sync, Dispatch, next_message,
           kernel, fdpoll, lists, Core, EventsHandled
  <1>14. CASE spr16_server_register_sprite
    <2>1. /\ Client \in Conns /\ stage[Client] = "new"
          /\ stage' = [stage EXCEPT ![Client] = "handshaking"]
          /\ UNCHANGED <<files, backlog, nodes, removals, socket, cb_data, batch,
                         pending_clients, screens, free_list>>
      BY <1>14 DEF spr16_server_register_sprite, Dispatch, accepts, next_message, kernel,
                   fdpoll, lists, Client, TypeInv, TypeOK, PhaseOK
    <2>2. Allocated' = Allocated
      BY <2>1 DEF Allocated, TypeInv, TypeOK
    <2>3. OwnedOnce'
      BY <1>1, <2>1, <2>2 DEF Core, OwnedOnce, Allocated, Live, Shown, TypeInv, TypeOK
    <2>4. BacklogFresh'
      BY <1>1, <2>1 DEF Core, BacklogFresh, TypeInv, TypeOK
    <2>5. EventsHandled'
      BY <1>1, <1>14, <2>1 DEF Core, EventsHandled, spr16_server_register_sprite, Dispatch, next_message
    <2>. QED  BY <1>1, <2>1, <2>3, <2>4, <2>5
              DEF Core, HandlersOfLive, Retired, SocketsOwned, Live, Shown
  <1>15. CASE handle_ack_established
    BY <1>1, <1>15, EstablishedKeeps
  <1>16. CASE dispatch_fails
    <2>1. HasData(serving) /\ serving \in Fds /\ pc \in {"messages", "servinfo"}
      BY <1>16 DEF dispatch_fails, HasData, TypeInv, TypeOK, PhaseOK
    <2>2. batch' \subseteq batch \ {serving} /\ pc' \notin {"messages", "servinfo"}
      BY <1>1, <1>16, <2>1 DEF dispatch_fails, Core, EventsHandled
    <2>. QED  BY <1>1, <1>16, <2>1, <2>2, DropKeeps DEF dispatch_fails
  <1>17. CASE server_free_list
    BY <1>1, <1>17, FreeListKeeps
  <1>18. CASE crashed \/ UNCHANGED vars
    BY <1>1, <1>18, QuietKeeps
       DEF crashed, vars, kernel, fdpoll, loop, clients, lists, Core, EventsHandled
  <1>. QED
    BY <1>2, <1>3, <1>4, <1>5, <1>6, <1>7, <1>8, <1>9, <1>10, <1>11, <1>12, <1>13, <1>14,
       <1>15, <1>16, <1>17, <1>18, <1>a, <1>b, <1>c
       DEF Next, Peers, Server, Poll, Listener, ClientCallback, Messaging

LEMMA InitHealth == Init => HealthInv
  BY ConstantsAssumption
     DEF Init, HealthInv, Core, OwnedOnce, Allocated, Live, Shown, ToSet, HandlersOfLive, Retired,
         SocketsOwned, BacklogFresh, Distinct, EventsHandled

LEMMA HealthAlways == Spec => [](TypeInv /\ CountDrift /\ HealthInv)
  BY InitTyped, InitHealth, TypeStep, CountStep, HealthStep, PTL DEF Spec

\* While no more handlers were counted down twice than there are permanent ones
\* (and descriptor 0 is open, and no freed client is pending), no path of the code loses a client, keeps it in
\* two lists, or shows a client that did not finish its handshake.
THEOREM ClientsOwnedOnce == Spec => []OneOwner
  <1>1. HealthInv => OneOwner
    BY DEF HealthInv, Core, OneOwner
  <1>. QED  BY <1>1, HealthAlways, PTL

\* Under the same condition the handlers are exactly those of the live
\* clients, on their own open sockets, with their callback data allocated.
THEOREM HandlersFollowClients == Spec => []HandlersAgree
  <1>1. HealthInv => HandlersAgree
    BY DEF HealthInv, Core, HandlersAgree
  <1>. QED  BY <1>1, HealthAlways, PTL

\* The second removal of a handler, queued by fdpoll_handler_poll after a
\* hangup, never removes the handler of another client.
THEOREM DeferredRemovalHarmless == Spec => []QueuedRemovalsHitNobody
  <1>1. TypeInv /\ HealthInv => QueuedRemovalsHitNobody
    BY DEF HealthInv, Core, Retired, QueuedRemovalsHitNobody
  <1>. QED  BY <1>1, HealthAlways, PTL

\* No event of a batch refers to memory an earlier callback freed.
THEOREM EventsAreFresh == Spec => []BatchIsFresh
  <1>1. TypeInv /\ HealthInv => BatchIsFresh
    BY DEF HealthInv, Core, HandlersOfLive, EventsHandled, BatchIsFresh, HasData
  <1>. QED  BY <1>1, HealthAlways, PTL

LEMMA FreshStep ==
  ASSUME TypeInv, HealthInv, [Next]_vars, Healthy', pc # "crashed"
  PROVE  pc' # "crashed"
  <1>1. Healthy /\ Core
    BY HealthyBefore DEF HealthInv
  <1>2. ~walk_meets_freed
    BY <1>1 DEF walk_meets_freed, reads_freed, Healthy
  <1>3. ASSUME NEW f \in Fds, client_callback_stale(f)  PROVE FALSE
    BY <1>1, <1>3
       DEF client_callback_stale, Callback, Core, HandlersOfLive, EventsHandled, HasData
  <1>4. \/ pc' = pc
        \/ pc' \in {"wait", "dispatch", "messages", "servinfo", "remove", "sync", "free"}
        \/ walk_meets_freed \/ \E f \in Fds : client_callback_stale(f)
    BY DEF Next, Peers, Server, Poll, Listener, ClientCallback, Messaging, connect,
           client_write, client_read, client_close, epoll_wait, begin_removals, end_poll,
           queued_removal, accept_fails, listener_callback, listener_rejects,
           listener_leaves_dangling, client_callback_hup, client_callback_read,
           client_callback_read_fails, hotkey_callback, dispatch_servinfo, servinfo_again, spr16_server_register_sprite, handle_ack_send_fd,
           handle_ack_established, spr16_server_sync, dispatch_fails, next_message, sync_loop,
           server_free_list, crashed, vars, loop
  <1>. QED  BY <1>2, <1>3, <1>4

\* A client that was freed is never touched while the count of handlers is off
\* by no more than the permanent ones, descriptor 0 is the terminal, and every
\* client that was accepted got its callback data and its handler: neither a
\* stale event nor a walk over the pending list meets one
\* (fdpoll-handler.c:205-238, server.c:60-98, 228-302).
THEOREM StaleOnlyAfterBreak == Spec => [](Healthy => NoStaleHandler)
  <1>. DEFINE Sound == Healthy => pc # "crashed"
  <1>1. Init => Sound
    BY DEF Init
  <1>2. TypeInv /\ HealthInv /\ Sound /\ [Next]_vars => Sound'
    BY FreshStep, HealthyBefore
  <1>3. Sound => (Healthy => NoStaleHandler)
    BY DEF NoStaleHandler
  <1>. HIDE DEF Sound
  <1>. QED  BY <1>1, <1>2, <1>3, HealthAlways, PTL DEF Spec

-----------------------------------------------------------------------------
(* What holds whether the server is healthy or not: a client in use is     *)
(* allocated, and one to be freed is in use nowhere else.                  *)

\* No client twice; Free stands for screens whose client was lost.
Unique(s) == \A i, j \in DOMAIN s : s[i] = s[j] /\ s[i] # Free => i = j

Records ==
  /\ \A c \in Shown \ {Free} : stage[c] = "connected"
  /\ \A c \in pending_clients : stage[c] \in {"new", "handshaking"}
  /\ free_list \cup cb_data \cup sync_clients \subseteq Allocated
  /\ free_list \cap (Live \cup cb_data) = {}
  /\ Unique(screens)
  /\ Distinct(backlog) /\ \A c \in ToSet(backlog) : stage[c] = "none"

SlotsEmptied ==
  /\ pc \in {"wait", "free"} => sync_clients = {}
  /\ Cardinality(sync_clients) <= MaxSync

LEMMA LoseUnique ==
  ASSUME NEW S, NEW s \in Seq(S), NEW i \in DOMAIN s, Unique(s), s[i] # Free,
         NEW r, r = RemoveAt(s, i) \/ r = ReplaceAt(s, i, Free)
  PROVE  Unique(r) /\ ToSet(r) \subseteq (ToSet(s) \ {s[i]}) \cup {Free}
  <1>1. DOMAIN s = 1..Len(s) /\ Len(s) \in Nat /\ i \in 1..Len(s)
    BY LenProperties
  <1>2. CASE r = RemoveAt(s, i)
    <2>1. /\ DOMAIN r = 1..(Len(s) - 1)
          /\ \A k \in 1..(Len(s) - 1) : r[k] = IF k < i THEN s[k] ELSE s[k + 1]
      BY <1>2, RemoveElements
    <2>2. Unique(r)
      <3>. SUFFICES ASSUME NEW k \in 1..(Len(s) - 1), NEW l \in 1..(Len(s) - 1),
                           r[k] = r[l], r[k] # Free
                    PROVE  k = l
        BY <2>1 DEF Unique
      <3>. DEFINE from(n) == IF n < i THEN n ELSE n + 1
      <3>1. /\ from(k) \in DOMAIN s /\ from(l) \in DOMAIN s
            /\ r[k] = s[from(k)] /\ r[l] = s[from(l)]
        BY <1>1, <2>1
      <3>2. from(k) = from(l)
        BY <3>1 DEF Unique
      <3>. QED  BY <1>1, <3>2
    <2>3. ASSUME NEW k \in 1..(Len(s) - 1)  PROVE r[k] \in ToSet(s) \ {s[i]}
      <3>1. PICK l \in DOMAIN s : r[k] = s[l] /\ l # i
        BY <1>1, <2>1
      <3>. QED  BY <3>1 DEF Unique, ToSet
    <2>. QED  BY <2>1, <2>2, <2>3 DEF ToSet
  <1>3. CASE r = ReplaceAt(s, i, Free)
    <2>1. DOMAIN r = DOMAIN s /\ \A k \in DOMAIN s : r[k] = IF k = i THEN Free ELSE s[k]
      BY <1>3 DEF ReplaceAt
    <2>. QED  BY <2>1 DEF Unique, ToSet
  <1>. QED  BY <1>2, <1>3

LEMMA RotateUnique ==
  ASSUME NEW S, NEW s \in Seq(S), s # <<>>, Unique(s)
  PROVE  /\ Unique(Append(Tail(s), Head(s)))
         /\ ToSet(Append(Tail(s), Head(s))) = ToSet(s)
  <1>. DEFINE t == Tail(s)
              e == Head(s)
              r == Append(t, e)
  <1>1. /\ e \in S /\ t \in Seq(S) /\ Len(t) = Len(s) - 1 /\ Len(s) \in Nat /\ Len(s) > 0
        /\ e = s[1] /\ DOMAIN s = 1..Len(s)
        /\ \A k \in 1..Len(t) : t[k] = s[k + 1]
    BY HeadTailProperties, LenProperties, EmptySeq
  <1>2. ToSet(s) = {e} \cup ToSet(t)
    BY TailSet
  <1>. HIDE DEF t, e
  <1>3. /\ r \in Seq(S) /\ Len(r) = Len(t) + 1 /\ DOMAIN r = 1..Len(r)
        /\ \A k \in 1..Len(t) : r[k] = t[k]
        /\ r[Len(t) + 1] = e
    BY <1>1, AppendProperties, LenProperties
  <1>4. ToSet(r) = ToSet(t) \cup {e}
    BY <1>1, AppendSet
  <1>. HIDE DEF r
  <1>5. DOMAIN r = 1..Len(s) /\ \A k \in 1..Len(s) : r[k] = IF k = Len(s) THEN s[1] ELSE s[k + 1]
    BY <1>1, <1>3
  <1>6. Unique(r)
    <2>. SUFFICES ASSUME NEW k \in 1..Len(s), NEW l \in 1..Len(s), r[k] = r[l], r[k] # Free
                  PROVE  k = l
      BY <1>5 DEF Unique
    <2>. DEFINE from(n) == IF n = Len(s) THEN 1 ELSE n + 1
    <2>1. /\ from(k) \in DOMAIN s /\ from(l) \in DOMAIN s
          /\ r[k] = s[from(k)] /\ r[l] = s[from(l)]
      BY <1>1, <1>5
    <2>2. from(k) = from(l)
      BY <2>1 DEF Unique
    <2>. QED  BY <1>1, <2>2
  <1>. QED  BY <1>2, <1>4, <1>6 DEF r, t, e

LEMMA AppendUnique ==
  ASSUME NEW S, NEW s \in Seq(S), Unique(s), NEW e \in S, e \notin ToSet(s)
  PROVE  Unique(Append(s, e)) /\ ToSet(Append(s, e)) = ToSet(s) \cup {e}
  <1>1. /\ Len(Append(s, e)) = Len(s) + 1 /\ Len(s) \in Nat
        /\ DOMAIN s = 1..Len(s) /\ DOMAIN Append(s, e) = 1..(Len(s) + 1)
        /\ \A k \in 1..Len(s) : Append(s, e)[k] = s[k]
        /\ Append(s, e)[Len(s) + 1] = e
    BY AppendProperties, LenProperties
  <1>. QED  BY <1>1, AppendSet DEF Unique, ToSet

\* Who is put in line for a redraw is on the first screen.
LEMMA RedrawIsShown ==
  ASSUME NEW S, NEW s \in Seq(S)
  PROVE  server_sync_fullscreen(s) \subseteq sync_clients \cup (ToSet(s) \ {Free})
  BY TailSet DEF server_sync_fullscreen

LEMMA DropRecords ==
  ASSUME TypeInv, Records, NEW f \in Fds, HasData(f), drop_client(f),
         UNCHANGED <<stage, backlog>>
  PROVE  Records'
  <1>. DEFINE c == nodes[f]
  <1>1. /\ c \in Conns /\ c \in cb_data /\ c # Free
        /\ c \in Allocated /\ c \notin free_list /\ cb_data' = cb_data \ {c}
    BY ConstantsAssumption DEF TypeInv, TypeOK, HasData, Records, drop_client
  <1>2. Allocated' = Allocated
    BY DEF Allocated
  <1>3. PICK failed \in BOOLEAN : \/ remove_shown(f, c, failed)
                                  \/ remove_pending(f, c, failed)
                                  \/ remove_unknown(f, c, failed)
    BY DEF drop_client
  <1>. HIDE DEF c
  <1>4. CASE remove_shown(f, c, failed)
    <2>1. PICK i \in DOMAIN screens :
            /\ screens[i] = c
            /\ IF failed
               THEN /\ screens' = ReplaceAt(screens, i, Free)
                    /\ UNCHANGED <<free_list, sync_clients>>
               ELSE /\ screens' = RemoveAt(screens, i)
                    /\ free_list' = free_list \cup {c}
                    /\ sync_clients' = server_sync_fullscreen(screens')
      BY <1>4 DEF remove_shown
    <2>2. screens \in Seq(Conns \cup {Free}) /\ Unique(screens) /\ c \in Shown
      BY <2>1 DEF TypeInv, TypeOK, Records, Shown, ToSet
    <2>3. Unique(screens') /\ Shown' \subseteq (Shown \ {c}) \cup {Free}
      BY <1>1, <2>1, <2>2, LoseUnique DEF Shown
    <2>4. pending_clients' = pending_clients /\ c \notin pending_clients
      BY <1>1, <1>4, <2>2 DEF remove_shown, Records
    <2>5. sync_clients' \subseteq sync_clients \cup (Shown' \ {Free})
      <3>1. RemoveAt(screens, i) \in Seq(Conns \cup {Free})
        BY <2>2, RemoveElements
      <3>. QED  BY <2>1, <3>1, RedrawIsShown DEF Shown
    <2>6. Shown' \ {Free} \subseteq Allocated
      <3>1. Shown \subseteq Conns \cup {Free}
        BY <2>2, SeqElements DEF Shown
      <3>. QED  BY <2>3, <3>1 DEF Records, Allocated
    <2>. QED
      BY <1>1, <1>2, <2>1, <2>3, <2>4, <2>5, <2>6, ConstantsAssumption
         DEF Records, Live, TypeInv, TypeOK
  <1>5. CASE remove_pending(f, c, failed)
    <2>1. /\ c \notin Shown /\ pending_clients' = pending_clients \ {c}
          /\ free_list' \subseteq free_list \cup {c}
          /\ Shown' = Shown /\ UNCHANGED <<screens, sync_clients>>
      BY <1>5 DEF remove_pending, Shown
    <2>. QED  BY <1>1, <1>2, <2>1 DEF Records, Live
  <1>6. CASE remove_unknown(f, c, failed)
    BY <1>1, <1>2, <1>6 DEF remove_unknown, lists, Records, Live, Shown
  <1>. QED  BY <1>3, <1>4, <1>5, <1>6

LEMMA AcceptRecords ==
  ASSUME TypeInv, Records, listener_callback
  PROVE  Records'
  <1>. DEFINE c == Head(backlog)
  <1>1. PICK f \in Fds : server_addclient(f, c)
    BY DEF listener_callback
  <1>2. /\ c \in Conns /\ stage[c] = "none" /\ backlog' = Tail(backlog)
        /\ c \notin ToSet(backlog') /\ Distinct(backlog') /\ ToSet(backlog') \subseteq ToSet(backlog)
    <2>1. backlog \in Seq(Conns) /\ backlog # <<>> /\ Distinct(backlog)
      BY DEF TypeInv, TypeOK, PhaseOK, listener_callback, Callback, Records
    <2>. QED  BY <2>1, TailSet DEF Records, listener_callback
  <1>3. /\ stage' = [stage EXCEPT ![c] = "new"] /\ stage \in [Conns -> Stages]
        /\ pending_clients' = pending_clients \cup {c} /\ cb_data' = cb_data \cup {c}
        /\ UNCHANGED <<screens, sync_clients, free_list>>
    BY <1>1 DEF listener_callback, server_addclient, TypeInv, TypeOK
  <1>. HIDE DEF c
  <1>4. /\ c \notin Allocated /\ c \notin Shown \ {Free} /\ c # Free
        /\ Allocated' = Allocated \cup {c}
    BY <1>2, <1>3, ConstantsAssumption DEF Allocated, Records
  <1>5. \A d \in Conns \ {c} : stage'[d] = stage[d]
    BY <1>3
  <1>6. Shown' = Shown /\ Shown \subseteq Conns \cup {Free}
    BY <1>3, SeqElements DEF Shown, TypeInv, TypeOK
  <1>7. ToSet(backlog') \subseteq Conns /\ pending_clients \subseteq Conns
    BY <1>2, SeqElements DEF TypeInv, TypeOK
  <1>. QED
    BY <1>2, <1>3, <1>4, <1>5, <1>6, <1>7 DEF Records, Live

LEMMA FreeRecords ==
  ASSUME TypeInv, Records, SlotsEmptied, server_free_list
  PROVE  Records'
  <1>1. /\ stage' = [c \in Conns |-> IF c \in free_list THEN "none" ELSE stage[c]]
        /\ free_list' = {} /\ sync_clients = {}
        /\ UNCHANGED <<backlog, cb_data, pending_clients, screens, sync_clients>>
    BY DEF server_free_list, SlotsEmptied
  <1>2. /\ ToSet(backlog) \subseteq Conns /\ Shown \subseteq Conns \cup {Free}
        /\ pending_clients \subseteq Conns
    BY SeqElements DEF Shown, TypeInv, TypeOK
  <1>3. Allocated' = Allocated \ free_list
    BY <1>1 DEF Allocated
  <1>. QED  BY <1>1, <1>2, <1>3 DEF Records, Live, Shown

LEMMA EstablishedRecords ==
  ASSUME TypeInv, Records, handle_ack_established
  PROVE  Records'
  <1>. DEFINE c == Client
  <1>1. /\ c \in Conns /\ stage[c] = "handshaking" /\ c \in pending_clients
        /\ stage' = [stage EXCEPT ![c] = "connected"] /\ stage \in [Conns -> Stages]
        /\ pending_clients' = pending_clients \ {c} /\ screens' = Append(screens, c)
        /\ UNCHANGED <<backlog, cb_data, sync_clients, free_list>>
    BY DEF handle_ack_established, Dispatch, accepts, next_message, kernel, TypeInv, TypeOK
  <1>. HIDE DEF c
  <1>2. screens \in Seq(Conns \cup {Free}) /\ c \notin Shown /\ c # Free
    BY <1>1, ConstantsAssumption DEF Records, TypeInv, TypeOK
  <1>3. Unique(screens') /\ Shown' = Shown \cup {c}
    BY <1>1, <1>2, AppendUnique DEF Records, Shown
  <1>4. /\ ToSet(backlog) \subseteq Conns /\ Shown \subseteq Conns \cup {Free}
        /\ pending_clients \subseteq Conns
    BY SeqElements DEF Shown, TypeInv, TypeOK
  <1>5. Allocated' = Allocated /\ \A d \in Conns \ {c} : stage'[d] = stage[d]
    BY <1>1 DEF Allocated
  <1>. QED  BY <1>1, <1>2, <1>3, <1>4, <1>5 DEF Records, Live

LEMMA RegisterRecords ==
  ASSUME TypeInv, Records, spr16_server_register_sprite
  PROVE  Records'
  <1>. DEFINE c == Client
  <1>1. /\ c \in Conns /\ stage[c] = "new"
        /\ stage' = [stage EXCEPT ![c] = "handshaking"] /\ stage \in [Conns -> Stages]
        /\ UNCHANGED <<backlog, cb_data, pending_clients, screens, sync_clients, free_list>>
    BY DEF spr16_server_register_sprite, Dispatch, accepts, next_message, kernel, lists,
           Client, TypeInv, TypeOK, PhaseOK
  <1>. HIDE DEF c
  <1>2. /\ ToSet(backlog) \subseteq Conns /\ Shown \subseteq Conns \cup {Free}
        /\ pending_clients \subseteq Conns /\ Shown' = Shown
    BY <1>1, SeqElements DEF Shown, TypeInv, TypeOK
  <1>3. Allocated' = Allocated /\ \A d \in Conns \ {c} : stage'[d] = stage[d]
    BY <1>1 DEF Allocated
  <1>. QED  BY <1>1, <1>2, <1>3 DEF Records, Live

LEMMA HotkeyRecords ==
  ASSUME TypeInv, Records, hotkey_callback
  PROVE  Records'
  <1>1. UNCHANGED <<stage, backlog, cb_data, pending_clients, free_list>>
    BY DEF hotkey_callback, kernel, clients
  <1>2. screens \in Seq(Conns \cup {Free}) /\ Shown \subseteq Conns \cup {Free}
    BY SeqElements DEF Shown, TypeInv, TypeOK
  <1>3. /\ Unique(screens') /\ Shown' = Shown
        /\ sync_clients' \subseteq sync_clients \cup (Shown \ {Free})
    <2>1. CASE UNCHANGED <<screens, sync_clients>>
      BY <2>1 DEF Records, Shown
    <2>2. CASE /\ Len(screens) > 1
               /\ screens' = Append(Tail(screens), Head(screens))
               /\ sync_clients' = server_sync_fullscreen(screens')
      <3>1. screens # <<>>
        BY <2>2, EmptySeq
      <3>2. screens' \in Seq(Conns \cup {Free})
        BY <1>2, <2>2, <3>1, TailSet, AppendSet
      <3>. QED  BY <1>2, <2>2, <3>1, <3>2, RotateUnique, RedrawIsShown DEF Records, Shown
    <2>. QED  BY <2>1, <2>2 DEF hotkey_callback
  <1>. QED  BY <1>1, <1>2, <1>3 DEF Records, Live, Allocated

LEMMA ConnectRecords ==
  ASSUME TypeInv, Records, NEW c \in Conns, connect(c)
  PROVE  Records'
  <1>1. /\ c \notin ToSet(backlog) /\ stage[c] = "none" /\ backlog \in Seq(Conns)
        /\ backlog' = Append(backlog, c)
        /\ UNCHANGED <<stage, cb_data, pending_clients, screens, sync_clients, free_list>>
    BY DEF connect, Attached, TypeInv, TypeOK, clients, lists
  <1>2. Distinct(backlog') /\ ToSet(backlog') = ToSet(backlog) \cup {c}
    BY <1>1, AppendSet DEF Records
  <1>. QED  BY <1>1, <1>2 DEF Records, Live, Shown, Allocated

\* Steps that at most empty the slots of sync_clients.
LEMMA QuietRecords ==
  ASSUME Records, UNCHANGED <<stage, backlog, cb_data, pending_clients, screens, free_list>>,
         sync_clients' \subseteq sync_clients
  PROVE  Records'
  BY DEF Records, Live, Shown, Allocated

LEMMA RecordsStep == TypeInv /\ SlotsEmptied /\ Records /\ [Next]_vars => Records'
  <1>. SUFFICES ASSUME TypeInv, SlotsEmptied, Records, [Next]_vars  PROVE Records'
    OBVIOUS
  <1>. USE DEF kernel, loop, clients, lists
  <1>1. ASSUME NEW c \in Conns, connect(c)  PROVE Records'
    BY <1>1, ConnectRecords
  <1>2. ASSUME NEW c \in Conns, client_write(c) \/ client_read(c) \/ client_close(c)
        PROVE  Records'
    BY <1>2, QuietRecords DEF client_write, client_read, client_close
  <1>3. CASE epoll_wait \/ begin_removals \/ end_poll \/ sync_loop
    BY <1>3, QuietRecords DEF epoll_wait, begin_removals, end_poll, sync_loop
  <1>4. ASSUME NEW f \in Fds, queued_removal(f)  PROVE Records'
    BY <1>4, QuietRecords DEF queued_removal
  <1>5. CASE accept_fails \/ walk_meets_freed \/ servinfo_again
    BY <1>5, QuietRecords DEF accept_fails, walk_meets_freed, servinfo_again
  <1>6. CASE listener_callback
    BY <1>6, AcceptRecords
  <1>7. CASE listener_rejects \/ listener_leaves_dangling
    <2>1. backlog \in Seq(Conns) /\ backlog # <<>> /\ backlog' = Tail(backlog)
      BY <1>7 DEF listener_rejects, listener_leaves_dangling, Callback, TypeInv, TypeOK, PhaseOK
    <2>2. Distinct(backlog') /\ ToSet(backlog') \subseteq ToSet(backlog)
      BY <2>1, TailSet DEF Records
    <2>3. UNCHANGED <<stage, cb_data, pending_clients, screens, sync_clients, free_list>>
      BY <1>7 DEF listener_rejects, listener_leaves_dangling
    <2>. QED  BY <2>2, <2>3 DEF Records, Live, Shown, Allocated
  <1>8. ASSUME NEW f \in Fds, client_callback_hup(f) \/ client_callback_read_fails(f)
        PROVE  Records'
    BY <1>8, DropRecords DEF client_callback_hup, client_callback_read_fails
  <1>9. ASSUME NEW f \in Fds, client_callback_read(f) \/ client_callback_stale(f)
        PROVE  Records'
    BY <1>9, QuietRecords DEF client_callback_read, client_callback_stale
  <1>10. CASE hotkey_callback
    BY <1>10, HotkeyRecords
  <1>11. CASE dispatch_servinfo \/ handle_ack_send_fd
    BY <1>11, QuietRecords DEF dispatch_servinfo, handle_ack_send_fd, next_message
  <1>12. CASE spr16_server_sync
    <2>1. /\ Client \in Allocated /\ sync_clients' = sync_clients \cup {Client}
          /\ UNCHANGED <<stage, backlog, cb_data, pending_clients, screens, free_list>>
      BY <1>12 DEF spr16_server_sync, next_message, Dispatch, Client, TypeInv, PhaseOK, Records
    <2>. QED  BY <2>1 DEF Records, Live, Shown, Allocated
  <1>13. CASE spr16_server_register_sprite
    BY <1>13, RegisterRecords
  <1>14. CASE handle_ack_established
    BY <1>14, EstablishedRecords
  <1>15. CASE dispatch_fails
    <2>1. HasData(serving) /\ serving \in Fds
      BY <1>15 DEF dispatch_fails, HasData, TypeInv, TypeOK, PhaseOK
    <2>. QED  BY <1>15, <2>1, DropRecords DEF dispatch_fails
  <1>16. CASE server_free_list
    BY <1>16, FreeRecords
  <1>17. CASE crashed \/ UNCHANGED vars
    BY <1>17, QuietRecords DEF crashed, vars
  <1>. QED
    BY <1>1, <1>2, <1>3, <1>4, <1>5, <1>6, <1>7, <1>8, <1>9, <1>10, <1>11, <1>12, <1>13,
       <1>14, <1>15, <1>16, <1>17
       DEF Next, Peers, Server, Poll, Listener, ClientCallback, Messaging

LEMMA OneMore ==
  ASSUME NEW S, IsFiniteSet(S), NEW T, NEW e, T \subseteq S \cup {e}
  PROVE  /\ IsFiniteSet(T) /\ Cardinality(S) \in Nat /\ Cardinality(T) \in Nat
         /\ Cardinality(T) <= Cardinality(S) + 1
         /\ T \subseteq S => Cardinality(T) <= Cardinality(S)
  <1>1. /\ IsFiniteSet(S \cup {e}) /\ Cardinality(S) \in Nat /\ Cardinality(S \cup {e}) \in Nat
        /\ Cardinality(S \cup {e}) <= Cardinality(S) + 1
    <2>1. /\ IsFiniteSet(S \cup {e})
          /\ \/ Cardinality(S \cup {e}) = Cardinality(S)
             \/ Cardinality(S \cup {e}) = Cardinality(S) + 1
      BY FS_AddElement, Zenon
    <2>2. Cardinality(S) \in Nat
      BY FS_CardinalityType, Zenon
    <2>. QED  BY <2>1, <2>2
  <1>2. /\ IsFiniteSet(T) /\ Cardinality(T) \in Nat
        /\ Cardinality(T) <= Cardinality(S \cup {e})
    BY <1>1, FS_Subset, FS_CardinalityType
  <1>3. T \subseteq S => Cardinality(T) <= Cardinality(S)
    BY FS_Subset
  <1>. QED  BY <1>1, <1>2, <1>3

\* A slot is taken only while there is one.
LEMMA RedrawFits ==
  ASSUME TypeInv, SlotsEmptied, NEW s
  PROVE  Cardinality(server_sync_fullscreen(s)) <= MaxSync
  <1>1. IsFiniteSet(sync_clients) /\ Cardinality(sync_clients) \in Nat
    BY ConstantsAssumption, FS_Subset, FS_CardinalityType DEF TypeInv, TypeOK
  <1>2. CASE s = <<>> \/ Cardinality(sync_clients) >= MaxSync
    BY <1>2 DEF server_sync_fullscreen, SlotsEmptied
  <1>3. CASE ~(s = <<>> \/ Cardinality(sync_clients) >= MaxSync)
    <2>1. server_sync_fullscreen(s) \subseteq sync_clients \cup {Head(s)}
      BY <1>3 DEF server_sync_fullscreen
    <2>2. /\ Cardinality(server_sync_fullscreen(s)) \in Nat
          /\ Cardinality(server_sync_fullscreen(s)) <= Cardinality(sync_clients) + 1
      BY <1>1, <2>1, OneMore
    <2>. QED  BY <1>1, <1>3, <2>2, ConstantsAssumption
  <1>. QED  BY <1>2, <1>3

LEMMA SlotsStep == TypeInv /\ SlotsEmptied /\ [Next]_vars => SlotsEmptied'
  <1>. SUFFICES ASSUME TypeInv, SlotsEmptied, [Next]_vars  PROVE SlotsEmptied'
    OBVIOUS
  <1>. USE DEF kernel, loop, clients, lists
  <1>1. CASE /\ UNCHANGED sync_clients
             /\ pc' \in {"wait", "free"} => pc \in {"wait", "free"}
    BY <1>1 DEF SlotsEmptied
  <1>2. ASSUME NEW c \in Conns, connect(c) \/ client_write(c) \/ client_read(c) \/ client_close(c)
        PROVE  SlotsEmptied'
    BY <1>1, <1>2 DEF connect, client_write, client_read, client_close
  <1>3. CASE epoll_wait \/ begin_removals \/ end_poll
    BY <1>1, <1>3 DEF epoll_wait, begin_removals, end_poll
  <1>4. CASE sync_loop
    BY <1>4, FS_EmptySet, ConstantsAssumption DEF sync_loop, SlotsEmptied
  <1>5. ASSUME NEW f \in Fds, queued_removal(f)  PROVE SlotsEmptied'
    BY <1>1, <1>5 DEF queued_removal
  <1>6. CASE accept_fails \/ listener_callback \/ listener_rejects \/ listener_leaves_dangling
    BY <1>1, <1>6
       DEF accept_fails, listener_callback, listener_rejects, listener_leaves_dangling, Callback
  <1>7. ASSUME NEW f \in Fds, HasData(f), drop_client(f), pc' = "dispatch"
        PROVE  SlotsEmptied'
    <2>1. \/ UNCHANGED sync_clients
          \/ sync_clients' = server_sync_fullscreen(screens')
      BY <1>7 DEF drop_client, remove_shown, remove_pending, remove_unknown
    <2>. QED  BY <1>7, <2>1, RedrawFits DEF SlotsEmptied
  <1>8. ASSUME NEW f \in Fds, client_callback_hup(f) \/ client_callback_read_fails(f)
        PROVE  SlotsEmptied'
    BY <1>7, <1>8 DEF client_callback_hup, client_callback_read_fails, Callback
  <1>9. ASSUME NEW f \in Fds, client_callback_read(f) \/ client_callback_stale(f)
        PROVE  SlotsEmptied'
    BY <1>1, <1>9 DEF client_callback_read, client_callback_stale
  <1>10. CASE hotkey_callback
    <2>1. \/ UNCHANGED sync_clients
          \/ sync_clients' = server_sync_fullscreen(screens')
      BY <1>10 DEF hotkey_callback
    <2>2. pc' = pc /\ pc = "dispatch"
      BY <1>10 DEF hotkey_callback, Callback
    <2>. QED  BY <2>1, <2>2, RedrawFits DEF SlotsEmptied
  <1>11. CASE \/ dispatch_servinfo \/ spr16_server_register_sprite \/ handle_ack_send_fd
              \/ handle_ack_established
    BY <1>1, <1>11
       DEF dispatch_servinfo, spr16_server_register_sprite, handle_ack_send_fd,
           handle_ack_established, Dispatch, next_message
  <1>12. CASE spr16_server_sync
    <2>1. /\ pc' \notin {"wait", "free"} /\ sync_clients' = sync_clients \cup {Client}
          /\ Client \in sync_clients \/ Cardinality(sync_clients) < MaxSync
      BY <1>12 DEF spr16_server_sync, Dispatch, next_message, accepts
    <2>2. IsFiniteSet(sync_clients)
      BY ConstantsAssumption, FS_Subset DEF TypeInv, TypeOK
    <2>3. /\ Cardinality(sync_clients) \in Nat /\ Cardinality(sync_clients') \in Nat
          /\ Cardinality(sync_clients') <= Cardinality(sync_clients) + 1
          /\ Client \in sync_clients => Cardinality(sync_clients') <= Cardinality(sync_clients)
      BY <2>1, <2>2, OneMore
    <2>. QED  BY <2>1, <2>3, ConstantsAssumption DEF SlotsEmptied
  <1>13. CASE dispatch_fails
    <2>1. HasData(serving) /\ serving \in Fds
      BY <1>13 DEF dispatch_fails, HasData, TypeInv, TypeOK, PhaseOK
    <2>. QED  BY <1>7, <1>13, <2>1 DEF dispatch_fails
  <1>14. CASE server_free_list \/ crashed \/ UNCHANGED vars
    BY <1>1, <1>14 DEF server_free_list, crashed, vars
  <1>15. CASE walk_meets_freed \/ servinfo_again
    BY <1>1, <1>15 DEF walk_meets_freed, servinfo_again
  <1>. QED
    BY <1>2, <1>3, <1>4, <1>5, <1>6, <1>8, <1>9, <1>10, <1>11, <1>12, <1>13, <1>14, <1>15
       DEF Next, Peers, Server, Poll, Listener, ClientCallback, Messaging

LEMMA RecordsAlways == Spec => [](TypeInv /\ SlotsEmptied /\ Records)
  <1>1. Init => SlotsEmptied /\ Records
    BY ConstantsAssumption, FS_EmptySet
       DEF Init, SlotsEmptied, Records, Allocated, Live, Shown, ToSet, Unique, Distinct
  <1>. QED  BY <1>1, InitTyped, TypeStep, SlotsStep, RecordsStep, PTL DEF Spec

\* No slot of sync_clients names a freed client, whatever became of the
\* handlers: the slots are emptied before the clients are freed.
THEOREM NoSyncOfTheFreed == Spec => []SyncClientsAllocated
  <1>1. SlotsEmptied /\ Records => SyncClientsAllocated
    BY DEF SlotsEmptied, Records, SyncClientsAllocated
  <1>. QED  BY <1>1, RecordsAlways, PTL

\* A change of the first screen puts its client in line for a redraw.
LEMMA FocusStep ==
  ASSUME TypeInv, SlotsEmptied, HealthInv', TypeInv', [Next]_vars,
         screens # <<>>, screens' # <<>>, Healthy'
  PROVE  \/ Head(screens') = Head(screens)
         \/ Head(screens') \in sync_clients'
         \/ Cardinality(sync_clients) = MaxSync
  <1>. USE DEF kernel, loop, clients, lists
  <1>1. IsFiniteSet(sync_clients) /\ Cardinality(sync_clients) \in Nat
    BY ConstantsAssumption, FS_Subset, FS_CardinalityType DEF TypeInv, TypeOK
  <1>2. /\ Head(screens') \in Shown' /\ Shown' \subseteq Conns
        /\ Head(screens') # Free
    <2>1. screens' \in Seq(Conns \cup {Free}) /\ Shown' \subseteq Conns
      BY DEF TypeInv, TypeOK, HealthInv, Core, OwnedOnce, Allocated, Live
    <2>2. Head(screens') \in Shown'
      BY <2>1, TailSet DEF Shown
    <2>. QED  BY <2>1, <2>2, ConstantsAssumption
  <1>3. CASE sync_clients' = server_sync_fullscreen(screens')
    BY <1>1, <1>2, <1>3, ConstantsAssumption DEF server_sync_fullscreen, SlotsEmptied
  <1>4. ASSUME NEW f \in Fds, drop_client(f)
        PROVE  screens' = screens \/ sync_clients' = server_sync_fullscreen(screens')
    <2>1. PICK failed \in BOOLEAN : \/ remove_shown(f, nodes[f], failed)
                                    \/ screens' = screens
      BY <1>4 DEF drop_client, remove_pending, remove_unknown
    <2>2. ASSUME NEW i \in DOMAIN screens, screens' = ReplaceAt(screens, i, Free)
          PROVE  FALSE
      <3>1. i \in DOMAIN screens' /\ screens'[i] = Free
        BY <2>2 DEF ReplaceAt
      <3>. QED  BY <1>2, <3>1, ConstantsAssumption DEF Shown, ToSet
    <2>. QED  BY <2>1, <2>2 DEF remove_shown
  <1>5. CASE handle_ack_established
    <2>1. screens' = Append(screens, Client) /\ screens \in Seq(Conns \cup {Free})
      BY <1>5 DEF handle_ack_established, TypeInv, TypeOK
    <2>2. /\ Client \in Conns \cup {Free}
      BY <1>5 DEF handle_ack_established, Dispatch, Client, TypeInv, TypeOK, PhaseOK
    <2>3. Head(screens) = screens[1] /\ Len(screens) \in Nat /\ Len(screens) > 0
      BY <2>1, LenProperties, EmptySeq
    <2>4. screens'[1] = screens[1]
      BY <2>1, <2>2, <2>3, AppendProperties
    <2>5. Head(screens') = screens'[1]
      BY <2>1, <2>2, AppendProperties
    <2>. QED  BY <2>3, <2>4, <2>5
  <1>6. CASE hotkey_callback
    BY <1>3, <1>6 DEF hotkey_callback
  <1>7. ASSUME NEW f \in Fds, client_callback_hup(f) \/ client_callback_read_fails(f)
        PROVE  screens' = screens \/ sync_clients' = server_sync_fullscreen(screens')
    BY <1>4, <1>7 DEF client_callback_hup, client_callback_read_fails
  <1>8. CASE dispatch_fails
    <2>1. serving \in Fds
      BY DEF TypeInv, TypeOK
    <2>. QED  BY <1>3, <1>4, <1>8, <2>1 DEF dispatch_fails
  <1>9. \/ screens' = screens
        \/ handle_ack_established \/ hotkey_callback \/ dispatch_fails
        \/ \E f \in Fds : client_callback_hup(f) \/ client_callback_read_fails(f)
    BY DEF Next, Peers, Server, Poll, Listener, ClientCallback, Messaging, connect,
           client_write, client_read, client_close, epoll_wait, begin_removals, end_poll,
           queued_removal, accept_fails, listener_callback, listener_rejects,
           listener_leaves_dangling, client_callback_read, client_callback_stale,
           walk_meets_freed, dispatch_servinfo, servinfo_again,
           spr16_server_register_sprite, handle_ack_send_fd, spr16_server_sync, sync_loop,
           server_free_list, crashed, vars
  <1>. QED  BY <1>3, <1>5, <1>6, <1>7, <1>8, <1>9

\* A client that gets the focus is in line for a redraw at once, if a slot is free.
THEOREM NewFocusIsRedrawn == Spec => FocusIsRedrawn
  <1>1. /\ TypeInv /\ SlotsEmptied
        /\ TypeInv' /\ HealthInv'
        /\ [Next]_vars
        => [(screens # <<>> /\ screens' # <<>> /\ Healthy')
              => \/ Head(screens') = Head(screens)
                 \/ Head(screens') \in sync_clients'
                 \/ Cardinality(sync_clients) = MaxSync]_vars
    BY FocusStep
  <1>. QED  BY <1>1, RecordsAlways, HealthAlways, PTL DEF Spec, FocusIsRedrawn

-----------------------------------------------------------------------------
(* The server implements ClientLife: while it is healthy each of its steps  *)
(* moves at most one client record one step along its life, or releases all *)
(* the retired ones.                                                        *)

LEMMA LifeOf ==
  ASSUME NEW c \in Conns
  PROVE  /\ life[c] \in Life!States
         /\ OwnedOnce => /\ life[c] = "retired" <=> c \in free_list
                         /\ life[c] = "shown"   <=> c \in Shown
                         /\ life[c] = "pending" <=> c \in pending_clients
  BY DEF life, Life!States, OwnedOnce, Live

LEMMA LifeTyped == life \in [Conns -> Life!States]
  BY DEF life, Life!States

\* A record stays as it is while its lists do.
LEMMA LifeKept ==
  ASSUME NEW c \in Conns, c \in free_list' <=> c \in free_list, c \in Shown' <=> c \in Shown,
         c \in pending_clients' <=> c \in pending_clients
  PROVE  life'[c] = life[c]
  BY DEF life

\* Steps that leave the lists alone stutter.
LEMMA LifeStutters ==
  ASSUME free_list' = free_list, Shown' = Shown, pending_clients' = pending_clients
  PROVE  life' = life
  BY DEF life

LEMMA LifeMoves ==
  ASSUME NEW c \in Conns, NEW from \in SUBSET Life!States, NEW to \in Life!States,
         life[c] \in from, life'[c] = to, \A d \in Conns \ {c} : life'[d] = life[d]
  PROVE  Life!Move(c, from, to)
  <1>1. life = [e \in Conns |-> life[e]] /\ life' = [e \in Conns |-> life'[e]]
    BY DEF life
  <1>2. life' = [life EXCEPT ![c] = to]
    BY <1>1, Zenon
  <1>. QED  BY <1>2 DEF Life!Move

LEMMA DropRetires ==
  ASSUME TypeInv, CountDrift, Healthy, Core, Core', NEW f \in Fds, HasData(f), drop_client(f)
  PROVE  \E c \in Conns : Life!Retire(c)
  <1>. DEFINE c == nodes[f]
  <1>1. PICK d \in Conns : d = c
    BY DEF HasData, TypeInv, TypeOK
  <1>2. /\ d \in Live /\ Live' = Live \ {d} /\ free_list' = free_list \cup {d}
        /\ pending_clients' = pending_clients \ {d} /\ Shown' = Shown \ {d}
    BY <1>1, DropHealthy
  <1>3. life[d] \in {"pending", "shown"}
    BY <1>2, LifeOf DEF Core, Live
  <1>4. life'[d] = "retired"
    BY <1>2 DEF life, Core, OwnedOnce, Live
  <1>5. \A e \in Conns \ {d} : life'[e] = life[e]
    BY <1>2, LifeKept
  <1>6. {"pending", "shown"} \in SUBSET Life!States /\ "retired" \in Life!States
    BY DEF Life!States
  <1>. QED  BY <1>3, <1>4, <1>5, <1>6, LifeMoves DEF Life!Retire

\* Every step is one of ClientLife, or leaves the life of every record alone.
LEMMA LifeStep ==
  ASSUME TypeInv, CountDrift, HealthInv, HealthInv', [Next]_vars, Healthy'
  PROVE  \/ \E c \in Conns : Life!Arrive(c) \/ Life!Show(c) \/ Life!Retire(c)
         \/ Life!Release
         \/ life' = life
  <1>. USE DEF kernel, fdpoll, loop, clients, lists
  <1>1. Healthy /\ Core /\ Core'
    BY HealthyBefore DEF HealthInv
  <1>2. CASE listener_callback
    <2>1. backlog # <<>> /\ backlog \in Seq(Conns)
      BY <1>2 DEF listener_callback, Callback, TypeInv, TypeOK, PhaseOK
    <2>2. PICK c \in Conns : c = Head(backlog)
      BY <2>1, TailSet
    <2>3. c \notin Live /\ c \notin free_list
      BY <1>1, <2>1, <2>2, TailSet DEF Core, BacklogFresh, OwnedOnce, Allocated
    <2>4. /\ free_list' = free_list /\ Shown' = Shown
          /\ pending_clients' = pending_clients \cup {c}
      BY <1>2, <2>2 DEF listener_callback, server_addclient, Shown
    <2>5. life[c] = "absent" /\ life'[c] = "pending"
      BY <2>3, <2>4 DEF life, Live
    <2>6. \A e \in Conns \ {c} : life'[e] = life[e]
      BY <2>4, LifeKept
    <2>7. Life!Arrive(c)
      BY <2>5, <2>6, LifeMoves DEF Life!Arrive, Life!States
    <2>. QED  BY <2>7
  <1>3. CASE handle_ack_established
    <2>1. PICK c \in Conns : c = Client /\ c \in pending_clients
      BY <1>3 DEF handle_ack_established, Dispatch, accepts, Client, TypeInv, TypeOK, PhaseOK
    <2>2. screens \in Seq(Conns \cup {Free}) /\ screens' = Append(screens, c)
      BY <1>3, <2>1 DEF handle_ack_established, TypeInv, TypeOK
    <2>3. /\ free_list' = free_list /\ pending_clients' = pending_clients \ {c}
          /\ Shown' = Shown \cup {c}
      BY <1>3, <2>1, <2>2, AppendSet DEF handle_ack_established, Shown
    <2>4. life[c] = "pending"
      BY <1>1, <2>1, LifeOf DEF Core
    <2>5. life'[c] = "shown"
      BY <1>1, <2>1, <2>3 DEF life, Core, OwnedOnce, Live
    <2>6. \A e \in Conns \ {c} : life'[e] = life[e]
      BY <2>3, LifeKept
    <2>7. Life!Show(c)
      BY <2>4, <2>5, <2>6, LifeMoves DEF Life!Show, Life!States
    <2>. QED  BY <2>7
  <1>4. ASSUME NEW f \in Fds, client_callback_hup(f) \/ client_callback_read_fails(f)
        PROVE  \E c \in Conns : Life!Retire(c)
    BY <1>1, <1>4, DropRetires DEF client_callback_hup, client_callback_read_fails
  <1>5. CASE dispatch_fails
    <2>1. HasData(serving) /\ serving \in Fds
      BY <1>5 DEF dispatch_fails, HasData, TypeInv, TypeOK, PhaseOK
    <2>2. \E c \in Conns : Life!Retire(c)
      BY <1>1, <1>5, <2>1, DropRetires DEF dispatch_fails
    <2>. QED  BY <2>2
  <1>6. CASE server_free_list
    <2>1. free_list' = {} /\ Shown' = Shown /\ pending_clients' = pending_clients
      BY <1>6 DEF server_free_list, Shown
    <2>2. CASE free_list = {}
      BY <2>1, <2>2, LifeStutters
    <2>3. CASE free_list # {}
      <3>1. PICK c \in Conns : c \in free_list
        BY <2>3 DEF TypeInv, TypeOK
      <3>2. life[c] = "retired"
        BY <1>1, <3>1, LifeOf DEF Core
      <3>3. ASSUME NEW e \in Conns
            PROVE  life'[e] = IF life[e] = "retired" THEN "absent" ELSE life[e]
        BY <1>1, <2>1 DEF life, Core, OwnedOnce, Live
      <3>4. life' = [e \in Conns |-> life'[e]]
        BY DEF life
      <3>5. life' = [e \in Conns |-> IF life[e] = "retired" THEN "absent" ELSE life[e]]
        BY ONLY <3>3, <3>4
      <3>. QED  BY <3>2, <3>5 DEF Life!Release
    <2>. QED  BY <2>2, <2>3
  <1>7. CASE hotkey_callback
    <2>1. /\ pending_clients' = pending_clients /\ free_list' = free_list
          /\ screens \in Seq(Conns \cup {Free}) /\ Distinct(screens)
      BY <1>1, <1>7 DEF hotkey_callback, TypeInv, TypeOK, Core, OwnedOnce, Distinct
    <2>2. Shown' = Shown
      <3>1. CASE screens' = screens
        BY <3>1 DEF Shown
      <3>2. CASE Len(screens) > 1 /\ screens' = Append(Tail(screens), Head(screens))
        <4>1. screens # <<>>
          BY <3>2, EmptySeq
        <4>. QED  BY <2>1, <3>2, <4>1, RotateSet DEF Shown
      <3>. QED  BY <1>7, <3>1, <3>2 DEF hotkey_callback
    <2>. QED  BY <2>1, <2>2, LifeStutters
  <1>8. CASE UNCHANGED <<pending_clients, screens, free_list>>
    BY <1>8, LifeStutters DEF Shown
  <1>9. \/ UNCHANGED <<pending_clients, screens, free_list>>
        \/ listener_callback \/ handle_ack_established \/ dispatch_fails
        \/ server_free_list \/ hotkey_callback
        \/ \E f \in Fds : client_callback_hup(f) \/ client_callback_read_fails(f)
    BY DEF Next, Peers, Server, Poll, Listener, ClientCallback, Messaging, connect,
           client_write, client_read, client_close, epoll_wait, begin_removals, end_poll,
           queued_removal, accept_fails, listener_rejects, listener_leaves_dangling,
           client_callback_read, client_callback_stale, walk_meets_freed, dispatch_servinfo,
           servinfo_again, spr16_server_register_sprite,
           handle_ack_send_fd, spr16_server_sync, sync_loop, crashed, vars
  <1>. QED  BY <1>2, <1>3, <1>4, <1>5, <1>6, <1>7, <1>8, <1>9

\* While the server is healthy a client record goes from pending to shown to
\* retired and is released before it can come back, whatever the peers do: the
\* safety part of LifeSpec.
THEOREM ServerKeepsClientLife == Spec => Life!Safety
  <1>1. Init => Life!Init
    BY ConstantsAssumption DEF Init, Life!Init, life, Shown, ToSet, Healthy, Fds
  <1>2. ASSUME TypeInv, CountDrift, HealthInv, HealthInv', [Next]_vars
        PROVE  [Life!Next]_<<life, ~Healthy>>
    <2>1. CASE ~Healthy'
      <3>1. life' \in [Conns -> Life!States]
        BY DEF life, Life!States
      <3>. QED  BY <2>1, <3>1 DEF Life!Next, Life!Break
    <2>2. CASE Healthy'
      <3>1. Healthy
        BY <1>2, <2>2, HealthyBefore
      <3>. QED  BY <1>2, <2>2, <3>1, LifeStep DEF Life!Next, Life!Keep
    <2>. QED  BY <2>1, <2>2
  <1>. QED  BY <1>1, <1>2, HealthAlways, PTL DEF Spec, Life!Safety
=============================================================================
