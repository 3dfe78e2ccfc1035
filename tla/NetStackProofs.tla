--------------------------- MODULE NetStackProofs ---------------------------
(***************************************************************************)
(* Proofs about NetStack, for every set of connections and every capacity: *)
(* type correctness; that the stack task never waits on a channel only it   *)
(* could drain; that the bytes of a connection reach the client complete    *)
(* and in order, and its end of stream after them; that a FIN goes out      *)
(* after all the data of the client.  At the end, the types and the ports   *)
(* of the UDP half, UdpRelay.                                               *)
(***************************************************************************)
EXTENDS NetStack, UdpRelay, SequenceTheorems, WellFoundedInduction, TLAPS

-----------------------------------------------------------------------------
(* Sequences. *)

LEMMA BytesFacts ==
    /\ <<>> \in Bytes /\ Len(<<>>) = 0
    /\ \A b \in Bytes : Len(b) \in Nat
    /\ \A b \in Bytes, n \in Nat : Append(b, n) \in Bytes /\ Len(Append(b, n)) = Len(b) + 1
    /\ \A b \in Bytes : b # <<>> => Head(b) \in Nat /\ Tail(b) \in Bytes /\ Len(Tail(b)) <= Len(b)
BY DEF Bytes

LEMMA ConcatBytes ==
    ASSUME NEW a \in Bytes, NEW b \in Bytes
    PROVE  a \o b \in Bytes /\ Len(a \o b) = Len(a) + Len(b)
BY DEF Bytes

LEMMA QueueFacts ==
    ASSUME NEW S, NEW q \in Seq(S)
    PROVE  /\ Len(q) \in Nat
           /\ \A x \in S : Append(q, x) \in Seq(S) /\ Len(Append(q, x)) = Len(q) + 1
           /\ q # <<>> => Head(q) \in S /\ Tail(q) \in Seq(S) /\ Len(Tail(q)) = Len(q) - 1
OBVIOUS

(* The pieces recv hands out of a buffer are sequences of bytes. *)
LEMMA ChunkListsType ==
    ASSUME NEW bytes \in Bytes
    PROVE  ChunkLists(bytes) \subseteq Seq(Bytes)
<1>1. \A k \in 1 .. Len(bytes) - 1 :
         SubSeq(bytes, 1, k) \in Bytes /\ SubSeq(bytes, k + 1, Len(bytes)) \in Bytes
  BY DEF Bytes
<1>2. \A k \in 1 .. Len(bytes) - 1 :
         <<SubSeq(bytes, 1, k), SubSeq(bytes, k + 1, Len(bytes))>> \in Seq(Bytes)
  BY <1>1
<1>3. <<bytes>> \in Seq(Bytes) /\ <<>> \in Seq(Bytes)
  OBVIOUS
<1> QED BY <1>2, <1>3 DEF ChunkLists

(* An empty buffer yields no chunk to send. *)
LEMMA ChunkListsEmpty == ChunkLists(<<>>) = {<<>>}
BY DEF ChunkLists

(* send_slice moves a prefix of pending that fits the transmit buffer. *)
LEMMA SendableType ==
    ASSUME TypeOK, NEW c \in Conns
    PROVE  /\ Sendable(c) \in Nat
           /\ Sendable(c) <= Len(pending[c])
           /\ Sendable(c) <= TcpBuf - Len(tx[c])
<1>1. pending[c] \in Bytes /\ tx[c] \in Bytes /\ Len(tx[c]) <= TcpBuf
  BY DEF TypeOK, TableType, SocketType
<1>2. Len(pending[c]) \in Nat /\ Len(tx[c]) \in Nat /\ TcpBuf \in Nat
  BY <1>1, BytesFacts, NetStackAssumption
<1>3. \A m, n \in Nat : m <= TcpBuf =>
         LET x == Lesser(n, TcpBuf - m) IN x \in Nat /\ x <= n /\ x <= TcpBuf - m
  BY <1>2 DEF Lesser
<1>4. \/ Sendable(c) = 0
      \/ Sendable(c) = Lesser(Len(pending[c]), TcpBuf - Len(tx[c]))
  BY DEF Sendable
<1> HIDE DEF Sendable
<1> QED BY <1>1, <1>2, <1>3, <1>4

(* The split of pending that ServiceBegin makes is well typed and leaves    *)
(* the transmit buffer within its capacity.                                 *)
LEMMA SplitType ==
    ASSUME TypeOK, NEW c \in Conns
    PROVE  /\ SubSeq(pending[c], Sendable(c) + 1, Len(pending[c])) \in Bytes
           /\ tx[c] \o SubSeq(pending[c], 1, Sendable(c)) \in Bytes
           /\ Len(tx[c] \o SubSeq(pending[c], 1, Sendable(c))) <= TcpBuf
<1> DEFINE p == pending[c]  t == tx[c]  n == Sendable(c)
<1>1. p \in Bytes /\ t \in Bytes BY DEF TypeOK, TableType, SocketType
<1>2. n \in Nat /\ n <= Len(p) /\ n <= TcpBuf - Len(t) BY SendableType
<1>3. TcpBuf \in Nat BY NetStackAssumption
<1> HIDE DEF p, t, n
<1>4. SubSeq(p, n + 1, Len(p)) \in Bytes BY <1>1, <1>2 DEF Bytes
<1>5. SubSeq(p, 1, n) \in Bytes /\ Len(SubSeq(p, 1, n)) = n BY <1>1, <1>2 DEF Bytes
<1>6. /\ t \o SubSeq(p, 1, n) \in Bytes
      /\ Len(t \o SubSeq(p, 1, n)) = Len(t) + n
  <2> DEFINE s == SubSeq(p, 1, n)
  <2>1. s \in Bytes /\ Len(s) = n BY <1>5
  <2> HIDE DEF s
  <2>2. t \o s \in Bytes /\ Len(t \o s) = Len(t) + Len(s) BY <1>1, <2>1, ConcatBytes
  <2> QED BY <2>1, <2>2 DEF s
<1>7. Len(t) \in Nat BY <1>1, BytesFacts
<1>8. Len(t \o SubSeq(p, 1, n)) <= TcpBuf BY <1>2, <1>3, <1>6, <1>7
<1> QED BY <1>4, <1>6, <1>8 DEF p, t, n

-----------------------------------------------------------------------------
(* Type correctness. *)

LEMMA TypeInit == Init => TypeOK
<1> SUFFICES ASSUME Init PROVE TypeOK
  OBVIOUS
<1> USE BytesFacts, NetStackAssumption DEF Init
<1>1. StackType BY DEF StackType, StackPcs
<1>2. QueueType BY DEF QueueType
<1>3. ChunkType BY DEF ChunkType
<1>4. TableType BY DEF TableType
<1>5. SocketType BY DEF SocketType, TcpStates
<1>6. ClientType BY DEF ClientType
<1>7. GhostType BY DEF GhostType
<1> QED BY <1>1, <1>2, <1>3, <1>4, <1>5, <1>6, <1>7 DEF TypeOK

LEMMA ClosedType == \A s \in TcpStates : Closed(s) \in TcpStates
BY DEF Closed, TcpStates

(* What a step leaves unchanged keeps its type. *)
LEMMA TypeUnchanged ==
    ASSUME TypeOK
    PROVE  /\ UNCHANGED <<pc, todo, cur, inbound, fresh, tun>> => StackType'
           /\ UNCHANGED <<cmdQ, dataQ, answer>> => QueueType'
           /\ UNCHANGED <<chunks, toApp>> => ChunkType'
           /\ UNCHANGED connVars => TableType'
           /\ UNCHANGED sockVars => SocketType'
           /\ UNCHANGED appVars => ClientType'
           /\ UNCHANGED ghostVars => GhostType'
BY DEF TypeOK, StackType, QueueType, ChunkType, TableType, SocketType, ClientType, GhostType,
       connVars, sockVars, appVars, ghostVars

(* The steps of the peers. *)
LEMMA TypePeer ==
    ASSUME TypeOK, NEW c \in Conns, Peer(c)
    PROVE  TypeOK'
<1> USE DEF Polling
<1>0. /\ UNCHANGED stackVars /\ UNCHANGED chanVars /\ UNCHANGED connVars /\ UNCHANGED appVars
      /\ StackType' /\ QueueType' /\ ChunkType' /\ TableType' /\ ClientType'
  <2>1. UNCHANGED stackVars /\ UNCHANGED chanVars /\ UNCHANGED connVars /\ UNCHANGED appVars
    BY DEF Peer, SynAck, Reset, RemoteData, RemoteFin, RemoteAck, FinAck, TimeWaitExpires
  <2> QED BY <2>1, TypeUnchanged DEF stackVars, chanVars
<1>a. rx[c] \in Bytes /\ tx[c] \in Bytes /\ delivered[c] \in Bytes /\ sent[c] \in Nat
        /\ Len(rx[c]) <= TcpBuf /\ Len(tx[c]) <= TcpBuf /\ TcpBuf \in Nat
        /\ Len(rx[c]) \in Nat /\ Len(tx[c]) \in Nat
  <2>1. rx[c] \in Bytes /\ tx[c] \in Bytes /\ delivered[c] \in Bytes /\ sent[c] \in Nat
          /\ Len(rx[c]) <= TcpBuf /\ Len(tx[c]) <= TcpBuf /\ TcpBuf \in Nat
    BY NetStackAssumption DEF TypeOK, SocketType, GhostType
  <2> QED BY <2>1, BytesFacts
<1>1. CASE SynAck(c) \/ FinAck(c) \/ TimeWaitExpires(c)
  <2>1. PICK s \in TcpStates : st' = [st EXCEPT ![c] = s]
    BY <1>1 DEF SynAck, FinAck, TimeWaitExpires, TcpStates
  <2>2. st' \in [Conns -> TcpStates] BY <2>1 DEF TypeOK, SocketType
  <2>3. SocketType'
    BY <1>1, <2>2 DEF TypeOK, SocketType, SynAck, FinAck, TimeWaitExpires
  <2> QED BY <1>0, <1>1, <2>3, TypeUnchanged DEF TypeOK, SynAck, FinAck, TimeWaitExpires
<1>2. CASE Reset(c)
  <2>1. st' \in [Conns -> TcpStates] BY <1>2 DEF TypeOK, SocketType, Reset, TcpStates
  <2>2. tx' \in [Conns -> Bytes] /\ \A d \in Conns : Len(tx'[d]) <= TcpBuf
    <3>1. <<>> \in Bytes /\ Len(<<>>) <= TcpBuf BY <1>a, BytesFacts
    <3> QED BY <1>2, <3>1 DEF TypeOK, SocketType, Reset
  <2>3. SocketType' BY <1>2, <2>1, <2>2 DEF TypeOK, SocketType, Reset
  <2> QED BY <1>0, <1>2, <2>3, TypeUnchanged DEF TypeOK, Reset
<1>3. CASE RemoteData(c)
  <2>1. Append(rx[c], sent[c] + 1) \in Bytes /\ Len(Append(rx[c], sent[c] + 1)) <= TcpBuf
    <3>1. Len(rx[c]) < TcpBuf BY <1>3 DEF RemoteData
    <3>2. sent[c] + 1 \in Nat BY <1>a
    <3>3. /\ Append(rx[c], sent[c] + 1) \in Bytes
          /\ Len(Append(rx[c], sent[c] + 1)) = Len(rx[c]) + 1
      BY <1>a, <3>2, BytesFacts
    <3> QED BY <1>a, <3>1, <3>3
  <2>2. SocketType'
    BY <1>3, <2>1 DEF TypeOK, SocketType, RemoteData
  <2>3. GhostType'
    BY <1>3, <1>a DEF TypeOK, GhostType, RemoteData
  <2> QED BY <1>0, <2>2, <2>3 DEF TypeOK
<1>4. CASE RemoteFin(c)
  <2>1. PICK s \in TcpStates : st' = [st EXCEPT ![c] = s]
    BY <1>4 DEF RemoteFin, TcpStates
  <2>2. st' \in [Conns -> TcpStates] BY <2>1 DEF TypeOK, SocketType
  <2>3. SocketType' BY <1>4, <2>2 DEF TypeOK, SocketType, RemoteFin
  <2>4. GhostType' BY <1>4 DEF TypeOK, GhostType, RemoteFin
  <2> QED BY <1>0, <2>3, <2>4 DEF TypeOK
<1>5. CASE RemoteAck(c)
  <2>1. /\ Tail(tx[c]) \in Bytes /\ Len(Tail(tx[c])) <= TcpBuf
        /\ Append(delivered[c], Head(tx[c])) \in Bytes
    <3>1. tx[c] # <<>> BY <1>5 DEF RemoteAck
    <3>2. Head(tx[c]) \in Nat /\ Tail(tx[c]) \in Bytes /\ Len(Tail(tx[c])) <= Len(tx[c])
      BY <1>a, <3>1, BytesFacts
    <3>3. Len(Tail(tx[c])) \in Nat BY <3>2, BytesFacts
    <3>4. Append(delivered[c], Head(tx[c])) \in Bytes BY <1>a, <3>2, BytesFacts
    <3> QED BY <1>a, <3>2, <3>3, <3>4
  <2>2. SocketType' BY <1>5, <2>1 DEF TypeOK, SocketType, RemoteAck
  <2>3. GhostType' BY <1>5, <2>1 DEF TypeOK, GhostType, RemoteAck
  <2> QED BY <1>0, <2>2, <2>3 DEF TypeOK
<1> QED BY <1>1, <1>2, <1>3, <1>4, <1>5 DEF Peer

(* The steps of one SOCKS client's two tasks. *)
LEMMA TypeClient ==
    ASSUME TypeOK, NEW c \in Conns, Main(c) \/ Up(c)
    PROVE  TypeOK'
<1>0. StackType' /\ TableType' /\ SocketType'
  <2>1. UNCHANGED stackVars /\ UNCHANGED connVars /\ UNCHANGED sockVars
    BY DEF Main, Up, OpenTcp, Answered, RelayDown, RelayBreaks, RelayEof, UpRead, UpEof,
           UpSend, UpClose
  <2> QED BY <2>1, TypeUnchanged DEF stackVars
<1>1. ClientType'
  BY DEF TypeOK, ClientType, Ended, Main, Up, OpenTcp, Answered, RelayDown, RelayBreaks,
         RelayEof, UpRead, UpEof, UpSend, UpClose, appVars
<1>2. CASE OpenTcp(c)
  <2>1. QueueType'
    BY <1>2, NetStackAssumption, QueueFacts DEF TypeOK, QueueType, OpenTcp
  <2> QED BY <1>0, <1>1, <1>2, <2>1, TypeUnchanged DEF TypeOK, OpenTcp, stackVars
<1>3. CASE Answered(c) \/ RelayBreaks(c) \/ RelayEof(c) \/ UpEof(c)
  BY <1>0, <1>1, <1>3, TypeUnchanged
     DEF TypeOK, Answered, RelayBreaks, RelayEof, UpEof, stackVars, chanVars
<1>4. CASE RelayDown(c)
  <2>1. /\ Head(toApp[c]) \in Bytes /\ Tail(toApp[c]) \in Seq(Bytes)
        /\ Len(Tail(toApp[c])) = Len(toApp[c]) - 1 /\ Len(toApp[c]) \in Nat
        /\ Len(toApp[c]) <= AppQueue /\ got[c] \in Bytes /\ AppQueue \in Nat
    BY <1>4, QueueFacts, NetStackAssumption DEF TypeOK, ChunkType, GhostType, RelayDown
  <2>2. got[c] \o Head(toApp[c]) \in Bytes
    BY <2>1, ConcatBytes
  <2>3. ChunkType' BY <1>4, <2>1 DEF TypeOK, ChunkType, RelayDown, stackVars
  <2>4. GhostType' BY <1>4, <2>2 DEF TypeOK, GhostType, RelayDown
  <2> QED BY <1>0, <1>1, <1>4, <2>3, <2>4, TypeUnchanged DEF TypeOK, RelayDown
<1>5. CASE UpRead(c)
  <2>1. GhostType' BY <1>5 DEF TypeOK, GhostType, UpRead
  <2> QED BY <1>0, <1>1, <1>5, <2>1, TypeUnchanged DEF TypeOK, UpRead, stackVars, chanVars
<1>6. CASE UpSend(c) \/ UpClose(c)
  <2>1. /\ [kind |-> "Tcp", id |-> c, b |-> wrote[c]] \in DataIn
        /\ [kind |-> "TcpClose", id |-> c, b |-> 0] \in DataIn
    BY DEF TypeOK, GhostType, DataIn
  <2>2. dataQ \in Seq(DataIn) /\ Len(dataQ) <= AppQueue /\ AppQueue \in Nat
    BY NetStackAssumption DEF TypeOK, QueueType
  <2>3. dataQ' \in Seq(DataIn) /\ Len(dataQ') <= AppQueue
    BY <1>6, <2>1, <2>2, QueueFacts, SMTT(30) DEF UpSend, UpClose, HasRoom
  <2>4. QueueType' BY <1>6, <2>3 DEF TypeOK, QueueType, UpSend, UpClose
  <2> QED BY <1>0, <1>1, <1>6, <2>4, TypeUnchanged DEF TypeOK, UpSend, UpClose, stackVars
<1> QED BY <1>2, <1>3, <1>4, <1>5, <1>6 DEF Main, Up

(* The steps of the stack task that only move it along its loop. *)
LEMMA TypeLoop ==
    ASSUME TypeOK, PollDone \/ ServiceDone \/ FlushTx \/ SelectInbound \/ SelectData
                     \/ DrainDone \/ SelectTimer
    PROVE  TypeOK'
<1>1. StackType'
  BY DEF TypeOK, StackType, StackPcs, PollDone, ServiceDone, FlushTx, SelectInbound, SelectData,
         DrainDone, SelectTimer
<1>2. SocketType'
  BY DEF TypeOK, SocketType, sockVars, PollDone, ServiceDone, FlushTx, SelectInbound, SelectData,
         DrainDone, SelectTimer
<1> QED
  BY <1>1, <1>2, TypeUnchanged
     DEF TypeOK, chanVars, PollDone, ServiceDone, FlushTx, SelectInbound, SelectData,
         DrainDone, SelectTimer

LEMMA TypeServiceBegin ==
    ASSUME TypeOK, NEW c \in Conns, ServiceBegin(c)
    PROVE  TypeOK'
<1> DEFINE rest == SubSeq(pending[c], Sendable(c) + 1, Len(pending[c]))
           moved == tx[c] \o SubSeq(pending[c], 1, Sendable(c))
<1>1. rest \in Bytes /\ moved \in Bytes /\ Len(moved) <= TcpBuf
  BY SplitType
<1>2. /\ pending' = [pending EXCEPT ![c] = rest]
      /\ tx' = [tx EXCEPT ![c] = moved]
      /\ rx' = [rx EXCEPT ![c] = <<>>]
  BY DEF ServiceBegin
<1> HIDE DEF rest, moved
<1>3. StackType' BY DEF TypeOK, StackType, StackPcs, ServiceBegin
<1>4. QueueType' BY DEF TypeOK, QueueType, ServiceBegin
<1>5. ChunkType'
  <2>1. chunks' \in ChunkLists(rx[c]) /\ rx[c] \in Bytes
    BY DEF TypeOK, SocketType, ServiceBegin
  <2>2. chunks' \in Seq(Bytes) BY <2>1, ChunkListsType
  <2> QED BY <2>2 DEF TypeOK, ChunkType, ServiceBegin
<1>6. TableType' BY <1>1, <1>2 DEF TypeOK, TableType, ServiceBegin
<1>7. SocketType'
  <2>1. st' \in [Conns -> TcpStates] BY ClosedType DEF TypeOK, SocketType, ServiceBegin
  <2>2. 0 <= TcpBuf BY NetStackAssumption
  <2>3. tx' \in [Conns -> Bytes] /\ \A d \in Conns : Len(tx'[d]) <= TcpBuf
    BY <1>1, <1>2 DEF TypeOK, SocketType
  <2>4. rx' \in [Conns -> Bytes] /\ \A d \in Conns : Len(rx'[d]) <= TcpBuf
    BY <1>2, <2>2, BytesFacts DEF TypeOK, SocketType
  <2> QED BY <2>1, <2>3, <2>4 DEF TypeOK, SocketType, ServiceBegin
<1> QED BY <1>3, <1>4, <1>5, <1>6, <1>7, TypeUnchanged DEF TypeOK, ServiceBegin

LEMMA TypeServiceRest ==
    ASSUME TypeOK, NEW c \in Conns, ServiceRefused(c) \/ ServiceSend \/ ServiceEnd
    PROVE  TypeOK'
<1>1. StackType' BY DEF TypeOK, StackType, StackPcs, ServiceRefused, ServiceSend, ServiceEnd
<1>2. QueueType' BY DEF TypeOK, QueueType, chanVars, ServiceRefused, ServiceSend, ServiceEnd
<1>3. TableType'
  BY BytesFacts DEF TypeOK, TableType, connVars, ServiceRefused, ServiceSend, ServiceEnd
<1>4. SocketType'
  <2>1. \A s \in TcpStates : AnswerFin(s) \in TcpStates BY ClosedType DEF AnswerFin
  <2>2. "none" \in TcpStates BY DEF TcpStates
  <2>3. st' \in [Conns -> TcpStates]
    BY <2>1, <2>2, ClosedType, SMTT(30)
       DEF TypeOK, SocketType, ServiceRefused, ServiceSend, ServiceEnd
  <2>4. 0 <= TcpBuf BY NetStackAssumption
  <2> QED BY <2>3, <2>4, BytesFacts, ZenonT(60) DEF TypeOK, SocketType, ServiceRefused, ServiceSend, ServiceEnd
<1>5. ChunkType'
  <2>1. CASE ServiceSend
    <3>1. /\ cur \in Conns /\ chunks \in Seq(Bytes) /\ toApp[cur] \in Seq(Bytes)
          /\ Len(toApp[cur]) <= AppQueue /\ AppQueue \in Nat /\ chunks # <<>>
      BY <2>1, NetStackAssumption DEF TypeOK, StackType, ChunkType, ServiceSend
    <3>2. Head(chunks) \in Bytes /\ Tail(chunks) \in Seq(Bytes) /\ <<>> \in Seq(Bytes)
      BY <3>1, QueueFacts
    <3>3. /\ Append(toApp[cur], Head(chunks)) \in Seq(Bytes)
          /\ HasRoom(toApp[cur]) => Len(Append(toApp[cur], Head(chunks))) <= AppQueue
      BY <3>1, <3>2, QueueFacts DEF HasRoom
    <3> QED BY <2>1, <3>1, <3>2, <3>3 DEF TypeOK, ChunkType, ServiceSend
  <2>2. CASE ServiceRefused(c) \/ ServiceEnd
    BY <2>2, TypeUnchanged DEF ServiceRefused, ServiceEnd, chanVars
  <2> QED BY <2>1, <2>2
<1> QED BY <1>1, <1>2, <1>3, <1>4, <1>5, TypeUnchanged
           DEF TypeOK, ServiceRefused, ServiceSend, ServiceEnd

LEMMA TypeSelect ==
    ASSUME TypeOK, SelectExit \/ SelectCmd \/ HandleData
    PROVE  TypeOK'
<1>1. StackType' BY DEF TypeOK, StackType, StackPcs, SelectExit, SelectCmd, HandleData, stackVars
<1>2. ChunkType' BY TypeUnchanged DEF SelectExit, SelectCmd, HandleData, stackVars
<1>3. SocketType'
  <2>1. CASE SelectExit
    BY <2>1, BytesFacts, NetStackAssumption DEF TypeOK, SocketType, TcpStates, SelectExit
  <2>2. CASE SelectCmd BY <2>2 DEF TypeOK, SocketType, TcpStates, SelectCmd
  <2>3. CASE HandleData BY <2>3, TypeUnchanged DEF HandleData
  <2> QED BY <2>1, <2>2, <2>3
<1>4. QueueType'
  <2>1. CASE SelectExit
    BY <2>1, NetStackAssumption DEF TypeOK, QueueType, SelectExit
  <2>2. CASE SelectCmd
    <3>1. Tail(cmdQ) \in Seq(Conns) /\ Len(Tail(cmdQ)) <= CmdQueue
      BY <2>2, QueueFacts, NetStackAssumption DEF TypeOK, QueueType, SelectCmd
    <3> QED BY <2>2, <3>1 DEF TypeOK, QueueType, SelectCmd
  <2>3. CASE HandleData
    <3>1. Tail(dataQ) \in Seq(DataIn) /\ Len(Tail(dataQ)) <= AppQueue
      BY <2>3, QueueFacts, NetStackAssumption DEF TypeOK, QueueType, HandleData
    <3> QED BY <2>3, <3>1 DEF TypeOK, QueueType, HandleData
  <2> QED BY <2>1, <2>2, <2>3
<1>5. TableType'
  <2>1. CASE SelectExit BY <2>1, BytesFacts DEF TypeOK, TableType, SelectExit
  <2>2. CASE SelectCmd BY <2>2 DEF TypeOK, TableType, SelectCmd
  <2>3. CASE HandleData
    <3>1. Head(dataQ) \in DataIn BY <2>3, QueueFacts DEF TypeOK, QueueType, HandleData
    <3>2. Head(dataQ).id \in Conns /\ Head(dataQ).b \in Nat BY <3>1 DEF DataIn
    <3>3. Append(pending[Head(dataQ).id], Head(dataQ).b) \in Bytes
      BY <3>2, BytesFacts DEF TypeOK, TableType
    <3> QED BY <2>3, <3>2, <3>3 DEF TypeOK, TableType, HandleData, HalfClosed
  <2> QED BY <2>1, <2>2, <2>3
<1> QED BY <1>1, <1>2, <1>3, <1>4, <1>5, TypeUnchanged DEF TypeOK, SelectExit, SelectCmd, HandleData

LEMMA TypeStep == TypeOK /\ [Next]_vars => TypeOK'
<1> SUFFICES ASSUME TypeOK, [Next]_vars PROVE TypeOK'
  OBVIOUS
<1>1. CASE PacketArrives \/ TunnelEnds
  <2>1. StackType' BY <1>1 DEF TypeOK, StackType, PacketArrives, TunnelEnds
  <2> QED BY <1>1, <2>1, TypeUnchanged DEF TypeOK, PacketArrives, TunnelEnds, chanVars
<1>2. CASE UNCHANGED vars
  BY <1>2, TypeUnchanged DEF TypeOK, vars, stackVars, chanVars
<1>3. CASE Stack
  BY <1>3, TypeLoop, TypeServiceBegin, TypeServiceRest, TypeSelect DEF Stack, TypeOK, StackType
<1> QED BY <1>1, <1>2, <1>3, TypePeer, TypeClient DEF Next

(* Every variable of the stack, of its channels, sockets and clients keeps  *)
(* its type, and every bounded channel and socket buffer its capacity.      *)
THEOREM TypeCorrect == Spec => []TypeOK
BY TypeInit, TypeStep, PTL DEF Spec

-----------------------------------------------------------------------------
(* The stack never waits for itself. *)

LEMMA SafetyInit == Init => HandshakePending /\ VisitPending /\ RequestsFresh
BY DEF Init, HandshakePending, VisitPending, RequestsFresh, Fresh

(* Steps that touch nothing the three conjuncts speak of. *)
LEMMA SafetyUnchanged ==
    ASSUME StackInv, UNCHANGED <<pc, todo, cur, chunks, conn, acked, rx, st, cl, cmdQ, answer>>
    PROVE  HandshakePending' /\ VisitPending' /\ RequestsFresh'
BY DEF StackInv, HandshakePending, VisitPending, RequestsFresh, Fresh

(* The peers: before the hand-over none of them has been sent the ACK it    *)
(* needs to do anything but complete or refuse the handshake.               *)
LEMMA SafetyPeer ==
    ASSUME StackInv, NEW c \in Conns, Peer(c)
    PROVE  HandshakePending' /\ VisitPending' /\ RequestsFresh'
<1> USE DEF StackInv, stackVars, chanVars, connVars, appVars
<1>0. /\ UNCHANGED <<pc, todo, cur, chunks, conn, acked, cl, cmdQ, answer>> /\ pc = "poll"
      /\ ~Fresh(c) /\ (\A d \in Conns \ {c} : st'[d] = st[d] /\ rx'[d] = rx[d])
  <2>1. ~Fresh(c)
    BY DEF Peer, SynAck, Reset, RemoteData, RemoteFin, RemoteAck, FinAck, TimeWaitExpires, Fresh
  <2> QED
    BY <2>1 DEF Peer, SynAck, Reset, RemoteData, RemoteFin, RemoteAck, FinAck, TimeWaitExpires,
                Polling, TypeOK, SocketType
<1>1. HandshakePending'
  <2>1. conn[c] = "opening" => rx'[c] = rx[c] /\ st'[c] \in {"SynSent", "Established", "Closed"}
    BY DEF Peer, SynAck, Reset, RemoteData, RemoteFin, RemoteAck, FinAck, TimeWaitExpires,
           HandshakePending, TypeOK, SocketType
  <2> QED BY <1>0, <2>1 DEF HandshakePending
<1>2. VisitPending' BY <1>0 DEF VisitPending
<1>3. RequestsFresh'
  <2>1. \A d \in Conns : Fresh(d) => Fresh(d)'
    BY <1>0 DEF Fresh
  <2>2. \A i \in 1 .. Len(cmdQ) : cmdQ[i] \in Conns
    BY DEF TypeOK, QueueType
  <2> QED BY <1>0, <2>1, <2>2 DEF RequestsFresh
<1> QED BY <1>1, <1>2, <1>3

(* The clients: only open_tcp matters, and it queues a fresh request. *)
LEMMA SafetyClient ==
    ASSUME StackInv, NEW c \in Conns, Main(c) \/ Up(c)
    PROVE  HandshakePending' /\ VisitPending' /\ RequestsFresh'
<1> USE DEF StackInv, stackVars, chanVars, connVars, sockVars, appVars
<1>0. UNCHANGED <<pc, todo, cur, chunks, conn, acked, rx, st, answer>>
  BY DEF Main, Up, OpenTcp, Answered, RelayDown, RelayBreaks, RelayEof, UpRead, UpEof, UpSend, UpClose
<1>1. HandshakePending' /\ VisitPending'
  BY <1>0 DEF HandshakePending, VisitPending
<1>2. \A d \in Conns : Fresh(d)' <=> Fresh(d)
  BY <1>0 DEF Fresh
<1>3. \A i \in 1 .. Len(cmdQ) : cmdQ[i] \in Conns
  BY DEF TypeOK, QueueType
<1>4. CASE OpenTcp(c) /\ ~StackGone
  <2>1. /\ cl[c] = "idle" /\ cmdQ' = Append(cmdQ, c) /\ cl' = [cl EXCEPT ![c] = "opening"]
    BY <1>4 DEF OpenTcp
  <2>2. cmdQ \in Seq(Conns) /\ cl \in [Conns -> {"idle", "opening", "relay"} \cup Ended]
    BY DEF TypeOK, QueueType, ClientType
  <2>3. Fresh(c) /\ (\A i \in 1 .. Len(cmdQ) : cmdQ[i] # c)
    BY <2>1 DEF RequestsFresh
  <2>4. Len(cmdQ') = Len(cmdQ) + 1 /\ Len(cmdQ) \in Nat
          /\ cmdQ'[Len(cmdQ) + 1] = c /\ (\A i \in 1 .. Len(cmdQ) : cmdQ'[i] = cmdQ[i])
    BY <2>1, <2>2
  <2>5. \A d \in Conns : cl'[d] = "idle" => cl[d] = "idle"
    BY <2>1, <2>2
  <2>6. cl'[c] = "opening" /\ (\A d \in Conns \ {c} : cl'[d] = cl[d])
    BY <2>1, <2>2
  <2>7. \A d \in Conns : cl'[d] = "idle" => Fresh(d)'
    BY <1>2, <2>5 DEF RequestsFresh
  <2>8. \A i \in 1 .. Len(cmdQ') : (cl[cmdQ[i]] = "opening" /\ Fresh(cmdQ[i]))'
    <3> SUFFICES ASSUME NEW i \in 1 .. Len(cmdQ')
                 PROVE  (cl[cmdQ[i]] = "opening" /\ Fresh(cmdQ[i]))'
      OBVIOUS
    <3>1. cmdQ'[i] \in Conns /\ cl'[cmdQ'[i]] = "opening" /\ Fresh(cmdQ'[i])
      BY <1>3, <2>3, <2>4, <2>6 DEF RequestsFresh
    <3> QED BY <1>0, <3>1 DEF Fresh
  <2>9. \A i, j \in 1 .. Len(cmdQ') : cmdQ'[i] = cmdQ'[j] => i = j
    BY <1>3, <2>3, <2>4 DEF RequestsFresh
  <2> QED BY <1>1, <2>7, <2>8, <2>9 DEF RequestsFresh
<1>5. CASE ~(OpenTcp(c) /\ ~StackGone)
  <2>1. /\ UNCHANGED cmdQ
        /\ \A d \in Conns : cl'[d] = "idle" => cl[d] = "idle"
        /\ \A d \in Conns : cl[d] = "opening" /\ answer[d] = "none" => cl'[d] = "opening"
    BY <1>5 DEF Main, Up, OpenTcp, Answered, RelayDown, RelayBreaks, RelayEof, UpRead, UpEof,
                UpSend, UpClose, TypeOK, ClientType, Ended
  <2>2. RequestsFresh'
    BY <1>2, <1>3, <2>1 DEF RequestsFresh, Fresh
  <2> QED BY <1>1, <2>2
<1> QED BY <1>4, <1>5

(* The loop steps: PollDone puts every connection on the list of the pass,  *)
(* and FlushTx acknowledges handshakes only when the list is empty.         *)
LEMMA SafetyLoop ==
    ASSUME StackInv, PollDone \/ ServiceDone \/ SelectInbound \/ SelectData
                     \/ DrainDone \/ SelectTimer \/ FlushTx
    PROVE  HandshakePending' /\ VisitPending' /\ RequestsFresh'
<1> USE DEF StackInv, chanVars, connVars, sockVars, appVars
<1>1. CASE FlushTx
  <2>1. \A c \in Conns : conn[c] = "opening" => ~Handshaken(c)
    BY <1>1 DEF FlushTx, VisitPending, HandshakePending, Handshaken
  <2>2. \A c \in Conns : Fresh(c) => ~Handshaken(c)
    BY DEF Fresh, Handshaken
  <2>3. \A i \in 1 .. Len(cmdQ) : cmdQ[i] \in Conns
    BY DEF TypeOK, QueueType
  <2>4. /\ UNCHANGED <<todo, cur, chunks, conn, rx, st, cl, cmdQ, answer>>
        /\ pc' = "select" /\ pc = "flush"
        /\ acked' = acked \cup {c \in Conns : Handshaken(c)}
    BY <1>1 DEF FlushTx
  <2>5. \A c \in Conns : Fresh(c) => Fresh(c)'
    BY <2>2, <2>4 DEF Fresh
  <2>6. HandshakePending' BY <2>1, <2>4 DEF HandshakePending
  <2>7. VisitPending' BY <2>4 DEF VisitPending
  <2>8. RequestsFresh' BY <2>3, <2>4, <2>5 DEF RequestsFresh
  <2> QED BY <2>6, <2>7, <2>8
<1>2. CASE ~FlushTx
  <2>1. UNCHANGED <<cur, chunks, conn, acked, rx, st, cl, cmdQ, answer>>
    BY <1>2 DEF PollDone, ServiceDone, SelectInbound, SelectData, DrainDone, SelectTimer
  <2>2. HandshakePending' /\ RequestsFresh'
    BY <2>1 DEF HandshakePending, RequestsFresh, Fresh
  <2>3. VisitPending'
    BY <1>2, <2>1 DEF VisitPending, PollDone, ServiceDone, SelectInbound, SelectData,
                       DrainDone, SelectTimer
  <2> QED BY <2>2, <2>3
<1> QED BY <1>1, <1>2

(* One visit of service_tcp. *)
LEMMA SafetyService ==
    ASSUME StackInv, NEW c \in Conns,
           ServiceRefused(c) \/ ServiceBegin(c) \/ ServiceSend \/ ServiceEnd
    PROVE  HandshakePending' /\ VisitPending' /\ RequestsFresh'
<1> USE DEF StackInv, chanVars, connVars, sockVars, appVars
<1>0. /\ \A i \in 1 .. Len(cmdQ) : cmdQ[i] \in Conns
      /\ conn \in [Conns -> {"absent", "opening", "open"}] /\ st \in [Conns -> TcpStates]
      /\ DOMAIN answer = Conns /\ DOMAIN rx = Conns /\ cur \in Conns /\ todo \subseteq Conns
      /\ answer \in [Conns -> {"none", "ok", "err", "dropped"}] /\ rx \in [Conns -> Bytes]
  BY DEF TypeOK, QueueType, TableType, SocketType, StackType
<1>1. CASE ServiceRefused(c)
  <2>1. \A d \in Conns : Fresh(d) => d # c /\ Fresh(d)'
    BY <1>0, <1>1 DEF ServiceRefused, Fresh
  <2>2. HandshakePending' BY <1>0, <1>1 DEF ServiceRefused, HandshakePending
  <2>3. VisitPending' BY <1>0, <1>1 DEF ServiceRefused, VisitPending
  <2>4. RequestsFresh' BY <1>0, <1>1, <2>1 DEF ServiceRefused, RequestsFresh
  <2> QED BY <2>2, <2>3, <2>4
<1>2. CASE ServiceBegin(c)
  <2>1. \A d \in Conns \ {c} : conn'[d] = conn[d] /\ st'[d] = st[d] /\ rx'[d] = rx[d]
                                /\ answer'[d] = answer[d]
    BY <1>0, <1>2 DEF ServiceBegin
  <2>2. /\ pc = "service" /\ pc' = "send" /\ c \in todo /\ cur' = c /\ rx'[c] = <<>>
        /\ UNCHANGED <<todo, acked, cl, cmdQ>>
    BY <1>0, <1>2 DEF ServiceBegin
  <2>3. conn[c] # "absent" BY <2>2 DEF VisitPending
  <2>4. conn'[c] = "opening" =>
          conn[c] = "opening" /\ chunks' = <<>> /\ st[c] = "SynSent" /\ st'[c] \in {"SynSent", "Closed"}
    <3> SUFFICES ASSUME conn'[c] = "opening"
                 PROVE  conn[c] = "opening" /\ chunks' = <<>> /\ st[c] = "SynSent"
                          /\ st'[c] \in {"SynSent", "Closed"}
      OBVIOUS
    <3>1. conn[c] = "opening" /\ st[c] # "Established" /\ st[c] # "Closed"
      BY <1>0, <1>2 DEF ServiceBegin, Establishes
    <3>2. st[c] = "SynSent" /\ rx[c] = <<>> BY <3>1 DEF HandshakePending
    <3>3. chunks' = <<>> BY <1>2, <3>2, ChunkListsEmpty DEF ServiceBegin
    <3>4. st'[c] \in {"SynSent", "Closed"} BY <1>0, <1>2, <3>2 DEF ServiceBegin, Closed
    <3> QED BY <3>1, <3>2, <3>3, <3>4
  <2>5. conn'[c] # "absent" BY <1>0, <1>2, <2>3 DEF ServiceBegin
  <2>6. HandshakePending' BY <2>1, <2>2, <2>4 DEF HandshakePending
  <2>7. VisitPending' BY <1>0, <2>1, <2>2, <2>4, <2>5 DEF VisitPending
  <2>8. \A d \in Conns : Fresh(d) => Fresh(d)'
    BY <2>1, <2>2, <2>3 DEF Fresh
  <2>9. RequestsFresh' BY <1>0, <2>2, <2>8 DEF RequestsFresh
  <2> QED BY <2>6, <2>7, <2>9
<1>3. CASE ServiceSend
  <2>1. /\ UNCHANGED <<pc, todo, cur, conn, rx, acked, cl, cmdQ, answer>> /\ pc = "send"
        /\ chunks # <<>> /\ \A d \in Conns \ {cur} : st'[d] = st[d]
    BY <1>0, <1>3 DEF ServiceSend
  <2>2. conn[cur] = "open" BY <1>0, <2>1 DEF VisitPending
  <2>3. HandshakePending' BY <2>1, <2>2 DEF HandshakePending
  <2>4. VisitPending' BY <2>1, <2>2 DEF VisitPending
  <2>5. \A d \in Conns : Fresh(d) => Fresh(d)' BY <2>1, <2>2 DEF Fresh
  <2>6. RequestsFresh' BY <1>0, <2>1, <2>5 DEF RequestsFresh
  <2> QED BY <2>3, <2>4, <2>6
<1>4. CASE ServiceEnd
  <2>1. /\ UNCHANGED <<cur, chunks, rx, acked, cl, cmdQ, answer>>
        /\ pc = "send" /\ pc' = "service" /\ todo' = todo \ {cur}
        /\ \A d \in Conns \ {cur} : st'[d] = st[d] /\ conn'[d] = conn[d]
    BY <1>0, <1>4 DEF ServiceEnd
  <2>2. conn[cur] # "absent" BY <2>1 DEF VisitPending
  <2>3. conn'[cur] = "opening" => conn[cur] = "opening" /\ st'[cur] = st[cur]
                                    /\ st[cur] # "Established"
    <3>1. conn'[cur] = "opening" => conn[cur] = "opening"
      BY <1>0, <1>4 DEF ServiceEnd
    <3>2. conn[cur] = "opening" => st[cur] # "CloseWait" /\ st[cur] # "Established"
      BY <1>0, <2>1 DEF VisitPending, HandshakePending
    <3>3. conn[cur] = "opening" => st'[cur] = st[cur]
      BY <1>0, <1>4, <3>2 DEF ServiceEnd, AnswerFin
    <3> QED BY <3>1, <3>2, <3>3
  <2>4. HandshakePending' BY <1>0, <2>1, <2>3 DEF HandshakePending
  <2>5. VisitPending' BY <1>0, <2>1, <2>3 DEF VisitPending
  <2>6. \A d \in Conns : Fresh(d) => Fresh(d)' BY <2>1, <2>2 DEF Fresh
  <2>7. RequestsFresh' BY <1>0, <2>1, <2>6 DEF RequestsFresh
  <2> QED BY <2>4, <2>5, <2>7
<1> QED BY <1>1, <1>2, <1>3, <1>4

(* The select arms that change the table. *)
LEMMA SafetySelect ==
    ASSUME StackInv, SelectExit \/ SelectCmd \/ HandleData
    PROVE  HandshakePending' /\ VisitPending' /\ RequestsFresh'
<1> USE DEF StackInv, stackVars, chanVars, connVars, sockVars, appVars
<1>0. /\ \A i \in 1 .. Len(cmdQ) : cmdQ[i] \in Conns
      /\ cmdQ \in Seq(Conns) /\ conn \in [Conns -> {"absent", "opening", "open"}]
      /\ st \in [Conns -> TcpStates] /\ cur \in Conns /\ todo \subseteq Conns
      /\ answer \in [Conns -> {"none", "ok", "err", "dropped"}]
  BY DEF TypeOK, QueueType, TableType, SocketType, StackType
<1>1. CASE SelectExit
  <2>1. \A c \in Conns : cl[c] = "idle" => Fresh(c)'
    BY <1>0, <1>1 DEF SelectExit, RequestsFresh, Fresh
  <2>2. HandshakePending' /\ VisitPending'
    BY <1>0, <1>1 DEF SelectExit, HandshakePending, VisitPending
  <2>3. RequestsFresh' BY <1>1, <2>1 DEF SelectExit, RequestsFresh
  <2> QED BY <2>2, <2>3
<1>2. CASE HandleData
  BY <1>2, SafetyUnchanged DEF HandleData
<1>3. CASE SelectCmd
  <2> DEFINE c == Head(cmdQ)
  <2>1. /\ pc = "select" /\ pc' = "poll" /\ cmdQ # <<>> /\ cmdQ' = Tail(cmdQ)
        /\ UNCHANGED <<todo, cur, chunks, rx, acked, cl>>
    BY <1>3 DEF SelectCmd
  <2>2. /\ c = cmdQ[1] /\ c \in Conns /\ Len(cmdQ) \in Nat \ {0}
        /\ Len(cmdQ') = Len(cmdQ) - 1 /\ \A i \in 1 .. Len(cmdQ') : cmdQ'[i] = cmdQ[i + 1]
    BY <1>0, <2>1
  <2>3. Fresh(c) /\ cl[c] = "opening"
    BY <2>2 DEF RequestsFresh
  <2>4. \A i \in 1 .. Len(cmdQ') : cmdQ'[i] # c
    <3> SUFFICES ASSUME NEW i \in 1 .. Len(cmdQ') PROVE cmdQ'[i] # c
      OBVIOUS
    <3>1. cmdQ'[i] = cmdQ[i + 1] /\ i + 1 \in 1 .. Len(cmdQ) /\ 1 \in 1 .. Len(cmdQ) /\ i + 1 # 1
      BY <2>2
    <3> QED BY <2>2, <3>1 DEF RequestsFresh
  <2>5. \A d \in Conns \ {c} : conn'[d] = conn[d] /\ st'[d] = st[d] /\ answer'[d] = answer[d]
    BY <1>0, <1>3 DEF SelectCmd
  <2>6. /\ conn'[c] = "opening" => st'[c] = "SynSent"
        /\ conn'[c] # "absent" \/ (conn'[c] = conn[c] /\ st'[c] = st[c])
    BY <1>0, <1>3, <2>2, <2>3 DEF SelectCmd, Fresh
  <2> HIDE DEF c
  <2>7. HandshakePending' BY <2>1, <2>3, <2>5, <2>6 DEF HandshakePending, Fresh
  <2>8. VisitPending' BY <1>0, <2>1, <2>5, <2>6 DEF VisitPending
  <2>9. \A d \in Conns \ {c} : Fresh(d) => Fresh(d)' BY <2>1, <2>5 DEF Fresh
  <2>10. \A d \in Conns : cl'[d] = "idle" => Fresh(d)'
    BY <2>1, <2>3, <2>9 DEF RequestsFresh
  <2>11. \A i \in 1 .. Len(cmdQ') : (cl[cmdQ[i]] = "opening" /\ Fresh(cmdQ[i]))'
    <3> SUFFICES ASSUME NEW i \in 1 .. Len(cmdQ')
                 PROVE  (cl[cmdQ[i]] = "opening" /\ Fresh(cmdQ[i]))'
      OBVIOUS
    <3>1. cmdQ'[i] = cmdQ[i + 1] /\ i + 1 \in 1 .. Len(cmdQ) BY <2>2
    <3>2. cl[cmdQ[i + 1]] = "opening" /\ Fresh(cmdQ[i + 1]) /\ cmdQ[i + 1] \in Conns
      BY <1>0, <3>1 DEF RequestsFresh
    <3> QED BY <2>1, <2>4, <2>5, <3>1, <3>2 DEF Fresh
  <2>12. \A i, j \in 1 .. Len(cmdQ') : cmdQ'[i] = cmdQ'[j] => i = j
    <3> SUFFICES ASSUME NEW i \in 1 .. Len(cmdQ'), NEW j \in 1 .. Len(cmdQ'), cmdQ'[i] = cmdQ'[j]
                 PROVE  i = j
      OBVIOUS
    <3>1. /\ cmdQ[i + 1] = cmdQ[j + 1]
          /\ i + 1 \in 1 .. Len(cmdQ) /\ j + 1 \in 1 .. Len(cmdQ)
      BY <2>2, SMTT(30)
    <3>2. i + 1 = j + 1 BY <3>1 DEF RequestsFresh
    <3> QED BY <3>2
  <2> QED BY <2>7, <2>8, <2>10, <2>11, <2>12 DEF RequestsFresh
<1> QED BY <1>1, <1>2, <1>3

LEMMA SafetyStep == StackInv /\ [Next]_vars => StackInv'
<1> SUFFICES ASSUME StackInv, [Next]_vars PROVE StackInv'
  OBVIOUS
<1>0. TypeOK' BY TypeStep DEF StackInv
<1>1. CASE Stack
  <2>1. cur \in Conns BY DEF StackInv, TypeOK, StackType
  <2> QED BY <1>0, <1>1, <2>1, SafetyLoop, SafetyService, SafetySelect DEF Stack, StackInv
<1>2. CASE PacketArrives \/ TunnelEnds \/ UNCHANGED vars
  BY <1>0, <1>2, SafetyUnchanged
     DEF StackInv, PacketArrives, TunnelEnds, vars, stackVars, chanVars, connVars, sockVars, appVars
<1>3. ASSUME NEW c \in Conns, Peer(c) \/ Main(c) \/ Up(c) PROVE StackInv'
  BY <1>0, <1>3, SafetyPeer, SafetyClient DEF StackInv
<1> QED BY <1>1, <1>2, <1>3 DEF Next

(* service_tcp never awaits room in a to_app channel whose receiver is       *)
(* still in tcp_conns, whatever the capacities, the peers and the clients:   *)
(* the ACK that lets a peer send leaves in flush_tx, after the hand-over.    *)
THEOREM NeverWaitsOnItself == Spec => []NoSelfDeadlock
<1>1. Init => StackInv BY TypeInit, SafetyInit DEF StackInv
<1>2. StackInv => NoSelfDeadlock
  BY DEF StackInv, VisitPending, NoSelfDeadlock, TypeOK, StackType, TableType
<1> QED BY <1>1, <1>2, SafetyStep, PTL DEF Spec

-----------------------------------------------------------------------------
(* The table, the sockets, the answers and the clients agree. *)

(* What the types say of one connection. *)
LEMMA Typed ==
    ASSUME TypeOK
    PROVE  /\ conn \in [Conns -> {"absent", "opening", "open"}] /\ st \in [Conns -> TcpStates]
           /\ answer \in [Conns -> {"none", "ok", "err", "dropped"}]
           /\ cl \in [Conns -> {"idle", "opening", "relay"} \cup Ended]
           /\ up \in [Conns -> {"off", "read", "send", "close", "done"}]
           /\ half \in [Conns -> BOOLEAN] /\ pending \in [Conns -> Bytes]
           /\ rx \in [Conns -> Bytes] /\ tx \in [Conns -> Bytes]
           /\ toApp \in [Conns -> Seq(Bytes)] /\ chunks \in Seq(Bytes)
           /\ wrote \in [Conns -> Nat] /\ got \in [Conns -> Bytes] /\ sent \in [Conns -> Nat]
           /\ delivered \in [Conns -> Bytes] /\ dataQ \in Seq(DataIn) /\ cur \in Conns
           /\ cmdQ \in Seq(Conns) /\ acked \subseteq Conns
BY DEF TypeOK, StackType, QueueType, ChunkType, TableType, SocketType, ClientType, GhostType

LEMMA HandedInit == Init => HandedOver
BY DEF Init, HandedOver

LEMMA HandedUnchanged ==
    ASSUME HandedOver, UNCHANGED <<conn, answer, acked, up, cl, toApp>>,
           \A c \in Conns : st'[c] = "none" <=> st[c] = "none"
    PROVE  HandedOver'
BY DEF HandedOver

LEMMA HandedPeer ==
    ASSUME StackInv, HandedOver, NEW c \in Conns, Peer(c)
    PROVE  HandedOver'
<1>1. st \in [Conns -> TcpStates] BY Typed DEF StackInv
<1>2. UNCHANGED <<conn, answer, acked, up, cl, toApp>>
  BY DEF Peer, SynAck, Reset, RemoteData, RemoteFin, RemoteAck, FinAck, TimeWaitExpires,
         chanVars, connVars, appVars
<1>3. \A d \in Conns : st'[d] = "none" <=> st[d] = "none"
  BY <1>1 DEF Peer, SynAck, Reset, RemoteData, RemoteFin, RemoteAck, FinAck, TimeWaitExpires
<1> QED BY <1>2, <1>3, HandedUnchanged

LEMMA HandedClient ==
    ASSUME StackInv, HandedOver, NEW c \in Conns, Main(c) \/ Up(c)
    PROVE  HandedOver'
<1>1. /\ cl \in [Conns -> {"idle", "opening", "relay"} \cup Ended]
      /\ up \in [Conns -> {"off", "read", "send", "close", "done"}]
      /\ toApp \in [Conns -> Seq(Bytes)]
  BY Typed DEF StackInv
<1>2. UNCHANGED <<conn, answer, acked, st>>
  BY DEF Main, Up, OpenTcp, Answered, RelayDown, RelayBreaks, RelayEof, UpRead, UpEof, UpSend,
         UpClose, chanVars, connVars, sockVars
<1>3. \A d \in Conns \ {c} : up'[d] = up[d] /\ cl'[d] = cl[d] /\ toApp'[d] = toApp[d]
  BY <1>1 DEF Main, Up, OpenTcp, Answered, RelayDown, RelayBreaks, RelayEof, UpRead, UpEof, UpSend,
              UpClose, chanVars, appVars
<1>4. /\ up'[c] # "off" => answer[c] = "ok" /\ cl'[c] \notin {"idle", "opening"}
      /\ cl'[c] = "relay" => up'[c] # "off"
      /\ cl'[c] = "eof" => conn[c] = "absent" /\ toApp'[c] = <<>>
  <2>1. CASE OpenTcp(c) \/ Answered(c) \/ RelayDown(c) \/ RelayBreaks(c) \/ RelayEof(c)
    BY <1>1, <2>1 DEF OpenTcp, Answered, RelayDown, RelayBreaks, RelayEof, HandedOver, chanVars,
                      appVars
  <2>2. CASE UpRead(c) \/ UpEof(c) \/ UpSend(c) \/ UpClose(c)
    BY <1>1, <2>2 DEF UpRead, UpEof, UpSend, UpClose, HandedOver, chanVars
  <2> QED BY <2>1, <2>2 DEF Main, Up
<1> QED BY <1>2, <1>3, <1>4 DEF HandedOver

LEMMA HandedLoop ==
    ASSUME StackInv, HandedOver,
           PollDone \/ ServiceDone \/ SelectInbound \/ SelectData \/ DrainDone \/ SelectTimer
              \/ HandleData \/ FlushTx
    PROVE  HandedOver'
<1>1. UNCHANGED <<conn, answer, up, cl, toApp, st>>
  BY DEF PollDone, ServiceDone, SelectInbound, SelectData, DrainDone, SelectTimer, HandleData,
         FlushTx, chanVars, connVars, sockVars, appVars
<1>2. CASE FlushTx
  <2>1. acked' = acked \cup {c \in Conns : Handshaken(c)} BY <1>2 DEF FlushTx
  <2>2. \A c \in Conns : Handshaken(c) => conn[c] = "open"
    <3>1. \A c \in Conns : conn[c] = "opening" => ~Handshaken(c)
      BY <1>2 DEF FlushTx, StackInv, VisitPending, HandshakePending, Handshaken
    <3>2. \A c \in Conns : Handshaken(c) => conn[c] # "absent" BY DEF HandedOver, Handshaken
    <3> QED BY <3>1, <3>2, Typed DEF StackInv
  <2> QED BY <1>1, <2>1, <2>2 DEF HandedOver
<1>3. CASE ~FlushTx
  <2>1. acked' = acked
    BY <1>3 DEF PollDone, ServiceDone, SelectInbound, SelectData, DrainDone, SelectTimer,
                HandleData, sockVars
  <2> QED BY <1>1, <2>1, HandedUnchanged
<1> QED BY <1>2, <1>3

LEMMA HandedService ==
    ASSUME StackInv, HandedOver, NEW c \in Conns,
           ServiceRefused(c) \/ ServiceBegin(c) \/ ServiceSend \/ ServiceEnd
    PROVE  HandedOver'
<1>0. /\ conn \in [Conns -> {"absent", "opening", "open"}] /\ st \in [Conns -> TcpStates]
      /\ answer \in [Conns -> {"none", "ok", "err", "dropped"}] /\ cur \in Conns
      /\ toApp \in [Conns -> Seq(Bytes)]
  BY Typed DEF StackInv
<1>c. \A s \in TcpStates : Closed(s) = "none" <=> s = "none"
  BY DEF Closed, TcpStates
<1>1. CASE ServiceRefused(c)
  <2>1. /\ conn[c] = "opening" /\ conn'[c] = "absent" /\ st'[c] = "none" /\ answer'[c] = "err"
        /\ UNCHANGED <<acked, up, cl, toApp>>
        /\ \A d \in Conns \ {c} : conn'[d] = conn[d] /\ st'[d] = st[d] /\ answer'[d] = answer[d]
    BY <1>0, <1>1 DEF ServiceRefused, appVars
  <2>2. c \notin acked /\ up[c] = "off" BY <2>1 DEF StackInv, HandshakePending, HandedOver
  <2> QED BY <2>1, <2>2 DEF HandedOver
<1>2. CASE ServiceBegin(c)
  <2>1. /\ UNCHANGED <<acked, up, cl, toApp>>
        /\ \A d \in Conns \ {c} : conn'[d] = conn[d] /\ st'[d] = st[d] /\ answer'[d] = answer[d]
        /\ st'[c] = "none" <=> st[c] = "none"
    BY <1>0, <1>2, <1>c DEF ServiceBegin, appVars
  <2>2. \/ conn[c] = "opening" /\ conn'[c] = "open" /\ answer'[c] = "ok"
        \/ conn'[c] = conn[c] /\ answer'[c] = answer[c]
    BY <1>0, <1>2 DEF ServiceBegin, Establishes
  <2> QED BY <2>1, <2>2 DEF HandedOver
<1>3. CASE ServiceSend
  <2>1. /\ UNCHANGED <<conn, answer, acked, up, cl>>
        /\ \A d \in Conns \ {cur} : st'[d] = st[d] /\ toApp'[d] = toApp[d]
        /\ st'[cur] = "none" <=> st[cur] = "none"
    BY <1>0, <1>3, <1>c DEF ServiceSend, appVars, connVars
  <2>2. conn[cur] = "open"
    BY <1>0, <1>3 DEF ServiceSend, StackInv, VisitPending
  <2> QED BY <1>0, <2>1, <2>2 DEF HandedOver
<1>4. CASE ServiceEnd
  <2>1. /\ UNCHANGED <<answer, acked, up, cl, toApp>>
        /\ \A d \in Conns \ {cur} : conn'[d] = conn[d] /\ st'[d] = st[d]
    BY <1>0, <1>4 DEF ServiceEnd, chanVars, appVars, connVars
  <2>2. \/ conn[cur] = "open" /\ conn'[cur] = "absent" /\ st'[cur] = "none"
        \/ conn'[cur] = conn[cur] /\ (st'[cur] = "none" <=> st[cur] = "none")
    BY <1>0, <1>4, <1>c DEF ServiceEnd, connVars, AnswerFin
  <2> QED BY <1>0, <2>1, <2>2 DEF HandedOver
<1> QED BY <1>1, <1>2, <1>3, <1>4

LEMMA HandedSelect ==
    ASSUME StackInv, HandedOver, SelectExit \/ SelectCmd
    PROVE  HandedOver'
<1>0. /\ conn \in [Conns -> {"absent", "opening", "open"}] /\ st \in [Conns -> TcpStates]
      /\ answer \in [Conns -> {"none", "ok", "err", "dropped"}] /\ cmdQ \in Seq(Conns)
  BY Typed DEF StackInv
<1>1. CASE SelectExit
  BY <1>0, <1>1 DEF SelectExit, HandedOver, appVars
<1>2. CASE SelectCmd
  <2> DEFINE c == Head(cmdQ)
  <2>1. c \in Conns /\ c = cmdQ[1] /\ 1 \in 1 .. Len(cmdQ)
    BY <1>0, <1>2 DEF SelectCmd
  <2>2. Fresh(c) /\ cl[c] = "opening" BY <2>1 DEF StackInv, RequestsFresh
  <2>3. /\ UNCHANGED <<acked, up, cl, toApp>>
        /\ \A d \in Conns \ {c} : conn'[d] = conn[d] /\ st'[d] = st[d] /\ answer'[d] = answer[d]
        /\ \/ conn'[c] = conn[c] /\ st'[c] = st[c] /\ answer'[c] = "err"
           \/ conn'[c] = "opening" /\ st'[c] = "SynSent" /\ answer'[c] = answer[c]
    BY <1>0, <1>2, <2>1 DEF SelectCmd, appVars
  <2> HIDE DEF c
  <2> QED BY <2>1, <2>2, <2>3 DEF HandedOver, Fresh
<1> QED BY <1>1, <1>2

LEMMA HandedStep == StackInv /\ HandedOver /\ [Next]_vars => HandedOver'
<1> SUFFICES ASSUME StackInv, HandedOver, [Next]_vars PROVE HandedOver'
  OBVIOUS
<1>1. CASE Stack
  <2>1. cur \in Conns BY Typed DEF StackInv
  <2> QED BY <1>1, <2>1, HandedLoop, HandedService, HandedSelect DEF Stack
<1>2. CASE PacketArrives \/ TunnelEnds \/ UNCHANGED vars
  BY <1>2, HandedUnchanged DEF PacketArrives, TunnelEnds, vars, chanVars, connVars, sockVars, appVars
<1> QED BY <1>1, <1>2, HandedPeer, HandedClient DEF Next
-----------------------------------------------------------------------------
(* Streams in pieces. *)

(* The least-element principle, which stands in for induction. *)
LEMMA LeastOf ==
    ASSUME NEW T, T \subseteq Nat, T # {}
    PROVE  \E x \in T : \A y \in T : ~(y < x)
<1>1. PICK x \in T : \A y \in T : ~(<<y, x>> \in OpToRel(<, Nat))
  BY WFMin, NatLessThanWellFounded, Zenon
<1>2. \A y \in T : ~(y < x)
  BY <1>1, Zenon DEF OpToRel
<1> QED BY <1>2

LEMMA NoneLeft == ASSUME NEW S, NEW s \in Seq(S) PROVE s = <<>> <=> Len(s) = 0
OBVIOUS

LEMMA LastByte ==
    ASSUME NEW s \in Bytes, s # <<>>
    PROVE  Last(s) = s[Len(s)] /\ Last(s) \in Nat /\ Len(s) \in Nat /\ Len(s) >= 1
BY DEF Bytes, Last

(* A chain read chunk by chunk: each starts where the one before it ends. *)
LEMMA ChainFacts ==
    ASSUME NEW q \in Seq(Bytes), NEW a \in Nat, Chain(q, a), NEW i \in 1 .. Len(q)
    PROVE  LET from == IF i = 1 THEN a ELSE Last(q[i - 1])
           IN  /\ q[i] \in Bytes /\ q[i] # <<>> /\ Len(q[i]) \in Nat /\ Len(q[i]) >= 1
               /\ from \in Nat /\ Last(q[i]) \in Nat /\ Last(q[i]) = from + Len(q[i])
               /\ \A j \in 1 .. Len(q[i]) : q[i][j] = from + j
<1> DEFINE from == IF i = 1 THEN a ELSE Last(q[i - 1])
<1>1. q[i] \in Bytes /\ q[i] # <<>> /\ \A j \in 1 .. Len(q[i]) : q[i][j] = from + j
  BY DEF Chain
<1>2. Last(q[i]) = q[i][Len(q[i])] /\ Last(q[i]) \in Nat /\ Len(q[i]) \in Nat /\ Len(q[i]) >= 1
  BY <1>1, LastByte
<1>3. from \in Nat
  <2>1. CASE i = 1 BY <2>1
  <2>2. CASE i # 1
    <3>1. i - 1 \in 1 .. Len(q) BY <2>2
    <3>2. q[i - 1] \in Bytes /\ q[i - 1] # <<>> BY <3>1 DEF Chain
    <3> QED BY <2>2, <3>2, LastByte
  <2> QED BY <2>1, <2>2
<1>4. Len(q[i]) \in 1 .. Len(q[i]) BY <1>2
<1> QED BY <1>1, <1>2, <1>3, <1>4

LEMMA ChainEmpty == \A a : Chain(<<>>, a) /\ After(<<>>, a) = a
BY DEF Chain, After

LEMMA AfterNat ==
    ASSUME NEW q \in Seq(Bytes), NEW a \in Nat, Chain(q, a)
    PROVE  After(q, a) \in Nat
<1>1. CASE q = <<>> BY <1>1 DEF After
<1>2. CASE q # <<>>
  <2>1. Len(q) \in 1 .. Len(q) BY <1>2
  <2>2. Last(q[Len(q)]) \in Nat BY <2>1, ChainFacts
  <2> QED BY <1>2, <2>2 DEF After
<1> QED BY <1>1, <1>2

LEMMA ChainAppend ==
    ASSUME NEW q \in Seq(Bytes), NEW a \in Nat, Chain(q, a), NEW s \in Bytes, s # <<>>,
           \A j \in 1 .. Len(s) : s[j] = After(q, a) + j
    PROVE  Chain(Append(q, s), a) /\ After(Append(q, s), a) = After(q, a) + Len(s)
<1> DEFINE r == Append(q, s)
<1>1. /\ r \in Seq(Bytes) /\ Len(q) \in Nat /\ Len(r) = Len(q) + 1 /\ r[Len(q) + 1] = s
      /\ \A i \in 1 .. Len(q) : r[i] = q[i]
  OBVIOUS
<1>2. r # <<>> BY <1>1
<1> HIDE DEF r
<1>3. q = <<>> <=> Len(q) = 0 OBVIOUS
<1>4. After(q, a) = IF Len(q) + 1 = 1 THEN a ELSE Last(r[Len(q)])
  <2>1. CASE q = <<>> BY <1>3, <2>1 DEF After
  <2>2. CASE q # <<>>
    <3>1. Len(q) \in 1 .. Len(q) /\ Len(q) + 1 # 1 BY <1>1, <1>3, <2>2
    <3> QED BY <1>1, <2>2, <3>1 DEF After
  <2> QED BY <2>1, <2>2
<1>5. Chain(r, a)
  <2> SUFFICES ASSUME NEW i \in 1 .. Len(r)
               PROVE  /\ r[i] # <<>>
                      /\ \A j \in 1 .. Len(r[i]) :
                            r[i][j] = (IF i = 1 THEN a ELSE Last(r[i - 1])) + j
    BY DEF Chain
  <2>1. CASE i = Len(q) + 1
    <3>1. i - 1 = Len(q) BY <1>1, <2>1
    <3> QED BY <1>1, <1>4, <2>1, <3>1
  <2>2. CASE i # Len(q) + 1
    <3>1. i \in 1 .. Len(q) /\ r[i] = q[i] BY <1>1, <2>2
    <3>2. i # 1 => i - 1 \in 1 .. Len(q) /\ r[i - 1] = q[i - 1] BY <1>1, <3>1
    <3> QED BY <3>1, <3>2 DEF Chain
  <2> QED BY <2>1, <2>2
<1>6. After(r, a) = After(q, a) + Len(s)
  <2>1. After(r, a) = Last(s) BY <1>1, <1>2 DEF After
  <2>2. Last(s) = s[Len(s)] /\ Len(s) \in 1 .. Len(s) BY LastByte
  <2> QED BY <2>1, <2>2
<1> QED BY <1>5, <1>6 DEF r

LEMMA ChainTail ==
    ASSUME NEW q \in Seq(Bytes), NEW a \in Nat, Chain(q, a), q # <<>>
    PROVE  /\ Head(q) \in Bytes /\ Head(q) # <<>>
           /\ \A j \in 1 .. Len(Head(q)) : Head(q)[j] = a + j
           /\ Chain(Tail(q), a + Len(Head(q)))
           /\ After(Tail(q), a + Len(Head(q))) = After(q, a)
<1> DEFINE t == Tail(q)  b == a + Len(q[1])
<1>1. /\ Head(q) = q[1] /\ t \in Seq(Bytes) /\ Len(q) \in Nat /\ Len(q) >= 1
      /\ Len(t) = Len(q) - 1 /\ \A i \in 1 .. Len(t) : t[i] = q[i + 1]
  OBVIOUS
<1>2. t = <<>> <=> Len(q) = 1
  <2>1. t = <<>> <=> Len(t) = 0 BY <1>1, NoneLeft
  <2> HIDE DEF t
  <2> QED BY <1>1, <2>1
<1>3. 1 \in 1 .. Len(q) /\ Len(q) \in 1 .. Len(q) BY <1>1
<1>4. /\ q[1] \in Bytes /\ q[1] # <<>> /\ (\A j \in 1 .. Len(q[1]) : q[1][j] = a + j)
      /\ Last(q[1]) = b
  BY <1>3, ChainFacts
<1> HIDE DEF t, b
<1>5. Chain(t, b)
  <2> SUFFICES ASSUME NEW i \in 1 .. Len(t)
               PROVE  /\ t[i] # <<>>
                      /\ \A j \in 1 .. Len(t[i]) :
                            t[i][j] = (IF i = 1 THEN b ELSE Last(t[i - 1])) + j
    BY DEF Chain
  <2>1. i + 1 \in 1 .. Len(q) /\ t[i] = q[i + 1] /\ i + 1 # 1 /\ (i + 1) - 1 = i BY <1>1
  <2>2. t[i] # <<>> /\ \A j \in 1 .. Len(t[i]) : t[i][j] = Last(q[i]) + j
    BY <2>1 DEF Chain
  <2>3. i # 1 => t[i - 1] = q[i] BY <1>1
  <2> QED BY <1>4, <2>2, <2>3
<1>6. After(t, b) = After(q, a)
  <2>1. CASE t = <<>> BY <1>2, <1>4, <2>1 DEF After
  <2>2. CASE t # <<>>
    <3>1. Len(t) \in 1 .. Len(t) /\ t[Len(t)] = q[Len(q)] BY <1>1, <1>2, <2>2
    <3> QED BY <2>2, <3>1 DEF After
  <2> QED BY <2>1, <2>2
<1> QED BY <1>1, <1>4, <1>5, <1>6 DEF t, b

(* The pieces recv hands out of a buffer are a chain over it. *)
LEMMA ChunkListsChain ==
    ASSUME NEW bytes \in Bytes, NEW a \in Nat, \A i \in 1 .. Len(bytes) : bytes[i] = a + i,
           NEW x \in ChunkLists(bytes)
    PROVE  Chain(x, a) /\ After(x, a) = a + Len(bytes)
<1>0. Len(bytes) \in Nat /\ (bytes = <<>> <=> Len(bytes) = 0) /\ <<>> \in Seq(Bytes) BY DEF Bytes
<1>1. CASE x = <<>> /\ bytes = <<>> BY <1>0, <1>1, ChainEmpty
<1>2. CASE x = <<bytes>> /\ bytes # <<>>
  <2>1. x = Append(<<>>, bytes) BY <1>2
  <2> QED BY <1>0, <1>2, <2>1, ChainEmpty, ChainAppend, ZenonT(60)
<1>3. ASSUME NEW k \in 1 .. Len(bytes) - 1,
             x = <<SubSeq(bytes, 1, k), SubSeq(bytes, k + 1, Len(bytes))>>
      PROVE  Chain(x, a) /\ After(x, a) = a + Len(bytes)
  <2> DEFINE s == SubSeq(bytes, 1, k)  t == SubSeq(bytes, k + 1, Len(bytes))
  <2>1. /\ s \in Bytes /\ Len(s) = k /\ \A j \in 1 .. k : s[j] = a + j
    BY <1>0 DEF Bytes
  <2>2. /\ t \in Bytes /\ Len(t) = Len(bytes) - k
        /\ \A j \in 1 .. Len(bytes) - k : t[j] = (a + k) + j
    BY <1>0 DEF Bytes
  <2>3. s # <<>> /\ t # <<>> /\ k \in Nat
    <3>1. (s = <<>> <=> Len(s) = 0) /\ (t = <<>> <=> Len(t) = 0)
      BY <2>1, <2>2, NoneLeft DEF Bytes
    <3> HIDE DEF s, t
    <3> QED BY <1>0, <2>1, <2>2, <3>1
  <2>4. x = Append(Append(<<>>, s), t) BY <1>3
  <2> HIDE DEF s, t
  <2> DEFINE q == Append(<<>>, s)
  <2>5. Chain(q, a) /\ After(q, a) = a + k /\ q \in Seq(Bytes)
    <3>1. Chain(<<>>, a) /\ After(<<>>, a) = a BY ChainEmpty
    <3>2. \A j \in 1 .. Len(s) : s[j] = After(<<>>, a) + j BY <2>1, <3>1
    <3>3. Chain(q, a) /\ After(q, a) = After(<<>>, a) + Len(s)
      BY <1>0, <2>1, <2>3, <3>1, <3>2, ChainAppend
    <3> QED BY <1>0, <2>1, <3>1, <3>3
  <2> HIDE DEF q
  <2>6. \A j \in 1 .. Len(t) : t[j] = After(q, a) + j BY <2>2, <2>5
  <2>7. Chain(Append(q, t), a) /\ After(Append(q, t), a) = After(q, a) + Len(t)
    BY <2>2, <2>3, <2>5, <2>6, ChainAppend
  <2>8. a + k + (Len(bytes) - k) = a + Len(bytes) BY <1>0, <2>3
  <2> QED BY <1>0, <2>2, <2>3, <2>4, <2>5, <2>7, <2>8 DEF q
<1> QED BY <1>0, <1>1, <1>2, <1>3 DEF ChunkLists

LEMMA Counted ==
    ASSUME NEW n \in Nat, NEW s \in Bytes, Len(s) = n, \A i \in 1 .. n : s[i] = i
    PROVE  s = FirstBytes(n)
BY DEF Bytes, FirstBytes

LEMMA Joined ==
    ASSUME NEW s \in Bytes, NEW t \in Bytes, NEW a \in Nat,
           \A i \in 1 .. Len(s) : s[i] = a + i,
           \A i \in 1 .. Len(t) : t[i] = (a + Len(s)) + i
    PROVE  /\ s \o t \in Bytes /\ Len(s \o t) = Len(s) + Len(t)
           /\ \A i \in 1 .. Len(s) + Len(t) : (s \o t)[i] = a + i
<1>1. /\ Len(s) \in Nat /\ Len(t) \in Nat
      /\ s \o t \in Bytes /\ Len(s \o t) = Len(s) + Len(t)
      /\ \A i \in 1 .. Len(s) + Len(t) :
            (s \o t)[i] = IF i <= Len(s) THEN s[i] ELSE t[i - Len(s)]
  BY ConcatProperties DEF Bytes
<1>2. ASSUME NEW i \in 1 .. Len(s) + Len(t) PROVE (s \o t)[i] = a + i
  <2>1. CASE i <= Len(s)
    <3>1. i \in 1 .. Len(s) BY <1>1, <2>1
    <3>2. (s \o t)[i] = s[i] BY <1>1, <2>1
    <3> QED BY <3>1, <3>2
  <2>2. CASE ~(i <= Len(s))
    <3>1. i - Len(s) \in 1 .. Len(t) /\ (a + Len(s)) + (i - Len(s)) = a + i BY <1>1, <2>2
    <3>2. (s \o t)[i] = t[i - Len(s)] BY <1>1, <2>2
    <3> QED BY <3>1, <3>2
  <2> QED BY <2>1, <2>2
<1> QED BY <1>1, <1>2

LEMMA JoinedAt ==
    ASSUME NEW s \in Bytes, NEW t \in Bytes, NEW n \in Nat, NEW m \in Nat,
           Len(s) = n, n + Len(t) = m,
           \A i \in 1 .. n : s[i] = i, \A i \in 1 .. Len(t) : t[i] = n + i
    PROVE  s \o t \in Bytes /\ Len(s \o t) = m /\ \A i \in 1 .. m : (s \o t)[i] = i
<1>1. (\A i \in 1 .. Len(s) : s[i] = 0 + i) /\ \A i \in 1 .. Len(t) : t[i] = (0 + Len(s)) + i
  OBVIOUS
<1>2. /\ s \o t \in Bytes /\ Len(s \o t) = Len(s) + Len(t)
      /\ \A i \in 1 .. Len(s) + Len(t) : (s \o t)[i] = 0 + i
  <2>1. 0 \in Nat OBVIOUS
  <2> QED BY <1>1, <2>1, Joined, Zenon
<1>3. \A i \in 1 .. m : 0 + i = i OBVIOUS
<1> QED BY <1>2, <1>3, Zenon

(* The bytes of a chain, in order. *)
LEMMA Flatten ==
    ASSUME NEW q \in Seq(Bytes), NEW a \in Nat, Chain(q, a)
    PROVE  /\ FlattenSeq(q) \in Bytes /\ After(q, a) \in Nat
           /\ Len(FlattenSeq(q)) + a = After(q, a)
           /\ \A i \in 1 .. Len(FlattenSeq(q)) : FlattenSeq(q)[i] = a + i
<1> DEFINE Good(s, i) == /\ s \in Bytes /\ Len(s) + a = Last(q[i])
                         /\ \A j \in 1 .. Len(s) : s[j] = a + j
<1>1. CASE q = <<>>
  <2>1. FlattenSeq(q) = <<>> /\ After(q, a) = a BY <1>1 DEF FlattenSeq, After
  <2> QED BY <2>1 DEF Bytes
<1>2. CASE q # <<>>
  <2> DEFINE n == Len(q)
             IsFlat(f) == f = [i \in 1 .. n |-> IF i = 1 THEN q[i] ELSE f[i - 1] \o q[i]]
  <2>1. n \in Nat /\ n >= 1 /\ n \in 1 .. n BY <1>2
  <2>2. FlattenSeq(q) = (CHOOSE f : IsFlat(f))[n]
    BY <1>2 DEF FlattenSeq
  <2> HIDE DEF n
  <2>a. ASSUME NEW i \in 1 .. n, NEW s, i # 1 => Good(s, i - 1)
        PROVE  Good(IF i = 1 THEN q[i] ELSE s \o q[i], i)
    <3> DEFINE from == IF i = 1 THEN a ELSE Last(q[i - 1])
    <3>1. /\ q[i] \in Bytes /\ from \in Nat /\ Last(q[i]) = from + Len(q[i]) /\ Len(q[i]) \in Nat
          /\ \A j \in 1 .. Len(q[i]) : q[i][j] = from + j
      BY ChainFacts DEF n
    <3>2. CASE i = 1 BY <3>1, <3>2
    <3>3. CASE i # 1
      <4>1. /\ s \in Bytes /\ Len(s) + a = from /\ Len(s) \in Nat
            /\ \A j \in 1 .. Len(s) : s[j] = a + j
        BY <2>a, <3>3 DEF Bytes
      <4>2. a + Len(s) = from BY <4>1
      <4> HIDE DEF from
      <4>3. /\ s \o q[i] \in Bytes /\ Len(s \o q[i]) = Len(s) + Len(q[i])
            /\ \A j \in 1 .. Len(s) + Len(q[i]) : (s \o q[i])[j] = a + j
        <5>1. \A j \in 1 .. Len(q[i]) : q[i][j] = (a + Len(s)) + j BY <3>1, <4>2, Zenon
        <5>2. q[i] \in Bytes /\ s \in Bytes BY <3>1, <4>1
        <5>3. \A j \in 1 .. Len(s) : s[j] = a + j BY <4>1
        <5> QED BY <5>1, <5>2, <5>3, Joined, Zenon
      <4>4. (Len(s) + Len(q[i])) + a = from + Len(q[i])
        <5>1. \A x, y, z \in Nat : x + a = z => (x + y) + a = z + y OBVIOUS
        <5> QED BY <3>1, <4>1, <5>1, Zenon
      <4> QED BY <3>1, <3>3, <4>3, <4>4
    <3> QED BY <3>2, <3>3
  <2>b. ASSUME NEW f, IsFlat(f), NEW i \in 1 .. n PROVE Good(f[i], i)
    <3> DEFINE T == {k \in 1 .. n : ~Good(f[k], k)}
    <3>1. \A k \in 1 .. n : f[k] = IF k = 1 THEN q[k] ELSE f[k - 1] \o q[k]
      BY <2>b
    <3>2. SUFFICES ASSUME T # {} PROVE FALSE
      <4> HIDE DEF Good, IsFlat
      <4> QED BY Zenon
    <3>3. T \subseteq Nat BY <2>1
    <3> HIDE DEF T, Good, IsFlat
    <3>4. PICK x \in T : \A y \in T : ~(y < x) BY <3>2, <3>3, LeastOf
    <3>5. x \in 1 .. n /\ ~Good(f[x], x) BY <3>4 DEF T
    <3>6. x # 1 => x - 1 \in 1 .. n /\ x - 1 < x BY <2>1, <3>5
    <3>7. x # 1 => Good(f[x - 1], x - 1) BY <3>4, <3>6 DEF T
    <3>8. Good(IF x = 1 THEN q[x] ELSE f[x - 1] \o q[x], x) BY <2>a, <3>5, <3>7, Zenon
    <3> QED BY <3>1, <3>5, <3>8
  <2>3. ASSUME NEW f, IsFlat(f) PROVE Good(f[n], n)
    <3> HIDE DEF Good, IsFlat
    <3> QED BY <2>1, <2>3, <2>b, Zenon
  <2>4. \E f : IsFlat(f)
    <3> DEFINE g == [i \in 1 .. n |-> [j \in 1 .. Last(q[i]) - a |-> a + j]]
               T == {k \in 1 .. n : ~(Last(q[k]) >= a)}
    <3>1. \A i \in 1 .. n :
            LET from == IF i = 1 THEN a ELSE Last(q[i - 1])
            IN  Last(q[i]) \in Nat /\ from \in Nat /\ Last(q[i]) >= from
      <4> SUFFICES ASSUME NEW i \in 1 .. n
                   PROVE  LET from == IF i = 1 THEN a ELSE Last(q[i - 1])
                          IN  Last(q[i]) \in Nat /\ from \in Nat /\ Last(q[i]) >= from
        OBVIOUS
      <4> DEFINE from == IF i = 1 THEN a ELSE Last(q[i - 1])
      <4>1. Last(q[i]) \in Nat /\ from \in Nat /\ Len(q[i]) \in Nat /\ Last(q[i]) = from + Len(q[i])
        BY ChainFacts DEF n
      <4> HIDE DEF from
      <4>2. Last(q[i]) >= from BY <4>1
      <4> QED BY <4>1, <4>2 DEF from
    <3>2. T = {}
      <4> SUFFICES ASSUME T # {} PROVE FALSE OBVIOUS
      <4>1. T \subseteq Nat BY <2>1
      <4> HIDE DEF T
      <4>2. PICK x \in T : \A y \in T : ~(y < x) BY <4>1, LeastOf
      <4>3. x \in 1 .. n /\ ~(Last(q[x]) >= a) BY <4>2 DEF T
      <4>4. x # 1 => x - 1 \in 1 .. n /\ x - 1 < x BY <2>1, <4>3
      <4>5. x # 1 => Last(q[x - 1]) >= a BY <4>2, <4>4 DEF T
      <4> QED BY <3>1, <4>3, <4>5
    <3>3. ASSUME NEW i \in 1 .. n PROVE Good(g[i], i)
      <4>1. Last(q[i]) - a \in Nat BY <3>1, <3>2
      <4>2. g[i] = [j \in 1 .. Last(q[i]) - a |-> a + j] OBVIOUS
      <4> HIDE DEF g
      <4>3. g[i] \in Bytes /\ Len(g[i]) = Last(q[i]) - a BY <4>1, <4>2 DEF Bytes
      <4>4. (Last(q[i]) - a) + a = Last(q[i]) BY <3>1
      <4> QED BY <4>2, <4>3, <4>4
    <3>4. ASSUME NEW i \in 1 .. n PROVE g[i] = IF i = 1 THEN q[i] ELSE g[i - 1] \o q[i]
      <4> DEFINE s == IF i = 1 THEN q[i] ELSE g[i - 1] \o q[i]
      <4> HIDE DEF g, Good
      <4>1. i # 1 => i - 1 \in 1 .. n BY <2>1
      <4>2. Good(s, i) BY <2>a, <3>3, <4>1, Zenon
      <4>3. Good(g[i], i) BY <3>3
      <4> HIDE DEF s
      <4>4. /\ s \in Seq(Nat) /\ g[i] \in Seq(Nat) /\ Len(s) = Len(g[i])
            /\ \A j \in 1 .. Len(s) : s[j] = g[i][j]
        BY <3>1, <4>2, <4>3, SMTT(30) DEF Good, Bytes
      <4>5. s = g[i] BY <4>4, SeqEqual
      <4> QED BY <4>5 DEF s
    <3>5. g = [i \in 1 .. n |-> IF i = 1 THEN q[i] ELSE g[i - 1] \o q[i]]
      <4>1. g = [i \in 1 .. n |-> g[i]] OBVIOUS
      <4> HIDE DEF g
      <4> QED BY <3>4, <4>1
    <3> HIDE DEF g
    <3> QED BY <3>5
  <2>5. PICK f : IsFlat(f) /\ FlattenSeq(q) = f[n]
    BY <2>2, <2>4
  <2>6. After(q, a) = Last(q[n]) BY <1>2 DEF After, n
  <2>7. Good(FlattenSeq(q), n)
    <3> HIDE DEF Good, IsFlat
    <3> QED BY <2>3, <2>5, Zenon
  <2> QED BY <2>6, <2>7, AfterNat
<1> QED BY <1>1, <1>2

-----------------------------------------------------------------------------
(* Downstream: no byte between the socket and the client is lost. *)

LEMMA DownInit == Init => DownInv
BY DEF Init, DownInv, Listening, Visiting

(* A connection whose stream a step does not touch. *)
LEMMA DownSame ==
    ASSUME DownInv, NEW d \in Conns,
           got'[d] = got[d] /\ toApp'[d] = toApp[d] /\ sent'[d] = sent[d],
           answer'[d] # "ok" => answer[d] # "ok",
           \/ rx'[d] = <<>>
           \/ /\ rx'[d] = rx[d] /\ (Visiting(d)' => Visiting(d))
              /\ (conn'[d] = "absent" => conn[d] = "absent"),
           Listening(d)' => /\ Listening(d) /\ rx'[d] = rx[d]
                            /\ (Visiting(d)' => Visiting(d) /\ chunks' = chunks)
                            /\ (Visiting(d) => Visiting(d)' \/ chunks = <<>>)
    PROVE  /\ answer'[d] # "ok" => sent'[d] = 0 /\ got'[d] = <<>> /\ toApp'[d] = <<>>
           /\ conn'[d] = "absent" \/ Visiting(d)' => rx'[d] = <<>>
           /\ Listening(d)' => InStream(d)'
<1>1. /\ answer'[d] # "ok" => sent'[d] = 0 /\ got'[d] = <<>> /\ toApp'[d] = <<>>
      /\ conn'[d] = "absent" \/ Visiting(d)' => rx'[d] = <<>>
  BY DEF DownInv
<1>2. ASSUME Listening(d)' PROVE InStream(d)'
  <2>1. InStream(d) BY <1>2 DEF DownInv
  <2>2. Queued(d)' = Queued(d) BY DEF Queued
  <2>3. Taken(d)' = Taken(d)
    <3>1. chunks = <<>> => After(chunks, Queued(d)) = Queued(d) BY DEF After
    <3> QED BY <1>2, <2>2, <3>1 DEF Taken
  <2>4. Visiting(d)' => Chain(chunks, Queued(d))' BY <1>2, <2>1, <2>2 DEF InStream, Chain
  <2>5. Chain(toApp[d], Len(got[d]))' BY <2>1 DEF InStream, Chain
  <2> QED BY <1>2, <2>1, <2>3, <2>4, <2>5 DEF InStream
<1> QED BY <1>1, <1>2

(* A byte that arrives continues the stream. *)
LEMMA DownRemoteData ==
    ASSUME StackInv, HandedOver, DownInv, NEW c \in Conns, RemoteData(c)
    PROVE  DownInv'
<1>0. /\ rx \in [Conns -> Bytes] /\ sent \in [Conns -> Nat] BY Typed DEF StackInv
<1>1. /\ UNCHANGED <<pc, cur, chunks, got, toApp, answer, conn, cl>> /\ pc = "poll"
      /\ st[c] # "none" /\ c \in acked
      /\ rx'[c] = Append(rx[c], sent[c] + 1) /\ sent'[c] = sent[c] + 1
      /\ \A d \in Conns \ {c} : rx'[d] = rx[d] /\ sent'[d] = sent[d]
  BY <1>0 DEF RemoteData, Polling, stackVars, chanVars, connVars, appVars
<1>2. answer[c] = "ok" /\ conn[c] # "absent" BY <1>1 DEF HandedOver
<1>3. \A d \in Conns : ~Visiting(d) /\ ~Visiting(d)' BY <1>1 DEF Visiting
<1>4. Listening(c)' => InStream(c)'
  <2> SUFFICES ASSUME Listening(c) PROVE InStream(c)' BY <1>1 DEF Listening
  <2>1. InStream(c) BY DEF DownInv
  <2>2. Taken(c)' = Taken(c) BY <1>1, <1>3 DEF Taken, Queued
  <2>3. /\ Len(rx[c]) \in Nat /\ Len(rx'[c]) = Len(rx[c]) + 1
        /\ \A i \in 1 .. Len(rx[c]) : rx'[c][i] = rx[c][i]
        /\ rx'[c][Len(rx[c]) + 1] = sent[c] + 1
    BY <1>0, <1>1 DEF Bytes
  <2>4. Taken(c) \in Nat
    <3>1. Len(got[c]) \in Nat /\ toApp[c] \in Seq(Bytes) BY Typed DEF StackInv, Bytes
    <3>2. Queued(c) \in Nat BY <2>1, <3>1, AfterNat DEF InStream, Queued
    <3> QED BY <1>3, <3>2 DEF Taken
  <2>5. sent'[c] = Taken(c) + Len(rx'[c]) BY <1>0, <1>1, <2>1, <2>3, <2>4 DEF InStream
  <2>6. \A i \in 1 .. Len(rx'[c]) : rx'[c][i] = Taken(c) + i
    <3> SUFFICES ASSUME NEW i \in 1 .. Len(rx[c]) + 1 PROVE rx'[c][i] = Taken(c) + i
      BY <2>3
    <3>1. CASE i \in 1 .. Len(rx[c]) BY <2>1, <2>3, <3>1 DEF InStream
    <3>2. CASE i = Len(rx[c]) + 1 BY <1>1, <2>3, <2>5, <3>2
    <3> QED BY <2>3, <3>1, <3>2
  <2> QED BY <1>1, <1>3, <2>1, <2>2, <2>5, <2>6 DEF InStream
<1>5. ASSUME NEW d \in Conns \ {c}
      PROVE  /\ answer'[d] # "ok" => sent'[d] = 0 /\ got'[d] = <<>> /\ toApp'[d] = <<>>
             /\ conn'[d] = "absent" \/ Visiting(d)' => rx'[d] = <<>>
             /\ Listening(d)' => InStream(d)'
  BY <1>1, <1>3, DownSame DEF Listening
<1> QED BY <1>1, <1>2, <1>3, <1>4, <1>5 DEF DownInv

(* The other segments of the peers do not touch the data. *)
LEMMA DownPeer ==
    ASSUME StackInv, HandedOver, DownInv, NEW c \in Conns, Peer(c)
    PROVE  DownInv'
<1>1. CASE RemoteData(c) BY <1>1, DownRemoteData
<1>2. CASE ~RemoteData(c)
  <2>1. UNCHANGED <<pc, cur, chunks, got, toApp, answer, conn, cl, sent, rx>>
    BY <1>2 DEF Peer, SynAck, Reset, RemoteFin, RemoteAck, FinAck, TimeWaitExpires,
                stackVars, chanVars, connVars, appVars, ghostVars
  <2> QED BY <2>1, DownSame DEF DownInv, Listening, Visiting
<1> QED BY <1>1, <1>2

(* A chunk the client takes moves from to_app to got. *)
LEMMA DownRelay ==
    ASSUME StackInv, HandedOver, DownInv, NEW c \in Conns, RelayDown(c)
    PROVE  DownInv'
<1>0. /\ toApp \in [Conns -> Seq(Bytes)] /\ got \in [Conns -> Bytes] BY Typed DEF StackInv
<1>1. /\ UNCHANGED <<pc, cur, chunks, answer, conn, cl, sent, rx>> /\ cl[c] = "relay"
      /\ toApp[c] # <<>> /\ toApp'[c] = Tail(toApp[c]) /\ got'[c] = got[c] \o Head(toApp[c])
      /\ \A d \in Conns \ {c} : toApp'[d] = toApp[d] /\ got'[d] = got[d]
  BY <1>0 DEF RelayDown, stackVars, connVars, sockVars, appVars
<1>2. answer[c] = "ok" BY <1>1 DEF HandedOver
<1>3. Listening(c)' => InStream(c)'
  <2> SUFFICES ASSUME Listening(c) PROVE InStream(c)' BY <1>1 DEF Listening
  <2> DEFINE n == Len(got[c])  h == Head(toApp[c])
  <2>1. InStream(c) BY DEF DownInv
  <2>2. /\ h \in Bytes /\ (\A j \in 1 .. Len(h) : h[j] = n + j)
        /\ Chain(toApp'[c], n + Len(h)) /\ After(toApp'[c], n + Len(h)) = Queued(c)
    <3>1. n \in Nat /\ toApp[c] \in Seq(Bytes) BY <1>0 DEF Bytes
    <3> QED BY <1>1, <2>1, <3>1, ChainTail DEF InStream, Queued
  <2>3. /\ Len(got'[c]) = n + Len(h) /\ \A i \in 1 .. Len(got'[c]) : got'[c][i] = i
    <3> HIDE DEF h
    <3>1. got[c] \in Bytes /\ n \in Nat /\ Len(h) \in Nat BY <1>0, <2>2 DEF Bytes
    <3>2. \A i \in 1 .. n : got[c][i] = 0 + i BY <2>1 DEF InStream
    <3>3. \A i \in 1 .. Len(h) : h[i] = (0 + n) + i BY <2>2, <3>1
    <3>4. Len(got[c] \o h) = n + Len(h) /\ \A i \in 1 .. n + Len(h) : (got[c] \o h)[i] = 0 + i
      BY <2>2, <3>1, <3>2, <3>3, Joined
    <3>5. got'[c] = got[c] \o h BY <1>1 DEF h
    <3> QED BY <3>1, <3>4, <3>5
  <2> HIDE DEF n, h
  <2>4. Queued(c)' = Queued(c) /\ Chain(toApp[c], Len(got[c]))' BY <2>2, <2>3 DEF Queued, Chain
  <2>5. Taken(c)' = Taken(c) BY <1>1, <2>4 DEF Taken, Visiting
  <2>6. Visiting(c)' => Chain(chunks, Queued(c))'
    BY <1>1, <2>1, <2>4 DEF InStream, Visiting, Chain
  <2> QED BY <1>1, <2>1, <2>3, <2>4, <2>5, <2>6 DEF InStream
<1>4. ASSUME NEW d \in Conns \ {c}
      PROVE  /\ answer'[d] # "ok" => sent'[d] = 0 /\ got'[d] = <<>> /\ toApp'[d] = <<>>
             /\ conn'[d] = "absent" \/ Visiting(d)' => rx'[d] = <<>>
             /\ Listening(d)' => InStream(d)'
  BY <1>1, DownSame DEF Listening, Visiting
<1>5. conn'[c] = "absent" \/ Visiting(c)' => rx'[c] = <<>> BY <1>1 DEF DownInv, Visiting
<1> QED BY <1>1, <1>2, <1>3, <1>4, <1>5 DEF DownInv

LEMMA DownClient ==
    ASSUME StackInv, HandedOver, DownInv, NEW c \in Conns, Main(c) \/ Up(c)
    PROVE  DownInv'
<1>1. CASE RelayDown(c) BY <1>1, DownRelay
<1>2. CASE ~RelayDown(c)
  <2>0. cl \in [Conns -> {"idle", "opening", "relay"} \cup Ended] BY Typed DEF StackInv
  <2>1. UNCHANGED <<pc, cur, chunks, got, toApp, answer, conn, sent, rx>>
    BY <1>2 DEF Main, Up, OpenTcp, Answered, RelayBreaks, RelayEof, UpRead, UpEof, UpSend,
                UpClose, stackVars, chanVars, connVars, sockVars, ghostVars
  <2>2. \A d \in Conns : Listening(d)' => Listening(d)
    <3>1. \A d \in Conns \ {c} : cl'[d] = cl[d]
      BY <1>2, <2>0 DEF Main, Up, OpenTcp, Answered, RelayBreaks, RelayEof, UpRead, UpEof, UpSend,
                  UpClose, appVars
    <3>2. CASE OpenTcp(c)
      <4>1. answer[c] = "none" BY <3>2 DEF OpenTcp, StackInv, RequestsFresh, Fresh
      <4>2. cl'[c] \in {"failed", "opening"} BY <2>0, <3>2 DEF OpenTcp
      <4> QED BY <2>1, <3>1, <4>1, <4>2 DEF Listening
    <3>3. CASE Answered(c)
      <4>1. cl[c] = "opening" /\ (cl'[c] = "failed" \/ answer[c] = "ok") BY <2>0, <3>3 DEF Answered
      <4>2. cl'[c] \in {"relay", "failed"} BY <2>0, <3>3 DEF Answered
      <4> QED BY <2>1, <3>1, <4>1, <4>2 DEF Listening
    <3>4. CASE RelayBreaks(c) \/ RelayEof(c)
      <4>1. cl[c] = "relay" BY <3>4 DEF RelayBreaks, RelayEof
      <4> QED BY <2>1, <3>1, <4>1 DEF Listening
    <3>5. CASE Up(c)
      <4>1. cl' = cl BY <3>5 DEF Up, UpRead, UpEof, UpSend, UpClose, appVars
      <4> QED BY <2>1, <4>1 DEF Listening
    <3> QED BY <1>2, <3>2, <3>3, <3>4, <3>5 DEF Main
  <2> QED BY <2>1, <2>2, DownSame DEF DownInv, Visiting
<1> QED BY <1>1, <1>2

LEMMA DownLoop ==
    ASSUME StackInv, HandedOver, DownInv,
           PollDone \/ ServiceDone \/ SelectInbound \/ SelectData \/ DrainDone \/ SelectTimer
              \/ HandleData \/ FlushTx
    PROVE  DownInv'
<1>1. UNCHANGED <<conn, answer, cl, toApp, got, sent, rx>>
  BY DEF PollDone, ServiceDone, SelectInbound, SelectData, DrainDone, SelectTimer, HandleData,
         FlushTx, chanVars, connVars, sockVars, appVars, ghostVars
<1>2. pc # "send" /\ pc' # "send" /\ pc # "exit"
  BY DEF PollDone, ServiceDone, SelectInbound, SelectData, DrainDone, SelectTimer, HandleData,
         FlushTx, stackVars
<1> QED BY <1>1, <1>2, DownSame DEF DownInv, Listening, Visiting

(* recv takes all of the socket's bytes, in one or two pieces. *)
LEMMA DownServiceBegin ==
    ASSUME StackInv, HandedOver, DownInv, NEW c \in Conns, ServiceBegin(c)
    PROVE  DownInv'
<1>0. /\ conn \in [Conns -> {"absent", "opening", "open"}] /\ rx \in [Conns -> Bytes]
      /\ answer \in [Conns -> {"none", "ok", "err", "dropped"}]
      /\ toApp \in [Conns -> Seq(Bytes)] /\ got \in [Conns -> Bytes]
  BY Typed DEF StackInv
<1>1. /\ UNCHANGED <<toApp, got, sent, cl>> /\ pc = "service" /\ pc' = "send" /\ cur' = c
      /\ c \in todo /\ chunks' \in ChunkLists(rx[c]) /\ rx'[c] = <<>>
      /\ \A d \in Conns \ {c} : conn'[d] = conn[d] /\ rx'[d] = rx[d] /\ answer'[d] = answer[d]
  BY <1>0 DEF ServiceBegin, appVars, ghostVars
<1>2. \/ conn[c] = "opening" /\ answer'[c] = "ok"
      \/ conn'[c] = conn[c] /\ answer'[c] = answer[c]
  BY <1>0 DEF ServiceBegin, Establishes
<1>3. \A d \in Conns : ~Visiting(d) /\ (Visiting(d)' <=> d = c) BY <1>1 DEF Visiting
<1>4. ASSUME NEW d \in Conns \ {c}
      PROVE  /\ answer'[d] # "ok" => sent'[d] = 0 /\ got'[d] = <<>> /\ toApp'[d] = <<>>
             /\ conn'[d] = "absent" \/ Visiting(d)' => rx'[d] = <<>>
             /\ Listening(d)' => InStream(d)'
  BY <1>1, <1>3, DownSame DEF Listening
<1>5. answer'[c] # "ok" => answer[c] # "ok" BY <1>2 DEF HandedOver
<1>6. ASSUME Listening(c)' PROVE InStream(c)'
  <2>1. CASE conn[c] = "opening"
    <3>1. rx[c] = <<>> /\ answer[c] = "none" /\ sent[c] = 0 /\ got[c] = <<>> /\ toApp[c] = <<>>
      BY <2>1 DEF StackInv, HandshakePending, HandedOver, DownInv
    <3>2. chunks' = <<>> BY <1>1, <3>1, ChunkListsEmpty
    <3>3. Queued(c)' = 0 BY <1>1, <3>1 DEF Queued, After
    <3>4. Taken(c)' = 0 BY <3>2, <3>3 DEF Taken, After
    <3> QED BY <1>1, <3>1, <3>2, <3>4 DEF InStream, Chain
  <2>2. CASE conn[c] # "opening"
    <3>1. Listening(c) BY <1>1, <1>2, <1>6, <2>2 DEF Listening
    <3>2. InStream(c) BY <3>1 DEF DownInv
    <3>3. Queued(c) \in Nat
      <4>1. Len(got[c]) \in Nat /\ toApp[c] \in Seq(Bytes) BY <1>0 DEF Bytes
      <4> QED BY <3>2, <4>1, AfterNat DEF InStream, Queued
    <3>4. Taken(c) = Queued(c) /\ Queued(c)' = Queued(c) BY <1>1, <1>3 DEF Taken, Queued
    <3>5. Chain(chunks', Queued(c)) /\ After(chunks', Queued(c)) = Queued(c) + Len(rx[c])
      BY <1>0, <1>1, <3>2, <3>3, <3>4, ChunkListsChain, ZenonT(60) DEF InStream
    <3>6. Taken(c)' = sent[c] BY <1>3, <3>2, <3>4, <3>5 DEF Taken, InStream
    <3>7. sent[c] \in Nat BY Typed DEF StackInv
    <3>8. Chain(chunks, Queued(c))' BY <3>4, <3>5 DEF Chain
    <3>9. Chain(toApp[c], Len(got[c]))' BY <1>1, <3>2 DEF InStream, Chain
    <3>10. sent'[c] = Taken(c)' + Len(rx'[c]) BY <1>1, <3>6, <3>7
    <3>11. \A i \in 1 .. Len(rx'[c]) : rx'[c][i] = Taken(c)' + i BY <1>1
    <3> QED BY <1>1, <3>2, <3>8, <3>9, <3>10, <3>11 DEF InStream
  <2> QED BY <2>1, <2>2
<1> QED BY <1>1, <1>4, <1>5, <1>6 DEF DownInv

(* A chunk moves from the visit to to_app, or its receiver is gone. *)
LEMMA DownServiceSend ==
    ASSUME StackInv, HandedOver, DownInv, ServiceSend
    PROVE  DownInv'
<1>0. /\ toApp \in [Conns -> Seq(Bytes)] /\ got \in [Conns -> Bytes] /\ cur \in Conns
      /\ chunks \in Seq(Bytes) /\ conn \in [Conns -> {"absent", "opening", "open"}]
  BY Typed DEF StackInv
<1>1. /\ UNCHANGED <<pc, cur, conn, answer, cl, got, sent, rx>> /\ pc = "send" /\ chunks # <<>>
      /\ \A d \in Conns \ {cur} : toApp'[d] = toApp[d]
  BY <1>0 DEF ServiceSend, connVars, appVars, ghostVars
<1>2. conn[cur] = "open" /\ answer[cur] = "ok"
  BY <1>0, <1>1 DEF StackInv, VisitPending, HandedOver
<1>3. \A d \in Conns : (Visiting(d) <=> d = cur) /\ (Visiting(d)' <=> d = cur)
  BY <1>1 DEF Visiting
<1>4. ASSUME NEW d \in Conns \ {cur}
      PROVE  /\ answer'[d] # "ok" => sent'[d] = 0 /\ got'[d] = <<>> /\ toApp'[d] = <<>>
             /\ conn'[d] = "absent" \/ Visiting(d)' => rx'[d] = <<>>
             /\ Listening(d)' => InStream(d)'
  BY <1>1, <1>3, DownSame DEF Listening
<1>5. conn'[cur] = "absent" \/ Visiting(cur)' => rx'[cur] = <<>>
  BY <1>0, <1>1, <1>3 DEF DownInv
<1>6. ASSUME Listening(cur)' PROVE InStream(cur)'
  <2>1. Listening(cur) BY <1>1, <1>6 DEF Listening
  <2>2. cl[cur] # "eof" BY <1>0, <1>2 DEF HandedOver
  <2>3. ReceiverAlive(cur) BY <1>2, <2>1, <2>2 DEF Listening, ReceiverAlive
  <2>4. toApp'[cur] = Append(toApp[cur], Head(chunks)) /\ chunks' = Tail(chunks)
    BY <1>0, <2>3 DEF ServiceSend
  <2>5. InStream(cur) BY <1>0, <2>1 DEF DownInv
  <2> DEFINE n == Len(got[cur])  h == Head(chunks)
  <2>6. n \in Nat /\ toApp[cur] \in Seq(Bytes) /\ Queued(cur) = After(toApp[cur], n)
    BY <1>0 DEF Bytes, Queued
  <2>7. Chain(toApp[cur], n) /\ Chain(chunks, Queued(cur)) BY <1>0, <1>3, <2>5 DEF InStream
  <2>8. Queued(cur) \in Nat BY <2>6, <2>7, AfterNat
  <2>9. /\ h \in Bytes /\ h # <<>> /\ (\A j \in 1 .. Len(h) : h[j] = Queued(cur) + j)
        /\ Chain(chunks', Queued(cur) + Len(h))
        /\ After(chunks', Queued(cur) + Len(h)) = After(chunks, Queued(cur))
    BY <1>0, <1>1, <2>4, <2>7, <2>8, ChainTail
  <2> HIDE DEF n, h
  <2>10. toApp'[cur] = Append(toApp[cur], h) BY <2>4 DEF h
  <2>11. Chain(toApp'[cur], n) /\ After(toApp'[cur], n) = Queued(cur) + Len(h)
    BY <2>6, <2>7, <2>9, <2>10, ChainAppend
  <2>12. n = Len(got'[cur]) /\ cur' = cur BY <1>1 DEF n
  <2>13. Queued(cur)' = Queued(cur) + Len(h) BY <2>11, <2>12 DEF Queued
  <2>14. Taken(cur)' = Taken(cur) BY <1>0, <1>3, <2>9, <2>12, <2>13 DEF Taken
  <2>15. Chain(chunks, Queued(cur))' BY <2>9, <2>13 DEF Chain
  <2>16. Chain(toApp[cur], Len(got[cur]))' BY <2>11, <2>12 DEF Chain
  <2> QED BY <1>1, <2>5, <2>14, <2>15, <2>16 DEF InStream
<1> QED BY <1>0, <1>1, <1>2, <1>4, <1>5, <1>6 DEF DownInv

LEMMA DownServiceRest ==
    ASSUME StackInv, HandedOver, DownInv, NEW c \in Conns, ServiceRefused(c) \/ ServiceEnd
    PROVE  DownInv'
<1>0. /\ conn \in [Conns -> {"absent", "opening", "open"}] /\ rx \in [Conns -> Bytes]
      /\ answer \in [Conns -> {"none", "ok", "err", "dropped"}] /\ cur \in Conns
  BY Typed DEF StackInv
<1>1. CASE ServiceRefused(c)
  <2>1. /\ UNCHANGED <<pc, cur, chunks, got, toApp, sent, cl>> /\ conn[c] = "opening"
        /\ pc = "service" /\ rx'[c] = <<>> /\ answer'[c] = "err"
        /\ \A d \in Conns \ {c} : conn'[d] = conn[d] /\ rx'[d] = rx[d] /\ answer'[d] = answer[d]
    BY <1>0, <1>1 DEF ServiceRefused, appVars, ghostVars
  <2>2. answer[c] = "none" /\ cl[c] \notin {"relay", "eof"} BY <2>1 DEF HandedOver
  <2>3. \A d \in Conns : ~Visiting(d) /\ ~Visiting(d)' BY <2>1 DEF Visiting
  <2>4. \A d \in Conns : Listening(d)' => d # c /\ Listening(d) BY <2>1, <2>2 DEF Listening
  <2> QED BY <2>1, <2>2, <2>3, <2>4, DownSame DEF DownInv
<1>2. CASE ServiceEnd
  <2>1. /\ UNCHANGED <<cur, chunks, got, toApp, sent, cl, rx, answer>> /\ chunks = <<>>
        /\ pc = "send" /\ pc' = "service"
        /\ \A d \in Conns \ {cur} : conn'[d] = conn[d]
    BY <1>0, <1>2 DEF ServiceEnd, chanVars, appVars, ghostVars, connVars
  <2>2. rx'[cur] = <<>> BY <1>0, <2>1 DEF DownInv, Visiting
  <2>3. \A d \in Conns : ~Visiting(d)' /\ (Listening(d)' => Listening(d))
    BY <2>1 DEF Visiting, Listening
  <2> QED BY <2>1, <2>2, <2>3, DownSame DEF DownInv
<1> QED BY <1>1, <1>2

LEMMA DownSelect ==
    ASSUME StackInv, HandedOver, DownInv, SelectExit \/ SelectCmd
    PROVE  DownInv'
<1>0. /\ conn \in [Conns -> {"absent", "opening", "open"}]
      /\ answer \in [Conns -> {"none", "ok", "err", "dropped"}] /\ cmdQ \in Seq(Conns)
  BY Typed DEF StackInv
<1>1. CASE SelectExit
  <2>1. /\ UNCHANGED <<got, toApp, sent>> /\ pc' = "exit"
        /\ \A d \in Conns : rx'[d] = <<>> /\ (answer'[d] # "ok" => answer[d] # "ok")
    BY <1>0, <1>1 DEF SelectExit, ghostVars
  <2>2. \A d \in Conns : ~Listening(d)' BY <2>1 DEF Listening
  <2> QED BY <2>1, <2>2, DownSame DEF DownInv
<1>2. CASE SelectCmd
  <2> DEFINE c == Head(cmdQ)
  <2>1. c \in Conns /\ c = cmdQ[1] /\ 1 \in 1 .. Len(cmdQ) BY <1>0, <1>2 DEF SelectCmd
  <2>2. Fresh(c) /\ cl[c] = "opening" BY <2>1 DEF StackInv, RequestsFresh
  <2>3. /\ UNCHANGED <<got, toApp, sent, rx, cl, chunks>> /\ pc = "select" /\ pc' = "poll"
        /\ \A d \in Conns \ {c} : conn'[d] = conn[d] /\ answer'[d] = answer[d]
        /\ answer'[c] \in {"err", answer[c]}
    BY <1>0, <1>2, <2>1 DEF SelectCmd, appVars, ghostVars
  <2> HIDE DEF c
  <2>4. rx'[c] = <<>> /\ answer'[c] # "ok" /\ answer[c] # "ok" BY <2>2, <2>3 DEF Fresh
  <2>5. \A d \in Conns : ~Visiting(d) /\ ~Visiting(d)' /\ (Listening(d)' => Listening(d))
    BY <2>2, <2>3, <2>4 DEF Visiting, Listening
  <2> QED BY <2>3, <2>4, <2>5, DownSame DEF DownInv
<1> QED BY <1>1, <1>2

LEMMA DownStep == StackInv /\ HandedOver /\ DownInv /\ [Next]_vars => DownInv'
<1> SUFFICES ASSUME StackInv, HandedOver, DownInv, [Next]_vars PROVE DownInv'
  OBVIOUS
<1>1. CASE Stack
  <2>1. cur \in Conns BY Typed DEF StackInv
  <2> QED BY <1>1, <2>1, DownLoop, DownServiceBegin, DownServiceSend, DownServiceRest, DownSelect
          DEF Stack
<1>2. CASE PacketArrives \/ TunnelEnds \/ UNCHANGED vars
  <2>1. UNCHANGED <<pc, cur, chunks, got, toApp, answer, conn, cl, sent, rx>>
    BY <1>2 DEF PacketArrives, TunnelEnds, vars, stackVars, chanVars, connVars, sockVars, appVars,
                ghostVars
  <2> QED BY <2>1, DownSame DEF DownInv, Listening, Visiting
<1> QED BY <1>1, <1>2, DownPeer, DownClient DEF Next

(* The pieces in their four places, put together. *)
LEMMA DownImplies == StackInv /\ HandedOver /\ DownInv => DownstreamIntact
<1> SUFFICES ASSUME StackInv, HandedOver, DownInv, NEW c \in Conns, Listening(c)
             PROVE  /\ got[c] \o FlattenSeq(toApp[c])
                         \o (IF Visiting(c) THEN FlattenSeq(chunks) ELSE <<>>) \o rx[c]
                       = FirstBytes(sent[c])
                    /\ cl[c] = "eof" => got[c] = FirstBytes(sent[c])
  BY DEF DownstreamIntact
<1> DEFINE g == got[c]  q == FlattenSeq(toApp[c])  r == rx[c]  n == Len(g)
           v == IF Visiting(c) THEN FlattenSeq(chunks) ELSE <<>>
<1>1. /\ g \in Bytes /\ r \in Bytes /\ n \in Nat /\ sent[c] \in Nat
      /\ toApp[c] \in Seq(Bytes) /\ chunks \in Seq(Bytes)
  BY Typed DEF StackInv, Bytes
<1>2. InStream(c) BY DEF DownInv
<1>3. /\ q \in Bytes /\ Queued(c) \in Nat /\ Len(q) + n = Queued(c)
      /\ \A i \in 1 .. Len(q) : q[i] = n + i
  BY <1>1, <1>2, Flatten DEF InStream, Queued
<1>4. /\ v \in Bytes /\ Taken(c) \in Nat /\ Len(v) + Queued(c) = Taken(c)
      /\ \A i \in 1 .. Len(v) : v[i] = Queued(c) + i
  <2>1. CASE Visiting(c) BY <1>1, <1>2, <1>3, <2>1, Flatten DEF InStream, Taken
  <2>2. CASE ~Visiting(c) BY <1>3, <2>2, BytesFacts DEF Taken
  <2> QED BY <2>1, <2>2
<1>5. /\ (\A i \in 1 .. n : g[i] = i) /\ (\A i \in 1 .. Len(r) : r[i] = Taken(c) + i)
      /\ sent[c] = Taken(c) + Len(r) /\ Len(r) \in Nat /\ Len(q) \in Nat /\ Len(v) \in Nat
  BY <1>1, <1>2, <1>3, <1>4 DEF InStream, Bytes
<1> HIDE DEF g, q, r, v, n
<1>6. /\ Len(g) = n /\ n + Len(q) = Queued(c) /\ Queued(c) + Len(v) = Taken(c)
      /\ Taken(c) + Len(r) = sent[c]
  BY <1>1, <1>3, <1>4, <1>5 DEF n
<1>7. /\ g \o q \in Bytes /\ Len(g \o q) = Queued(c)
      /\ \A i \in 1 .. Queued(c) : (g \o q)[i] = i
  <2>1. g \in Bytes /\ q \in Bytes /\ n \in Nat /\ Queued(c) \in Nat BY <1>1, <1>3
  <2>2. (\A i \in 1 .. n : g[i] = i) /\ \A i \in 1 .. Len(q) : q[i] = n + i BY <1>3, <1>5
  <2>3. Len(g) = n /\ n + Len(q) = Queued(c) BY <1>6
  <2>4. /\ Len(g) \in Nat /\ Len(g) + Len(q) = Queued(c)
        /\ (\A i \in 1 .. Len(g) : g[i] = i) /\ \A i \in 1 .. Len(q) : q[i] = Len(g) + i
    BY <2>1, <2>2, <2>3
  <2> QED BY <2>1, <2>4, JoinedAt, SMTT(30)
<1>8. /\ g \o q \o v \in Bytes /\ Len(g \o q \o v) = Taken(c)
      /\ \A i \in 1 .. Taken(c) : (g \o q \o v)[i] = i
  BY <1>3, <1>4, <1>6, <1>7, JoinedAt, Zenon
<1>11. /\ g \o q \o v \o r \in Bytes /\ Len(g \o q \o v \o r) = sent[c]
       /\ \A i \in 1 .. sent[c] : (g \o q \o v \o r)[i] = i
  <2>1. r \in Bytes /\ Taken(c) \in Nat /\ sent[c] \in Nat BY <1>1, <1>4
  <2>2. \A i \in 1 .. Len(r) : r[i] = Taken(c) + i BY <1>5
  <2> QED BY <1>6, <1>8, <2>1, <2>2, JoinedAt, ZenonT(40)
<1>9. g \o q \o v \o r = FirstBytes(sent[c]) BY <1>1, <1>11, Counted, Zenon
<1>12. cl[c] = "eof" => g = FirstBytes(sent[c])
  <2> SUFFICES ASSUME cl[c] = "eof" PROVE g = FirstBytes(sent[c]) OBVIOUS
  <2>1. conn[c] = "absent" /\ toApp[c] = <<>> BY DEF HandedOver
  <2>2. r = <<>> BY <2>1 DEF DownInv, r
  <2>3. ~Visiting(c) BY <2>1 DEF StackInv, VisitPending, Visiting
  <2>4. Taken(c) = n BY <2>1, <2>3 DEF Taken, Queued, After, n, g
  <2>5. n = sent[c] BY <1>1, <1>5, <2>2, <2>4
  <2> QED BY <1>1, <1>5, <2>5, Counted DEF n
<1> QED BY <1>9, <1>12 DEF g, q, r, v

(* Whatever the pieces recv returns, the capacity of to_app and the moment  *)
(* the peer resets or closes, a client that is listening is missing no byte *)
(* of its peer's stream and has none twice or out of place; the end of file *)
(* it reads comes after all of them.                                        *)
THEOREM NoByteLostDownstream == Spec => []DownstreamIntact
<1>1. Init => StackInv /\ HandedOver /\ DownInv
  BY TypeInit, SafetyInit, HandedInit, DownInit DEF StackInv
<1> QED BY <1>1, SafetyStep, HandedStep, DownStep, DownImplies, PTL DEF Spec

-----------------------------------------------------------------------------
(* Upstream: what is sent is what was written, and the FIN comes last. *)

LEMMA UpInit == Init => UpInv
BY DEF Init, UpInv, Silent, CloseLast, SentInOrder, WaitsInOrder, FinLast, Accepts, IsClose

(* What the types say of the upstream state of one connection. *)
LEMMA UpTyped ==
    ASSUME StackInv, NEW c \in Conns
    PROVE  /\ pending[c] \in Seq(Nat) /\ tx[c] \in Seq(Nat) /\ delivered[c] \in Seq(Nat)
           /\ Len(pending[c]) \in Nat /\ Len(tx[c]) \in Nat /\ Len(delivered[c]) \in Nat
           /\ wrote[c] \in Nat /\ Accepted(c) \in Nat
           /\ Len(dataQ) \in Nat /\ \A k \in 1 .. Len(dataQ) : dataQ[k] \in DataIn
<1>1. /\ pending[c] \in Seq(Nat) /\ tx[c] \in Seq(Nat) /\ delivered[c] \in Seq(Nat)
      /\ wrote[c] \in Nat /\ dataQ \in Seq(DataIn)
  BY Typed DEF StackInv, Bytes
<1>2. Len(pending[c]) \in Nat /\ Len(tx[c]) \in Nat /\ Len(delivered[c]) \in Nat BY <1>1
<1>3. Accepted(c) \in Nat
  <2>1. \A x, y, z \in Nat : x + y + z \in Nat OBVIOUS
  <2> QED BY <1>2, <2>1, Zenon DEF Accepted
<1>4. Len(dataQ) \in Nat /\ \A k \in 1 .. Len(dataQ) : dataQ[k] \in DataIn BY <1>1
<1> QED BY <1>1, <1>2, <1>3, <1>4

(* A connection whose upstream state a step does not touch. *)
LEMMA UpSame ==
    ASSUME UpInv, NEW d \in Conns, dataQ' = dataQ,
           up'[d] = up[d] /\ wrote'[d] = wrote[d] /\ pending'[d] = pending[d] /\ tx'[d] = tx[d],
           delivered'[d] = delivered[d] /\ half'[d] = half[d],
           Accepts(d)' => Accepts(d),
           cl'[d] \in {"opening", "relay"} /\ st'[d] \in {"FinWait1", "FinWait2"} =>
              cl[d] \in {"opening", "relay"} /\ st[d] \in {"FinWait1", "FinWait2"}
    PROVE  (Silent(d) /\ CloseLast(d) /\ SentInOrder(d) /\ WaitsInOrder(d) /\ FinLast(d))'
<1>1. Silent(d)' BY DEF UpInv, Silent
<1>2. CloseLast(d)' BY DEF UpInv, CloseLast, IsClose
<1>3. SentInOrder(d)' BY DEF UpInv, SentInOrder
<1>4. WaitsInOrder(d)'
  <2>1. Accepted(d)' = Accepted(d) /\ (Held(d)' <=> Held(d)) BY DEF Accepted, Held, IsClose
  <2> QED BY <2>1, ZenonT(60) DEF UpInv, WaitsInOrder, IsData
<1>5. FinLast(d)' BY DEF UpInv, FinLast
<1> QED BY <1>1, <1>2, <1>3, <1>4, <1>5

(* A socket that dies takes its transmit buffer with it. *)
LEMMA UpCut ==
    ASSUME UpInv, NEW d \in Conns, dataQ' = dataQ,
           up'[d] = up[d] /\ wrote'[d] = wrote[d] /\ tx'[d] = <<>> /\ delivered'[d] = delivered[d],
           pending'[d] = pending[d] \/ pending'[d] = <<>>,
           half'[d] = half[d] \/ half'[d] = FALSE,
           st'[d] \in {"Closed", "none"}
    PROVE  (Silent(d) /\ CloseLast(d) /\ SentInOrder(d) /\ WaitsInOrder(d) /\ FinLast(d))'
<1>1. Silent(d)' BY DEF UpInv, Silent
<1>2. CloseLast(d)' BY DEF UpInv, CloseLast, IsClose
<1>3. SentInOrder(d)' BY DEF UpInv, SentInOrder
<1>4. WaitsInOrder(d)' /\ FinLast(d)' BY DEF WaitsInOrder, FinLast, Accepts
<1> QED BY <1>1, <1>2, <1>3, <1>4

(* The peer acknowledges a byte: it moves from tx to delivered. *)
LEMMA UpRemoteAck ==
    ASSUME StackInv, UpInv, NEW c \in Conns, RemoteAck(c)
    PROVE  UpInv'
<1>0. tx \in [Conns -> Bytes] /\ delivered \in [Conns -> Bytes] BY Typed DEF StackInv
<1>1. /\ UNCHANGED <<up, wrote, pending, half, dataQ, st, cl>> /\ tx[c] # <<>>
      /\ tx'[c] = Tail(tx[c]) /\ delivered'[c] = Append(delivered[c], Head(tx[c]))
      /\ \A d \in Conns \ {c} : tx'[d] = tx[d] /\ delivered'[d] = delivered[d]
  BY <1>0 DEF RemoteAck, chanVars, connVars, appVars
<1>2. /\ Len(tx[c]) \in Nat /\ Len(delivered[c]) \in Nat /\ Len(tx[c]) >= 1
      /\ Len(tx'[c]) = Len(tx[c]) - 1 /\ Len(delivered'[c]) = Len(delivered[c]) + 1
      /\ \A i \in 1 .. Len(tx'[c]) : tx'[c][i] = tx[c][i + 1]
      /\ \A i \in 1 .. Len(delivered[c]) : delivered'[c][i] = delivered[c][i]
      /\ delivered'[c][Len(delivered[c]) + 1] = tx[c][1]
  BY <1>0, <1>1 DEF Bytes
<1>3. Len(delivered'[c]) + Len(tx'[c]) = Len(delivered[c]) + Len(tx[c])
  <2>1. \A x, y \in Nat : (x + 1) + (y - 1) = x + y OBVIOUS
  <2> QED BY <1>2, <2>1, Zenon
<1>4. Silent(c)' BY <1>1 DEF UpInv, Silent
<1>5. CloseLast(c)' BY <1>1 DEF UpInv, CloseLast, IsClose
<1>6. SentInOrder(c)'
  <2>1. SentInOrder(c) BY DEF UpInv
  <2>2. tx[c][1] = Len(delivered[c]) + 1 BY <1>2, <2>1 DEF SentInOrder
  <2>3. ASSUME NEW i \in 1 .. Len(delivered'[c]) PROVE delivered'[c][i] = i
    <3>1. i \in 1 .. Len(delivered[c]) \/ i = Len(delivered[c]) + 1 BY <1>2
    <3> QED BY <1>2, <2>1, <2>2, <3>1 DEF SentInOrder
  <2>4. ASSUME NEW i \in 1 .. Len(tx'[c]) PROVE tx'[c][i] = Len(delivered'[c]) + i
    <3>1. i + 1 \in 1 .. Len(tx[c]) BY <1>2
    <3>2. tx'[c][i] = Len(delivered[c]) + (i + 1) BY <1>2, <2>1, <3>1 DEF SentInOrder
    <3>3. \A x \in Nat : x + (i + 1) = (x + 1) + i BY <1>2
    <3> QED BY <1>2, <3>2, <3>3, Zenon
  <2> QED BY <2>3, <2>4 DEF SentInOrder
<1>7. WaitsInOrder(c)'
  <2>1. Accepted(c)' = Accepted(c) BY <1>1, <1>3 DEF Accepted
  <2>2. (Held(c)' <=> Held(c)) /\ (Accepts(c)' <=> Accepts(c)) BY <1>1 DEF Held, IsClose, Accepts
  <2>3. \A i : Len(delivered'[c]) + Len(tx'[c]) + i = Len(delivered[c]) + Len(tx[c]) + i
    BY <1>3, Zenon
  <2>4. WaitsInOrder(c) BY DEF UpInv
  <2> QED BY <1>1, <2>1, <2>2, <2>3, <2>4 DEF WaitsInOrder, IsData
<1>8. FinLast(c)' BY <1>1, <1>3 DEF UpInv, FinLast
<1>9. ASSUME NEW d \in Conns \ {c}
      PROVE  (Silent(d) /\ CloseLast(d) /\ SentInOrder(d) /\ WaitsInOrder(d) /\ FinLast(d))'
  BY <1>1, UpSame DEF Accepts
<1> QED BY <1>4, <1>5, <1>6, <1>7, <1>8, <1>9 DEF UpInv

LEMMA UpPeer ==
    ASSUME StackInv, UpInv, NEW c \in Conns, Peer(c)
    PROVE  UpInv'
<1>0. st \in [Conns -> TcpStates] /\ tx \in [Conns -> Bytes] BY Typed DEF StackInv
<1>1. CASE RemoteAck(c) BY <1>1, UpRemoteAck
<1>2. CASE Reset(c)
  <2>1. /\ UNCHANGED <<up, wrote, pending, half, dataQ, delivered, cl>>
        /\ tx'[c] = <<>> /\ st'[c] = "Closed"
        /\ \A d \in Conns \ {c} : tx'[d] = tx[d] /\ st'[d] = st[d]
    BY <1>0, <1>2 DEF Reset, chanVars, connVars, appVars, ghostVars
  <2>2. (Silent(c) /\ CloseLast(c) /\ SentInOrder(c) /\ WaitsInOrder(c) /\ FinLast(c))'
    BY <2>1, UpCut
  <2>3. ASSUME NEW d \in Conns \ {c}
        PROVE  (Silent(d) /\ CloseLast(d) /\ SentInOrder(d) /\ WaitsInOrder(d) /\ FinLast(d))'
    BY <2>1, UpSame DEF Accepts
  <2> QED BY <2>2, <2>3 DEF UpInv
<1>3. CASE ~RemoteAck(c) /\ ~Reset(c)
  <2>1. UNCHANGED <<up, wrote, pending, half, dataQ, delivered, cl, tx>>
    BY <1>3 DEF Peer, SynAck, RemoteData, RemoteFin, FinAck, TimeWaitExpires, chanVars, connVars,
                appVars, ghostVars
  <2>2. \A d \in Conns : /\ Accepts(d)' => Accepts(d)
                         /\ st'[d] \in {"FinWait1", "FinWait2"} => st[d] \in {"FinWait1", "FinWait2"}
    BY <1>0, <1>3 DEF Peer, SynAck, RemoteData, RemoteFin, FinAck, TimeWaitExpires, Accepts
  <2> QED BY <2>1, <2>2, UpSame DEF UpInv
<1> QED BY <1>1, <1>2, <1>3

(* A connection when only the messages of others enter or leave data_in. *)
LEMMA UpOthers ==
    ASSUME StackInv, UpInv, NEW d \in Conns, NEW o \in {0, 1}, Len(dataQ') \in Nat,
           \A k \in 1 .. Len(dataQ') : dataQ'[k].id = d =>
              k + o \in 1 .. Len(dataQ) /\ dataQ'[k] = dataQ[k + o],
           \A k \in 1 .. Len(dataQ) : dataQ[k].id = d =>
              k - o \in 1 .. Len(dataQ') /\ dataQ'[k - o] = dataQ[k],
           up'[d] = up[d] /\ wrote'[d] = wrote[d] /\ pending'[d] = pending[d] /\ tx'[d] = tx[d],
           delivered'[d] = delivered[d] /\ half'[d] = half[d] /\ cl'[d] = cl[d] /\ st'[d] = st[d]
    PROVE  (Silent(d) /\ CloseLast(d) /\ SentInOrder(d) /\ WaitsInOrder(d) /\ FinLast(d))'
<1>0. Len(dataQ) \in Nat BY UpTyped
<1>a. Silent(d) /\ SentInOrder(d) /\ FinLast(d) BY DEF UpInv
<1>1. Silent(d)'
  <2>1. (\A k \in 1 .. Len(dataQ) : dataQ[k].id # d) => \A k \in 1 .. Len(dataQ') : dataQ'[k].id # d
    OBVIOUS
  <2> QED BY <1>a, <2>1 DEF Silent
<1>2. CloseLast(d)'
  <2>1. CloseLast(d) BY DEF UpInv
  <2>2. half'[d] => up'[d] = "done" /\ \A k \in 1 .. Len(dataQ') : dataQ'[k].id # d
    BY <2>1 DEF CloseLast
  <2>3. ASSUME NEW k \in 1 .. Len(dataQ'), IsClose(d, k)'
        PROVE  up'[d] = "done" /\ \A l \in 1 .. Len(dataQ') : dataQ'[l].id = d => l <= k
    <3>1. k + o \in 1 .. Len(dataQ) /\ IsClose(d, k + o) BY <2>3 DEF IsClose
    <3>2. up[d] = "done" /\ \A l \in 1 .. Len(dataQ) : dataQ[l].id = d => l <= k + o
      BY <2>1, <3>1 DEF CloseLast
    <3>3. ASSUME NEW l \in 1 .. Len(dataQ'), dataQ'[l].id = d PROVE l <= k
      <4>1. l + o \in 1 .. Len(dataQ) /\ dataQ[l + o].id = d BY <3>3
      <4>2. l + o <= k + o BY <3>2, <4>1
      <4> QED BY <4>2
    <3> QED BY <3>2, <3>3
  <2> QED BY <2>2, <2>3 DEF CloseLast
<1>3. SentInOrder(d)' /\ FinLast(d)'
  <2>1. SentInOrder(d)' BY <1>a DEF SentInOrder
  <2>2. FinLast(d)' BY <1>a DEF FinLast
  <2> QED BY <2>1, <2>2
<1>4. WaitsInOrder(d)'
  <2> SUFFICES ASSUME Accepts(d) PROVE WaitsInOrder(d)' BY DEF WaitsInOrder, Accepts
  <2>1. WaitsInOrder(d) BY DEF UpInv
  <2>2. Accepted(d)' = Accepted(d) BY DEF Accepted
  <2>3. Held(d) => Held(d)'
    <3>1. (\A k \in 1 .. Len(dataQ) : ~IsClose(d, k)) => \A k \in 1 .. Len(dataQ') : ~IsClose(d, k)'
      BY DEF IsClose
    <3> QED BY <3>1 DEF Held
  <2>4. ASSUME NEW k \in 1 .. Len(dataQ'), IsData(d, k)'
        PROVE  k + o \in 1 .. Len(dataQ) /\ IsData(d, k + o) /\ dataQ'[k].b = dataQ[k + o].b
    BY <2>4 DEF IsData
  <2>5. \A k \in 1 .. Len(dataQ') : IsData(d, k)' =>
             Accepted(d)' < dataQ'[k].b /\ dataQ'[k].b <= wrote'[d]
               /\ (up'[d] = "send" => dataQ'[k].b < wrote'[d])
    BY <2>1, <2>2, <2>4 DEF WaitsInOrder
  <2>6. ASSUME NEW k \in 1 .. Len(dataQ'), NEW l \in 1 .. Len(dataQ'),
               IsData(d, k)', IsData(d, l)', k < l
        PROVE  dataQ'[k].b < dataQ'[l].b
    <3>1. k + o < l + o BY <2>6
    <3> QED BY <2>1, <2>4, <2>6, <3>1 DEF WaitsInOrder
  <2>7. ASSUME NEW v \in Accepted(d)' + 1 .. wrote'[d]
        PROVE  \/ \E k \in 1 .. Len(dataQ') : IsData(d, k)' /\ dataQ'[k].b = v
               \/ v = wrote'[d] /\ Held(d)'
    <3>1. CASE \E k \in 1 .. Len(dataQ) : IsData(d, k) /\ dataQ[k].b = v
      <4>1. PICK k \in 1 .. Len(dataQ) : IsData(d, k) /\ dataQ[k].b = v BY <3>1
      <4>2. k - o \in 1 .. Len(dataQ') /\ IsData(d, k - o)' /\ dataQ'[k - o].b = v
        BY <4>1 DEF IsData
      <4> QED BY <4>2
    <3>2. CASE v = wrote[d] /\ Held(d) BY <2>3, <3>2
    <3> QED BY <2>1, <2>2, <3>1, <3>2 DEF WaitsInOrder
  <2> QED BY <2>1, <2>2, <2>5, <2>6, <2>7 DEF WaitsInOrder
<1> QED BY <1>1, <1>2, <1>3, <1>4

(* The up task ends without another message: with the byte it holds, if any. *)
LEMMA UpAborted ==
    ASSUME StackInv, UpInv, NEW c \in Conns, dataQ' = dataQ, up[c] # "off", up'[c] = "done",
           wrote'[c] = wrote[c] /\ pending'[c] = pending[c] /\ tx'[c] = tx[c],
           delivered'[c] = delivered[c] /\ half'[c] = half[c] /\ st'[c] = st[c],
           cl'[c] \in {"opening", "relay"} => cl'[c] = cl[c]
    PROVE  (Silent(c) /\ CloseLast(c) /\ SentInOrder(c) /\ WaitsInOrder(c) /\ FinLast(c))'
<1>1. Silent(c)' BY DEF Silent
<1>2. CloseLast(c)' BY DEF UpInv, CloseLast, IsClose
<1>3. SentInOrder(c)' /\ FinLast(c)' BY DEF UpInv, SentInOrder, FinLast
<1>4. WaitsInOrder(c)'
  <2>1. Accepted(c)' = Accepted(c) /\ (Accepts(c)' <=> Accepts(c)) BY DEF Accepted, Accepts
  <2>2. Held(c) => Held(c)' BY DEF UpInv, CloseLast, Held, IsClose
  <2>3. WaitsInOrder(c) BY DEF UpInv
  <2> QED BY <2>1, <2>2, <2>3 DEF WaitsInOrder, IsData
<1> QED BY <1>1, <1>2, <1>3, <1>4

(* The up task reads a byte, or the end of the client's stream. *)
LEMMA UpReads ==
    ASSUME StackInv, UpInv, NEW c \in Conns, UpRead(c) \/ UpEof(c)
    PROVE  UpInv'
<1>0. /\ up \in [Conns -> {"off", "read", "send", "close", "done"}] /\ wrote \in [Conns -> Nat]
  BY Typed DEF StackInv
<1>1. /\ UNCHANGED <<dataQ, pending, tx, delivered, half, st, cl>> /\ up[c] = "read"
      /\ \/ up'[c] = "send" /\ wrote'[c] = wrote[c] + 1
         \/ up'[c] = "close" /\ wrote'[c] = wrote[c]
      /\ \A d \in Conns \ {c} : up'[d] = up[d] /\ wrote'[d] = wrote[d]
  BY <1>0 DEF UpRead, UpEof, chanVars, connVars, sockVars, ghostVars
<1>2. ASSUME NEW d \in Conns \ {c}
      PROVE  (Silent(d) /\ CloseLast(d) /\ SentInOrder(d) /\ WaitsInOrder(d) /\ FinLast(d))'
  BY <1>1, UpSame DEF Accepts
<1>3. ~half[c] /\ \A k \in 1 .. Len(dataQ) : ~IsClose(c, k) BY <1>1 DEF UpInv, CloseLast
<1>4. Silent(c)' BY <1>1 DEF Silent
<1>5. CloseLast(c)' BY <1>1, <1>3 DEF CloseLast, IsClose
<1>6. SentInOrder(c)' /\ FinLast(c)' BY <1>1, <1>3 DEF UpInv, SentInOrder, FinLast
<1>7. WaitsInOrder(c)'
  <2> SUFFICES ASSUME Accepts(c) PROVE WaitsInOrder(c)' BY <1>1 DEF WaitsInOrder, Accepts
  <2>1. WaitsInOrder(c) BY DEF UpInv
  <2>2. /\ Accepted(c)' = Accepted(c) /\ ~Held(c) /\ (up'[c] = "send" => Held(c)')
        /\ \A k : IsData(c, k)' <=> IsData(c, k)
    BY <1>1 DEF Accepted, Held, IsData
  <2>3. /\ wrote[c] \in Nat /\ Accepted(c) \in Nat /\ Len(dataQ) \in Nat
        /\ \A k \in 1 .. Len(dataQ) : dataQ[k].b \in Nat
    BY UpTyped DEF DataIn
  <2>4. Accepted(c) <= wrote'[c] /\ (up'[c] = "send" => Accepted(c) < wrote'[c])
    BY <1>1, <2>1, <2>3 DEF WaitsInOrder
  <2>5. \A k \in 1 .. Len(dataQ) : IsData(c, k) =>
           Accepted(c) < dataQ[k].b /\ dataQ[k].b <= wrote'[c]
             /\ (up'[c] = "send" => dataQ[k].b < wrote'[c])
    BY <1>1, <2>1, <2>3 DEF WaitsInOrder
  <2>6. ASSUME NEW v \in Accepted(c) + 1 .. wrote'[c]
        PROVE  (\E k \in 1 .. Len(dataQ) : IsData(c, k) /\ dataQ[k].b = v)
                  \/ (v = wrote'[c] /\ Held(c)')
    <3> DEFINE old == wrote[c]
               new == wrote'[c]
    <3>1. old \in Nat /\ Accepted(c) \in Nat BY <2>3
    <3>2. (up'[c] = "send" /\ new = old + 1) \/ new = old BY <1>1
    <3>3. v \in Accepted(c) + 1 .. new OBVIOUS
    <3>4. v \in Accepted(c) + 1 .. old \/ (v = new /\ up'[c] = "send")
      <4> HIDE DEF old, new
      <4> QED BY <3>1, <3>2, <3>3
    <3> QED BY <2>1, <2>2, <3>4 DEF WaitsInOrder
  <2> QED BY <1>1, <2>1, <2>2, <2>4, <2>5, <2>6 DEF WaitsInOrder
<1> QED BY <1>2, <1>4, <1>5, <1>6, <1>7 DEF UpInv

(* A message at the end of data_in. *)
LEMMA Enqueued ==
    ASSUME StackInv, NEW m \in DataIn, dataQ' = Append(dataQ, m)
    PROVE  /\ Len(dataQ) \in Nat /\ Len(dataQ') = Len(dataQ) + 1 /\ Len(dataQ') \in Nat
           /\ \A k \in 1 .. Len(dataQ) : dataQ'[k] = dataQ[k]
           /\ dataQ'[Len(dataQ) + 1] = m
           /\ \A k \in 1 .. Len(dataQ') : k \in 1 .. Len(dataQ) \/ k = Len(dataQ) + 1
<1>1. dataQ \in Seq(DataIn) BY Typed DEF StackInv
<1> QED BY <1>1

LEMMA UpEnqueueOther ==
    ASSUME StackInv, UpInv, NEW m \in DataIn, dataQ' = Append(dataQ, m), NEW d \in Conns, m.id # d,
           up'[d] = up[d], UNCHANGED <<wrote, pending, tx, delivered, half, cl, st>>
    PROVE  (Silent(d) /\ CloseLast(d) /\ SentInOrder(d) /\ WaitsInOrder(d) /\ FinLast(d))'
<1>1. \A k \in 1 .. Len(dataQ') : dataQ'[k].id = d =>
         k + 0 \in 1 .. Len(dataQ) /\ dataQ'[k] = dataQ[k + 0]
  BY Enqueued
<1>2. \A k \in 1 .. Len(dataQ) : dataQ[k].id = d =>
         k - 0 \in 1 .. Len(dataQ') /\ dataQ'[k - 0] = dataQ[k]
  BY Enqueued
<1>3. Len(dataQ') \in Nat BY Enqueued
<1> QED BY <1>1, <1>2, <1>3, UpOthers

(* The up task passes on its byte, the next one in data_in. *)
LEMMA UpSends ==
    ASSUME StackInv, UpInv, NEW c \in Conns, UpSend(c), ~StackGone
    PROVE  UpInv'
<1> DEFINE m == [kind |-> "Tcp", id |-> c, b |-> wrote[c]]
<1>0. /\ up \in [Conns -> {"off", "read", "send", "close", "done"}] /\ wrote[c] \in Nat
  BY Typed DEF StackInv
<1>1. /\ UNCHANGED <<wrote, pending, tx, delivered, half, st, cl>>
      /\ up[c] = "send" /\ up'[c] = "read" /\ (\A d \in Conns \ {c} : up'[d] = up[d])
      /\ dataQ' = Append(dataQ, m) /\ m \in DataIn
  BY <1>0 DEF UpSend, connVars, sockVars, ghostVars, DataIn
<1>2. m.id = c /\ m.kind = "Tcp" /\ m.b = wrote[c] OBVIOUS
<1> HIDE DEF m
<1>3. ASSUME NEW d \in Conns \ {c}
      PROVE  (Silent(d) /\ CloseLast(d) /\ SentInOrder(d) /\ WaitsInOrder(d) /\ FinLast(d))'
  BY <1>1, <1>2, UpEnqueueOther
<1>4. /\ Len(dataQ) \in Nat /\ Len(dataQ') = Len(dataQ) + 1
      /\ \A k \in 1 .. Len(dataQ) : dataQ'[k] = dataQ[k]
      /\ dataQ'[Len(dataQ) + 1] = m
      /\ \A k \in 1 .. Len(dataQ') : k \in 1 .. Len(dataQ) \/ k = Len(dataQ) + 1
  BY <1>1, Enqueued
<1>5. ~half[c] /\ \A k \in 1 .. Len(dataQ) : ~IsClose(c, k) BY <1>1 DEF UpInv, CloseLast
<1>6. Silent(c)' BY <1>1 DEF Silent
<1>7. CloseLast(c)'
  <2>1. \A k \in 1 .. Len(dataQ') : ~IsClose(c, k)' BY <1>2, <1>4, <1>5 DEF IsClose
  <2> QED BY <1>1, <1>5, <2>1 DEF CloseLast
<1>8. SentInOrder(c)' BY <1>1 DEF UpInv, SentInOrder
<1>9. FinLast(c)' BY <1>1, <1>5 DEF UpInv, FinLast
<1>10. WaitsInOrder(c)'
  <2> SUFFICES ASSUME Accepts(c) PROVE WaitsInOrder(c)' BY <1>1 DEF WaitsInOrder, Accepts
  <2>0. PICK n \in Nat : n = Len(dataQ) BY <1>4
  <2>1. WaitsInOrder(c) BY DEF UpInv
  <2>2. Accepted(c)' = Accepted(c) BY <1>1 DEF Accepted
  <2>3. /\ \A k \in 1 .. Len(dataQ) : (IsData(c, k)' <=> IsData(c, k)) /\ dataQ'[k].b = dataQ[k].b
        /\ IsData(c, n + 1)' /\ dataQ'[n + 1].b = wrote[c]
    BY <1>2, <1>4, <2>0 DEF IsData
  <2>4. Accepted(c) \in Nat /\ wrote[c] \in Nat BY UpTyped
  <2>5. Accepted(c) < wrote[c] /\ Accepted(c) <= wrote[c] BY <1>1, <2>1 DEF WaitsInOrder
  <2>6. ASSUME NEW k \in 1 .. Len(dataQ'), IsData(c, k)'
        PROVE  Accepted(c) < dataQ'[k].b /\ dataQ'[k].b <= wrote[c]
    <3>1. CASE k \in 1 .. Len(dataQ) BY <2>1, <2>3, <2>6, <3>1 DEF WaitsInOrder
    <3>2. CASE k = Len(dataQ) + 1 BY <2>0, <2>3, <2>4, <2>5, <3>2
    <3> QED BY <1>4, <3>1, <3>2
  <2>7. ASSUME NEW k \in 1 .. Len(dataQ'), NEW l \in 1 .. Len(dataQ'),
               IsData(c, k)', IsData(c, l)', k < l
        PROVE  dataQ'[k].b < dataQ'[l].b
    <3>1. k \in 1 .. Len(dataQ) BY <1>4, <2>7
    <3>2. CASE l \in 1 .. Len(dataQ) BY <2>1, <2>3, <2>7, <3>1, <3>2 DEF WaitsInOrder
    <3>3. CASE l = Len(dataQ) + 1 BY <1>1, <2>0, <2>1, <2>3, <2>7, <3>1, <3>3 DEF WaitsInOrder
    <3> QED BY <1>4, <3>2, <3>3
  <2>8. ASSUME NEW v \in Accepted(c) + 1 .. wrote[c]
        PROVE  \E k \in 1 .. Len(dataQ') : IsData(c, k)' /\ dataQ'[k].b = v
    <3>0. Len(dataQ) + 1 \in 1 .. Len(dataQ') /\ 1 .. Len(dataQ) \subseteq 1 .. Len(dataQ') BY <1>4
    <3>1. CASE v = wrote[c] BY <2>0, <2>3, <3>0, <3>1
    <3>2. CASE v # wrote[c]
      <4>1. PICK k \in 1 .. Len(dataQ) : IsData(c, k) /\ dataQ[k].b = v
        BY <2>1, <3>2 DEF WaitsInOrder
      <4> QED BY <2>3, <3>0, <4>1
    <3> QED BY <3>1, <3>2
  <2> QED BY <1>1, <2>1, <2>2, <2>5, <2>6, <2>7, <2>8 DEF WaitsInOrder
<1> QED BY <1>3, <1>6, <1>7, <1>8, <1>9, <1>10 DEF UpInv

(* The up task passes on the client's half-close, after all its bytes. *)
LEMMA UpCloses ==
    ASSUME StackInv, UpInv, NEW c \in Conns, UpClose(c), ~StackGone
    PROVE  UpInv'
<1> DEFINE m == [kind |-> "TcpClose", id |-> c, b |-> 0]
<1>0. up \in [Conns -> {"off", "read", "send", "close", "done"}] BY Typed DEF StackInv
<1>1. /\ UNCHANGED <<wrote, pending, tx, delivered, half, st, cl>>
      /\ up[c] = "close" /\ up'[c] = "done" /\ (\A d \in Conns \ {c} : up'[d] = up[d])
      /\ dataQ' = Append(dataQ, m) /\ m \in DataIn
  BY <1>0 DEF UpClose, connVars, sockVars, ghostVars, DataIn
<1>2. m.id = c /\ m.kind # "Tcp" OBVIOUS
<1> HIDE DEF m
<1>3. ASSUME NEW d \in Conns \ {c}
      PROVE  (Silent(d) /\ CloseLast(d) /\ SentInOrder(d) /\ WaitsInOrder(d) /\ FinLast(d))'
  BY <1>1, <1>2, UpEnqueueOther
<1>4. /\ Len(dataQ) \in Nat /\ Len(dataQ') = Len(dataQ) + 1
      /\ \A k \in 1 .. Len(dataQ) : dataQ'[k] = dataQ[k]
      /\ dataQ'[Len(dataQ) + 1] = m
      /\ \A k \in 1 .. Len(dataQ') : k \in 1 .. Len(dataQ) \/ k = Len(dataQ) + 1
  BY <1>1, Enqueued
<1>5. ~half[c] /\ \A k \in 1 .. Len(dataQ) : ~IsClose(c, k) BY <1>1 DEF UpInv, CloseLast
<1>6. Silent(c)' BY <1>1 DEF Silent
<1>7. CloseLast(c)'
  <2>1. \A k \in 1 .. Len(dataQ') : IsClose(c, k)' => k = Len(dataQ) + 1
    BY <1>4, <1>5 DEF IsClose
  <2>2. \A l \in 1 .. Len(dataQ') : l <= Len(dataQ) + 1 BY <1>4
  <2> QED BY <1>1, <1>5, <2>1, <2>2 DEF CloseLast
<1>8. SentInOrder(c)' BY <1>1 DEF UpInv, SentInOrder
<1>9. FinLast(c)' BY <1>1, <1>5 DEF UpInv, FinLast
<1>10. WaitsInOrder(c)'
  <2> SUFFICES ASSUME Accepts(c) PROVE WaitsInOrder(c)' BY <1>1 DEF WaitsInOrder, Accepts
  <2>0. PICK n \in Nat : n = Len(dataQ) BY <1>4
  <2>1. WaitsInOrder(c) BY DEF UpInv
  <2>2. Accepted(c)' = Accepted(c) /\ ~Held(c) BY <1>1 DEF Accepted, Held
  <2>3. /\ \A k \in 1 .. Len(dataQ) : (IsData(c, k)' <=> IsData(c, k)) /\ dataQ'[k].b = dataQ[k].b
        /\ ~IsData(c, n + 1)'
    BY <1>2, <1>4, <2>0 DEF IsData
  <2>4. \A k \in 1 .. Len(dataQ') : IsData(c, k)' =>
           k \in 1 .. Len(dataQ) /\ IsData(c, k) /\ dataQ'[k].b = dataQ[k].b
    BY <1>4, <2>0, <2>3
  <2>5. 1 .. Len(dataQ) \subseteq 1 .. Len(dataQ') BY <1>4
  <2>6. \A v \in Accepted(c) + 1 .. wrote[c] :
           \E k \in 1 .. Len(dataQ') : IsData(c, k)' /\ dataQ'[k].b = v
    BY <2>1, <2>2, <2>3, <2>5 DEF WaitsInOrder
  <2>7. (\A i \in 1 .. Len(pending[c]) : pending[c][i] = Len(delivered[c]) + Len(tx[c]) + i)'
    BY <1>1, <2>1 DEF WaitsInOrder
  <2>8. (Accepted(c) <= wrote[c] /\ (up[c] = "send" => Accepted(c) < wrote[c]))'
    BY <1>1, <2>1, <2>2 DEF WaitsInOrder
  <2>9. \A k \in 1 .. Len(dataQ') : IsData(c, k)' =>
           Accepted(c)' < dataQ'[k].b /\ dataQ'[k].b <= wrote'[c]
    BY <1>1, <2>1, <2>2, <2>4 DEF WaitsInOrder
  <2>10. \A k, l \in 1 .. Len(dataQ') : IsData(c, k)' /\ IsData(c, l)' /\ k < l =>
            dataQ'[k].b < dataQ'[l].b
    BY <2>1, <2>4 DEF WaitsInOrder
  <2>11. up'[c] # "send" /\ Accepted(c)' = Accepted(c) /\ wrote'[c] = wrote[c] BY <1>1, <2>2
  <2> QED BY <2>6, <2>7, <2>8, <2>9, <2>10, <2>11 DEF WaitsInOrder
<1> QED BY <1>3, <1>6, <1>7, <1>8, <1>9, <1>10 DEF UpInv

(* The hand-over starts the up task of a connection nothing was written to. *)
LEMMA UpAnswered ==
    ASSUME StackInv, HandedOver, UpInv, NEW c \in Conns, Answered(c)
    PROVE  UpInv'
<1>0. /\ cl \in [Conns -> {"idle", "opening", "relay"} \cup Ended]
      /\ up \in [Conns -> {"off", "read", "send", "close", "done"}]
  BY Typed DEF StackInv
<1>1. /\ UNCHANGED <<dataQ, wrote, pending, tx, delivered, half, st>> /\ cl[c] = "opening"
      /\ \/ cl'[c] = "relay" /\ up'[c] = "read"
         \/ cl'[c] = "failed" /\ up'[c] = up[c]
      /\ \A d \in Conns \ {c} : up'[d] = up[d] /\ cl'[d] = cl[d]
  BY <1>0 DEF Answered, chanVars, connVars, sockVars, ghostVars
<1>2. ASSUME NEW d \in Conns \ {c}
      PROVE  (Silent(d) /\ CloseLast(d) /\ SentInOrder(d) /\ WaitsInOrder(d) /\ FinLast(d))'
  BY <1>1, UpSame DEF Accepts
<1>3. up[c] = "off" BY <1>1 DEF HandedOver
<1>4. /\ wrote[c] = 0 /\ pending[c] = <<>> /\ tx[c] = <<>> /\ delivered[c] = <<>>
      /\ ~half[c] /\ \A k \in 1 .. Len(dataQ) : dataQ[k].id # c
  BY <1>3 DEF UpInv, Silent
<1>5. Silent(c)' BY <1>1, <1>4 DEF Silent
<1>6. CloseLast(c)' BY <1>1, <1>4 DEF CloseLast, IsClose
<1>7. SentInOrder(c)' BY <1>1, <1>4 DEF SentInOrder
<1>8. FinLast(c)' BY <1>1, <1>4 DEF UpInv, FinLast
<1>9. WaitsInOrder(c)'
  <2>1. Accepted(c)' = 0 BY <1>1, <1>4 DEF Accepted
  <2>2. up'[c] # "send" BY <1>1, <1>3
  <2> QED BY <1>1, <1>4, <2>1, <2>2 DEF WaitsInOrder, IsData
<1> QED BY <1>2, <1>5, <1>6, <1>7, <1>8, <1>9 DEF UpInv

LEMMA UpClient ==
    ASSUME StackInv, HandedOver, UpInv, NEW c \in Conns, Main(c) \/ Up(c)
    PROVE  UpInv'
<1>0. /\ cl \in [Conns -> {"idle", "opening", "relay"} \cup Ended]
      /\ up \in [Conns -> {"off", "read", "send", "close", "done"}]
  BY Typed DEF StackInv
<1>1. CASE OpenTcp(c) \/ RelayDown(c)
  <2>1. UNCHANGED <<dataQ, up, wrote, pending, tx, delivered, half, st>>
    BY <1>1 DEF OpenTcp, RelayDown, connVars, sockVars, appVars, ghostVars
  <2>2. \A d \in Conns : cl'[d] = cl[d] \/ st[d] = "none"
    BY <1>0, <1>1 DEF OpenTcp, RelayDown, appVars, StackInv, RequestsFresh, Fresh
  <2> QED BY <2>1, <2>2, UpSame DEF UpInv, Accepts
<1>2. CASE Answered(c) BY <1>2, UpAnswered
<1>3. CASE UpRead(c) \/ UpEof(c) BY <1>3, UpReads
<1>4. CASE (UpSend(c) \/ UpClose(c)) /\ ~StackGone BY <1>4, UpSends, UpCloses
<1>5. CASE RelayBreaks(c) \/ RelayEof(c) \/ ((UpSend(c) \/ UpClose(c)) /\ StackGone)
  <2>1. /\ UNCHANGED <<dataQ, wrote, pending, tx, delivered, half, st>>
        /\ up'[c] = "done" /\ (cl'[c] = cl[c] \/ cl'[c] \in {"gone", "eof"})
        /\ \A d \in Conns \ {c} : up'[d] = up[d] /\ cl'[d] = cl[d]
    BY <1>0, <1>5 DEF RelayBreaks, RelayEof, UpSend, UpClose, chanVars, connVars, sockVars,
                      ghostVars
  <2>2. up[c] # "off"
    BY <1>5 DEF RelayBreaks, RelayEof, UpSend, UpClose, HandedOver
  <2>3. (Silent(c) /\ CloseLast(c) /\ SentInOrder(c) /\ WaitsInOrder(c) /\ FinLast(c))'
    BY <2>1, <2>2, UpAborted
  <2>4. ASSUME NEW d \in Conns \ {c}
        PROVE  (Silent(d) /\ CloseLast(d) /\ SentInOrder(d) /\ WaitsInOrder(d) /\ FinLast(d))'
    BY <2>1, UpSame DEF Accepts
  <2> QED BY <2>3, <2>4 DEF UpInv
<1> QED BY <1>1, <1>2, <1>3, <1>4, <1>5 DEF Main, Up

LEMMA UpLoop ==
    ASSUME UpInv,
           PollDone \/ ServiceDone \/ SelectInbound \/ SelectData \/ DrainDone \/ SelectTimer
              \/ FlushTx \/ PacketArrives \/ TunnelEnds \/ UNCHANGED vars
    PROVE  UpInv'
<1>1. UNCHANGED <<dataQ, up, wrote, pending, tx, delivered, half, cl, st>>
  BY DEF PollDone, ServiceDone, SelectInbound, SelectData, DrainDone, SelectTimer, FlushTx,
         PacketArrives, TunnelEnds, vars, chanVars, connVars, sockVars, appVars, ghostVars
<1> QED BY <1>1, UpSame DEF UpInv, Accepts

(* The half-close of a connection whose pending is empty follows every byte *)
(* its client wrote.                                                        *)
LEMMA AllAccepted ==
    ASSUME StackInv, UpInv, NEW c \in Conns, half[c], Accepts(c)
    PROVE  Accepted(c) = wrote[c]
<1>1. CloseLast(c) /\ WaitsInOrder(c) BY DEF UpInv
<1>2. ~Held(c) /\ \A k \in 1 .. Len(dataQ) : ~IsData(c, k)
  BY <1>1 DEF CloseLast, Held, IsData
<1>3. Accepted(c) \in Nat /\ wrote[c] \in Nat BY UpTyped
<1>4. Accepted(c) <= wrote[c] /\ Accepted(c) + 1 .. wrote[c] = {}
  BY <1>1, <1>2 DEF WaitsInOrder
<1> QED BY <1>3, <1>4

(* send_slice moves a prefix of pending to tx, and the FIN may follow it. *)
LEMMA UpServiceBegin ==
    ASSUME StackInv, UpInv, NEW c \in Conns, ServiceBegin(c)
    PROVE  UpInv'
<1> DEFINE n == Sendable(c)  P == pending[c]  T == tx[c]  D == Len(delivered[c])
           rest == SubSeq(P, n + 1, Len(P))  moved == SubSeq(P, 1, n)
<1>0. /\ pending \in [Conns -> Bytes] /\ tx \in [Conns -> Bytes] /\ st \in [Conns -> TcpStates]
  BY Typed DEF StackInv
<1>1. /\ UNCHANGED <<dataQ, up, wrote, delivered, half, cl>>
      /\ pending'[c] = rest /\ tx'[c] = T \o moved
      /\ st'[c] = (IF half[c] /\ rest = <<>> THEN Closed(st[c]) ELSE st[c])
      /\ \A d \in Conns \ {c} : pending'[d] = pending[d] /\ tx'[d] = tx[d] /\ st'[d] = st[d]
  BY <1>0 DEF ServiceBegin, CloseDue, appVars, ghostVars
<1>2. ASSUME NEW d \in Conns \ {c}
      PROVE  (Silent(d) /\ CloseLast(d) /\ SentInOrder(d) /\ WaitsInOrder(d) /\ FinLast(d))'
  BY <1>1, UpSame DEF Accepts
<1>3. P \in Seq(Nat) /\ T \in Seq(Nat) /\ D \in Nat /\ Len(P) \in Nat /\ Len(T) \in Nat
  BY UpTyped
<1>4. n \in Nat /\ n <= Len(P) BY SendableType DEF StackInv
<1>5. st[c] \notin {"Established", "CloseWait"} => n = 0 BY DEF Sendable
<1> HIDE DEF n, P, T, D
<1>6. /\ rest \in Seq(Nat) /\ Len(rest) = Len(P) - n /\ \A i \in 1 .. Len(P) - n : rest[i] = P[n + i]
      /\ moved \in Seq(Nat) /\ Len(moved) = n /\ \A i \in 1 .. n : moved[i] = P[i]
  BY <1>3, <1>4
<1> HIDE DEF rest, moved
<1>7. /\ T \o moved \in Seq(Nat) /\ Len(T \o moved) = Len(T) + n
      /\ \A i \in 1 .. Len(T) + n : (T \o moved)[i] = IF i <= Len(T) THEN T[i] ELSE moved[i - Len(T)]
  BY <1>3, <1>6, ConcatProperties, ZenonT(60)
<1>8. (rest = <<>> <=> Len(rest) = 0) /\ (T \o moved = <<>> <=> Len(T \o moved) = 0)
        /\ (P = <<>> <=> Len(P) = 0) /\ (T = <<>> <=> Len(T) = 0)
  BY <1>3, <1>6, <1>7, NoneLeft
<1>9. Accepted(c) = D + Len(T) + Len(P) /\ Accepted(c)' = D + Len(tx'[c]) + Len(pending'[c])
  BY <1>1 DEF Accepted, D, T, P
<1>10. Len(tx'[c]) = Len(T) + n /\ Len(pending'[c]) = Len(P) - n BY <1>1, <1>6, <1>7
<1>11. Accepted(c)' = Accepted(c) BY <1>3, <1>4, <1>9, <1>10
<1>12. Accepts(c)' => Accepts(c) /\ st'[c] = st[c]
  BY <1>0, <1>1 DEF Accepts, Closed, TcpStates
<1>13. Accepts(c) => \A i \in 1 .. Len(P) : P[i] = D + Len(T) + i
  BY DEF UpInv, WaitsInOrder, P, D, T
<1>14. Silent(c)'
  <2> SUFFICES ASSUME up[c] = "off" PROVE pending'[c] = <<>> /\ tx'[c] = <<>>
    BY <1>1 DEF UpInv, Silent
  <2>1. P = <<>> /\ T = <<>> BY DEF UpInv, Silent, P, T
  <2>2. Len(P) = 0 /\ Len(T) = 0 /\ n = 0 BY <1>3, <1>4, <1>8, <2>1
  <2> QED BY <1>1, <1>6, <1>7, <1>8, <2>2
<1>15. CloseLast(c)' BY <1>1 DEF UpInv, CloseLast, IsClose
<1>16. SentInOrder(c)'
  <2>1. SentInOrder(c) BY DEF UpInv
  <2>2. \A i \in 1 .. Len(T) : T[i] = D + i BY <2>1 DEF SentInOrder, T, D
  <2>3. ASSUME NEW i \in 1 .. Len(T) + n PROVE tx'[c][i] = D + i
    <3>1. CASE i <= Len(T) BY <1>1, <1>3, <1>7, <2>2, <3>1
    <3>2. CASE ~(i <= Len(T))
      <4>1. i - Len(T) \in 1 .. n /\ i - Len(T) \in 1 .. Len(P) /\ n # 0 BY <1>3, <1>4, <3>2
      <4>2. Accepts(c) BY <1>5, <4>1 DEF Accepts
      <4>3. tx'[c][i] = P[i - Len(T)] BY <1>1, <1>6, <1>7, <3>2, <4>1
      <4>4. P[i - Len(T)] = D + Len(T) + (i - Len(T)) BY <1>13, <4>1, <4>2
      <4>5. D + Len(T) + (i - Len(T)) = D + i BY <1>3
      <4> QED BY <4>3, <4>4, <4>5
    <3> QED BY <3>1, <3>2
  <2>4. \A i \in 1 .. Len(tx'[c]) : tx'[c][i] = Len(delivered'[c]) + i
    BY <1>1, <1>10, <2>3 DEF D
  <2> QED BY <1>1, <2>1, <2>4 DEF SentInOrder
<1>17. WaitsInOrder(c)'
  <2> SUFFICES ASSUME Accepts(c) PROVE WaitsInOrder(c)' BY <1>12 DEF WaitsInOrder
  <2>1. WaitsInOrder(c) BY DEF UpInv
  <2>2. Held(c)' <=> Held(c) BY <1>1 DEF Held, IsClose
  <2>3. ASSUME NEW i \in 1 .. Len(P) - n
        PROVE  pending'[c][i] = D + (Len(T) + n) + i
    <3>1. n + i \in 1 .. Len(P) /\ D + Len(T) + (n + i) = D + (Len(T) + n) + i BY <1>3, <1>4
    <3>2. pending'[c][i] = P[n + i] BY <1>1, <1>6
    <3>3. P[n + i] = D + Len(T) + (n + i) BY <1>13, <3>1
    <3> QED BY <3>1, <3>2, <3>3
  <2>4. \A i \in 1 .. Len(pending'[c]) :
           pending'[c][i] = Len(delivered'[c]) + Len(tx'[c]) + i
    BY <1>1, <1>10, <2>3, Zenon DEF D
  <2> QED BY <1>1, <1>11, <2>1, <2>2, <2>4 DEF WaitsInOrder, IsData
<1>18. FinLast(c)'
  <2> SUFFICES ASSUME cl[c] \in {"opening", "relay"}, st'[c] \in {"FinWait1", "FinWait2"}
               PROVE  half[c] /\ Len(delivered[c]) + Len(tx'[c]) = wrote[c]
    BY <1>1 DEF FinLast
  <2>1. CASE st'[c] = st[c]
    <3>1. half[c] /\ D + Len(T) = wrote[c] BY <2>1 DEF UpInv, FinLast, D, T
    <3>2. n = 0 BY <1>5, <2>1
    <3> QED BY <1>3, <1>10, <3>1, <3>2 DEF D
  <2>2. CASE st'[c] # st[c]
    <3>1. half[c] /\ rest = <<>> /\ Accepts(c)
      BY <1>0, <1>1, <2>2 DEF Closed, Accepts
    <3>2. Accepted(c) = wrote[c] BY <3>1, AllAccepted
    <3>3. Len(P) - n = 0 BY <1>6, <1>8, <3>1
    <3>4. D + (Len(T) + n) = D + Len(T) + Len(P) BY <1>3, <1>4, <3>3, SMTT(30)
    <3> QED BY <1>9, <1>10, <3>1, <3>2, <3>4 DEF D
  <2> QED BY <2>1, <2>2
<1> QED BY <1>2, <1>14, <1>15, <1>16, <1>17, <1>18 DEF UpInv

LEMMA UpServiceRest ==
    ASSUME StackInv, HandedOver, UpInv, NEW c \in Conns, ServiceRefused(c) \/ ServiceSend \/ ServiceEnd
    PROVE  UpInv'
<1>0. /\ conn \in [Conns -> {"absent", "opening", "open"}] /\ st \in [Conns -> TcpStates]
      /\ pending \in [Conns -> Bytes] /\ tx \in [Conns -> Bytes] /\ half \in [Conns -> BOOLEAN]
      /\ cur \in Conns
  BY Typed DEF StackInv
<1>1. CASE ServiceRefused(c)
  <2>1. /\ UNCHANGED <<dataQ, up, wrote, pending, delivered, half, cl>>
        /\ tx'[c] = <<>> /\ st'[c] = "none"
        /\ \A d \in Conns \ {c} : tx'[d] = tx[d] /\ st'[d] = st[d]
    BY <1>0, <1>1 DEF ServiceRefused, appVars, ghostVars
  <2>2. (Silent(c) /\ CloseLast(c) /\ SentInOrder(c) /\ WaitsInOrder(c) /\ FinLast(c))'
    BY <2>1, UpCut
  <2>3. ASSUME NEW d \in Conns \ {c}
        PROVE  (Silent(d) /\ CloseLast(d) /\ SentInOrder(d) /\ WaitsInOrder(d) /\ FinLast(d))'
    BY <2>1, UpSame DEF Accepts
  <2> QED BY <2>2, <2>3 DEF UpInv
<1>2. CASE ServiceSend
  <2>1. UNCHANGED <<dataQ, up, wrote, pending, tx, delivered, half, cl>>
    BY <1>2 DEF ServiceSend, connVars, appVars, ghostVars
  <2>2. conn[cur] = "open" /\ answer[cur] = "ok"
    BY <1>0, <1>2 DEF ServiceSend, StackInv, VisitPending, HandedOver
  <2>3. \A d \in Conns : st'[d] = st[d] \/ (cl[d] \notin {"opening", "relay"} /\ st'[d] = Closed(st[d]))
    BY <1>0, <1>2, <2>2 DEF ServiceSend, ReceiverAlive
  <2>4. \A d \in Conns : Accepts(d)' => Accepts(d)
    BY <1>0, <2>3 DEF Accepts, Closed, TcpStates
  <2> QED BY <2>1, <2>3, <2>4, UpSame DEF UpInv
<1>3. CASE ServiceEnd /\ st[cur] = "Closed" /\ conn[cur] = "open"
  <2>1. /\ UNCHANGED <<dataQ, up, wrote, delivered, cl, cur>>
        /\ tx'[cur] = <<>> /\ st'[cur] = "none" /\ pending'[cur] = <<>> /\ half'[cur] = FALSE
        /\ \A d \in Conns \ {cur} : /\ tx'[d] = tx[d] /\ st'[d] = st[d]
                                    /\ pending'[d] = pending[d] /\ half'[d] = half[d]
    BY <1>0, <1>3 DEF ServiceEnd, chanVars, appVars, ghostVars
  <2>2. PICK e \in Conns : e = cur BY <1>0
  <2>3. (Silent(e) /\ CloseLast(e) /\ SentInOrder(e) /\ WaitsInOrder(e) /\ FinLast(e))'
    BY <2>1, <2>2, UpCut
  <2>4. ASSUME NEW d \in Conns \ {e}
        PROVE  (Silent(d) /\ CloseLast(d) /\ SentInOrder(d) /\ WaitsInOrder(d) /\ FinLast(d))'
    BY <2>1, <2>2, UpSame DEF Accepts
  <2> QED BY <2>3, <2>4 DEF UpInv
<1>4. CASE ServiceEnd /\ ~(st[cur] = "Closed" /\ conn[cur] = "open")
  <2>1. UNCHANGED <<dataQ, up, wrote, pending, tx, delivered, half, cl>>
    BY <1>4 DEF ServiceEnd, chanVars, connVars, appVars, ghostVars
  <2>2. \A d \in Conns : st'[d] = st[d] \/ (st[d] = "CloseWait" /\ st'[d] = "LastAck")
    BY <1>0, <1>4 DEF ServiceEnd, AnswerFin, Closed
  <2> QED BY <2>1, <2>2, UpSame DEF UpInv, Accepts
<1> QED BY <1>1, <1>2, <1>3, <1>4

LEMMA UpSelect ==
    ASSUME StackInv, HandedOver, UpInv, SelectExit \/ SelectCmd
    PROVE  UpInv'
<1>0. st \in [Conns -> TcpStates] /\ cmdQ \in Seq(Conns) BY Typed DEF StackInv
<1>1. CASE SelectExit
  <2>1. /\ UNCHANGED <<up, wrote, delivered, cl>> /\ dataQ' = <<>>
        /\ \A d \in Conns : tx'[d] = <<>> /\ pending'[d] = <<>> /\ half'[d] = FALSE /\ st'[d] = "none"
    BY <1>1 DEF SelectExit, appVars, ghostVars
  <2>2. ASSUME NEW d \in Conns
        PROVE  (Silent(d) /\ CloseLast(d) /\ SentInOrder(d) /\ WaitsInOrder(d) /\ FinLast(d))'
    <3>1. Silent(d)' BY <2>1 DEF UpInv, Silent
    <3>2. CloseLast(d)' BY <2>1 DEF CloseLast
    <3>3. SentInOrder(d)' BY <2>1 DEF UpInv, SentInOrder
    <3>4. WaitsInOrder(d)' /\ FinLast(d)' BY <2>1 DEF WaitsInOrder, FinLast, Accepts
    <3> QED BY <3>1, <3>2, <3>3, <3>4
  <2> QED BY <2>2 DEF UpInv
<1>2. CASE SelectCmd
  <2>1. PICK c \in Conns : c = Head(cmdQ) /\ c = cmdQ[1] /\ 1 \in 1 .. Len(cmdQ)
    BY <1>0, <1>2 DEF SelectCmd
  <2>2. Fresh(c) BY <2>1 DEF StackInv, RequestsFresh
  <2>3. up[c] = "off" BY <2>1, <2>2 DEF HandedOver, Fresh
  <2>4. /\ UNCHANGED <<dataQ, up, wrote, pending, tx, delivered, half, cl>>
        /\ st'[c] \in {st[c], "SynSent"} /\ \A d \in Conns \ {c} : st'[d] = st[d]
    BY <1>0, <1>2, <2>1 DEF SelectCmd, appVars, ghostVars
  <2>5. ASSUME NEW d \in Conns \ {c}
        PROVE  (Silent(d) /\ CloseLast(d) /\ SentInOrder(d) /\ WaitsInOrder(d) /\ FinLast(d))'
    BY <2>4, UpSame DEF Accepts
  <2>6. /\ wrote[c] = 0 /\ pending[c] = <<>> /\ tx[c] = <<>> /\ delivered[c] = <<>>
        /\ ~half[c] /\ \A k \in 1 .. Len(dataQ) : dataQ[k].id # c
    BY <2>3 DEF UpInv, Silent
  <2>7. Silent(c)' BY <2>4, <2>6 DEF Silent
  <2>8. CloseLast(c)' BY <2>4, <2>6 DEF CloseLast, IsClose
  <2>9. SentInOrder(c)' BY <2>4, <2>6 DEF SentInOrder
  <2>10. WaitsInOrder(c)'
    <3>1. Accepted(c)' = 0 BY <2>4, <2>6 DEF Accepted
    <3> QED BY <2>3, <2>4, <2>6, <3>1 DEF WaitsInOrder, IsData
  <2>11. FinLast(c)' BY <2>2, <2>4 DEF FinLast, Fresh
  <2> QED BY <2>5, <2>7, <2>8, <2>9, <2>10, <2>11 DEF UpInv
<1> QED BY <1>1, <1>2

(* The message at the head of data_in is the next byte of its connection. *)
LEMMA NextByte ==
    ASSUME StackInv, UpInv, NEW c \in Conns, Accepts(c), 1 \in 1 .. Len(dataQ), IsData(c, 1)
    PROVE  dataQ[1].b = Accepted(c) + 1
<1>1. WaitsInOrder(c) BY DEF UpInv
<1>2. /\ Accepted(c) \in Nat /\ wrote[c] \in Nat /\ Len(dataQ) \in Nat
      /\ \A k \in 1 .. Len(dataQ) : dataQ[k].b \in Nat
  BY UpTyped DEF DataIn
<1>3. Accepted(c) < dataQ[1].b /\ dataQ[1].b <= wrote[c] BY <1>1 DEF WaitsInOrder
<1>4. Accepted(c) + 1 \in Accepted(c) + 1 .. wrote[c] BY <1>2, <1>3
<1>5. CASE \E k \in 1 .. Len(dataQ) : IsData(c, k) /\ dataQ[k].b = Accepted(c) + 1
  <2>1. PICK k \in 1 .. Len(dataQ) : IsData(c, k) /\ dataQ[k].b = Accepted(c) + 1 BY <1>5
  <2>2. CASE k = 1 BY <2>1, <2>2
  <2>3. CASE k # 1
    <3>1. 1 < k BY <1>2, <2>3
    <3>2. dataQ[1].b < dataQ[k].b BY <1>1, <2>1, <3>1 DEF WaitsInOrder
    <3> QED BY <1>2, <1>3, <2>1, <3>2
  <2> QED BY <2>2, <2>3
<1>6. CASE Accepted(c) + 1 = wrote[c] BY <1>2, <1>3, <1>6
<1> QED BY <1>1, <1>4, <1>5, <1>6 DEF WaitsInOrder

(* handle_data: one message leaves data_in. *)
LEMMA UpHandleData ==
    ASSUME StackInv, HandedOver, UpInv, HandleData
    PROVE  UpInv'
<1>0. /\ dataQ \in Seq(DataIn) /\ pending \in [Conns -> Bytes] /\ half \in [Conns -> BOOLEAN]
  BY Typed DEF StackInv
<1>1. dataQ # <<>> /\ dataQ' = Tail(dataQ) /\ UNCHANGED <<up, wrote, tx, delivered, cl, st>>
  BY DEF HandleData, sockVars, appVars, ghostVars
<1>2. /\ Len(dataQ) \in Nat /\ 1 \in 1 .. Len(dataQ) /\ Len(dataQ') = Len(dataQ) - 1
      /\ Len(dataQ') \in Nat /\ Head(dataQ) = dataQ[1] /\ dataQ[1] \in DataIn
      /\ \A k \in 1 .. Len(dataQ') : dataQ'[k] = dataQ[k + 1] /\ k + 1 \in 1 .. Len(dataQ)
  BY <1>0, <1>1
<1>3. PICK c \in Conns : c = dataQ[1].id BY <1>2 DEF DataIn
<1>4. \A d \in Conns \ {c} : pending'[d] = pending[d] /\ half'[d] = half[d]
  BY <1>0, <1>2, <1>3 DEF HandleData, HalfClosed
<1>5. \A k \in 1 .. Len(dataQ) : k = 1 \/ (k - 1 \in 1 .. Len(dataQ') /\ dataQ'[k - 1] = dataQ[k])
  <2> SUFFICES ASSUME NEW k \in 1 .. Len(dataQ), k # 1
               PROVE  k - 1 \in 1 .. Len(dataQ') /\ dataQ'[k - 1] = dataQ[k]
    OBVIOUS
  <2>1. k - 1 \in 1 .. Len(dataQ') /\ (k - 1) + 1 = k BY <1>2
  <2> QED BY <1>2, <2>1
<1>6. ASSUME NEW d \in Conns \ {c}
      PROVE  (Silent(d) /\ CloseLast(d) /\ SentInOrder(d) /\ WaitsInOrder(d) /\ FinLast(d))'
  <2>1. \A k \in 1 .. Len(dataQ) : dataQ[k].id = d =>
           k - 1 \in 1 .. Len(dataQ') /\ dataQ'[k - 1] = dataQ[k]
    BY <1>3, <1>5
  <2>2. \A k \in 1 .. Len(dataQ') : dataQ'[k].id = d =>
           k + 1 \in 1 .. Len(dataQ) /\ dataQ'[k] = dataQ[k + 1]
    BY <1>2
  <2> QED BY <1>1, <1>2, <1>4, <2>1, <2>2, UpOthers
<1>7. up[c] # "off" /\ ~half[c] BY <1>2, <1>3 DEF UpInv, Silent, CloseLast
<1>8. Silent(c)' BY <1>1, <1>7 DEF Silent
<1>9. SentInOrder(c)' BY <1>1 DEF UpInv, SentInOrder
<1>10. FinLast(c)' BY <1>1, <1>7 DEF UpInv, FinLast
<1>11. \A k \in 1 .. Len(dataQ') : /\ IsClose(c, k)' => IsClose(c, k + 1)
                                   /\ IsData(c, k)' => IsData(c, k + 1)
  BY <1>2 DEF IsClose, IsData
<1>12. CASE dataQ[1].kind = "Tcp"
  <2>1. /\ half'[c] = half[c]
        /\ \/ conn[c] = "absent" /\ pending'[c] = pending[c]
           \/ conn[c] # "absent" /\ pending'[c] = Append(pending[c], dataQ[1].b)
    BY <1>0, <1>2, <1>3, <1>12 DEF HandleData, HalfClosed
  <2>2. CloseLast(c)'
    <3>1. CloseLast(c) BY DEF UpInv
    <3>2. ASSUME NEW k \in 1 .. Len(dataQ'), IsClose(c, k)'
          PROVE  up'[c] = "done" /\ \A l \in 1 .. Len(dataQ') : dataQ'[l].id = c => l <= k
      <4>1. k + 1 \in 1 .. Len(dataQ) /\ IsClose(c, k + 1) BY <1>2, <1>11, <3>2
      <4>2. up[c] = "done" /\ \A l \in 1 .. Len(dataQ) : dataQ[l].id = c => l <= k + 1
        BY <3>1, <4>1 DEF CloseLast
      <4>3. ASSUME NEW l \in 1 .. Len(dataQ'), dataQ'[l].id = c PROVE l <= k
        <5>1. l + 1 \in 1 .. Len(dataQ) /\ dataQ[l + 1].id = c BY <1>2, <4>3
        <5>2. l + 1 <= k + 1 BY <4>2, <5>1
        <5> QED BY <1>2, <5>2
      <4> QED BY <1>1, <4>2, <4>3
    <3> QED BY <1>7, <2>1, <3>2 DEF CloseLast
  <2>3. WaitsInOrder(c)'
    <3> SUFFICES ASSUME Accepts(c) PROVE WaitsInOrder(c)' BY <1>1 DEF WaitsInOrder, Accepts
    <3> DEFINE b == dataQ[1].b  a == Accepted(c)  P == pending[c]
    <3>1. WaitsInOrder(c) BY DEF UpInv
    <3>2. conn[c] # "absent" BY DEF HandedOver, Accepts
    <3>3. IsData(c, 1) /\ b = a + 1 BY <1>2, <1>3, <1>12, NextByte DEF IsData
    <3>4. /\ P \in Seq(Nat) /\ Len(P) \in Nat /\ a \in Nat /\ wrote[c] \in Nat
          /\ a = Len(delivered[c]) + Len(tx[c]) + Len(P) /\ b \in Nat
          /\ Len(delivered[c]) \in Nat /\ Len(tx[c]) \in Nat
      BY <1>2, UpTyped DEF Accepted, DataIn
    <3>5. /\ Len(pending'[c]) = Len(P) + 1 /\ pending'[c][Len(P) + 1] = b
          /\ \A i \in 1 .. Len(P) : pending'[c][i] = P[i]
      BY <2>1, <3>2, <3>4
    <3>6. \A i \in 1 .. Len(P) : P[i] = Len(delivered[c]) + Len(tx[c]) + i BY <3>1 DEF WaitsInOrder
    <3>7. b <= wrote[c] /\ (up[c] = "send" => b < wrote[c]) BY <1>2, <3>1, <3>3 DEF WaitsInOrder
    <3> HIDE DEF b, P, a
    <3>n. a \in Nat /\ b \in Nat /\ wrote[c] \in Nat /\ b = a + 1 BY <3>3, <3>4
    <3>p. Len(delivered[c]) + Len(tx[c]) + (Len(P) + 1) = b
      <4> DEFINE x == Len(delivered[c])  y == Len(tx[c])  z == Len(P)
      <4>1. x \in Nat /\ y \in Nat /\ z \in Nat /\ a = x + y + z BY <3>4
      <4> HIDE DEF x, y, z
      <4>2. x + y + (z + 1) = b BY <3>n, <4>1
      <4> QED BY <4>2 DEF x, y, z
    <3>8. Accepted(c)' = b
      <4>1. Accepted(c)' = Len(delivered[c]) + Len(tx[c]) + Len(pending'[c]) BY <1>1 DEF Accepted
      <4>2. Len(pending'[c]) = Len(P) + 1 BY <3>5
      <4> QED BY <3>p, <4>1, <4>2, Zenon
    <3>9. ASSUME NEW i \in 1 .. Len(pending'[c])
          PROVE  pending'[c][i] = Len(delivered'[c]) + Len(tx'[c]) + i
      <4>1. CASE i \in 1 .. Len(P) BY <1>1, <3>5, <3>6, <4>1
      <4>2. CASE i = Len(P) + 1
        <5>1. pending'[c][Len(P) + 1] = b BY <3>5
        <5>2. delivered' = delivered /\ tx' = tx BY <1>1
        <5>3. Len(delivered'[c]) + Len(tx'[c]) + i = b BY <3>p, <4>2, <5>2, Zenon
        <5>4. pending'[c][i] = b BY <4>2, <5>1, Zenon
        <5> QED BY <5>3, <5>4, Zenon
      <4>3. i \in 1 .. Len(P) \/ i = Len(P) + 1
        <5>1. Len(P) \in Nat /\ i \in 1 .. Len(P) + 1 BY <3>4, <3>5
        <5> QED BY <5>1
      <4> QED BY <4>1, <4>2, <4>3
    <3>10. ASSUME NEW k \in 1 .. Len(dataQ'), IsData(c, k)'
           PROVE  b < dataQ'[k].b /\ dataQ'[k].b <= wrote[c]
                    /\ (up[c] = "send" => dataQ'[k].b < wrote[c])
      <4>1. k + 1 \in 1 .. Len(dataQ) /\ IsData(c, k + 1) /\ 1 < k + 1 /\ dataQ'[k] = dataQ[k + 1]
        BY <1>2, <1>11, <3>10
      <4> QED BY <1>2, <3>1, <3>3, <4>1 DEF WaitsInOrder, b
    <3>11. ASSUME NEW k \in 1 .. Len(dataQ'), NEW l \in 1 .. Len(dataQ'),
                  IsData(c, k)', IsData(c, l)', k < l
           PROVE  dataQ'[k].b < dataQ'[l].b
      <4>1. k + 1 < l + 1 /\ k + 1 \in 1 .. Len(dataQ) /\ l + 1 \in 1 .. Len(dataQ) BY <1>2, <3>11
      <4> QED BY <1>2, <1>11, <3>1, <3>11, <4>1 DEF WaitsInOrder
    <3>12. ASSUME NEW v \in b + 1 .. wrote[c]
           PROVE  (\E k \in 1 .. Len(dataQ') : IsData(c, k)' /\ dataQ'[k].b = v)
                     \/ (v = wrote[c] /\ Held(c)')
      <4>1. v \in a + 1 .. wrote[c] /\ v # b BY <3>n
      <4>2. CASE \E k \in 1 .. Len(dataQ) : IsData(c, k) /\ dataQ[k].b = v
        <5>1. PICK k \in 1 .. Len(dataQ) : IsData(c, k) /\ dataQ[k].b = v BY <4>2
        <5>2. k # 1 BY <4>1, <5>1 DEF b
        <5>3. k - 1 \in 1 .. Len(dataQ') /\ dataQ'[k - 1] = dataQ[k] BY <1>5, <5>2
        <5>4. IsData(c, k - 1)' /\ dataQ'[k - 1].b = v BY <5>1, <5>3 DEF IsData
        <5> QED BY <5>3, <5>4
      <4>3. CASE v = wrote[c] /\ Held(c)
        <5>1. (\A k \in 1 .. Len(dataQ) : ~IsClose(c, k)) => \A k \in 1 .. Len(dataQ') : ~IsClose(c, k)'
          BY <1>2, <1>11
        <5> QED BY <1>1, <2>1, <4>3, <5>1 DEF Held
      <4> QED BY <3>1, <4>1, <4>2, <4>3 DEF WaitsInOrder, a
    <3> QED BY <1>1, <3>7, <3>8, <3>9, <3>10, <3>11, <3>12 DEF WaitsInOrder
  <2> QED BY <1>6, <1>8, <1>9, <1>10, <2>2, <2>3 DEF UpInv
<1>13. CASE dataQ[1].kind = "TcpClose"
  <2>1. pending'[c] = pending[c] /\ half'[c] \in BOOLEAN
    BY <1>0, <1>2, <1>3, <1>13 DEF HandleData, HalfClosed
  <2>2. IsClose(c, 1) BY <1>3, <1>13 DEF IsClose
  <2>3. up[c] = "done" /\ \A l \in 1 .. Len(dataQ) : dataQ[l].id = c => l <= 1
    BY <1>2, <2>2 DEF UpInv, CloseLast
  <2>4. \A k \in 1 .. Len(dataQ') : dataQ'[k].id # c
    <3> SUFFICES ASSUME NEW k \in 1 .. Len(dataQ'), dataQ'[k].id = c PROVE FALSE OBVIOUS
    <3>1. k + 1 \in 1 .. Len(dataQ) /\ dataQ[k + 1].id = c BY <1>2
    <3>2. k + 1 <= 1 BY <2>3, <3>1
    <3> QED BY <1>2, <3>2
  <2>5. CloseLast(c)' BY <1>1, <2>3, <2>4 DEF CloseLast, IsClose
  <2>6. WaitsInOrder(c)'
    <3> SUFFICES ASSUME Accepts(c) PROVE WaitsInOrder(c)' BY <1>1 DEF WaitsInOrder, Accepts
    <3>1. WaitsInOrder(c) BY DEF UpInv
    <3>2. Accepted(c)' = Accepted(c) /\ ~Held(c) BY <1>1, <1>2, <2>1, <2>2, <2>3 DEF Accepted, Held
    <3>3. \A k \in 1 .. Len(dataQ) : ~IsData(c, k)
      <4> SUFFICES ASSUME NEW k \in 1 .. Len(dataQ), IsData(c, k) PROVE FALSE OBVIOUS
      <4>1. k <= 1 BY <2>3 DEF IsData
      <4>2. k = 1 BY <1>2, <4>1
      <4> QED BY <1>13, <4>2 DEF IsData
    <3>4. \A v \in Accepted(c) + 1 .. wrote[c] : FALSE BY <3>1, <3>2, <3>3 DEF WaitsInOrder
    <3>5. \A k \in 1 .. Len(dataQ') : ~IsData(c, k)' BY <2>4 DEF IsData
    <3> QED BY <1>1, <2>1, <2>3, <3>1, <3>2, <3>4, <3>5 DEF WaitsInOrder
  <2> QED BY <1>6, <1>8, <1>9, <1>10, <2>5, <2>6 DEF UpInv
<1> QED BY <1>2, <1>12, <1>13 DEF DataIn

LEMMA UpStep == StackInv /\ HandedOver /\ UpInv /\ [Next]_vars => UpInv'
<1> SUFFICES ASSUME StackInv, HandedOver, UpInv, [Next]_vars PROVE UpInv'
  OBVIOUS
<1>1. CASE Stack
  <2>1. cur \in Conns BY Typed DEF StackInv
  <2> QED BY <1>1, <2>1, UpLoop, UpServiceBegin, UpServiceRest, UpSelect, UpHandleData DEF Stack
<1>2. CASE PacketArrives \/ TunnelEnds \/ UNCHANGED vars BY <1>2, UpLoop
<1> QED BY <1>1, <1>2, UpPeer, UpClient DEF Next

LEMMA UpImplies == StackInv /\ UpInv => FinAfterData
<1> SUFFICES ASSUME StackInv, UpInv, NEW c \in Conns
             PROVE  /\ delivered[c] \o tx[c] = FirstBytes(Len(delivered[c]) + Len(tx[c]))
                    /\ cl[c] = "relay" /\ ~rfin[c] /\ st[c] \in {"FinWait1", "FinWait2"}
                          => delivered[c] \o tx[c] = FirstBytes(wrote[c])
  BY DEF FinAfterData
<1> DEFINE D == delivered[c]  T == tx[c]
<1>1. D \in Bytes /\ T \in Bytes /\ Len(D) \in Nat /\ Len(T) \in Nat BY UpTyped DEF Bytes
<1>2. (\A i \in 1 .. Len(D) : D[i] = i) /\ \A i \in 1 .. Len(T) : T[i] = Len(D) + i
  BY DEF UpInv, SentInOrder
<1>3. cl[c] = "relay" /\ st[c] \in {"FinWait1", "FinWait2"} => Len(D) + Len(T) = wrote[c]
  BY DEF UpInv, FinLast
<1> HIDE DEF D, T
<1>4. Len(D) + Len(T) \in Nat BY <1>1
<1>5. /\ D \o T \in Bytes /\ Len(D \o T) = Len(D) + Len(T)
      /\ \A i \in 1 .. Len(D) + Len(T) : (D \o T)[i] = i
  BY <1>1, <1>2, <1>4, JoinedAt
<1>6. D \o T = FirstBytes(Len(D) + Len(T)) BY <1>4, <1>5, Counted, Zenon
<1> QED BY <1>3, <1>6 DEF D, T

(* Whatever the capacities and however the client's bytes and its half-     *)
(* close are spread over data_in, pending and the transmit buffer, the peer *)
(* is sent the client's bytes in order, and a FIN sent for the half-close   *)
(* of a connected client comes after the last of them.                      *)
THEOREM FinFollowsData == Spec => []FinAfterData
<1>1. Init => StackInv /\ HandedOver /\ UpInv
  BY TypeInit, SafetyInit, HandedInit, UpInit DEF StackInv
<1> QED BY <1>1, SafetyStep, HandedStep, UpStep, UpImplies, PTL DEF Spec

-----------------------------------------------------------------------------
(* The UDP half of the stack, UdpRelay: types, and who owns its sockets.     *)

LEMMA UdpTypeInit == UdpInit => UdpTypeOK
<1> SUFFICES ASSUME UdpInit PROVE UdpTypeOK OBVIOUS
<1>1. arrived \in BOOLEAN /\ alive \in [Ids -> BOOLEAN] BY Zenon DEF UdpInit
<1> QED BY <1>1, UdpRelayAssumption DEF UdpInit, UdpTypeOK, NoId, Ids

(* The stack's own steps that move datagrams. *)
LEMMA UdpTypeService ==
    ASSUME UdpTypeOK,
           Poll \/ (\E i \in Ids : ServiceTake(i)) \/ UdpServiceSend \/ ServiceNext
             \/ UdpServiceDone \/ UdpFlushed \/ UdpSelectInbound
    PROVE  UdpTypeOK'
<1> USE UdpRelayAssumption DEF UdpTypeOK, NoId, serviceVars, allocVars, taskVars
<1>1. CASE Poll
  <2>1. buf' \in [Ids -> 0 .. BufCap]
    <3>1. CASE UNCHANGED buf BY <3>1
    <3>2. CASE ~UNCHANGED buf
      <4>1. PICK i \in udpConns : buf[i] < BufCap /\ buf' = [buf EXCEPT ![i] = buf[i] + 1]
        BY <1>1, <3>2 DEF Poll
      <4>2. i \in Ids OBVIOUS
      <4>3. buf[i] + 1 \in 0 .. BufCap BY <4>1, <4>2, SMTT(30)
      <4> QED BY <4>1, <4>2, <4>3
    <3> QED BY <3>1, <3>2
  <2>2. left' \subseteq Ids BY <1>1 DEF Poll
  <2>3. stack' = "service" /\ arrived' = FALSE BY <1>1 DEF Poll
  <2>4. UNCHANGED <<kind, dest, batch, nextId, udpConns, chan, alive, openQ, dataIn, task, mine,
                    look, reqs, data>>
    BY <1>1 DEF Poll
  <2> QED BY <2>1, <2>2, <2>3, <2>4, ZenonT(60)
<1>2. ASSUME NEW i \in Ids, ServiceTake(i) PROVE UdpTypeOK'
  <2>1. LessOf(buf[i], Chunk) \in Nat /\ buf[i] - LessOf(buf[i], Chunk) \in 0 .. BufCap
    BY SMTT(30) DEF LessOf
  <2>2. buf' \in [Ids -> 0 .. BufCap] /\ batch' \in Nat BY <1>2, <2>1 DEF ServiceTake
  <2> QED BY <1>2, <2>2 DEF ServiceTake
<1>3. CASE UdpServiceSend
  <2>1. dest \in Ids BY <1>3 DEF UdpServiceSend
  <2>2. chan[dest] < AppCap BY <1>3 DEF UdpServiceSend, RoomFor
  <2>3. chan[dest] + 1 \in 0 .. AppCap BY <2>1, <2>2
  <2>4. chan' \in [Ids -> 0 .. AppCap] BY <1>3, <2>1, <2>3 DEF UdpServiceSend
  <2>5. batch' \in Nat BY <1>3 DEF UdpServiceSend
  <2> QED BY <1>3, <2>4, <2>5 DEF UdpServiceSend
<1>4. CASE ServiceNext
  <2>1. batch' \in Nat /\ dest' \in Ids \cup {0} BY <1>4 DEF ServiceNext
  <2> QED BY <1>4, <2>1 DEF ServiceNext
<1>5. CASE UdpServiceDone \/ UdpFlushed BY <1>5 DEF UdpServiceDone, UdpFlushed
<1>6. CASE UdpSelectInbound BY <1>6 DEF UdpSelectInbound
<1> QED BY <1>1, <1>2, <1>3, <1>4, <1>5, <1>6

(* The steps that open and close sockets. *)
LEMMA UdpTypeSelect ==
    ASSUME UdpTypeOK, UdpSelectCmd \/ UdpSelectData \/ StackEnds
    PROVE  UdpTypeOK'
<1> USE UdpRelayAssumption DEF UdpTypeOK, NoId, serviceVars, allocVars, taskVars
<1>1. CASE UdpSelectCmd
  <2>1. /\ Head(openQ) \in Tasks /\ Tail(openQ) \in Seq(Tasks)
        /\ Len(Tail(openQ)) <= CmdCap
    BY <1>1 DEF UdpSelectCmd
  <2>3. nextId + 1 \in 1 .. MaxOpens + 1 /\ nextId \in Ids BY <1>1 DEF UdpSelectCmd, Ids
  <2>4. udpConns' \subseteq Ids /\ nextId' \in 1 .. MaxOpens + 1 /\ openQ' \in Seq(Tasks)
        /\ Len(openQ') <= CmdCap
    BY <1>1, <2>1, <2>3 DEF UdpSelectCmd, NewId
  <2>5. /\ task' \in [Tasks -> {"new", "open", "loop", "send", "name", "lookup", "query", "wait",
                                "close", "ended"}]
        /\ mine' \in [Tasks -> Ids \cup {0}] /\ look' \in [Tasks -> Ids \cup {0}]
    <3>1. PICK t \in Tasks : t = Head(openQ) BY <2>1
    <3>2. CASE task[t] = "open"
      <4>1. /\ task' = [task EXCEPT ![t] = "loop"] /\ mine' = [mine EXCEPT ![t] = nextId]
            /\ UNCHANGED look
        BY <1>1, <3>1, <3>2 DEF UdpSelectCmd
      <4> QED BY <4>1, <2>3
    <3>3. CASE task[t] # "open"
      <4>1. /\ task' = [task EXCEPT ![t] = "query"] /\ look' = [look EXCEPT ![t] = nextId]
            /\ UNCHANGED mine
        BY <1>1, <3>1, <3>3 DEF UdpSelectCmd
      <4> QED BY <4>1, <2>3
    <3> QED BY <3>2, <3>3
  <2> QED BY <1>1, <2>4, <2>5 DEF UdpSelectCmd
<1>2. CASE UdpSelectData
  <2>1. dataIn' \in Seq({"udp", "close"} \X (Ids \cup {0})) /\ Len(dataIn') <= DataCap
    BY <1>2 DEF UdpSelectData
  <2> QED BY <1>2, <2>1 DEF UdpSelectData
<1>3. CASE StackEnds
  <2>1. /\ dataIn' \in Seq({"udp", "close"} \X (Ids \cup {0})) /\ Len(dataIn') <= DataCap
        /\ openQ' \in Seq(Tasks) /\ Len(openQ') <= CmdCap
    BY <1>3 DEF StackEnds
  <2> QED BY <1>3, <2>1 DEF StackEnds
<1> QED BY <1>1, <1>2, <1>3

(* The tasks. *)
LEMMA UdpTypeTask ==
    ASSUME UdpTypeOK, NEW t \in Tasks,
           TaskStep(t) \/ ClientSends(t) \/ ClientLeaves(t)
    PROVE  UdpTypeOK'
<1> USE UdpRelayAssumption DEF UdpTypeOK, NoId, serviceVars, allocVars, taskVars, Goes
<1>1. CASE OpenUdp(t) \/ ConnectLookup(t) \/ AssocLookup(t)
  <2>1. PICK to \in {"open", "lookup"} : SendsCmd(t, to)
    BY <1>1 DEF OpenUdp, ConnectLookup, AssocLookup
  <2>2. Append(openQ, t) \in Seq(Tasks) /\ Len(Append(openQ, t)) <= CmdCap
    BY <2>1 DEF SendsCmd
  <2> QED BY <2>1, <2>2 DEF SendsCmd
<1>2. CASE OpenFails(t) \/ ClientLeaves(t)
  BY <1>2 DEF OpenFails, ClientLeaves
<1>3. CASE ClientSends(t) BY <1>3 DEF ClientSends
<1>4. CASE SendTo(t) \/ Close(t) \/ Query(t)
  <2>1. /\ alive' \in [Ids -> BOOLEAN]
        /\ \E m \in {"udp", "close"} \X (Ids \cup {0}), to \in {"loop", "ended", "wait"} :
              SendsData(t, m, to)
    BY <1>4 DEF SendTo, Close, Query
  <2>2. PICK m \in {"udp", "close"} \X (Ids \cup {0}), to \in {"loop", "ended", "wait"} :
           SendsData(t, m, to)
    BY <2>1
  <2>3. dataIn' \in Seq({"udp", "close"} \X (Ids \cup {0})) /\ Len(dataIn') <= DataCap
    <3>1. /\ Append(dataIn, m) \in Seq({"udp", "close"} \X (Ids \cup {0}))
          /\ Len(Append(dataIn, m)) = Len(dataIn) + 1 /\ Len(dataIn) \in Nat
      OBVIOUS
    <3> QED BY <2>2, <3>1, SMTT(30) DEF SendsData
  <2> QED BY <2>1, <2>2, <2>3 DEF SendsData
<1>5. CASE Relay(t)
  <2>1. mine[t] \in Ids /\ chan[mine[t]] - 1 \in 0 .. AppCap BY <1>5 DEF Relay
  <2> QED BY <1>5, <2>1 DEF Relay
<1>6. CASE QueryFails(t) \/ LookupAnswered(t) \/ LookupTimesOut(t)
  <2>1. PICK answered \in BOOLEAN : Resolved(t, answered)
    BY <1>6 DEF QueryFails, LookupAnswered, LookupTimesOut
  <2> QED BY <2>1 DEF Resolved
<1> QED BY <1>1, <1>2, <1>3, <1>4, <1>5, <1>6 DEF TaskStep

LEMMA UdpTypeStep == UdpTypeOK /\ [UdpNext]_udpVars => UdpTypeOK'
<1> SUFFICES ASSUME UdpTypeOK, [UdpNext]_udpVars PROVE UdpTypeOK' OBVIOUS
<1>1. CASE UNCHANGED udpVars
  BY <1>1 DEF udpVars, UdpTypeOK, serviceVars, allocVars, taskVars
<1>2. CASE UdpStack \/ Poll \/ UdpFlushed BY <1>2, UdpTypeService, UdpTypeSelect DEF UdpStack
<1> QED BY <1>1, <1>2, UdpTypeSelect, UdpTypeTask DEF UdpNext

(* No datagram count, queue or id of the UDP half leaves its range, whatever *)
(* the capacities, the tasks and the order of their steps.                  *)
THEOREM UdpTypeCorrect == UdpSpec => []UdpTypeOK
BY UdpTypeInit, UdpTypeStep, PTL DEF UdpSpec

(* The sockets.  What the invariant reads: *)
udpOwners == <<kind, task, mine, look, nextId, udpConns, openQ, dataIn>>

(* An append to data_in adds at most one close. *)
LEMMA CloseAppended ==
    ASSUME UdpTypeOK, NEW m \in {"udp", "close"} \X (Ids \cup {NoId}), dataIn' = Append(dataIn, m), NEW i
    PROVE  /\ CloseSent(i)' => CloseSent(i) \/ m = <<"close", i>>
           /\ CloseSent(i) => CloseSent(i)'
           /\ m = <<"close", i>> => CloseSent(i)'
<1>1. Len(dataIn) \in Nat BY DEF UdpTypeOK
<1>2. Len(dataIn') = Len(dataIn) + 1 /\ dataIn'[Len(dataIn) + 1] = m
      /\ \A k \in 1 .. Len(dataIn) : dataIn'[k] = dataIn[k]
  BY AppendProperties DEF UdpTypeOK
<1> QED BY <1>1, <1>2 DEF CloseSent

LEMMA SocketIdle ==
    ASSUME SocketInv, UNCHANGED udpOwners, Gone' = Gone
    PROVE  SocketInv'
<1> USE DEF SocketInv, udpOwners
<1>1. \A t \in Tasks : IdsUsed(t)' BY DEF IdsUsed
<1>2. CommandsPending' BY DEF CommandsPending
<1>3. ClosesLast' BY DEF ClosesLast, Running, CloseSent
<1>4. SocketsOwned' BY DEF SocketsOwned, SocketsApart, SocketOpen, Running, CloseSent
<1> QED BY <1>1, <1>2, <1>3, <1>4

(* A task that waits for no socket moves on, and does not end while it has    *)
(* one.                                                                      *)
LEMMA SocketMove ==
    ASSUME UdpTypeOK, SocketInv, NEW t \in Tasks, NEW to, Goes(t, to),
           task[t] # "ended", task[t] \notin {"open", "lookup"} \/ Gone,
           to = "ended" => Gone \/ mine[t] = NoId, to # "open",
           UNCHANGED <<kind, mine, nextId, udpConns, openQ, dataIn, stack>>,
           look' = look \/ look' = [look EXCEPT ![t] = NoId]
    PROVE  SocketInv'
<1>1. task' = [task EXCEPT ![t] = to] /\ task'[t] = to /\ Gone' = Gone
      /\ \A u \in Tasks : u # t => task'[u] = task[u]
  BY DEF UdpTypeOK, Goes, Gone
<1>2. \A u \in Tasks : look'[u] \in {look[u], NoId}
  BY DEF UdpTypeOK
<1>3. (\A i \in udpConns' : i < nextId') /\ \A u \in Tasks : IdsUsed(u)'
  <2> SUFFICES ASSUME NEW u \in Tasks PROVE IdsUsed(u)' BY DEF SocketInv
  <2>1. IdsUsed(u) /\ nextId > NoId BY DEF SocketInv, UdpTypeOK, NoId
  <2> QED BY <1>1, <1>2, <2>1 DEF IdsUsed
<1>4. CommandsPending'
  <2>1. CASE Gone
    BY <2>1 DEF SocketInv, CommandsPending
  <2>2. CASE task[t] \notin {"open", "lookup"}
    <3>1. \A k \in 1 .. Len(openQ) : openQ[k] \in Tasks BY DEF UdpTypeOK
    <3> QED BY <1>1, <2>2, <3>1 DEF SocketInv, CommandsPending
  <2> QED BY <2>1, <2>2
<1>5. ClosesLast'
  BY <1>1 DEF SocketInv, ClosesLast, Running, CloseSent
<1>6. SocketsOwned'
  <2> SUFFICES ASSUME NEW u \in Tasks, NEW v \in Tasks
               PROVE  SocketsApart(u, v)' /\ (~Gone => SocketOpen(u)')
    BY <1>1 DEF SocketsOwned
  <2>1. SocketsApart(u, v) /\ (~Gone => SocketOpen(u)) BY DEF SocketInv, SocketsOwned
  <2>2. SocketsApart(u, v)' BY <1>2, <2>1 DEF SocketsApart
  <2>3. ~Gone => SocketOpen(u)' BY <1>1, <1>2, <2>1 DEF SocketOpen, Running, CloseSent
  <2> QED BY <2>2, <2>3
<1> QED BY <1>1, <1>3, <1>4, <1>5, <1>6 DEF SocketInv

(* A task asks for a socket. *)
LEMMA SocketAsk ==
    ASSUME UdpTypeOK, SocketInv, NEW t \in Tasks, NEW to \in {"open", "lookup"}, SendsCmd(t, to),
           task[t] \in {"new", "name"}, to = "open" => kind[t] # "connect"
    PROVE  SocketInv'
<1>1. task'[t] = to /\ ~Gone /\ ~Gone' /\ \A u \in Tasks : u # t => task'[u] = task[u]
  BY DEF UdpTypeOK, SendsCmd, Goes, Gone
<1>2. UNCHANGED <<kind, mine, look, nextId, udpConns, dataIn>> /\ openQ' = Append(openQ, t)
  BY DEF SendsCmd, allocVars
<1>3. \A u \in Tasks : IdsUsed(u)'
  BY <1>1, <1>2 DEF SocketInv, IdsUsed
<1>4. CommandsPending'
  <2>1. /\ Len(openQ) \in Nat /\ Len(openQ') = Len(openQ) + 1 /\ openQ'[Len(openQ) + 1] = t
        /\ \A k \in 1 .. Len(openQ) : openQ[k] \in Tasks /\ openQ'[k] = openQ[k]
    BY <1>2 DEF UdpTypeOK
  <2>2. \A k \in 1 .. Len(openQ) : openQ[k] # t
    BY DEF SocketInv, CommandsPending
  <2> QED BY <1>1, <2>1, <2>2 DEF SocketInv, CommandsPending
<1>5. ClosesLast'
  BY <1>1, <1>2 DEF SocketInv, ClosesLast, Running, CloseSent
<1>6. SocketsOwned'
  BY <1>1, <1>2 DEF SocketInv, SocketsOwned, SocketsApart, SocketOpen, Running, CloseSent
<1> QED BY <1>1, <1>2, <1>3, <1>4, <1>5, <1>6 DEF SocketInv

(* A task sends data or, at its end, the close of its socket. *)
LEMMA SocketSend ==
    ASSUME UdpTypeOK, SocketInv, NEW t \in Tasks, NEW to,
           NEW m \in {"udp", "close"} \X (Ids \cup {NoId}), SendsData(t, m, to),
           task[t] \notin {"ended", "open", "lookup"}, to # "open",
           to = "ended" => Gone \/ m = <<"close", mine[t]>>,
           \A i \in Ids : m = <<"close", i>> => to = "ended" /\ i = mine[t]
    PROVE  SocketInv'
<1>1. task'[t] = to /\ Gone' = Gone /\ \A u \in Tasks : u # t => task'[u] = task[u]
  BY DEF UdpTypeOK, SendsData, Goes, Gone
<1>2. UNCHANGED <<kind, mine, look, nextId, udpConns, openQ>>
  BY DEF SendsData, allocVars
<1>3. IF Gone THEN dataIn' = dataIn ELSE dataIn' = Append(dataIn, m)
  BY DEF SendsData
<1>4. \A i : CloseSent(i) => CloseSent(i)'
  BY <1>3, CloseAppended DEF CloseSent
<1>5. \A i : CloseSent(i)' => CloseSent(i) \/ (~Gone /\ m = <<"close", i>>)
  BY <1>3, CloseAppended DEF CloseSent
<1>6. \A u \in Tasks : IdsUsed(u)'
  BY <1>1, <1>2 DEF SocketInv, IdsUsed
<1>7. CommandsPending'
  <2>1. \A k \in 1 .. Len(openQ) : openQ[k] \in Tasks BY DEF UdpTypeOK
  <2> QED BY <1>1, <1>2, <2>1 DEF SocketInv, CommandsPending
<1>8. ClosesLast'
  <2> SUFFICES ASSUME NEW i \in Ids, CloseSent(i)'
               PROVE  \E u \in Tasks : ~Running(u)' /\ mine'[u] = i
    BY DEF ClosesLast
  <2>1. CASE CloseSent(i) BY <1>1, <1>2, <2>1 DEF SocketInv, ClosesLast, Running
  <2>2. CASE m = <<"close", i>> BY <1>1, <1>2, <2>2 DEF Running
  <2> QED BY <1>5, <2>1, <2>2
<1>9. SocketsOwned'
  <2> SUFFICES ASSUME NEW u \in Tasks, NEW v \in Tasks
               PROVE  SocketsApart(u, v)' /\ (~Gone => SocketOpen(u)')
    BY <1>1 DEF SocketsOwned
  <2>1. SocketsApart(u, v) /\ (~Gone => SocketOpen(u)) BY DEF SocketInv, SocketsOwned
  <2>2. SocketsApart(u, v)' BY <1>2, <2>1 DEF SocketsApart
  <2>3. to = "ended" /\ ~Gone => CloseSent(mine[t])'
    BY <1>2, <1>3, CloseAppended DEF CloseSent
  <2>4. ~Gone => SocketOpen(u)' BY <1>1, <1>2, <1>4, <2>1, <2>3 DEF SocketOpen, Running
  <2> QED BY <2>2, <2>4
<1> QED BY <1>1, <1>2, <1>3, <1>6, <1>7, <1>8, <1>9 DEF SocketInv

(* The stack opens the socket a task waits for: its id is new. *)
LEMMA SocketOpens == ASSUME UdpTypeOK, SocketInv, UdpSelectCmd PROVE SocketInv'
<1> DEFINE t == Head(openQ)
<1>1. t \in Tasks /\ task[t] \in {"open", "lookup"} /\ openQ[1] = t /\ 1 \in 1 .. Len(openQ)
  BY DEF UdpTypeOK, UdpSelectCmd, SocketInv, CommandsPending
<1>2. /\ Len(openQ) \in Nat /\ Len(openQ') = Len(openQ) - 1
      /\ \A k \in 1 .. Len(openQ') : openQ'[k] = openQ[k + 1] /\ openQ[k + 1] \in Tasks
  BY DEF UdpTypeOK, UdpSelectCmd
<1>3. /\ nextId \in Nat /\ nextId # NoId /\ nextId' = nextId + 1
      /\ udpConns' = udpConns \cup {nextId} /\ udpConns \subseteq Nat
      /\ kind' = kind /\ dataIn' = dataIn /\ ~Gone /\ ~Gone'
  BY DEF UdpTypeOK, UdpSelectCmd, NewId, Gone, NoId, Ids
<1>4. /\ task'[t] \in {"loop", "query"} /\ \A u \in Tasks : u # t => task'[u] = task[u]
      /\ mine'[t] = (IF task[t] = "open" THEN nextId ELSE mine[t])
      /\ look'[t] = (IF task[t] = "open" THEN look[t] ELSE nextId)
      /\ \A u \in Tasks : u # t => mine'[u] = mine[u] /\ look'[u] = look[u]
  BY <1>1 DEF UdpTypeOK, UdpSelectCmd
<1> HIDE DEF t
<1>5. \A u \in Tasks : mine[u] \in Nat /\ look[u] \in Nat /\ mine[u] < nextId /\ look[u] < nextId
  BY DEF UdpTypeOK, Ids, NoId, SocketInv, IdsUsed
<1>6. (\A i \in udpConns' : i < nextId') /\ \A u \in Tasks : IdsUsed(u)'
  <2>1. \A i \in udpConns' : i < nextId' BY <1>3 DEF SocketInv
  <2>2. ASSUME NEW u \in Tasks PROVE IdsUsed(u)'
    <3>1. mine'[u] < nextId' /\ look'[u] < nextId' BY <1>3, <1>4, <1>5
    <3>2. kind[u] = "connect" => mine'[u] = NoId /\ task'[u] # "open"
      BY <1>4 DEF SocketInv, IdsUsed
    <3> QED BY <1>3, <3>1, <3>2 DEF IdsUsed
  <2> QED BY <2>1, <2>2
<1>7. CommandsPending'
  <2>1. \A k \in 1 .. Len(openQ') : openQ'[k] # t
    BY <1>1, <1>2 DEF SocketInv, CommandsPending
  <2>2. \A k \in 1 .. Len(openQ') : task'[openQ'[k]] \in {"open", "lookup"}
    BY <1>2, <1>4, <2>1 DEF SocketInv, CommandsPending
  <2>3. \A k, l \in 1 .. Len(openQ') : openQ'[k] = openQ'[l] => k = l
    <3> SUFFICES ASSUME NEW k \in 1 .. Len(openQ'), NEW l \in 1 .. Len(openQ'),
                        openQ'[k] = openQ'[l]
                 PROVE  k = l
      OBVIOUS
    <3>1. k + 1 \in 1 .. Len(openQ) /\ l + 1 \in 1 .. Len(openQ) /\ openQ[k + 1] = openQ[l + 1]
      BY <1>2
    <3>2. k + 1 = l + 1 BY <3>1 DEF SocketInv, CommandsPending
    <3> QED BY <1>2, <3>2
  <2> QED BY <2>2, <2>3 DEF CommandsPending
<1>8. ClosesLast'
  BY <1>1, <1>3, <1>4 DEF SocketInv, ClosesLast, Running, CloseSent
<1>9. SocketsOwned'
  <2> SUFFICES ASSUME NEW u \in Tasks, NEW v \in Tasks PROVE SocketsApart(u, v)' /\ SocketOpen(u)'
    BY DEF SocketsOwned
  <2>1. SocketsApart(u, v) /\ SocketOpen(u) BY <1>3 DEF SocketInv, SocketsOwned
  <2>2. SocketsApart(u, v)' BY <1>3, <1>4, <1>5, <2>1 DEF SocketsApart
  <2>3. SocketOpen(u)' BY <1>1, <1>3, <1>4, <1>5, <2>1 DEF SocketOpen, Running, CloseSent
  <2> QED BY <2>2, <2>3
<1> QED BY <1>3, <1>6, <1>7, <1>8, <1>9 DEF SocketInv

(* The stack applies every close that is there, and at its end closes all. *)
LEMMA SocketCloses == ASSUME UdpTypeOK, SocketInv, UdpSelectData \/ StackEnds PROVE SocketInv'
<1>1. UNCHANGED <<kind, task, mine, look, nextId>> /\ dataIn' = <<>>
  BY DEF UdpSelectData, StackEnds, taskVars
<1>2. udpConns' \subseteq udpConns /\ (\A i : ~CloseSent(i)')
  BY <1>1 DEF UdpSelectData, StackEnds, CloseSent
<1>3. \A u \in Tasks : IdsUsed(u)'
  BY <1>1 DEF SocketInv, IdsUsed
<1>4. CommandsPending' /\ (Gone' => openQ' = <<>>)
  <2>1. CASE UdpSelectData BY <1>1, <2>1 DEF UdpSelectData, DataTurn, SocketInv, CommandsPending, Gone
  <2>2. CASE StackEnds BY <2>2 DEF StackEnds, CommandsPending
  <2> QED BY <2>1, <2>2
<1>5. ClosesLast'
  BY <1>2 DEF ClosesLast
<1>6. SocketsOwned'
  <2> SUFFICES ASSUME NEW u \in Tasks, NEW v \in Tasks
               PROVE  SocketsApart(u, v)' /\ (~Gone' => SocketOpen(u)')
    BY DEF SocketsOwned
  <2>1. SocketsApart(u, v)' BY <1>1 DEF SocketInv, SocketsOwned, SocketsApart
  <2>2. ASSUME ~Gone' PROVE SocketOpen(u)'
    <3>1. udpConns' = udpConns \ UdpClosed /\ ~Gone
      BY <2>2 DEF UdpSelectData, DataTurn, StackEnds, Gone
    <3>2. SocketOpen(u) /\ \A w \in Tasks : SocketsApart(u, w) /\ SocketsApart(w, u)
      BY <3>1 DEF SocketInv, SocketsOwned
    <3>3. \A i \in UdpClosed : \E w \in Tasks : ~Running(w) /\ mine[w] = i
      BY DEF UdpClosed, SocketInv, ClosesLast
    <3>4. NoId \notin UdpClosed BY DEF UdpClosed, Ids, NoId
    <3>5. Running(u) /\ mine[u] # NoId => mine[u] \notin UdpClosed
      BY <3>2, <3>3 DEF SocketsApart
    <3>6. look[u] # NoId => look[u] \notin UdpClosed
      BY <3>2, <3>3 DEF SocketsApart
    <3>7. mine[u] # NoId /\ CloseSent(mine[u]) => mine[u] \in UdpClosed
      BY DEF UdpClosed, UdpTypeOK
    <3> QED BY <1>1, <3>1, <3>2, <3>5, <3>6, <3>7 DEF SocketOpen, Running
  <2> QED BY <2>1, <2>2
<1> QED BY <1>1, <1>2, <1>3, <1>4, <1>5, <1>6 DEF SocketInv

LEMMA SocketTask ==
    ASSUME UdpTypeOK, SocketInv, NEW t \in Tasks,
           TaskStep(t) \/ ClientSends(t) \/ ClientLeaves(t)
    PROVE  SocketInv'
<1>1. CASE OpenUdp(t) \/ ConnectLookup(t) \/ AssocLookup(t)
  BY <1>1, SocketAsk DEF OpenUdp, ConnectLookup, AssocLookup
<1>2. CASE OpenFails(t)
  <2>1. PICK to \in {"loop", "ended"} : Goes(t, to) BY <1>2 DEF OpenFails
  <2> QED BY <1>2, <2>1, SocketMove DEF OpenFails, allocVars
<1>3. CASE ClientSends(t)
  <2>1. PICK to \in {"send", "name"} : Goes(t, to) BY <1>3 DEF ClientSends
  <2> QED BY <1>3, <2>1, SocketMove DEF ClientSends, allocVars
<1>4. CASE ClientLeaves(t)
  BY <1>4, SocketMove DEF ClientLeaves, allocVars
<1>5. CASE SendTo(t) \/ Query(t)
  <2>1. PICK i \in Ids \cup {NoId}, to \in {"loop", "ended", "wait"} :
           SendsData(t, <<"udp", i>>, to) /\ (to = "ended" => Gone)
    BY <1>5 DEF SendTo, Query, UdpTypeOK
  <2>2. task[t] \in {"send", "query"} BY <1>5 DEF SendTo, Query
  <2> QED BY <2>1, <2>2, SocketSend
<1>6. CASE Close(t)
  <2>1. task[t] = "close" /\ SendsData(t, <<"close", mine[t]>>, "ended") BY <1>6 DEF Close
  <2>2. <<"close", mine[t]>> \in {"udp", "close"} \X (Ids \cup {NoId}) BY DEF UdpTypeOK
  <2> QED BY <2>1, <2>2, SocketSend
<1>7. CASE Relay(t)
  BY <1>7, SocketIdle DEF Relay, udpOwners, allocVars, taskVars, Gone
<1>8. CASE QueryFails(t) \/ LookupAnswered(t) \/ LookupTimesOut(t)
  <2>1. task[t] \in {"query", "wait"} /\ \E a \in BOOLEAN : Resolved(t, a)
    BY <1>8 DEF QueryFails, LookupAnswered, LookupTimesOut
  <2>2. PICK to \in {"ended", "send", "loop"} : Goes(t, to) /\ (to = "ended" => kind[t] = "connect")
    BY <2>1 DEF Resolved
  <2>3. kind[t] = "connect" => mine[t] = NoId BY DEF SocketInv, IdsUsed
  <2> QED BY <2>1, <2>2, <2>3, SocketMove DEF Resolved, allocVars
<1> QED BY <1>1, <1>2, <1>3, <1>4, <1>5, <1>6, <1>7, <1>8 DEF TaskStep

LEMMA SocketStep == UdpTypeOK /\ SocketInv /\ [UdpNext]_udpVars => SocketInv'
<1> SUFFICES ASSUME UdpTypeOK, SocketInv, [UdpNext]_udpVars PROVE SocketInv' OBVIOUS
<1>1. CASE Poll \/ (\E i \in Ids : ServiceTake(i)) \/ UdpServiceSend \/ ServiceNext
           \/ UdpServiceDone \/ UdpFlushed \/ UdpSelectInbound
  <2>1. UNCHANGED udpOwners /\ Gone' = Gone
    BY <1>1 DEF Poll, ServiceTake, UdpServiceSend, ServiceNext, UdpServiceDone, UdpFlushed,
                UdpSelectInbound, udpOwners, allocVars, taskVars, Gone
  <2> QED BY <2>1, SocketIdle
<1>2. CASE UNCHANGED udpVars
  BY <1>2, SocketIdle DEF udpVars, udpOwners, allocVars, taskVars, Gone
<1> QED BY <1>1, <1>2, SocketOpens, SocketCloses, SocketTask DEF UdpNext, UdpStack

(* For every number of tasks, sockets and messages: no task ever loses its     *)
(* socket to another one, by a shared id or by a close applied late, and none  *)
(* ends without having its socket closed.                                     *)
THEOREM UdpSocketsOwned == UdpSpec => []SocketsOwned
<1>1. UdpInit => SocketInv
  BY UdpRelayAssumption DEF UdpInit, SocketInv, IdsUsed, CommandsPending, ClosesLast, CloseSent,
     SocketsOwned, SocketsApart, SocketOpen, Gone, NoId
<1>2. SocketInv => SocketsOwned BY DEF SocketInv
<1> QED BY <1>1, <1>2, UdpTypeInit, UdpTypeStep, SocketStep, PTL DEF UdpSpec
=============================================================================
