------------------------- MODULE NsbootDaemonProofs -------------------------
(***************************************************************************)
(* The safety properties of NsbootDaemon, for any number of clients and    *)
(* any length of the kernel's queue.                                       *)
(***************************************************************************)
EXTENDS NsbootDaemon, TLAPS

\* Clients that have no connection yet.
Before == {"idle", "wait", "connect", "failed"}

\* A client is in one place at a time: waiting on the current socket, left on
\* an old one, or the connection being served.
Places ==
    /\ \A j, k \in DOMAIN backlog : backlog[j] = backlog[k] => j = k
    /\ \A k \in DOMAIN backlog : backlog[k] \notin orphans /\ backlog[k] # conn
    /\ conn \notin orphans

\* What the place of a client says about its own progress.
Progress ==
    /\ \A c \in Clients : c \in sent <=> cpc[c] \in {"close", "done"}
    /\ \A c \in Clients : cpc[c] = "killed" => c \in Killable
    /\ \A k \in DOMAIN backlog : cpc[backlog[k]] \notin Before /\ execs[backlog[k]] = 0
    /\ \A c \in orphans : cpc[c] \notin Before /\ execs[c] = 0
    /\ conn \in Clients => cpc[conn] \notin Before
    /\ \A c \in Clients : cpc[c] \in Before => execs[c] = 0

\* What the daemon knows where.
ServerState ==
    /\ spc \in {"receive", "execute", "spin"} => conn \in Clients /\ execs[conn] = 0
    /\ spc = "execute" => conn \in sent
    /\ spc = "spin" => cpc[conn] = "killed"
    /\ spc \in {"bind", "listen", "accept"} => conn = NoClient
    /\ spc \in {"bind", "listen"} => backlog = <<>>
    /\ spc \in {"bind", "listen", "spin"} => path # "listening"

\* Only the first one in the queue of an accepting daemon found it idle.
Overlaps ==
    /\ \A k \in DOMAIN backlog : (k # 1 \/ spc # "accept") => backlog[k] \in behind
    /\ orphans \subseteq behind

\* The daemon stays idle until one of the clients that have found it so connects.
Expected ==
    \A c \in Clients : c \notin behind => (cpc[c] = "connect" => Idle) /\ cpc[c] # "failed"

\* The inductive invariant.
IInv ==
    TypeOK /\ Places /\ Progress /\ ServerState /\ Overlaps /\ Expected /\ AtMostOnce

\* The daemon starts with well-formed state.
LEMMA TypingInit == Init => TypeOK
BY ClientsAssumption DEF Init, TypeOK, ServerPcs, ClientPcs

\* Every step of the daemon and of a client keeps the types.
LEMMA TypingStep == TypeOK /\ [Next]_vars => TypeOK'
<1> SUFFICES ASSUME TypeOK, [Next]_vars PROVE TypeOK'
    OBVIOUS
<1> USE ClientsAssumption DEF TypeOK, ServerPcs, ClientPcs, clientVars, serverVars
<1>1. CASE RemoveSocket
    BY <1>1 DEF RemoveSocket, Queued
<1>2. CASE Bind
    BY <1>2 DEF Bind
<1>3. CASE Listen
    BY <1>3 DEF Listen
<1>4. CASE Accept
    BY <1>4 DEF Accept
<1>5. CASE ReceiveLine
    BY <1>5 DEF ReceiveLine
<1>6. CASE ReceiveNil
    BY <1>6 DEF ReceiveNil
<1>7. CASE Execute
  <2>1. execs' \in [Clients -> Nat]
    <3>1. CASE conn \in Clients
      <4>1. execs[conn] + 1 \in Nat
        BY <3>1
      <4> QED BY Zenon, <1>7, <4>1 DEF Execute
    <3>2. CASE conn \notin Clients
      <4>1. execs' = execs
        BY <1>7, <3>2 DEF Execute
      <4> QED BY <4>1
    <3> QED BY <3>1, <3>2
  <2> QED
    BY <1>7, <2>1 DEF Execute
<1>8. ASSUME NEW c \in Clients, Start(c) \/ Client(c) \/ Kill(c) PROVE TypeOK'
  <2>1. CASE Connect(c)
    BY <2>1 DEF Connect
  <2>2. CASE Start(c) \/ WaitSocketReady(c) \/ ConnectFails(c)
    BY Zenon, <2>2 DEF Start, WaitSocketReady, ConnectFails
  <2>3. CASE Send(c)
    BY <2>3 DEF Send
  <2>4. CASE Close(c) \/ Kill(c)
    BY <2>4 DEF Close, Kill
  <2> QED BY <1>8, <2>1, <2>2, <2>3, <2>4 DEF Client, GetCommandClient
<1>9. CASE UNCHANGED vars
    BY <1>9 DEF vars
<1> QED
    BY <1>1, <1>2, <1>3, <1>4, <1>5, <1>6, <1>7, <1>8, <1>9
       DEF Next, Server, StartServerSocket

\* The invariant holds at the start ...
LEMMA InvInit == Init => IInv
<1> SUFFICES ASSUME Init PROVE IInv
    OBVIOUS
<1>1. TypeOK
    BY TypingInit
<1>2. Places /\ Progress /\ ServerState /\ Overlaps /\ Expected /\ AtMostOnce
    BY ClientsAssumption
       DEF Init, Places, Progress, ServerState, Overlaps, Expected, AtMostOnce, Before
<1> QED
    BY <1>1, <1>2 DEF IInv

\* ... and every step of the daemon ...
LEMMA InvServer == IInv /\ Server => IInv'
<1> SUFFICES ASSUME IInv, Server PROVE IInv'
    OBVIOUS
<1>0. TypeOK'
    BY TypingStep DEF IInv, Next
<1>8. Expected'
  <2>1. UNCHANGED <<cpc, behind>> /\ ~Idle
    BY DEF Server, StartServerSocket, RemoveSocket, Bind, Listen, Accept, ReceiveLine,
           ReceiveNil, Execute, clientVars, Idle
  <2> QED BY <2>1 DEF IInv, Expected
<1> USE ClientsAssumption DEF IInv, TypeOK, clientVars, serverVars
<1>1. CASE RemoveSocket
  <2>1. Places'
    BY <1>1 DEF RemoveSocket, Places, Queued
  <2>2. Progress'
    BY <1>1 DEF RemoveSocket, Places, Progress, Queued
  <2>3. ServerState'
    BY <1>1 DEF RemoveSocket, ServerState
  <2>4. Overlaps' /\ AtMostOnce'
    BY <1>1 DEF RemoveSocket, Overlaps, Queued, AtMostOnce
  <2> QED BY <1>0, <1>8, <2>1, <2>2, <2>3, <2>4
<1>2. CASE Bind
    BY <1>0, <1>8, <1>2 DEF Bind, Places, Progress, ServerState, Overlaps, AtMostOnce
<1>3. CASE Listen
    BY <1>0, <1>8, <1>3 DEF Listen, Places, Progress, ServerState, Overlaps, AtMostOnce
<1>4. CASE Accept
  <2>0. /\ conn' = backlog[1] /\ 1 \in DOMAIN backlog /\ conn' \in Clients
        /\ Len(backlog) \in Nat /\ DOMAIN backlog = 1..Len(backlog)
        /\ DOMAIN backlog' = 1..(Len(backlog) - 1)
        /\ \A k \in DOMAIN backlog' : backlog'[k] = backlog[k + 1]
                                       /\ k + 1 \in DOMAIN backlog
    BY <1>4 DEF Accept
  <2>5. \A j, k \in DOMAIN backlog' : k + 1 # 1 /\ (j + 1 = k + 1 => j = k)
    BY <2>0
  <2>6. orphans' = orphans
    BY <1>4 DEF Accept
  <2>1. Places'
    BY Zenon, <1>8, <1>4, <2>0, <2>5, <2>6 DEF Places
  <2>2. Progress'
    BY <1>4, <2>0 DEF Accept, Progress
  <2>3. ServerState'
    BY <1>4, <2>0 DEF Accept, ServerState, Progress
  <2>4. Overlaps' /\ AtMostOnce'
    BY <1>4, <2>0 DEF Accept, Overlaps, AtMostOnce
  <2> QED BY <1>0, <1>8, <2>1, <2>2, <2>3, <2>4
<1>5. CASE ReceiveLine
    BY <1>0, <1>8, <1>5 DEF ReceiveLine, Places, Progress, ServerState, Overlaps, AtMostOnce
<1>6. CASE ReceiveNil
    BY <1>0, <1>8, <1>6 DEF ReceiveNil, Places, Progress, ServerState, Overlaps, AtMostOnce
<1>7. CASE Execute
  <2>0. conn \in Clients /\ execs[conn] = 0 /\ conn \in sent
    BY <1>7 DEF Execute, ServerState
  <2>1. execs' = [execs EXCEPT ![conn] = 1]
    BY <1>7, <2>0 DEF Execute
  <2>2. Places' /\ Overlaps'
    BY <1>7 DEF Execute, Places, Overlaps
  <2>3. Progress'
    BY <1>7, <2>0, <2>1 DEF Execute, Places, Progress
  <2>4. ServerState'
    BY <1>7 DEF Execute, ServerState
  <2>5. AtMostOnce'
    BY <1>7, <2>0, <2>1 DEF Execute, AtMostOnce
  <2> QED BY <1>0, <1>8, <2>2, <2>3, <2>4, <2>5
<1> QED
    BY <1>1, <1>2, <1>3, <1>4, <1>5, <1>6, <1>7 DEF Server, StartServerSocket

\* ... and of a client preserves it.
LEMMA InvClient ==
    ASSUME NEW c \in Clients, IInv, Start(c) \/ Client(c) \/ Kill(c)
    PROVE  IInv'
<1>0. TypeOK'
    BY TypingStep DEF IInv, Next
<1>4. Expected'
  <2>1. CASE Connect(c)
    BY <2>1 DEF Connect, IInv, TypeOK, Expected
  <2>2. CASE WaitSocketReady(c)
    BY <2>2 DEF WaitSocketReady, IInv, TypeOK, Expected, Idle, serverVars
  <2>3. CASE ConnectFails(c)
    BY ClientsAssumption, <2>3
       DEF ConnectFails, IInv, TypeOK, Expected, Idle, serverVars
  <2>4. CASE Start(c) \/ Send(c) \/ Close(c) \/ Kill(c)
    BY <2>4 DEF Start, Send, Close, Kill, IInv, TypeOK, Expected, Idle, serverVars
  <2> QED BY <2>1, <2>2, <2>3, <2>4 DEF Client, GetCommandClient
<1> USE ClientsAssumption DEF IInv, TypeOK, serverVars, Before
<1>1. CASE Connect(c)
  <2>0. /\ Len(backlog) \in Nat /\ DOMAIN backlog = 1..Len(backlog)
        /\ DOMAIN backlog' = 1..(Len(backlog) + 1)
        /\ \A k \in DOMAIN backlog : backlog'[k] = backlog[k] /\ backlog[k] \in Clients
        /\ backlog'[Len(backlog) + 1] = c
        /\ backlog = <<>> <=> Len(backlog) = 0
    BY <1>1 DEF Connect
  <2>1. /\ \A k \in DOMAIN backlog : backlog[k] # c
        /\ c \notin orphans /\ conn # c /\ execs[c] = 0
    BY <1>1 DEF Connect, Progress
  <2>2. Places'
    BY <1>1, <2>0, <2>1 DEF Connect, Places
  <2>3. Progress'
    BY <1>1, <2>0, <2>1 DEF Connect, Progress, ClientPcs
  <2>4. ServerState'
    BY <1>1, <2>1 DEF Connect, ServerState
  <2>5. Overlaps' /\ AtMostOnce'
    BY <1>1, <2>0, <2>1 DEF Connect, Overlaps, AtMostOnce, Idle
  <2> QED BY <1>0, <1>4, <2>2, <2>3, <2>4, <2>5
<1>2. CASE Send(c)
  <2>1. Places' /\ ServerState' /\ Overlaps' /\ AtMostOnce'
    BY <1>2 DEF Send, Places, ServerState, Overlaps, AtMostOnce
  <2>2. Progress'
    BY <1>2 DEF Send, Progress
  <2> QED BY <1>0, <1>4, <2>1, <2>2
<1>3. CASE Start(c) \/ WaitSocketReady(c) \/ ConnectFails(c) \/ Close(c) \/ Kill(c)
  <2>1. Places' /\ ServerState' /\ Overlaps' /\ AtMostOnce'
    BY <1>3 DEF Start, WaitSocketReady, ConnectFails, Close, Kill,
                Places, ServerState, Overlaps, AtMostOnce
  <2>2. Progress'
    BY <1>3 DEF Start, WaitSocketReady, ConnectFails, Close, Kill, Progress
  <2> QED BY <1>0, <1>4, <2>1, <2>2
<1> QED
    BY <1>1, <1>2, <1>3 DEF Client, GetCommandClient

\* The inductive invariant of the command channel.
THEOREM Invariance == Spec => []IInv
<1>1. IInv /\ [Next]_vars => IInv'
  <2> SUFFICES ASSUME IInv, [Next]_vars PROVE IInv'
    OBVIOUS
  <2>1. CASE Server
    BY <2>1, InvServer
  <2>2. CASE \E c \in Clients : Start(c) \/ Client(c) \/ Kill(c)
    BY <2>2, InvClient
  <2>3. CASE UNCHANGED vars
    BY <2>3 DEF vars, IInv, TypeOK, Places, Progress, ServerState, Overlaps,
                Expected, Idle, AtMostOnce
  <2> QED BY <2>1, <2>2, <2>3 DEF Next
<1> QED
    BY <1>1, InvInit, PTL DEF Spec

\* The variables keep their types.
THEOREM Typing == Spec => []TypeOK
<1>1. IInv => TypeOK
    BY DEF IInv
<1> QED BY <1>1, Invariance, PTL

\* nsbootd runs no command twice and none that was not sent completely.
THEOREM NoDoubleRun == Spec => []AtMostOnce
<1>1. IInv => AtMostOnce
    BY DEF IInv
<1> QED BY <1>1, Invariance, PTL

\* The os.remove after a command never drops a client that found nsbootd idle.
THEOREM IdleNeverDropped == Spec => []OnlyOverlapsDropped
<1>1. IInv => OnlyOverlapsDropped
    BY DEF IInv, Overlaps, OnlyOverlapsDropped
<1> QED BY <1>1, Invariance, PTL

\* A command left on an abandoned socket is never run, and its client was told
\* nothing.
THEOREM DroppedIsLost == Spec => []DroppedNeverRun
<1>1. IInv => DroppedNeverRun
    BY Zenon DEF IInv, Progress, Before, DroppedNeverRun
<1> QED BY <1>1, Invariance, PTL

\* The socket file of an idle nsbootd is a promise: connect does not fail for a
\* client that has seen it, however long it takes, until another one connects.
THEOREM IdleAccepts == Spec => []IdleNotRefused
<1>1. IInv => IdleNotRefused
    BY Zenon DEF IInv, Expected, IdleNotRefused
<1> QED BY <1>1, Invariance, PTL

\* The initial states of the daemon are initial states of the channel.
LEMMA ChannelInit == Init => Channel!Init
BY ClientsAssumption DEF Init, Channel!Init, Fate

\* How a change of one command's fate is shown.
LEMMA FateChange ==
    ASSUME NEW c \in Clients, NEW v,
           \A x \in Clients : Fate'[x] = IF x = c THEN v ELSE Fate[x]
    PROVE  Fate' = [Fate EXCEPT ![c] = v]
BY Zenon DEF Fate

\* The steps of the daemon, seen as steps of the channel.
LEMMA ChannelServer == IInv /\ Server => [Channel!Next]_Fate
<1> SUFFICES ASSUME IInv, Server PROVE [Channel!Next]_Fate
    OBVIOUS
<1> USE ClientsAssumption DEF IInv, TypeOK, clientVars, serverVars
<1>1. CASE RemoveSocket
  <2> DEFINE S == {c \in Queued : Fate[c] = "queued"}
  <2>1. Queued \subseteq Clients /\ \A c \in Queued : execs[c] = 0 /\ cpc[c] \notin Before
    BY DEF Queued, Progress
  <2>2. \A c \in Queued : Fate[c] \in {"queued", "lost"}
    BY <2>1 DEF Fate, Before, ClientPcs
  <2>3. ASSUME NEW c \in Clients
        PROVE  Fate'[c] = IF c \in S THEN "lost" ELSE Fate[c]
    BY Zenon, <1>1, <2>1, <2>2 DEF RemoveSocket, Fate
  <2>4. Fate' = [c \in Clients |-> IF c \in S THEN "lost" ELSE Fate[c]]
    BY <2>3 DEF Fate
  <2>5. S \in SUBSET Clients /\ Channel!Drop(S)
    BY <2>1, <2>4 DEF Channel!Drop
  <2> QED BY <2>5 DEF Channel!Next
<1>2. CASE Bind \/ Listen \/ Accept \/ ReceiveLine \/ ReceiveNil
  <2>1. UNCHANGED <<execs, orphans, cpc>>
    BY <1>2 DEF Bind, Listen, Accept, ReceiveLine, ReceiveNil
  <2> QED BY <2>1 DEF Fate
<1>3. CASE Execute
  <2>1. conn \in Clients /\ execs[conn] = 0 /\ conn \in sent /\ conn \notin orphans
    BY <1>3 DEF Execute, ServerState, Places
  <2>2. Fate[conn] = "queued"
    BY <2>1 DEF Fate, Progress
  <2>3. Fate' = [Fate EXCEPT ![conn] = "run"]
    <3>1. ASSUME NEW x \in Clients
          PROVE  Fate'[x] = IF x = conn THEN "run" ELSE Fate[x]
      BY <1>3, <2>1 DEF Execute, Fate
    <3> QED BY Zenon, <2>1, <3>1, FateChange
  <2>4. Channel!Run(conn)
    BY <2>2, <2>3 DEF Channel!Run
  <2> QED BY <2>1, <2>4 DEF Channel!Next
<1> QED
    BY <1>1, <1>2, <1>3 DEF Server, StartServerSocket

\* The steps of a client, seen as steps of the channel.
LEMMA ChannelClient ==
    ASSUME NEW c \in Clients, IInv, Start(c) \/ Client(c) \/ Kill(c)
    PROVE  [Channel!Next]_Fate
<1> USE ClientsAssumption DEF IInv, TypeOK, serverVars
<1>1. CASE Connect(c)
  <2>1. execs[c] = 0 /\ c \notin orphans
    BY <1>1 DEF Connect, Progress, Before
  <2>2. Fate[c] = "new"
    BY <1>1, <2>1 DEF Connect, Fate
  <2>3. ASSUME NEW x \in Clients
        PROVE  Fate'[x] = IF x = c THEN "queued" ELSE Fate[x]
    BY <1>1, <2>1 DEF Connect, Fate
  <2>4. Fate' = [Fate EXCEPT ![c] = "queued"]
    BY Zenon, <2>3, FateChange
  <2> QED BY Zenon, <2>2, <2>4 DEF Channel!Next, Channel!Submit
<1>2. CASE ConnectFails(c)
  <2>1. execs[c] = 0 /\ c \notin orphans
    BY <1>2 DEF ConnectFails, Progress, Before
  <2>2. Fate[c] = "new"
    BY <1>2, <2>1 DEF ConnectFails, Fate
  <2>3. ASSUME NEW x \in Clients
        PROVE  Fate'[x] = IF x = c THEN "lost" ELSE Fate[x]
    BY <1>2, <2>1 DEF ConnectFails, Fate
  <2>4. Fate' = [Fate EXCEPT ![c] = "lost"]
    BY Zenon, <2>3, FateChange
  <2> QED BY Zenon, <2>2, <2>4 DEF Channel!Next, Channel!Refuse
<1>3. CASE Start(c) \/ WaitSocketReady(c) \/ Send(c) \/ Close(c)
  <2>1. UNCHANGED Fate
    BY <1>3 DEF Start, WaitSocketReady, Send, Close, Fate
  <2> QED BY <2>1
<1>4. CASE Kill(c)
  <2>1. execs[c] = 0
    BY <1>4 DEF Kill, AtMostOnce, Progress
  <2>2. CASE c \in orphans
    BY <1>4, <2>1, <2>2 DEF Kill, Fate
  <2>3. CASE c \notin orphans
    <3>1. Fate[c] = "queued"
      BY <1>4, <2>1, <2>3 DEF Kill, Fate
    <3>2. Fate' = [x \in Clients |-> IF x \in {c} THEN "lost" ELSE Fate[x]]
      BY <1>4, <2>1, <2>3 DEF Kill, Fate
    <3>3. {c} \in SUBSET Clients /\ Channel!Drop({c})
      BY <3>1, <3>2 DEF Channel!Drop
    <3> QED BY <3>3 DEF Channel!Next
  <2> QED BY <2>2, <2>3
<1> QED
    BY <1>1, <1>2, <1>3, <1>4 DEF Client, GetCommandClient

\* nsbootd implements the command channel the boot pipeline is written for: a
\* command is refused, run once or lost, and a lost one stays lost.
THEOREM Implementation == Spec => ImplementsChannel
<1>1. IInv /\ [Next]_vars => [Channel!Next]_Fate
  <2> SUFFICES ASSUME IInv, [Next]_vars PROVE [Channel!Next]_Fate
    OBVIOUS
  <2>1. CASE Server
    BY <2>1, ChannelServer
  <2>2. CASE \E c \in Clients : Start(c) \/ Client(c) \/ Kill(c)
    BY <2>2, ChannelClient
  <2>3. CASE UNCHANGED vars
    BY <2>3 DEF vars, Fate
  <2> QED BY <2>1, <2>2, <2>3 DEF Next
<1> QED
    BY <1>1, ChannelInit, Invariance, PTL DEF Spec, ImplementsChannel, Channel!Spec
=============================================================================
