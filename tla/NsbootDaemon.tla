---------------------------- MODULE NsbootDaemon ----------------------------
(***************************************************************************)
(* The command channel between nginx and the nbd devices: the daemon       *)
(* bin/server.lua (installed as /usr/bin/nsbootd) and the one-shot client  *)
(* bin/client.lua that nsboot.cmd.nbd.add starts for every image.          *)
(*                                                                         *)
(* A client is one run of client.lua and carries one qemu-nbd command.     *)
(* The daemon serves one connection per call of StartServerSocket: it      *)
(* removes the socket file, binds, listens, accepts ONE connection, runs   *)
(* the line it receives and returns, so that its main loop starts over     *)
(* with a new socket.  The connections still waiting on the old socket     *)
(* are never accepted by anyone: they become orphans.                      *)
(*                                                                         *)
(* Not modelled: the text of the command and of the reply (the client      *)
(* never reads it), the pid file, and the moment at which the collector    *)
(* closes the old socket (nobody can tell an orphan apart before or        *)
(* after it).                                                              *)
(***************************************************************************)
EXTENDS Naturals, Sequences

CONSTANTS Clients,   \* runs of client.lua, one command each
          Killable,  \* the clients that may die between connect and send
          Backlog,   \* connections the kernel queues on a listening socket
          NoClient   \* "the daemon has no connection"

ASSUME ClientsAssumption ==
    /\ NoClient \notin Clients
    /\ Killable \subseteq Clients
    /\ Backlog \in Nat \ {0}

VARIABLES
    spc,      \* where the daemon is
    path,     \* /tmp/socket_nsboot: "none", "bound" or "listening"
    conn,     \* the connection of the current StartServerSocket call
    backlog,  \* clients connected to the current socket, not yet accepted
    orphans,  \* clients whose connection was left on an abandoned socket
    cpc,      \* where each client is
    sent,     \* clients whose line is in the kernel's buffer
    execs,    \* how often the daemon has run each client's command
    behind    \* history: clients that did not find the daemon idle, or that
              \* another client has overtaken since

vars == <<spc, path, conn, backlog, orphans, cpc, sent, execs, behind>>

serverVars == <<spc, path, conn>>
clientVars == <<cpc, sent, behind>>

ServerPcs == {"remove", "bind", "listen", "accept", "receive", "execute", "spin"}
ClientPcs == {"idle", "wait", "connect", "send", "close",
              "done", "failed", "killed"}

\* The daemon is blocked in accept() and nobody waits on its socket.
Idle == spc = "accept" /\ path = "listening" /\ backlog = <<>>

Queued == {backlog[k] : k \in DOMAIN backlog}

TypeOK ==
    /\ spc \in ServerPcs
    /\ path \in {"none", "bound", "listening"}
    /\ conn \in Clients \cup {NoClient}
    /\ backlog \in Seq(Clients) /\ Len(backlog) <= Backlog
    /\ orphans \subseteq Clients
    /\ cpc \in [Clients -> ClientPcs]
    /\ sent \subseteq Clients
    /\ execs \in [Clients -> Nat]
    /\ behind \subseteq Clients

Init ==
    /\ spc = "remove"
    /\ path = "none"
    /\ conn = NoClient
    /\ backlog = <<>>
    /\ orphans = {}
    /\ cpc = [c \in Clients |-> "idle"]
    /\ sent = {}
    /\ execs = [c \in Clients |-> 0]
    /\ behind = {}

-----------------------------------------------------------------------------
(***************************************************************************)
(* The daemon.  (Names that begin with Bad are faulty variants, each kept  *)
(* to show that the properties below notice that fault.)                   *)
(***************************************************************************)

\* The old queue survives the rebind.
BadRemoveSocket ==
    /\ spc = "remove"
    /\ spc' = "bind"
    /\ path' = "none"
    /\ conn' = NoClient
    /\ orphans' = orphans \cup Queued
    /\ UNCHANGED <<backlog, execs, clientVars>>

\* The main loop: os.remove(SOCKET), then StartServerSocket with a fresh
\* socket.  Whoever was queued on the previous one stays there.
RemoveSocket ==
    /\ spc = "remove"
    /\ spc' = "bind"
    /\ path' = "none"
    /\ conn' = NoClient
    /\ orphans' = orphans \cup Queued
    /\ backlog' = <<>>
    /\ UNCHANGED <<execs, clientVars>>

Bind ==
    /\ spc = "bind"
    /\ spc' = "listen"
    /\ path' = "bound"
    /\ UNCHANGED <<conn, backlog, orphans, execs, clientVars>>

Listen ==
    /\ spc = "listen"
    /\ spc' = "accept"
    /\ path' = "listening"
    /\ UNCHANGED <<conn, backlog, orphans, execs, clientVars>>

\* accept() gives up although a connection is waiting.
BadAccept ==
    /\ spc = "accept"
    /\ backlog # <<>>
    /\ spc' = "remove"
    /\ UNCHANGED <<path, conn, backlog, orphans, execs, clientVars>>

\* accept() with a timeout: an idle daemon starts over.
BadAcceptTimeout ==
    /\ spc = "accept"
    /\ spc' = IF backlog = <<>> THEN "remove" ELSE "receive"
    /\ conn' = IF backlog = <<>> THEN conn ELSE Head(backlog)
    /\ backlog' = IF backlog = <<>> THEN backlog ELSE Tail(backlog)
    /\ UNCHANGED <<path, orphans, execs, clientVars>>

Accept ==
    /\ spc = "accept"
    /\ backlog # <<>>
    /\ spc' = "receive"
    /\ conn' = Head(backlog)
    /\ backlog' = Tail(backlog)
    /\ UNCHANGED <<path, orphans, execs, clientVars>>

\* receive() returns before the line is there.
BadReceiveLine ==
    /\ spc = "receive"
    /\ spc' = "execute"
    /\ UNCHANGED <<path, conn, backlog, orphans, execs, clientVars>>

\* receive() with a timeout: nil although the client is alive.
BadReceiveNil ==
    /\ spc = "receive"
    /\ conn \notin sent
    /\ spc' = "spin"
    /\ path' = "none"
    /\ UNCHANGED <<conn, backlog, orphans, execs, clientVars>>

\* conn:receive() blocks until a whole line is there ...
ReceiveLine ==
    /\ spc = "receive"
    /\ conn \in sent
    /\ spc' = "execute"
    /\ UNCHANGED <<path, conn, backlog, orphans, execs, clientVars>>

\* ... or returns nil because the peer is gone.  The nil branch closes the
\* connection, removes the socket file and stays in the `while 1` loop, where
\* receive() on the closed connection returns nil at once, for ever.
ReceiveNil ==
    /\ spc = "receive"
    /\ conn \notin sent
    /\ cpc[conn] = "killed"
    /\ spc' = "spin"
    /\ path' = "none"
    /\ UNCHANGED <<conn, backlog, orphans, execs, clientVars>>

\* The `break` after the command is missing: the next receive() returns nil.
BadExecute ==
    /\ spc = "execute"
    /\ spc' = "spin"
    /\ execs' = [execs EXCEPT ![conn] = @ + 1]
    /\ UNCHANGED <<path, conn, backlog, orphans, clientVars>>

\* os.execute(data), the reply nobody waits for, and `break`.
Execute ==
    /\ spc = "execute"
    /\ spc' = "remove"
    /\ execs' = [execs EXCEPT ![conn] = @ + 1]
    /\ UNCHANGED <<path, conn, backlog, orphans, clientVars>>

StartServerSocket ==
    \/ Bind \/ Listen \/ Accept \/ ReceiveLine \/ ReceiveNil \/ Execute

Server == RemoveSocket \/ StartServerSocket

-----------------------------------------------------------------------------
(***************************************************************************)
(* A client.                                                               *)
(***************************************************************************)

Start(c) ==
    /\ cpc[c] = "idle"
    /\ cpc' = [cpc EXCEPT ![c] = "wait"]
    /\ UNCHANGED <<serverVars, backlog, orphans, sent, execs, behind>>

\* The polling loop ends when the socket FILE exists.
WaitSocketReady(c) ==
    /\ cpc[c] = "wait"
    /\ path # "none"
    /\ cpc' = [cpc EXCEPT ![c] = "connect"]
    /\ behind' = IF Idle THEN behind ELSE behind \cup {c}
    /\ UNCHANGED <<serverVars, backlog, orphans, sent, execs>>

\* assert(c:connect(...)) with somebody listening and room in the queue.
Connect(c) ==
    /\ cpc[c] = "connect"
    /\ path = "listening"
    /\ Len(backlog) < Backlog
    /\ cpc' = [cpc EXCEPT ![c] = "send"]
    /\ backlog' = Append(backlog, c)
    /\ behind' = {d \in Clients : IF d = c THEN ~Idle
                                  ELSE d \in behind \/ cpc[d] = "connect"}
    /\ UNCHANGED <<serverVars, orphans, sent, execs>>

\* The same assert when the file is gone again, the socket does not listen
\* yet, or the queue is full: client.lua dies and nbd.add ignores it.
ConnectFails(c) ==
    /\ cpc[c] = "connect"
    /\ path # "listening" \/ Len(backlog) >= Backlog
    /\ cpc' = [cpc EXCEPT ![c] = "failed"]
    /\ UNCHANGED <<serverVars, backlog, orphans, sent, execs, behind>>

Send(c) ==
    /\ cpc[c] = "send"
    /\ cpc' = [cpc EXCEPT ![c] = "close"]
    /\ sent' = sent \cup {c}
    /\ UNCHANGED <<serverVars, backlog, orphans, execs, behind>>

\* `data` is never assigned in client.lua, so the reply is not awaited.
Close(c) ==
    /\ cpc[c] = "close"
    /\ cpc' = [cpc EXCEPT ![c] = "done"]
    /\ UNCHANGED <<serverVars, backlog, orphans, sent, execs, behind>>

\* The process dies after connect and before send (kill, out of memory).
Kill(c) ==
    /\ c \in Killable
    /\ cpc[c] = "send"
    /\ cpc' = [cpc EXCEPT ![c] = "killed"]
    /\ UNCHANGED <<serverVars, backlog, orphans, sent, execs, behind>>

GetCommandClient(c) == Connect(c) \/ ConnectFails(c) \/ Send(c) \/ Close(c)

Client(c) == WaitSocketReady(c) \/ GetCommandClient(c)

Next == Server \/ \E c \in Clients : Start(c) \/ Client(c) \/ Kill(c)

\* The daemon and a started client run until they block; nothing forces a
\* client to be started or to die.
Fairness == WF_vars(Server) /\ \A c \in Clients : WF_vars(Client(c))

Spec == Init /\ [][Next]_vars /\ Fairness

-----------------------------------------------------------------------------
(***************************************************************************)
(* Properties.                                                             *)
(***************************************************************************)

\* A command reaches qemu-nbd at most once, whatever the daemon's restarts of
\* its socket, and only after its client has sent the whole line.
AtMostOnce == \A c \in Clients : execs[c] <= (IF c \in sent THEN 1 ELSE 0)

\* A connection is dropped only if it was made while another client was queued
\* or being served: a client that finds the daemon idle is never dropped by
\* the os.remove that follows a command.
OnlyOverlapsDropped == orphans \subseteq behind

\* A dropped command is gone: the daemon never runs it later, and the client
\* that sent it has no way to notice.
DroppedNeverRun == \A c \in orphans : execs[c] = 0 /\ cpc[c] # "failed"

\* connect fails, and client.lua dies with the command, only for a client that
\* found the socket file while the daemon was not idle (the file is there before
\* listen() and while a command runs), or that another client has overtaken
\* since: the file that an idle daemon shows is a promise until somebody connects.
IdleNotRefused == \A c \in Clients : cpc[c] = "failed" => c \in behind

\* A client that finds the daemon idle gets its command run, from the moment it
\* has seen the socket file on, unless it dies or another one overtakes it.
IdleServed ==
    \A c \in Clients :
        (cpc[c] \in {"connect", "send"} /\ c \notin behind)
            ~> (execs[c] = 1 \/ cpc[c] = "killed" \/ c \in behind)

NobodyKilled == [](\A c \in Clients : cpc[c] # "killed")

\* As long as no client dies half way, the daemon comes back to accept(),
\* however connects, rebinds and a full queue interleave.
AcceptsAgain == NobodyKilled => []<>(spc = "accept")

\* The fate of a command as its caller could tell it, had it a way to look: a
\* client connected to the socket in use still has its command under way.
Fate ==
    [c \in Clients |->
        IF execs[c] > 0 THEN "run"
        ELSE IF c \in orphans \/ cpc[c] \in {"failed", "killed"} THEN "lost"
        ELSE IF cpc[c] \in {"send", "close", "done"} THEN "queued"
        ELSE "new"]

Channel == INSTANCE CommandChannel WITH Commands <- Clients, fate <- Fate

\* nsbootd and its clients implement the channel of CommandChannel: whatever
\* the daemon does with its sockets, a command is refused, run once or lost,
\* and a command that was lost is not run later.
ImplementsChannel == Channel!Spec

\* As long as no client dies half way, no command stays under way for ever.
Settled ==
    NobodyKilled =>
        \A c \in Clients : (Fate[c] = "queued") ~> (Fate[c] \in {"run", "lost"})
=============================================================================
