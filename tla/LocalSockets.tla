---------------------------- MODULE LocalSockets ----------------------------
(***************************************************************************)
(* What the kernel keeps of the AF_LOCAL stream sockets of the main app     *)
(* (one process, where a SocketHost listens) and of the plugins (a process  *)
(* each, where a SocketClient connects), as far as the system calls of      *)
(* SocketHost.cpp and SocketClient.cpp can tell.                            *)
(***************************************************************************)
EXTENDS Integers, Sequences, FiniteSets

CONSTANTS
  Plugins,   \* the plugin processes
  NoPlugin,  \* the maker of a connection not made yet
  MaxConns,  \* bound on the connections made in one behaviour
  Backlog    \* connections the kernel queues for accept()

Conns == 1..MaxConns

(* A descriptor field holds the connection its number was given for, or:   *)
NoNumber == 0    \* -1
Stale    == -1   \* the number of a socket closed at once

(* Numbers of closed sockets are given out again: such a number may stand  *)
(* for any file that another part of the process has opened since.         *)

ASSUME SocketsAssumption ==
  /\ NoPlugin \notin Plugins
  /\ MaxConns \in Nat /\ Backlog \in Nat \ {0}

VARIABLES
  listener,    \* the listening socket of the name: "none", "open" or "shut"
  backlog,     \* connections made and not accepted yet
  appOpen,     \* connections the app has a descriptor of
  pluginOpen,  \* connections their plugin has a descriptor of
  maker,       \* the plugin that made each connection
  inRecv,      \* connections a thread of their plugin is inside recv() on
  toHost,      \* connections with anything to read towards the app
  toClient     \* connections with anything to read towards the plugin

(* An end stays open while a descriptor stands for it.  A close() while a  *)
(* thread is inside recv() leaves it open until that recv() returns.       *)
InBacklog(k) == \E i \in DOMAIN backlog : backlog[i] = k
HostHas(k)   == k \in appOpen \/ InBacklog(k)
ClientHas(k) == k \in inRecv \/ k \in pluginOpen

KernelInit ==
  /\ listener = "none" /\ backlog = << >>
  /\ appOpen = {} /\ pluginOpen = {}
  /\ maker = [k \in Conns |-> NoPlugin]
  /\ inRecv = {}
  /\ toHost = {} /\ toClient = {}

KernelTypeOK ==
  /\ listener \in {"none", "open", "shut"}
  /\ backlog \in Seq(Conns) /\ Len(backlog) <= Backlog
  /\ appOpen \subseteq Conns /\ pluginOpen \subseteq Conns /\ inRecv \subseteq Conns
  /\ maker \in [Conns -> Plugins \union {NoPlugin}]
  /\ toHost \subseteq Conns /\ toClient \subseteq Conns
=============================================================================
