------------------------------ MODULE RdvServer ------------------------------
(***************************************************************************)
(* Servers that are shared through files (core/process/server.py): a       *)
(* process that needs one looks for its address in a file, and starts one  *)
(* under a file lock if there is none. Three kinds differ in how they are  *)
(* found and closed:                                                       *)
(*   base  vLLM and Ollama: the address file alone decides;                *)
(*   lsp   Lean's language server: an address nobody answers at is removed *)
(*         first;                                                          *)
(*   repl  the REPL server, a thread of the process that starts it, which  *)
(*         counts its clients and is started again when a call fails.      *)
(* A client here is a process; each has at most one client of a server.    *)
(***************************************************************************)
EXTENDS Integers

CONSTANTS
  Clients,
  Kinds,          \* of the kinds above, those that are considered
  MaxReconnects,  \* how often a client starts anew after a failed call
  MaxMishaps      \* how many crashes, deaths and timeouts there are

ASSUME RdvAssumption ==
  /\ Kinds \subseteq {"base", "lsp", "repl"}
  /\ MaxReconnects \in Nat /\ MaxMishaps \in Nat
  /\ "none" \notin Clients

VARIABLES
  kind,      \* of the server
  lock,      \* the client that holds the lock file, or "none"
  addr,      \* the server that the address file names, or NoServer
  counter,   \* what the counter file says, or NoFile
  server,    \* what each server does: "unused", "starting", "accepting" or "dead"
  at,        \* where each client is
  read,      \* the address it has read and got no answer at
  tries,     \* how often it has started anew
  first,     \* the try whose server object is closed at exit, or NoFile
  uses,      \* the server it was given
  mishaps,   \* how many there were
  calm       \* nothing died or timed out since it began to start (a history variable)

files == <<lock, addr, counter>>
client == <<at, read, tries, first, uses>>
rdvVars == <<kind, files, server, client, mishaps, calm>>

Servers == Clients \X (0..MaxReconnects)
NoServer == <<"none", 0>>
NoFile == -1
Own(c) == <<c, tries[c]>>

RdvInit ==
  /\ kind \in Kinds
  /\ lock = "none" /\ addr = NoServer /\ counter = NoFile
  /\ server = [s \in Servers |-> "unused"]
  /\ at = [c \in Clients |-> "idle"]
  /\ read = [c \in Clients |-> NoServer]
  /\ tries = [c \in Clients |-> 0]
  /\ first = [c \in Clients |-> NoFile]
  /\ uses = [c \in Clients |-> NoServer]
  /\ mishaps = 0 /\ calm = [c \in Clients |-> TRUE]

Ended == {"gone", "gave_up"}
Goto(c, place) == at' = [at EXCEPT ![c] = place]
Mishap ==
  /\ mishaps < MaxMishaps
  /\ mishaps' = mishaps + 1
  /\ calm' = [c \in Clients |-> FALSE]
\* Servers stop; what clients that are starting see is not calm.
Stop(S) ==
  /\ server' = [s \in Servers |-> IF s \in S THEN "dead" ELSE server[s]]
  /\ calm' = [c \in Clients |-> S = {} /\ calm[c]]
  /\ UNCHANGED mishaps
Quiet == UNCHANGED <<server, mishaps, calm>>

---------------------------------------------------------------------------
(* start() *)

\* A client without an address, or of a kind that does not check it, goes for the lock.
Begin(c) ==
  /\ at[c] = "idle"
  /\ calm' = [calm EXCEPT ![c] = TRUE]
  /\ IF kind = "base" \/ addr = NoServer
     THEN Goto(c, "enter") /\ UNCHANGED read
     ELSE Goto(c, "connect") /\ read' = [read EXCEPT ![c] = addr]
  /\ UNCHANGED <<kind, files, server, tries, first, uses, mishaps>>

\* A server that does not accept connections is taken to be stale, also one that starts.
Connect(c) ==
  /\ at[c] = "connect"
  /\ IF server[read[c]] = "accepting"
     THEN Goto(c, "enter") /\ read' = [read EXCEPT ![c] = NoServer]
     ELSE Goto(c, "clean") /\ UNCHANGED read
  /\ UNCHANGED <<kind, files, server, tries, first, uses, mishaps, calm>>

\* Its files are removed one after the other, without the lock.
Clean(c) ==
  /\ at[c] = "clean"
  /\ addr' = NoServer
  /\ Goto(c, "clean_counter")
  /\ UNCHANGED <<kind, lock, counter, read, tries, first, uses>> /\ Quiet

CleanCounter(c) ==
  /\ at[c] = "clean_counter"
  /\ counter' = NoFile
  /\ Goto(c, "enter")
  /\ UNCHANGED <<kind, lock, addr, read, tries, first, uses>> /\ Quiet

\* Where a client goes that has a server.
Joined == IF kind = "repl" THEN "register" ELSE "found"

\* Variant with a bug: the lock is not waited for.
EnterUnlocked(c) ==
  /\ at[c] = "enter"
  /\ IF addr # NoServer
     THEN Goto(c, Joined) /\ UNCHANGED <<files, server>>
     ELSE /\ lock' = c
          /\ server' = [server EXCEPT ![Own(c)] = "starting"]
          /\ counter' = 0
          /\ Goto(c, "address") /\ UNCHANGED addr
  /\ UNCHANGED <<kind, read, tries, first, uses, mishaps, calm>>

\* With the lock: an address means that the server is there; otherwise it is launched
\* and the counter reset.
Enter(c) ==
  /\ at[c] = "enter" /\ lock = "none"
  /\ IF addr # NoServer
     THEN Goto(c, Joined) /\ UNCHANGED <<files, server>>
     ELSE /\ lock' = c
          /\ server' = [server EXCEPT ![Own(c)] = "starting"]
          /\ counter' = 0
          /\ Goto(c, "address") /\ UNCHANGED addr
  /\ UNCHANGED <<kind, read, tries, first, uses, mishaps, calm>>

\* The address is written before the server answers at it.
WriteAddress(c) ==
  /\ at[c] = "address"
  /\ addr' = Own(c)
  /\ Goto(c, "wait")
  /\ UNCHANGED <<kind, lock, counter, read, tries, first, uses>> /\ Quiet

Ready(c) ==
  /\ at[c] = "wait" /\ server[Own(c)] = "accepting"
  /\ lock' = "none"
  /\ Goto(c, Joined)
  /\ UNCHANGED <<kind, addr, counter, read, tries, first, uses>> /\ Quiet

\* Variant with a bug: the wait for the server has no end.
StartHangs(c) ==
  /\ at[c] = "wait" /\ server[Own(c)] # "accepting" /\ FALSE
  /\ UNCHANGED rdvVars

\* A server that does not answer in time is left, and so is its address.
StartFails(c) ==
  /\ at[c] = "wait" /\ server[Own(c)] # "accepting"
  /\ lock' = "none"
  /\ Goto(c, "failed")
  /\ calm' = [d \in Clients |-> FALSE]
  /\ UNCHANGED <<kind, addr, counter, server, read, tries, first, uses, mishaps>>

\* The lock is held by others for too long.
LockTimesOut(c) ==
  /\ at[c] \in {"enter", "register"} /\ lock # "none"
  /\ calm' = [d \in Clients |-> FALSE]
  /\ Goto(c, "failed")
  /\ UNCHANGED <<kind, files, server, read, tries, first, uses, mishaps>>

\* update_connection_counter() reads the counter, which may be gone; the server object
\* of the first time is closed at exit.
RegisterClient(c) ==
  /\ at[c] = "register" /\ lock = "none"
  /\ IF counter = NoFile
     THEN Goto(c, "failed") /\ UNCHANGED <<counter, first>>
     ELSE /\ counter' = counter + 1
          /\ first' = [first EXCEPT ![c] = IF @ = NoFile THEN tries[c] ELSE @]
          /\ Goto(c, "found")
  /\ UNCHANGED <<kind, lock, addr, read, tries, uses>> /\ Quiet

\* get_server_address(): the file may be gone by now.
Found(c) ==
  /\ at[c] = "found"
  /\ first' = [first EXCEPT ![c] = IF @ = NoFile THEN tries[c] ELSE @]
  /\ uses' = [uses EXCEPT ![c] = addr]
  /\ Goto(c, IF addr = NoServer THEN "failed" ELSE "using")
  /\ UNCHANGED <<kind, files, read, tries>> /\ Quiet

\* MCPClientManager.call_tool(): a call that fails, for whatever reason, starts again.
Reconnect(c) ==
  /\ kind = "repl" /\ at[c] = "using" /\ tries[c] < MaxReconnects
  /\ tries' = [tries EXCEPT ![c] = @ + 1]
  /\ Goto(c, "idle")
  /\ UNCHANGED <<kind, files, read, first, uses>> /\ Quiet

---------------------------------------------------------------------------
(* close() *)

\* The server that the object closed at exit has started.
Handle(c) == <<c, first[c]>>

\* A thread of a process that ends goes with it, a subprocess does not.
Threads(c) == IF kind = "repl" THEN {s \in Servers : s[1] = c /\ server[s] \in {"starting", "accepting"}} ELSE {}

\* A process ends in order; without a server object there is nothing to close.
Exit(c) ==
  /\ at[c] \in {"using", "failed"}
  /\ IF first[c] = NoFile
     THEN Goto(c, "gone") /\ Stop(Threads(c))
     ELSE Goto(c, "close") /\ Quiet
  /\ UNCHANGED <<kind, files, read, tries, first, uses>>

\* PerRdvServer.close(): nothing is done unless the process started the server and it runs.
Close(c) ==
  /\ kind # "repl" /\ at[c] = "close"
  /\ Goto(c, IF server[Handle(c)] \in {"unused", "dead"} THEN "gone" ELSE "count")
  /\ UNCHANGED <<kind, files, read, tries, first, uses>> /\ Quiet

\* The counter is read under the lock; none but the REPL's clients ever increase it.
Count(c) ==
  /\ at[c] = "count" /\ lock = "none"
  /\ \/ counter = 0 /\ Goto(c, "kill")
     \/ counter = NoFile /\ Goto(c, "gone")
  /\ UNCHANGED <<kind, files, read, tries, first, uses>> /\ Quiet

\* Variant with a bug: only the files are removed.
KillFiles(c) ==
  /\ at[c] = "kill" /\ lock = "none"
  /\ addr' = NoServer /\ counter' = NoFile
  /\ Goto(c, "gone")
  /\ UNCHANGED <<kind, lock, read, tries, first, uses>> /\ Quiet

\* Under the lock taken anew the server is killed, then its files are removed; a missing
\* address file ends it before the counter is removed.
Kill(c) ==
  /\ at[c] = "kill" /\ lock = "none"
  /\ Stop({Handle(c)})
  /\ addr' = NoServer
  /\ counter' = IF addr = NoServer THEN counter ELSE NoFile
  /\ Goto(c, "gone")
  /\ UNCHANGED <<kind, lock, read, tries, first, uses>>

\* LeanReplServer.close(): the last client removes the files and shuts down the server
\* if it is its own; then the process ends, and with it the servers it has started.
Disconnect(c) ==
  /\ kind = "repl" /\ at[c] = "close"
  /\ counter = NoFile \/ lock = "none"
  /\ IF counter # NoFile /\ counter > 1
     THEN counter' = counter - 1 /\ UNCHANGED addr
     ELSE counter' = NoFile /\ addr' = IF counter = NoFile THEN addr ELSE NoServer
  /\ Stop(Threads(c))
  /\ Goto(c, "gone")
  /\ UNCHANGED <<kind, lock, read, tries, first, uses>>

\* The lock is held for too long: the process ends and has closed nothing.
CloseTimesOut(c) ==
  /\ at[c] \in (IF kind = "repl" THEN {"close"} ELSE {"count", "kill"}) /\ lock # "none"
  /\ Stop(Threads(c))
  /\ Goto(c, "gave_up")
  /\ UNCHANGED <<kind, files, read, tries, first, uses>>

---------------------------------------------------------------------------
(* Servers and crashes *)

Accept(s) ==
  /\ server[s] = "starting"
  /\ server' = [server EXCEPT ![s] = "accepting"]
  /\ UNCHANGED <<kind, files, client, mishaps, calm>>

ServerDies(s) ==
  /\ server[s] \in {"starting", "accepting"}
  /\ Mishap
  /\ server' = [server EXCEPT ![s] = "dead"]
  /\ UNCHANGED <<kind, files, client>>

\* A process that is killed closes nothing; the system drops its lock.
Crash(c) ==
  /\ at[c] \notin Ended
  /\ Mishap
  /\ lock' = IF lock = c THEN "none" ELSE lock
  /\ server' = [s \in Servers |-> IF s \in Threads(c) THEN "dead" ELSE server[s]]
  /\ Goto(c, "gone")
  /\ UNCHANGED <<kind, addr, counter, read, tries, first, uses>>

---------------------------------------------------------------------------

Starting(c) ==
  \/ Begin(c) \/ Connect(c) \/ Clean(c) \/ CleanCounter(c) \/ Enter(c) \/ WriteAddress(c)
  \/ Ready(c) \/ StartFails(c) \/ LockTimesOut(c) \/ RegisterClient(c) \/ Found(c)

Closing(c) == Close(c) \/ Count(c) \/ Kill(c) \/ Disconnect(c) \/ CloseTimesOut(c)

RdvNext ==
  \/ \E c \in Clients : Starting(c) \/ Reconnect(c) \/ Exit(c) \/ Closing(c) \/ Crash(c)
  \/ \E s \in Servers : Accept(s) \/ ServerDies(s)

\* A process that starts or closes runs: it polls for the lock, or for the server, until
\* it gets what it waits for or its time is up.
RdvFairness == \A c \in Clients : WF_rdvVars(Starting(c)) /\ WF_rdvVars(Closing(c))

RdvSpec == RdvInit /\ [][RdvNext]_rdvVars /\ RdvFairness

---------------------------------------------------------------------------
(* Properties *)

Places == {"idle", "connect", "clean", "clean_counter", "enter", "address", "wait", "register", "found",
           "using", "failed", "close", "count", "kill"} \cup Ended

RdvTypeOK ==
  /\ kind \in Kinds /\ lock \in Clients \cup {"none"}
  /\ addr \in Servers \cup {NoServer} /\ counter \in Nat \cup {NoFile}
  /\ server \in [Servers -> {"unused", "starting", "accepting", "dead"}]
  /\ at \in [Clients -> Places]
  /\ read \in [Clients -> Servers \cup {NoServer}] /\ uses \in [Clients -> Servers \cup {NoServer}]
  /\ tries \in [Clients -> 0..MaxReconnects] /\ first \in [Clients -> (0..MaxReconnects) \cup {NoFile}]
  /\ mishaps \in 0..MaxMishaps /\ calm \in [Clients -> BOOLEAN]

RunningServers == {s \in Servers : server[s] \in {"starting", "accepting"}}

\* Where the address file alone decides, no two servers run that are advertised or whose
\* starter lives, whatever dies or times out between the check, the launch and the write
\* (PerRdvServer.start(), close()).
Advertised == {s \in RunningServers : addr = s \/ at[s[1]] \notin Ended}
OneServer == kind = "base" => \A s, t \in Advertised : s = t

\* Where nothing went wrong, no server outlives the processes (base kind).
NoServerLeft ==
  kind = "base" /\ mishaps = 0 /\ (\A c \in Clients : at[c] = "gone" /\ first[c] # NoFile) => RunningServers = {}

\* A process that starts or closes a server comes to an end, although it waits for the
\* lock and for the server: others leave the lock, also those that fail.
Settled == {"using", "failed"} \cup Ended
StartEnds == \A c \in Clients : at[c] \notin Settled ~> at[c] \in Settled

\* Docs: callers share one server, of every kind.
OneServerShared ==
  \A c, d \in Clients :
    /\ mishaps = 0 /\ at[c] = "using" /\ at[d] = "using"
    /\ server[uses[c]] = "accepting" /\ server[uses[d]] = "accepting"
    => uses[c] = uses[d]

\* Docs: the server stays alive until all clients disconnect.
AliveForClients ==
  [][\A c \in Clients :
       /\ mishaps' = mishaps /\ at[c] = "using" /\ at'[c] = "using" /\ server[uses[c]] = "accepting"
       => server'[uses[c]] = "accepting"]_rdvVars

\* Docs: the server is started if it is not already running.
StartedIfNotRunning ==
  [][\A c \in Clients : at[c] = "found" /\ at'[c] = "using" /\ calm[c] => server[uses'[c]] # "dead"]_rdvVars
=============================================================================
