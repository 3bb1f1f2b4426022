------------------------------- MODULE Daemonize ------------------------------
(***************************************************************************)
(* The start of lisod: main(), daemonize(), log_init() and start_server(), *)
(* for several instances that are started with the same lock file, log     *)
(* file and ports, and that are killed, leaving CGI programs behind.       *)
(*                                                                         *)
(* An instance is known by the pid it has after fork().  pc is the call it *)
(* makes next.  What the instances share is the record lock, the contents  *)
(* of the lock file and of the log, and the two ports; everything else is  *)
(* in the descriptor table of one process.                                 *)
(*                                                                         *)
(* The log is written through a stream with a buffer.  A piece is what one *)
(* write() puts into the file: the buffer when it is full, or when exit()  *)
(* flushes it.  A child that was forked for a CGI program has a copy of    *)
(* the buffer and shares the position in the file.                         *)
(***************************************************************************)
EXTENDS Integers, Sequences, Functions

CONSTANTS
    Inst,       \* the instances
    none,       \* no instance
    Digits,     \* Digits[i]: the decimal digits of i's pid
    OldFile,    \* what the lock file may hold before the first of them starts
    MaxLog,     \* bound: the position up to which an instance and its children log
    Faults      \* the calls that may fail: "fork", "open", "log_init", "ssl_init"

NL == 10    \* the end of a line, among the digits

ASSUME DaemonAssumption ==
    /\ none \notin Inst
    /\ Digits \in [Inst -> Seq(0..9)]
    /\ OldFile \subseteq Seq(0..NL)
    /\ MaxLog \in Nat
    /\ Faults \subseteq {"fork", "open", "log_init", "ssl_init"}

VARIABLES
    pc,         \* the next call of an instance
    fds,        \* fds[i][n + 1]: what number n refers to
    locked,     \* the instance that has the record lock, or none
    lock_file,  \* the contents of the lock file
    log_file,   \* the contents of the log: the pieces
    log_fp,     \* the position in it of the file that an instance has opened
    written,    \* how many pieces an instance has written
    cgi,        \* the children of instances: <<i, 0>> runs the CGI program, <<i, n>>
                \* has still to call execve(), with the beginning of i's piece n in
                \* its copy of the stream's buffer
    lingering,  \* the ports on which connections of a dead server wait for the
                \* last packets (TIME_WAIT)
    upset       \* TRUE when a call failed or a process was killed since the last
                \* start

logVars == <<log_file, log_fp, written>>
vars == <<pc, fds, locked, lock_file, logVars, cgi, lingering, upset>>

Port == {"tcp", "ssl"}
Descriptor == {"terminal", "null", "lock", "log"} \cup Port

\* The calls from main() on, and how an instance may end.
Call == {"fork", "close", "open", "lockf", "write", "signal", "log_init", "bind", "ssl_init"}
Gone == {"off", "success", "failure", "killed"}

\* A piece names the instance, its number, and whether the instance wrote it or a
\* child whose copy of the buffer had the beginning of the piece of that number.
Own(i, n)  == <<i, n, "server">>
Copy(i, n) == <<i, n, "child">>
Hole       == <<none, 0, "nobody">>
Piece == (Inst \X Nat \X {"server", "child"}) \cup {Hole}
------------------------------------------------------------------------------
Init ==
    /\ pc = [i \in Inst |-> "off"] /\ fds = [i \in Inst |-> <<>>]
    /\ locked = none
    /\ lock_file \in OldFile /\ log_file = <<>>
    /\ log_fp = [i \in Inst |-> 0] /\ written = [i \in Inst |-> 0]
    /\ cgi = {} /\ lingering = {} /\ upset = FALSE

At(i, call) == pc[i] = call
Goes(i, call) == pc' = [pc EXCEPT ![i] = call]

Opens(i, x) == fds' = [fds EXCEPT ![i] = Append(@, x)]

\* The end of a process: its descriptors are closed and its lock is released.
Ends(i, how) ==
    /\ Goes(i, how)
    /\ fds' = [fds EXCEPT ![i] = <<>>]
    /\ locked' = IF locked = i THEN none ELSE locked

\* A call fails.
Fails(i, how) ==
    /\ Ends(i, how) /\ upset' = TRUE
    /\ UNCHANGED <<lock_file, logVars, cgi, lingering>>

\* Somebody starts the program at a terminal.
Start(i) ==
    /\ At(i, "off")
    /\ Goes(i, "fork")
    /\ \E n \in {3, 4} : fds' = [fds EXCEPT ![i] = [m \in 1..n |-> "terminal"]]
    /\ upset' = FALSE
    /\ UNCHANGED <<locked, lock_file, logVars, cgi, lingering>>
------------------------------------------------------------------------------
(* daemonize().                                                            *)

\* Mutation: main() calls log_init() before daemonize().
ForkLogged(i) ==
    /\ At(i, "fork")
    /\ Goes(i, "close") /\ log_file' = <<>>
    /\ UNCHANGED <<fds, locked, lock_file, log_fp, written, cgi, lingering, upset>>

\* The parent exits; the child is the instance.
Fork(i) ==
    /\ At(i, "fork")
    /\ \/ /\ Goes(i, "close")
          /\ UNCHANGED <<fds, locked, lock_file, logVars, cgi, lingering, upset>>
       \/ "fork" \in Faults /\ Fails(i, "failure")

\* Mutation: the descriptors from 3 on are closed.
CloseRest(i) ==
    /\ At(i, "close")
    /\ Goes(i, "open")
    /\ fds' = [fds EXCEPT ![i] = SubSeq(@, 1, 3) \o <<"null", "null", "null">>]
    /\ UNCHANGED <<locked, lock_file, logVars, cgi, lingering, upset>>

\* All descriptors are closed; 0, 1 and 2 are /dev/null.
Close(i) ==
    /\ At(i, "close")
    /\ Goes(i, "open")
    /\ fds' = [fds EXCEPT ![i] = <<"null", "null", "null">>]
    /\ UNCHANGED <<locked, lock_file, logVars, cgi, lingering, upset>>

\* Mutation: O_EXCL.
OpenExclusive(i) ==
    /\ At(i, "open")
    /\ IF lock_file = <<>> THEN Goes(i, "lockf") /\ Opens(i, "lock") /\ UNCHANGED locked
                           ELSE Ends(i, "failure")
    /\ UNCHANGED <<lock_file, logVars, cgi, lingering, upset>>

\* The lock file is created if need be, and not truncated.
Open(i) ==
    /\ At(i, "open")
    /\ \/ /\ Goes(i, "lockf") /\ Opens(i, "lock")
          /\ UNCHANGED <<locked, lock_file, logVars, cgi, lingering, upset>>
       \/ "open" \in Faults /\ Fails(i, "failure")

\* Mutation: the result of lockf() is not looked at.
LockfIgnored(i) ==
    /\ At(i, "lockf")
    /\ Goes(i, "write") /\ locked' = IF locked = none THEN i ELSE locked
    /\ UNCHANGED <<fds, lock_file, logVars, cgi, lingering, upset>>

\* F_TLOCK does not wait: only the first instance continues.
Lockf(i) ==
    /\ At(i, "lockf")
    /\ IF locked = none THEN Goes(i, "write") /\ locked' = i /\ UNCHANGED fds
                        ELSE Ends(i, "success")
    /\ UNCHANGED <<lock_file, logVars, cgi, lingering, upset>>

\* Mutation: the byte that ends the string is written, too.
LineAndNul(i) == Append(Append(Digits[i], NL), NL + 1)

\* A line with the pid.
Line(i) == Append(Digits[i], NL)

\* Mutation: O_APPEND.
WrittenAppend(line) == lock_file \o line

\* What the file holds when line is written over its beginning.
Written(line) == line \o SubSeq(lock_file, Len(line) + 1, Len(lock_file))

Write(i) ==
    /\ At(i, "write")
    /\ Goes(i, "signal")
    /\ lock_file' = Written(Line(i))
    /\ UNCHANGED <<fds, locked, logVars, cgi, lingering, upset>>

\* SIGHUP and SIGTERM do nothing from now on, and a child that ends is not waited
\* for.
Signal(i) ==
    /\ At(i, "signal")
    /\ Goes(i, "log_init")
    /\ UNCHANGED <<fds, locked, lock_file, logVars, cgi, lingering, upset>>
------------------------------------------------------------------------------
(* log_init() and start_server().                                          *)

\* fopen(logfile, "w") truncates.
LogInit(i) ==
    /\ At(i, "log_init")
    /\ \/ /\ Goes(i, "bind") /\ Opens(i, "log")
          /\ log_file' = <<>>
          /\ UNCHANGED <<locked, lock_file, log_fp, written, cgi, lingering, upset>>
       \/ "log_init" \in Faults /\ Fails(i, "failure")

\* One write() to the log by i or a child of i, at their common position.
Logs(i, piece) ==
    LET at == log_fp[i] + 1
    IN  /\ log_fp' = [log_fp EXCEPT ![i] = at]
        /\ log_file' = [n \in 1..(IF at > Len(log_file) THEN at ELSE Len(log_file)) |->
                           CASE n = at -> piece
                             [] n # at /\ n \in DOMAIN log_file -> log_file[n]
                             [] OTHER -> Hole]

LogsOwn(i) ==
    /\ Logs(i, Own(i, written[i] + 1))
    /\ written' = [written EXCEPT ![i] = @ + 1]

\* A port is taken by a process that listens, by a child that was forked from
\* one, or by connections that are not quite over.
Taken(p) == (\E i \in Inst : p \in Range(fds[i])) \/ cgi # {} \/ p \in lingering

\* start_server() fails: the error is logged, exit() flushes it, and the status
\* is 0.
StartFails(i) == Ends(i, "success") /\ LogsOwn(i)

\* socket(), bind() and listen().
Bind(i) ==
    /\ At(i, "bind")
    /\ IF Taken("tcp")
       THEN StartFails(i)
       ELSE Goes(i, "ssl_init") /\ Opens(i, "tcp") /\ UNCHANGED <<locked, logVars>>
    /\ UNCHANGED <<lock_file, cgi, lingering, upset>>

\* The key and the certificate are read first.
SslInit(i) ==
    /\ At(i, "ssl_init")
    /\ \/ /\ IF Taken("ssl")
             THEN StartFails(i)
             ELSE Goes(i, "serve") /\ Opens(i, "ssl") /\ UNCHANGED <<locked, logVars>>
          /\ UNCHANGED upset
       \/ "ssl_init" \in Faults /\ StartFails(i) /\ upset' = TRUE
    /\ UNCHANGED <<lock_file, cgi, lingering>>
------------------------------------------------------------------------------
(* net_handle(), as far as other processes notice it.                      *)

\* The stream's buffer is full.
Flush(i) ==
    /\ At(i, "serve") /\ log_fp[i] < MaxLog
    /\ LogsOwn(i)
    /\ UNCHANGED <<pc, fds, locked, lock_file, cgi, lingering, upset>>

\* fork() for a CGI program: the child inherits the listening sockets, the log
\* and the buffer, and no lock.
ForkCgi(i) ==
    /\ At(i, "serve")
    /\ cgi' = cgi \cup {<<i, written[i] + 1>>}
    /\ UNCHANGED <<pc, fds, locked, lock_file, logVars, lingering, upset>>

\* execve(): the program has the descriptors and nothing of the buffer.
Execve(c) ==
    /\ c \in cgi /\ c[2] > 0
    /\ cgi' = (cgi \ {c}) \cup {<<c[1], 0>>}
    /\ UNCHANGED <<pc, fds, locked, lock_file, logVars, lingering, upset>>

\* prepare_envp() or execve() fails, and exit() writes what the child's copy of
\* the buffer holds and its own line; when it holds nothing and prepare_envp()
\* failed, there is nothing to write.
ChildFails(c) ==
    /\ c \in cgi /\ c[2] > 0
    /\ cgi' = cgi \ {c}
    /\ \/ log_fp[c[1]] < MaxLog /\ Logs(c[1], Copy(c[1], c[2])) /\ UNCHANGED written
       \/ UNCHANGED logVars
    /\ UNCHANGED <<pc, fds, locked, lock_file, lingering, upset>>

CgiExits(c) ==
    /\ c \in cgi /\ c[2] = 0
    /\ cgi' = cgi \ {c}
    /\ UNCHANGED <<pc, fds, locked, lock_file, logVars, lingering, upset>>
------------------------------------------------------------------------------
(* Signals.                                                                *)

\* SIGKILL (stop_server.sh), or SIGTERM or SIGHUP before they are handled.
Killed(i) ==
    /\ pc[i] \notin Gone
    /\ Ends(i, "killed") /\ upset' = TRUE
    /\ \E P \in SUBSET (Range(fds[i]) \cap Port) :
          lingering' = IF pc[i] = "serve" THEN lingering \cup P ELSE lingering
    /\ UNCHANGED <<lock_file, logVars, cgi>>

LingeringOver ==
    /\ lingering # {} /\ lingering' = {}
    /\ UNCHANGED <<pc, fds, locked, lock_file, logVars, cgi, upset>>

Step(i) ==
    Fork(i) \/ Close(i) \/ Open(i) \/ Lockf(i) \/ Write(i) \/ Signal(i) \/ LogInit(i)
        \/ Bind(i) \/ SslInit(i)

Next ==
    \/ \E i \in Inst : Start(i) \/ Step(i) \/ Flush(i) \/ ForkCgi(i) \/ Killed(i)
    \/ \E c \in cgi : Execve(c) \/ ChildFails(c) \/ CgiExits(c)
    \/ LingeringOver

\* The kernel schedules every process that is not waiting, and nothing in
\* main() waits before the first select().
Spec == Init /\ [][Next]_vars /\ \A i \in Inst : WF_vars(Step(i))
------------------------------------------------------------------------------
(* Properties.                                                             *)

\* Types.
TypeOK ==
    /\ pc \in [Inst -> Call \cup Gone \cup {"serve"}]
    /\ fds \in [Inst -> Seq(Descriptor)]
    /\ locked \in Inst \cup {none}
    /\ lock_file \in Seq(0..NL)
    /\ log_file \in Seq(Piece) /\ log_fp \in [Inst -> Nat] /\ written \in [Inst -> Nat]
    /\ cgi \subseteq Inst \X Nat /\ lingering \subseteq Port /\ upset \in BOOLEAN

\* The calls that only the first instance makes.
First == {"write", "signal", "log_init", "bind", "ssl_init", "serve"}

\* However the starts and the deaths of several instances interleave, at most
\* one is past lockf(), so at most one serves (daemonize.c:71).
OneServer == \A i, j \in Inst : pc[i] \in First /\ pc[j] \in First => i = j

\* From the write of its pid until it dies the first line of the lock file is
\* the pid of the instance that runs, whatever the file held before and whoever
\* tries to start meanwhile.
PidOfServer ==
    \A i \in Inst :
        pc[i] \in First \ {"write"} =>
            Len(lock_file) >= Len(Line(i)) /\ SubSeq(lock_file, 1, Len(Line(i))) = Line(i)

\* i's log is as i has written it, up to i's position.
LogIntact(i) ==
    /\ Len(log_file) >= log_fp[i]
    /\ \A m \in 1..log_fp[i] :
          \/ \E n \in 1..written[i] : log_file[m] = Own(i, n)
          \/ \E n \in 1..(written[i] + 1) : log_file[m] = Copy(i, n)
    /\ \A n \in 1..written[i] : \E m \in 1..log_fp[i] : log_file[m] = Own(i, n)
    /\ \A l, m \in 1..log_fp[i] :
          l < m /\ log_file[l][3] = "server" /\ log_file[m][3] = "server" =>
              log_file[l][2] < log_file[m][2]

\* Up to the position of the server its log has every piece that the server has
\* written, once and in order, and besides them only what children of its own
\* wrote that could not run the CGI program (with a copy of the beginning of a
\* piece).  Nobody truncates it there, overwrites it or leaves a hole: neither an
\* instance that is started meanwhile, nor a child of an earlier server, which has
\* the file open at another position (main.c:32, cgi.c:260).
LogOfServer == \A i \in Inst : At(i, "serve") => LogIntact(i)

\* A server has nothing of the terminal it was started from, and the log and the
\* listening sockets are open in it (main.c:27).
Detached ==
    \A i \in Inst :
        At(i, "serve") => fds[i] = <<"null", "null", "null", "lock", "log", "tcp", "ssl">>

\* Of the instances that are started at the same time, or after the server was
\* killed, not all give way: one of them serves, whatever an earlier server has
\* left in the lock file, unless it meets an error, the ports an old CGI program
\* holds or connections that linger on them.
OneOfThemServes ==
    (\E i \in Inst : pc[i] \in Call)
        ~> (\E i \in Inst : At(i, "serve")) \/ upset \/ cgi # {} \/ lingering # {}
==============================================================================
