--------------------------- MODULE DaemonizeProofs ---------------------------
(***************************************************************************)
(* Theorems about Daemonize, for any number of instances, any pids, any    *)
(* old contents of the lock file and any log: the types, that one instance *)
(* serves, and what the lock file, the log and the descriptors of the one  *)
(* that serves contain.                                                    *)
(*                                                                         *)
(* LockHeld is the core: whoever is past lockf() has the lock.  The        *)
(* invariants about the files follow from it, because an instance that has *)
(* not got the lock writes to neither of them.                             *)
(***************************************************************************)
EXTENDS Daemonize, SequenceTheorems, TLAPS

\* A function on an initial segment of the naturals is a sequence.
LEMMA SegmentIsSeq ==
    ASSUME NEW S, NEW n \in Nat, NEW f \in [1..n -> S]
    PROVE  f \in Seq(S) /\ Len(f) = n
  BY SeqDef

\* A sequence with one more element.
LEMMA AppendType ==
    ASSUME NEW S, NEW s \in Seq(S), NEW x \in S
    PROVE  Append(s, x) \in Seq(S) /\ Len(Append(s, x)) = Len(s) + 1
  OBVIOUS

\* A line is a sequence of characters.
LEMMA LineType ==
    ASSUME NEW i \in Inst
    PROVE  Line(i) \in Seq(0..NL) /\ Len(Line(i)) = Len(Digits[i]) + 1
  <1>1. Digits[i] \in Seq(0..9)
    BY DaemonAssumption
  <1>2. Digits[i] \in Seq(0..NL)
    BY <1>1 DEF NL
  <1> QED
    BY <1>2, AppendType DEF Line, NL

\* Written() puts the line at the beginning of the file.
LEMMA WrittenBegins ==
    ASSUME NEW line \in Seq(0..NL), lock_file \in Seq(0..NL)
    PROVE  /\ Written(line) \in Seq(0..NL)
           /\ Len(Written(line)) >= Len(line)
           /\ SubSeq(Written(line), 1, Len(line)) = line
  <1> DEFINE rest == SubSeq(lock_file, Len(line) + 1, Len(lock_file))
  <1>1. rest \in Seq(0..NL) /\ Len(rest) \in Nat
    <2>0. Len(line) \in Nat /\ Len(lock_file) \in Nat
      BY LenProperties
    <2>1. Len(line) + 1 \in Int /\ Len(lock_file) \in Int /\ Len(line) + 1 >= 1
      BY <2>0
    <2>2. \A i \in (Len(line) + 1)..Len(lock_file) : lock_file[i] \in 0..NL
      <3> SUFFICES ASSUME NEW i \in (Len(line) + 1)..Len(lock_file)
                   PROVE  lock_file[i] \in 0..NL
        OBVIOUS
      <3>1. i \in 1..Len(lock_file)
        BY <2>0
      <3> QED
        BY <3>1, ElementOfSeq
    <2>3. rest \in Seq(0..NL)
      BY <2>1, <2>2, SubSeqProperties
    <2> QED
      BY <2>3, LenProperties
  <1>2. /\ Written(line) \in Seq(0..NL)
        /\ Len(Written(line)) = Len(line) + Len(rest)
        /\ \A k \in 1..Len(line) : Written(line)[k] = line[k]
    BY <1>1, ConcatProperties DEF Written
  <1>3. Len(line) \in Nat /\ Len(line) <= Len(Written(line))
    BY <1>1, <1>2
  <1>4. \A k \in 1..Len(line) : Written(line)[k] \in 0..NL
    BY <1>2, ElementOfSeq
  <1>5. /\ SubSeq(Written(line), 1, Len(line)) \in Seq(0..NL)
        /\ Len(SubSeq(Written(line), 1, Len(line))) = Len(line)
        /\ \A k \in 1..Len(line) : SubSeq(Written(line), 1, Len(line))[k] = line[k]
    BY <1>2, <1>3, <1>4
  <1> QED
    BY <1>3, <1>2, <1>5, SeqEqual
------------------------------------------------------------------------------
\* One piece is written into the log.
LEMMA LogsType ==
    ASSUME TypeOK, NEW i \in Inst, NEW piece \in Piece, Logs(i, piece)
    PROVE  /\ log_file' \in Seq(Piece) /\ log_fp' \in [Inst -> Nat]
           /\ \A m \in 1..Len(log_file) : m # log_fp[i] + 1 => log_file'[m] = log_file[m]
           /\ log_file'[log_fp[i] + 1] = piece
           /\ log_fp' = [log_fp EXCEPT ![i] = @ + 1]
           /\ Len(log_file') >= Len(log_file) /\ Len(log_file') >= log_fp[i] + 1
  <1> DEFINE at == log_fp[i] + 1
             n == IF at > Len(log_file) THEN at ELSE Len(log_file)
             x(m) == CASE m = at -> piece
                       [] m # at /\ m \in DOMAIN log_file -> log_file[m]
                       [] OTHER -> Hole
  <1>1. at \in Nat /\ at >= 1 /\ Len(log_file) \in Nat /\ DOMAIN log_file = 1..Len(log_file)
    BY LenProperties DEF TypeOK
  <1>2. n \in Nat /\ n >= at /\ n >= Len(log_file)
    BY <1>1
  <1>3. \A m \in 1..n : x(m) \in Piece
    <2> SUFFICES ASSUME NEW m \in 1..n PROVE x(m) \in Piece
      OBVIOUS
    <2>1. m # at /\ m \in DOMAIN log_file => log_file[m] \in Piece
      BY ElementOfSeq DEF TypeOK
    <2>2. Hole \in Piece
      BY DEF Piece
    <2> HIDE DEF at
    <2> QED
      BY <2>1, <2>2
  <1>4. log_file' = [m \in 1..n |-> x(m)] /\ log_fp' = [log_fp EXCEPT ![i] = at]
    BY DEF Logs
  <1>5. log_file' \in Seq(Piece) /\ Len(log_file') = n
    <2>1. [m \in 1..n |-> x(m)] \in [1..n -> Piece]
      BY <1>3
    <2> HIDE DEF n, x
    <2> QED
      BY <1>2, <1>4, <2>1, SegmentIsSeq
  <1>6. \A m \in 1..n : log_file'[m] = x(m)
    BY <1>4
  <1>7. log_file'[at] = piece
    BY <1>1, <1>2, <1>6
  <1>8. \A m \in 1..Len(log_file) : m # at => log_file'[m] = log_file[m]
    BY <1>1, <1>2, <1>6
  <1>9. log_fp' \in [Inst -> Nat]
    BY <1>1, <1>4 DEF TypeOK
  <1> QED
    BY <1>2, <1>4, <1>5, <1>7, <1>8, <1>9

\* One piece of the server's own.
LEMMA LogsOwnType ==
    ASSUME TypeOK, NEW i \in Inst, LogsOwn(i)
    PROVE  /\ log_file' \in Seq(Piece) /\ log_fp' \in [Inst -> Nat]
           /\ written' \in [Inst -> Nat]
  <1>1. Own(i, written[i] + 1) \in Piece
    BY DEF Own, Piece, TypeOK
  <1>2. written' \in [Inst -> Nat]
    BY DEF LogsOwn, TypeOK
  <1> QED
    BY <1>1, <1>2, LogsType DEF LogsOwn

\* A process that ends leaves the types as they are.
LEMMA EndsType ==
    ASSUME TypeOK, NEW i \in Inst, NEW how \in Gone, Ends(i, how)
    PROVE  /\ pc' \in [Inst -> Call \cup Gone \cup {"serve"}]
           /\ fds' \in [Inst -> Seq(Descriptor)]
           /\ locked' \in Inst \cup {none}
  BY DEF Ends, Goes, TypeOK

\* A call that goes on, too.
LEMMA GoesType ==
    ASSUME TypeOK, NEW i \in Inst, NEW call \in Call \cup {"serve"}, Goes(i, call)
    PROVE  pc' \in [Inst -> Call \cup Gone \cup {"serve"}]
  BY DEF Goes, TypeOK

LEMMA OpensType ==
    ASSUME TypeOK, NEW i \in Inst, NEW x \in Descriptor, Opens(i, x)
    PROVE  fds' \in [Inst -> Seq(Descriptor)]
  BY AppendType DEF Opens, TypeOK

\* Types: Daemonize!TypeOK, the state of main() and of the files.
THEOREM TypeCorrect == Spec => []TypeOK
  <1>1. Init => TypeOK
    <2> SUFFICES ASSUME Init PROVE TypeOK
      OBVIOUS
    <2>1. lock_file \in Seq(0..NL)
      BY DaemonAssumption DEF Init
    <2>2. fds \in [Inst -> Seq(Descriptor)] /\ log_file \in Seq(Piece)
      BY DEF Init
    <2>3. log_fp \in [Inst -> Nat] /\ written \in [Inst -> Nat]
      BY DEF Init
    <2>4. pc \in [Inst -> Call \cup Gone \cup {"serve"}]
      BY DEF Init, Gone
    <2> QED
      BY <2>1, <2>2, <2>3, <2>4 DEF Init, TypeOK
  <1>2. TypeOK /\ [Next]_vars => TypeOK'
    <2> SUFFICES ASSUME TypeOK, [Next]_vars PROVE TypeOK'
      OBVIOUS
    <2> USE DEF TypeOK, logVars
    <2>1. CASE UNCHANGED vars
      BY <2>1 DEF vars
    <2>2. ASSUME NEW i \in Inst, Start(i) PROVE TypeOK'
      <3>1. PICK n \in {3, 4} : fds' = [fds EXCEPT ![i] = [m \in 1..n |-> "terminal"]]
        BY <2>2 DEF Start
      <3>2. [m \in 1..n |-> "terminal"] \in [1..n -> Descriptor] /\ n \in Nat
        BY DEF Descriptor
      <3>3. [m \in 1..n |-> "terminal"] \in Seq(Descriptor)
        BY <3>2, SegmentIsSeq
      <3>4. fds' \in [Inst -> Seq(Descriptor)]
        BY <3>1, <3>3
      <3>5. pc' \in [Inst -> Call \cup Gone \cup {"serve"}]
        BY <2>2, GoesType DEF Start, Call
      <3>6. UNCHANGED <<locked, lock_file, logVars, cgi, lingering>>
        BY <2>2 DEF Start
      <3>7. upset' = FALSE
        BY <2>2 DEF Start
      <3> QED
        BY <3>4, <3>5, <3>6, <3>7
    <2>3. ASSUME NEW i \in Inst, NEW how \in Gone, Fails(i, how) PROVE TypeOK'
      BY <2>3, EndsType DEF Fails
    <2>4. ASSUME NEW i \in Inst, Fork(i) PROVE TypeOK'
      <3>1. ASSUME Goes(i, "close") PROVE pc' \in [Inst -> Call \cup Gone \cup {"serve"}]
        BY <3>1, GoesType DEF Call
      <3> QED
        BY <2>3, <2>4, <3>1 DEF Fork, Gone
    <2>5. ASSUME NEW i \in Inst, Close(i) PROVE TypeOK'
      <3>1. pc' \in [Inst -> Call \cup Gone \cup {"serve"}]
        BY <2>5, GoesType DEF Call, Close
      <3>2. <<"null", "null", "null">> \in Seq(Descriptor)
        BY DEF Descriptor
      <3>3. fds' \in [Inst -> Seq(Descriptor)]
        BY <2>5, <3>2 DEF Close
      <3> QED
        BY <2>5, <3>1, <3>3 DEF Close
    <2>6. ASSUME NEW i \in Inst, Open(i) PROVE TypeOK'
      <3>1. ASSUME Goes(i, "lockf") PROVE pc' \in [Inst -> Call \cup Gone \cup {"serve"}]
        BY <3>1, GoesType DEF Call
      <3>2. ASSUME Opens(i, "lock") PROVE fds' \in [Inst -> Seq(Descriptor)]
        BY <3>2, OpensType DEF Descriptor
      <3> QED
        BY <2>3, <2>6, <3>1, <3>2 DEF Open, Gone
    <2>7. ASSUME NEW i \in Inst, Lockf(i) PROVE TypeOK'
      <3>1. CASE locked = none
        <4>1. pc' \in [Inst -> Call \cup Gone \cup {"serve"}]
          BY <2>7, <3>1, GoesType DEF Call, Lockf
        <4> QED
          BY <2>7, <3>1, <4>1 DEF Lockf
      <3>2. CASE locked # none
        BY <2>7, <3>2, EndsType DEF Lockf, Gone
      <3> QED
        BY <3>1, <3>2
    <2>8. ASSUME NEW i \in Inst, Write(i) PROVE TypeOK'
      <3>1. pc' \in [Inst -> Call \cup Gone \cup {"serve"}]
        BY <2>8, GoesType DEF Call, Write
      <3>2. lock_file' \in Seq(0..NL)
        BY <2>8, LineType, WrittenBegins DEF Write
      <3> QED
        BY <2>8, <3>1, <3>2 DEF Write
    <2>9. ASSUME NEW i \in Inst, Signal(i) PROVE TypeOK'
      <3>1. pc' \in [Inst -> Call \cup Gone \cup {"serve"}]
        BY <2>9, GoesType DEF Call, Signal
      <3> QED
        BY <2>9, <3>1 DEF Signal
    <2>10. ASSUME NEW i \in Inst, LogInit(i) PROVE TypeOK'
      <3>1. ASSUME Goes(i, "bind") PROVE pc' \in [Inst -> Call \cup Gone \cup {"serve"}]
        BY <3>1, GoesType DEF Call
      <3>2. ASSUME Opens(i, "log") PROVE fds' \in [Inst -> Seq(Descriptor)]
        BY <3>2, OpensType DEF Descriptor
      <3>3. <<>> \in Seq(Piece)
        OBVIOUS
      <3>4. CASE Fails(i, "failure")
        BY <2>3, <3>4 DEF Gone
      <3>5. CASE /\ Goes(i, "bind") /\ Opens(i, "log") /\ log_file' = <<>>
                 /\ UNCHANGED <<locked, lock_file, log_fp, written, cgi, lingering, upset>>
        BY <3>1, <3>2, <3>3, <3>5
      <3> QED
        BY <2>10, <3>4, <3>5 DEF LogInit
    <2>11. ASSUME NEW i \in Inst, Bind(i) PROVE TypeOK'
      <3>1. ASSUME Goes(i, "ssl_init") PROVE pc' \in [Inst -> Call \cup Gone \cup {"serve"}]
        BY <3>1, GoesType DEF Call
      <3>2. ASSUME Opens(i, "tcp") PROVE fds' \in [Inst -> Seq(Descriptor)]
        BY <3>2, OpensType DEF Descriptor, Port
      <3>3. CASE Taken("tcp")
        BY <2>11, <3>3, EndsType, LogsOwnType DEF Bind, StartFails, Gone
      <3>4. CASE ~Taken("tcp")
        BY <2>11, <3>4, <3>1, <3>2 DEF Bind
      <3> QED
        BY <3>3, <3>4
    <2>12. ASSUME NEW i \in Inst, SslInit(i) PROVE TypeOK'
      <3>1. ASSUME Goes(i, "serve") PROVE pc' \in [Inst -> Call \cup Gone \cup {"serve"}]
        BY <3>1, GoesType
      <3>2. ASSUME Opens(i, "ssl") PROVE fds' \in [Inst -> Seq(Descriptor)]
        BY <3>2, OpensType DEF Descriptor, Port
      <3>3. UNCHANGED <<lock_file, cgi, lingering>> /\ upset' \in BOOLEAN
        BY <2>12 DEF SslInit
      <3>4. CASE StartFails(i)
        BY <3>3, <3>4, EndsType, LogsOwnType DEF StartFails, Gone
      <3>5. CASE Goes(i, "serve") /\ Opens(i, "ssl") /\ UNCHANGED <<locked, logVars>>
        BY <3>1, <3>2, <3>3, <3>5
      <3> QED
        BY <2>12, <3>4, <3>5 DEF SslInit
    <2>13. ASSUME NEW i \in Inst, Flush(i) PROVE TypeOK'
      BY <2>13, LogsOwnType DEF Flush
    <2>14. ASSUME NEW i \in Inst, ForkCgi(i) PROVE TypeOK'
      BY <2>14 DEF ForkCgi
    <2>15. ASSUME NEW i \in Inst, Killed(i) PROVE TypeOK'
      <3>1. lingering' \subseteq Port
        BY <2>15 DEF Killed
      <3> QED
        BY <2>15, <3>1, EndsType DEF Killed, Gone
    <2>17. ASSUME NEW c \in cgi, Execve(c) \/ CgiExits(c) PROVE TypeOK'
      BY <2>17 DEF Execve, CgiExits
    <2>18. ASSUME NEW c \in cgi, ChildFails(c) PROVE TypeOK'
      <3>1. c[1] \in Inst /\ c[2] \in Nat /\ cgi' \subseteq Inst \X Nat
        BY <2>18 DEF ChildFails
      <3>2. Copy(c[1], c[2]) \in Piece
        BY <3>1 DEF Copy, Piece
      <3>3. CASE Logs(c[1], Copy(c[1], c[2])) /\ UNCHANGED written
        BY <2>18, <3>1, <3>2, <3>3, LogsType DEF ChildFails
      <3>4. CASE UNCHANGED logVars
        BY <2>18, <3>1, <3>4 DEF ChildFails
      <3> QED
        BY <2>18, <3>3, <3>4 DEF ChildFails
    <2>16. CASE LingeringOver
      BY <2>16 DEF LingeringOver
    <2> QED
      BY <2>1, <2>2, <2>4, <2>5, <2>6, <2>7, <2>8, <2>9, <2>10, <2>11, <2>12, <2>13, <2>14,
         <2>15, <2>16, <2>17, <2>18 DEF Next, Step
  <1> QED
    BY <1>1, <1>2, PTL DEF Spec
------------------------------------------------------------------------------
(* The lock.                                                               *)

\* Whoever makes one of the calls of the first instance has the lock.
LockHeld == \A i \in Inst : pc[i] \in First => locked = i

\* A process that ends loses the lock only if it had it.
LEMMA EndsLock ==
    ASSUME TypeOK, LockHeld, NEW i \in Inst, NEW how \in Gone, Ends(i, how)
    PROVE  LockHeld'
  BY DEF LockHeld, Ends, Goes, TypeOK, Gone, First

\* A call that leaves the lock alone, made by an instance that was past lockf()
\* or does not get there by it.
LEMMA GoesLock ==
    ASSUME TypeOK, LockHeld, NEW i \in Inst, NEW call, Goes(i, call),
           pc[i] \in First \/ call \notin First, UNCHANGED locked
    PROVE  LockHeld'
  BY DEF LockHeld, Goes, TypeOK

\* LockHeld is inductive.
LEMMA LockStep ==
    ASSUME TypeOK, LockHeld, [Next]_vars
    PROVE  LockHeld'
  <1>1. CASE UNCHANGED vars
    BY <1>1 DEF vars, LockHeld
  <1>2. ASSUME NEW i \in Inst, NEW how \in Gone, Fails(i, how) PROVE LockHeld'
    BY <1>2, EndsLock DEF Fails
  <1>3. ASSUME NEW i \in Inst, Start(i) \/ Close(i) PROVE LockHeld'
    BY <1>3, GoesLock DEF Start, Close, First
  <1>4. ASSUME NEW i \in Inst, Fork(i) \/ Open(i) PROVE LockHeld'
    <2>1. CASE Fails(i, "failure")
      BY <1>2, <2>1 DEF Gone
    <2>2. CASE (Goes(i, "close") \/ Goes(i, "lockf")) /\ UNCHANGED locked
      BY <2>2, GoesLock DEF First
    <2> QED
      BY <1>4, <2>1, <2>2 DEF Fork, Open
  <1>5. ASSUME NEW i \in Inst, Lockf(i) PROVE LockHeld'
    <2>1. CASE locked = none
      <3>1. \A j \in Inst : pc[j] \notin First
        BY <2>1, DaemonAssumption DEF LockHeld
      <3> QED
        BY <1>5, <2>1, <3>1 DEF Lockf, Goes, TypeOK, LockHeld
    <2>2. CASE locked # none
      BY <1>5, <2>2, EndsLock DEF Lockf, Gone
    <2> QED
      BY <2>1, <2>2
  <1>6. ASSUME NEW i \in Inst, Write(i) \/ Signal(i) PROVE LockHeld'
    BY <1>6, GoesLock DEF Write, Signal, First, At
  <1>7. ASSUME NEW i \in Inst, LogInit(i) PROVE LockHeld'
    <2>1. CASE Fails(i, "failure")
      BY <1>2, <2>1 DEF Gone
    <2>2. CASE Goes(i, "bind") /\ UNCHANGED locked
      BY <1>7, <2>2, GoesLock DEF LogInit, At, First
    <2> QED
      BY <1>7, <2>1, <2>2 DEF LogInit
  <1>8. ASSUME NEW i \in Inst, Bind(i) PROVE LockHeld'
    <2>1. CASE Taken("tcp")
      BY <1>8, <2>1, EndsLock DEF Bind, StartFails, Gone
    <2>2. CASE ~Taken("tcp")
      BY <1>8, <2>2, GoesLock DEF Bind, At, First
    <2> QED
      BY <2>1, <2>2
  <1>9. ASSUME NEW i \in Inst, SslInit(i) PROVE LockHeld'
    <2>1. CASE StartFails(i)
      BY <2>1, EndsLock DEF StartFails, Gone
    <2>2. CASE Goes(i, "serve") /\ UNCHANGED locked
      BY <1>9, <2>2, GoesLock DEF SslInit, At, First
    <2> QED
      BY <1>9, <2>1, <2>2 DEF SslInit
  <1>10. CASE UNCHANGED <<pc, locked>>
    BY <1>10 DEF LockHeld
  <1>11. ASSUME NEW i \in Inst, Killed(i) PROVE LockHeld'
    BY <1>11, EndsLock DEF Killed, Gone
  <1> QED
    BY <1>1, <1>3, <1>4, <1>5, <1>6, <1>7, <1>8, <1>9, <1>10, <1>11
    DEF Next, Step, Flush, ForkCgi, Execve, ChildFails, CgiExits, LingeringOver

\* Nobody but the holder is past lockf().
LEMMA LockAlways == Spec => []LockHeld
  <1>1. Init => LockHeld
    BY DEF Init, LockHeld, First
  <1> QED
    BY <1>1, LockStep, TypeCorrect, PTL DEF Spec

\* At most one instance is past lockf() (daemonize.c:71, "only first instance
\* continues"), however many are started and killed.
THEOREM OneServerAlways == Spec => []OneServer
  <1>1. LockHeld => OneServer
    BY DEF LockHeld, OneServer
  <1> QED
    BY <1>1, LockAlways, PTL
------------------------------------------------------------------------------
(* The lock file.                                                          *)

\* i's line is the first of the lock file.
Recorded(i) ==
    Len(lock_file) >= Len(Line(i)) /\ SubSeq(lock_file, 1, Len(Line(i))) = Line(i)

\* A step that leaves the lock file alone, and that brings no instance past
\* write(), keeps the pid.
LEMMA PidKept ==
    ASSUME PidOfServer, lock_file' = lock_file,
           \A j \in Inst : pc'[j] \in First \ {"write"} => pc[j] \in First \ {"write"}
    PROVE  PidOfServer'
  BY DEF PidOfServer, Line

\* PidOfServer is preserved by every step.
LEMMA PidStep ==
    ASSUME TypeOK, LockHeld, PidOfServer, [Next]_vars
    PROVE  PidOfServer'
  <1>1. ASSUME NEW i \in Inst, Write(i) PROVE PidOfServer'
    <2>1. lock_file' = Written(Line(i)) /\ pc' = [pc EXCEPT ![i] = "signal"]
      BY <1>1 DEF Write, Goes
    <2>2. \A j \in Inst : pc[j] \in First => j = i
      BY <1>1 DEF Write, At, LockHeld, First
    <2>3. Recorded(i)'
      BY <2>1, LineType, WrittenBegins DEF Recorded, TypeOK, Line
    <2>4. \A j \in Inst : pc'[j] \in First \ {"write"} => j = i
      BY <2>1, <2>2 DEF TypeOK
    <2> QED
      BY <2>3, <2>4 DEF PidOfServer, Recorded
  <1>2. ASSUME NEW i \in Inst, NEW how \in Gone, Ends(i, how), UNCHANGED lock_file
        PROVE  PidOfServer'
    BY <1>2, PidKept DEF Ends, Goes, Gone, First, TypeOK
  <1>3. ASSUME NEW i \in Inst, NEW call, Goes(i, call), UNCHANGED lock_file,
               call \notin First \ {"write"} \/ pc[i] \in First \ {"write"}
        PROVE  PidOfServer'
    BY <1>3, PidKept DEF Goes, TypeOK
  <1>4. CASE UNCHANGED <<pc, lock_file>>
    BY <1>4, PidKept
  <1>5. ASSUME NEW i \in Inst, Start(i) \/ Close(i) PROVE PidOfServer'
    BY <1>3, <1>5 DEF Start, Close, First
  <1>6. ASSUME NEW i \in Inst, Fork(i) \/ Open(i) \/ Lockf(i) PROVE PidOfServer'
    <2>1. \/ Ends(i, "failure") \/ Ends(i, "success")
          \/ Goes(i, "close") \/ Goes(i, "lockf") \/ Goes(i, "write")
      BY <1>6 DEF Fork, Open, Lockf, Fails
    <2>2. UNCHANGED lock_file
      BY <1>6 DEF Fork, Open, Lockf, Fails
    <2> QED
      BY <1>2, <1>3, <2>1, <2>2 DEF Gone, First
  <1>7. ASSUME NEW i \in Inst, Signal(i) \/ LogInit(i) \/ Bind(i) \/ SslInit(i)
        PROVE  PidOfServer'
    <2>1. pc[i] \in First \ {"write"} /\ UNCHANGED lock_file
      BY <1>7 DEF Signal, LogInit, Bind, SslInit, Fails, At, First
    <2>2. \/ Ends(i, "failure") \/ Ends(i, "success")
          \/ \E call \in {"log_init", "bind", "ssl_init", "serve"} : Goes(i, call)
      BY <1>7 DEF Signal, LogInit, Bind, SslInit, StartFails, Fails
    <2> QED
      BY <1>2, <1>3, <2>1, <2>2 DEF Gone
  <1>8. ASSUME NEW i \in Inst, Killed(i) PROVE PidOfServer'
    BY <1>2, <1>8 DEF Killed, Gone
  <1> QED
    BY <1>1, <1>4, <1>5, <1>6, <1>7, <1>8
    DEF Next, Step, Flush, ForkCgi, Execve, ChildFails, CgiExits, LingeringOver, vars

\* The first line of the lock file is the server's pid: PidOfServer, about what
\* daemonize() writes into a file that it does not truncate.
THEOREM PidOfServerAlways == Spec => []PidOfServer
  <1>1. Init => PidOfServer
    BY DEF Init, PidOfServer, First
  <1> QED
    BY <1>1, PidStep, LockAlways, TypeCorrect, PTL DEF Spec
------------------------------------------------------------------------------
(* The log.                                                                *)

\* Before it serves an instance has written nothing and has no child; only the
\* server has children, and no copy of a buffer is newer than its own.
LogInv ==
    \A i \in Inst :
        /\ pc[i] \in Call \cup {"off"} =>
              log_fp[i] = 0 /\ written[i] = 0 /\ \A c \in cgi : c[1] # i
        /\ pc[i] = "serve" =>
              LogIntact(i) /\ \A c \in cgi : c[1] = i /\ c[2] <= written[i] + 1

\* Nothing was written, nothing is to be found.
LEMMA EmptyIntact ==
    ASSUME TypeOK, NEW i \in Inst, log_fp[i] = 0, written[i] = 0
    PROVE  LogIntact(i)
  <1>1. Len(log_file) \in Nat
    BY LenProperties DEF TypeOK
  <1> QED
    BY <1>1 DEF LogIntact

\* A piece at the server's position, its next one or a copy of a beginning, is
\* behind everything that it or its children have written.
LEMMA LogsIntact ==
    ASSUME TypeOK, NEW i \in Inst, LogIntact(i), NEW piece \in Piece, Logs(i, piece),
           \/ piece = Own(i, written[i] + 1) /\ written' = [written EXCEPT ![i] = @ + 1]
           \/ (\E n \in 1..(written[i] + 1) : piece = Copy(i, n)) /\ UNCHANGED written
    PROVE  LogIntact(i)'
  <1> DEFINE fp == log_fp[i]
             w == written[i]
  <1>1. /\ fp \in Nat /\ w \in Nat /\ Len(log_file) \in Nat /\ Len(log_file) >= fp
        /\ log_fp'[i] = fp + 1
    BY LenProperties, LogsType DEF TypeOK, LogIntact
  <1>2. \A m \in 1..fp : log_file'[m] = log_file[m]
    <2>1. \A m \in 1..Len(log_file) : m # fp + 1 => log_file'[m] = log_file[m]
      BY LogsType
    <2>2. \A m \in 1..fp : m \in 1..Len(log_file) /\ m # fp + 1
      BY <1>1
    <2> QED
      BY <2>1, <2>2
  <1>3. log_file'[fp + 1] = piece /\ Len(log_file') >= fp + 1
    BY LogsType
  <1>4. written'[i] \in Nat /\ written'[i] >= w
    BY <1>1 DEF TypeOK
  <1>5. \A m \in 1..fp : \/ \E n \in 1..w : log_file[m] = Own(i, n)
                         \/ \E n \in 1..(w + 1) : log_file[m] = Copy(i, n)
    BY DEF LogIntact
  <1>6. \A m \in 1..fp : log_file[m][3] = "server" => log_file[m][2] \in 1..w
    BY <1>5 DEF Own, Copy
  <1>7. \A m \in 1..(fp + 1) : m = fp + 1 \/ m \in 1..fp
    BY <1>1
  <1>8. \/ \E n \in 1..written'[i] : piece = Own(i, n)
        \/ \E n \in 1..(written'[i] + 1) : piece = Copy(i, n)
    <2>1. CASE piece = Own(i, w + 1) /\ written' = [written EXCEPT ![i] = @ + 1]
      <3>1. written'[i] = w + 1 /\ w + 1 \in 1..(w + 1)
        BY <1>1, <2>1 DEF TypeOK
      <3> QED
        BY <2>1, <3>1
    <2>2. CASE (\E n \in 1..(w + 1) : piece = Copy(i, n)) /\ UNCHANGED written
      BY <2>2
    <2> QED
      BY <2>1, <2>2
  <1>9. \A m \in 1..(fp + 1) : \/ \E n \in 1..written'[i] : log_file'[m] = Own(i, n)
                               \/ \E n \in 1..(written'[i] + 1) : log_file'[m] = Copy(i, n)
    <2> SUFFICES ASSUME NEW m \in 1..(fp + 1)
                 PROVE  \/ \E n \in 1..written'[i] : log_file'[m] = Own(i, n)
                        \/ \E n \in 1..(written'[i] + 1) : log_file'[m] = Copy(i, n)
      OBVIOUS
    <2>1. CASE m = fp + 1
      BY <1>3, <1>8, <2>1
    <2>2. CASE m \in 1..fp
      <3>1. 1..w \subseteq 1..written'[i] /\ 1..(w + 1) \subseteq 1..(written'[i] + 1)
        BY <1>1, <1>4
      <3> QED
        BY <1>2, <1>5, <2>2, <3>1
    <2> QED
      BY <1>7, <2>1, <2>2
  <1>10. \A n \in 1..written'[i] : \E m \in 1..(fp + 1) : log_file'[m] = Own(i, n)
    <2> SUFFICES ASSUME NEW n \in 1..written'[i]
                 PROVE  \E m \in 1..(fp + 1) : log_file'[m] = Own(i, n)
      OBVIOUS
    <2>1. CASE n \in 1..w
      <3>1. PICK m \in 1..fp : log_file[m] = Own(i, n)
        BY <2>1 DEF LogIntact
      <3>2. m \in 1..(fp + 1)
        BY <1>1
      <3> QED
        BY <1>2, <3>1, <3>2
    <2>2. CASE n \notin 1..w
      <3>1. n = w + 1 /\ piece = Own(i, w + 1)
        BY <1>1, <2>2 DEF TypeOK
      <3>2. fp + 1 \in 1..(fp + 1)
        BY <1>1
      <3> QED
        BY <1>3, <3>1, <3>2
    <2> QED
      BY <2>1, <2>2
  <1>11. \A l, m \in 1..(fp + 1) :
            l < m /\ log_file'[l][3] = "server" /\ log_file'[m][3] = "server" =>
                log_file'[l][2] < log_file'[m][2]
    <2> SUFFICES ASSUME NEW l \in 1..(fp + 1), NEW m \in 1..(fp + 1), l < m,
                        log_file'[l][3] = "server", log_file'[m][3] = "server"
                 PROVE  log_file'[l][2] < log_file'[m][2]
      OBVIOUS
    <2>1. l \in 1..fp
      BY <1>1
    <2>2. log_file'[l][2] \in 1..w
      BY <1>2, <1>6, <2>1
    <2>3. CASE m \in 1..fp
      <3>1. log_file[l][2] < log_file[m][2]
        BY <1>2, <2>1, <2>3 DEF LogIntact
      <3> QED
        BY <1>2, <2>1, <2>3, <3>1
    <2>4. CASE m = fp + 1
      <3>1. piece[3] = "server"
        BY <1>3, <2>4
      <3>2. piece = Own(i, w + 1)
        BY <3>1 DEF Copy
      <3>3. log_file'[m][2] = w + 1
        BY <1>3, <2>4, <3>2 DEF Own
      <3> QED
        BY <1>1, <2>2, <3>3
    <2> QED
      BY <1>7, <2>3, <2>4
  <1> QED
    BY <1>1, <1>3, <1>9, <1>10, <1>11 DEF LogIntact

\* A step that leaves the log alone, and the children, and by which no instance
\* comes to serve nor starts with something written.
LEMMA LogKept ==
    ASSUME LogInv, UNCHANGED <<logVars, cgi>>,
           \A j \in Inst : /\ pc'[j] = "serve" => pc[j] = "serve"
                           /\ pc'[j] \in Call \cup {"off"} => pc[j] \in Call \cup {"off"}
    PROVE  LogInv'
  BY DEF LogInv, LogIntact, logVars

\* A step in which only i changes the log.  No other instance serves.
LEMMA LogOne ==
    ASSUME TypeOK, LogInv, NEW i \in Inst,
           \A j \in Inst \ {i} : /\ pc[j] # "serve" /\ pc'[j] = pc[j]
                                 /\ log_fp'[j] = log_fp[j] /\ written'[j] = written[j],
           \A c \in cgi' : c \in cgi \/ c[1] = i,
           pc'[i] \in Call \cup {"off"} =>
               log_fp'[i] = 0 /\ written'[i] = 0 /\ \A c \in cgi' : c[1] # i,
           pc'[i] = "serve" =>
               LogIntact(i)' /\ \A c \in cgi' : c[1] = i /\ c[2] <= written'[i] + 1
    PROVE  LogInv'
  <1> SUFFICES ASSUME NEW j \in Inst
               PROVE  /\ pc'[j] \in Call \cup {"off"} =>
                            log_fp'[j] = 0 /\ written'[j] = 0 /\ \A c \in cgi' : c[1] # j
                      /\ pc'[j] = "serve" =>
                            LogIntact(j)' /\ \A c \in cgi' : c[1] = j /\ c[2] <= written'[j] + 1
    BY DEF LogInv
  <1>1. CASE j = i
    BY <1>1
  <1>2. CASE j # i
    BY <1>2 DEF LogInv
  <1> QED
    BY <1>1, <1>2

\* LogInv is inductive.
LEMMA LogStep ==
    ASSUME TypeOK, LockHeld, LogInv, [Next]_vars
    PROVE  LogInv'
  <1>1. CASE UNCHANGED <<pc, logVars, cgi>>
    BY <1>1, LogKept
  <1>2. ASSUME NEW i \in Inst, NEW how \in {"success", "failure", "killed"}, Ends(i, how),
               UNCHANGED <<logVars, cgi>>
        PROVE  LogInv'
    BY <1>2, LogKept DEF Ends, Goes, TypeOK, Call
  <1>3. ASSUME NEW i \in Inst, NEW call \in Call, Goes(i, call), pc[i] \in Call \cup {"off"},
               UNCHANGED <<logVars, cgi>>
        PROVE  LogInv'
    BY <1>3, LogKept DEF Goes, TypeOK, Call
  <1>4. ASSUME NEW i \in Inst, pc[i] \in First PROVE \A j \in Inst \ {i} : pc[j] \notin First
    BY <1>4 DEF LockHeld
  <1>5. ASSUME NEW i \in Inst, Start(i) \/ Close(i) \/ Write(i) \/ Signal(i) PROVE LogInv'
    <2>1. UNCHANGED <<logVars, cgi>> /\ pc[i] \in Call \cup {"off"}
      BY <1>5 DEF Start, Close, Write, Signal, At, Call
    <2>2. \E call \in Call : Goes(i, call)
      BY <1>5 DEF Start, Close, Write, Signal, Call
    <2> QED
      BY <1>3, <2>1, <2>2
  <1>6. ASSUME NEW i \in Inst, Fork(i) \/ Open(i) \/ Lockf(i) PROVE LogInv'
    <2>1. UNCHANGED <<logVars, cgi>> /\ pc[i] \in Call
      BY <1>6 DEF Fork, Open, Lockf, Fails, At, Call
    <2>2. \/ Ends(i, "failure") \/ Ends(i, "success")
          \/ \E call \in Call : Goes(i, call)
      BY <1>6 DEF Fork, Open, Lockf, Fails, Call
    <2> QED
      BY <1>2, <1>3, <2>1, <2>2
  <1>7. ASSUME NEW i \in Inst, LogInit(i) PROVE LogInv'
    <2>1. CASE Fails(i, "failure")
      BY <1>2, <2>1 DEF Fails
    <2>2. CASE Goes(i, "bind") /\ UNCHANGED <<log_fp, written, cgi>>
      <3>1. \A j \in Inst \ {i} : pc[j] # "serve"
        BY <1>4, <1>7 DEF LogInit, At, First
      <3>2. pc[i] = "log_init" /\ pc' = [pc EXCEPT ![i] = "bind"]
        BY <1>7, <2>2 DEF LogInit, At, Goes
      <3>3. log_fp[i] = 0 /\ written[i] = 0 /\ \A c \in cgi : c[1] # i
        BY <3>2 DEF LogInv, Call
      <3> QED
        BY <2>2, <3>1, <3>2, <3>3, LogOne DEF TypeOK
    <2> QED
      BY <1>7, <2>1, <2>2 DEF LogInit
  <1>8. ASSUME NEW i \in Inst, StartFails(i), pc[i] \in First, UNCHANGED cgi PROVE LogInv'
    <2>1. \A j \in Inst \ {i} : pc[j] # "serve"
      BY <1>4, <1>8 DEF First
    <2>2. pc' = [pc EXCEPT ![i] = "success"]
      BY <1>8 DEF StartFails, Ends, Goes
    <2>3. \A j \in Inst \ {i} : log_fp'[j] = log_fp[j] /\ written'[j] = written[j]
      BY <1>8 DEF StartFails, LogsOwn, Logs, TypeOK
    <2> QED
      BY <1>8, <2>1, <2>2, <2>3, LogOne DEF TypeOK, Call
  <1>9. ASSUME NEW i \in Inst, Bind(i) PROVE LogInv'
    <2>1. pc[i] = "bind" /\ UNCHANGED cgi
      BY <1>9 DEF Bind, At
    <2>2. StartFails(i) \/ (Goes(i, "ssl_init") /\ UNCHANGED logVars)
      BY <1>9 DEF Bind
    <2> QED
      BY <1>3, <1>8, <2>1, <2>2 DEF First, Call
  <1>10. ASSUME NEW i \in Inst, SslInit(i) PROVE LogInv'
    <2>1. pc[i] = "ssl_init" /\ UNCHANGED cgi
      BY <1>10 DEF SslInit, At
    <2>2. CASE StartFails(i)
      BY <1>8, <2>1, <2>2 DEF First
    <2>3. CASE ~Taken("ssl") /\ Goes(i, "serve") /\ UNCHANGED logVars
      <3>1. pc' = [pc EXCEPT ![i] = "serve"] /\ cgi = {}
        BY <2>3 DEF Goes, Taken
      <3>2. log_fp[i] = 0 /\ written[i] = 0
        BY <2>1 DEF LogInv, Call
      <3>3. LogIntact(i)'
        BY <2>3, <3>2, EmptyIntact DEF LogIntact, logVars
      <3>4. \A j \in Inst \ {i} : pc[j] # "serve"
        BY <1>4, <2>1 DEF First
      <3> QED
        BY <2>1, <2>3, <3>1, <3>3, <3>4, LogOne DEF TypeOK, Call, logVars
    <2> QED
      BY <1>10, <2>2, <2>3 DEF SslInit
  <1>11. ASSUME NEW i \in Inst, NEW piece \in Piece, pc[i] = "serve", Logs(i, piece),
                UNCHANGED pc, cgi' \subseteq cgi,
                \/ piece = Own(i, written[i] + 1) /\ written' = [written EXCEPT ![i] = @ + 1]
                \/ (\E n \in 1..(written[i] + 1) : piece = Copy(i, n)) /\ UNCHANGED written
         PROVE  LogInv'
    <2>1. \A j \in Inst \ {i} : pc[j] # "serve"
      BY <1>4, <1>11 DEF First
    <2>2. LogIntact(i)'
      BY <1>11, LogsIntact DEF LogInv
    <2>3. \A j \in Inst \ {i} : log_fp'[j] = log_fp[j] /\ written'[j] = written[j]
      BY <1>11 DEF Logs, TypeOK
    <2>4. written[i] \in Nat /\ written'[i] \in Nat /\ written'[i] >= written[i]
      BY <1>11 DEF TypeOK
    <2>5. \A c \in cgi' : c \in cgi /\ c[1] = i /\ c[2] <= written'[i] + 1
      <3>1. \A c \in cgi : c[1] = i /\ c[2] \in Nat /\ c[2] <= written[i] + 1
        BY <1>11 DEF LogInv, TypeOK
      <3> QED
        BY <1>11, <2>4, <3>1
    <2> QED
      BY <1>11, <2>1, <2>2, <2>3, <2>5, LogOne DEF Call
  <1>12. ASSUME NEW i \in Inst, Flush(i) PROVE LogInv'
    <2>1. Own(i, written[i] + 1) \in Piece
      BY DEF Own, Piece, TypeOK
    <2> QED
      BY <1>11, <1>12, <2>1 DEF Flush, LogsOwn, At
  <1>13. ASSUME NEW i \in Inst, ForkCgi(i) PROVE LogInv'
    <2>1. pc[i] = "serve" /\ UNCHANGED <<pc, logVars>>
      BY <1>13 DEF ForkCgi, At
    <2>2. \A j \in Inst \ {i} : pc[j] # "serve"
      BY <1>4, <2>1 DEF First
    <2>3. \A c \in cgi' : c \in cgi \/ c = <<i, written[i] + 1>>
      BY <1>13 DEF ForkCgi
    <2>4. LogIntact(i)'
      BY <2>1 DEF LogInv, LogIntact, logVars
    <2>5. \A c \in cgi' : c[1] = i /\ c[2] <= written'[i] + 1
      BY <2>1, <2>3 DEF LogInv, TypeOK, logVars
    <2> QED
      BY <2>1, <2>2, <2>3, <2>4, <2>5, LogOne DEF Call, logVars
  <1>14. ASSUME NEW c \in cgi, cgi' = cgi \ {c} \/ cgi' = (cgi \ {c}) \cup {<<c[1], 0>>},
                UNCHANGED <<pc, logVars>>
         PROVE  LogInv'
    <2>1. \A d \in cgi' : \E e \in cgi : d[1] = e[1] /\ (d[2] = e[2] \/ d[2] = 0)
      BY <1>14
    <2>2. \A i \in Inst : LogIntact(i) => LogIntact(i)'
      BY <1>14 DEF LogIntact, logVars
    <2>3. \A i \in Inst : 0 <= written[i] + 1
      BY DEF TypeOK
    <2> QED
      BY <1>14, <2>1, <2>2, <2>3 DEF LogInv, logVars
  <1>15. ASSUME NEW c \in cgi, ChildFails(c) PROVE LogInv'
    <2>1. CASE UNCHANGED logVars
      BY <1>14, <1>15, <2>1 DEF ChildFails
    <2>2. CASE Logs(c[1], Copy(c[1], c[2])) /\ UNCHANGED written
      <3> DEFINE i == c[1]
      <3>1. i \in Inst /\ c[2] \in Nat /\ c[2] > 0 /\ UNCHANGED pc /\ cgi' \subseteq cgi
        BY <1>15 DEF ChildFails, TypeOK
      <3>2. Copy(i, c[2]) \in Piece
        BY <3>1 DEF Copy, Piece
      <3>3. CASE pc[i] = "serve"
        <4>1. c[2] \in 1..(written[i] + 1)
          BY <3>1, <3>3 DEF LogInv, TypeOK
        <4> QED
          BY <1>11, <2>2, <3>1, <3>2, <3>3, <4>1
      <3>4. CASE pc[i] # "serve"
        <4>1. \A j \in Inst : pc[j] # "serve"
          BY <3>1, <3>4 DEF LogInv
        <4>2. pc[i] \notin Call \cup {"off"}
          BY <3>1 DEF LogInv
        <4>3. \A j \in Inst \ {i} : log_fp'[j] = log_fp[j] /\ written'[j] = written[j]
          BY <2>2 DEF Logs, TypeOK
        <4> QED
          BY <3>1, <3>4, <4>1, <4>2, <4>3, LogOne
      <3> QED
        BY <3>3, <3>4
    <2> QED
      BY <1>15, <2>1, <2>2 DEF ChildFails
  <1>16. ASSUME NEW i \in Inst, Killed(i) PROVE LogInv'
    BY <1>2, <1>16 DEF Killed
  <1>17. ASSUME NEW c \in cgi, Execve(c) \/ CgiExits(c) PROVE LogInv'
    BY <1>14, <1>17 DEF Execve, CgiExits
  <1> QED
    BY <1>1, <1>5, <1>6, <1>7, <1>9, <1>10, <1>12, <1>13, <1>15, <1>16, <1>17
    DEF Next, Step, LingeringOver, vars

\* Up to its position the server's log holds what the server has written, once and
\* in order, and besides it only what children of its own wrote that could not run
\* the CGI program (LogOfServer), although every instance opens the log with "w" and
\* a child of an earlier one may still have a position in it.
THEOREM LogOfServerAlways == Spec => []LogOfServer
  <1>1. Init => LogInv
    BY DEF Init, LogInv
  <1>2. LogInv => LogOfServer
    BY DEF LogInv, LogOfServer, At
  <1> QED
    BY <1>1, <1>2, LogStep, LockAlways, TypeCorrect, PTL DEF Spec
------------------------------------------------------------------------------
(* The descriptors.                                                        *)

\* What an instance has open when it is about to make a call.
Table(call) ==
    CASE call = "open"     -> <<"null", "null", "null">>
      [] call = "bind"     -> <<"null", "null", "null", "lock", "log">>
      [] call = "ssl_init" -> <<"null", "null", "null", "lock", "log", "tcp">>
      [] call = "serve"    -> <<"null", "null", "null", "lock", "log", "tcp", "ssl">>
      [] OTHER             -> <<"null", "null", "null", "lock">>

TableInv ==
    \A i \in Inst : pc[i] \in {"open", "lockf"} \cup First =>
        fds[i] = Table(pc[i])

\* Append(), by the elements.
LEMMA AppendsTo ==
    ASSUME NEW S, NEW s \in Seq(S), NEW t \in Seq(S), NEW x \in S,
           Len(t) = Len(s) + 1, t[Len(s) + 1] = x, \A i \in 1..Len(s) : t[i] = s[i]
    PROVE  Append(s, x) = t
  <1>1. /\ Append(s, x) \in Seq(S) /\ Len(Append(s, x)) = Len(s) + 1
        /\ \A i \in 1..Len(s) : Append(s, x)[i] = s[i]
        /\ Append(s, x)[Len(s) + 1] = x
    BY AppendProperties
  <1>2. Len(s) \in Nat
    BY LenProperties
  <1>3. \A i \in 1..(Len(s) + 1) : Append(s, x)[i] = t[i]
    BY <1>1, <1>2
  <1> QED
    BY <1>1, <1>3, SeqEqual

\* The tables one after the other.
LEMMA Tables ==
    /\ Append(Table("open"), "lock") = Table("lockf")
    /\ Append(Table("log_init"), "log") = Table("bind")
    /\ Append(Table("bind"), "tcp") = Table("ssl_init")
    /\ Append(Table("ssl_init"), "ssl") = Table("serve")
  <1> DEFINE S == {"null", "lock", "log", "tcp", "ssl"}
  <1>1. Append(Table("open"), "lock") = Table("lockf")
    <2>1. Table("open") \in Seq(S) /\ Len(Table("open")) = 3
      BY DEF Table
    <2>2. Table("lockf") \in Seq(S) /\ Len(Table("lockf")) = 3 + 1 /\ Table("lockf")[3 + 1] = "lock"
      BY DEF Table
    <2>3. \A i \in 1..3 : Table("lockf")[i] = Table("open")[i]
      BY DEF Table
    <2> HIDE DEF S
    <2>4. "lock" \in S
      BY DEF S
    <2>5. Len(Table("lockf")) = Len(Table("open")) + 1 /\ Table("lockf")[Len(Table("open")) + 1] = "lock"
      BY <2>1, <2>2
    <2>6. \A i \in 1..Len(Table("open")) : Table("lockf")[i] = Table("open")[i]
      BY <2>1, <2>3
    <2> QED
      BY <2>1, <2>2, <2>4, <2>5, <2>6, AppendsTo
  <1>2. Append(Table("log_init"), "log") = Table("bind")
    <2>1. Table("log_init") \in Seq(S) /\ Len(Table("log_init")) = 4
      BY DEF Table
    <2>2. Table("bind") \in Seq(S) /\ Len(Table("bind")) = 4 + 1 /\ Table("bind")[4 + 1] = "log"
      BY DEF Table
    <2>3. \A i \in 1..4 : Table("bind")[i] = Table("log_init")[i]
      BY DEF Table
    <2> HIDE DEF S
    <2>4. "log" \in S
      BY DEF S
    <2>5. Len(Table("bind")) = Len(Table("log_init")) + 1 /\ Table("bind")[Len(Table("log_init")) + 1] = "log"
      BY <2>1, <2>2
    <2>6. \A i \in 1..Len(Table("log_init")) : Table("bind")[i] = Table("log_init")[i]
      BY <2>1, <2>3
    <2> QED
      BY <2>1, <2>2, <2>4, <2>5, <2>6, AppendsTo
  <1>3. Append(Table("bind"), "tcp") = Table("ssl_init")
    <2>1. Table("bind") \in Seq(S) /\ Len(Table("bind")) = 5
      BY DEF Table
    <2>2. Table("ssl_init") \in Seq(S) /\ Len(Table("ssl_init")) = 5 + 1 /\ Table("ssl_init")[5 + 1] = "tcp"
      BY DEF Table
    <2>3. \A i \in 1..5 : Table("ssl_init")[i] = Table("bind")[i]
      BY DEF Table
    <2> HIDE DEF S
    <2>4. "tcp" \in S
      BY DEF S
    <2>5. Len(Table("ssl_init")) = Len(Table("bind")) + 1 /\ Table("ssl_init")[Len(Table("bind")) + 1] = "tcp"
      BY <2>1, <2>2
    <2>6. \A i \in 1..Len(Table("bind")) : Table("ssl_init")[i] = Table("bind")[i]
      BY <2>1, <2>3
    <2> QED
      BY <2>1, <2>2, <2>4, <2>5, <2>6, AppendsTo
  <1>4. Append(Table("ssl_init"), "ssl") = Table("serve")
    <2>1. Table("ssl_init") \in Seq(S) /\ Len(Table("ssl_init")) = 6
      BY DEF Table
    <2>2. Table("serve") \in Seq(S) /\ Len(Table("serve")) = 6 + 1 /\ Table("serve")[6 + 1] = "ssl"
      BY DEF Table
    <2>3. \A i \in 1..6 : Table("serve")[i] = Table("ssl_init")[i]
      BY DEF Table
    <2> HIDE DEF S
    <2>4. "ssl" \in S
      BY DEF S
    <2>5. Len(Table("serve")) = Len(Table("ssl_init")) + 1 /\ Table("serve")[Len(Table("ssl_init")) + 1] = "ssl"
      BY <2>1, <2>2
    <2>6. \A i \in 1..Len(Table("ssl_init")) : Table("serve")[i] = Table("ssl_init")[i]
      BY <2>1, <2>3
    <2> QED
      BY <2>1, <2>2, <2>4, <2>5, <2>6, AppendsTo
  <1> QED
    BY <1>1, <1>2, <1>3, <1>4

\* A step of one instance that ends it or brings it to a call with the right
\* table.
LEMMA TableKept ==
    ASSUME TypeOK, TableInv, NEW i \in Inst, NEW call, NEW table,
           pc' = [pc EXCEPT ![i] = call], fds' = [fds EXCEPT ![i] = table],
           \/ call \notin {"open", "lockf"} \cup First
           \/ table = Table(call)
    PROVE  TableInv'
  BY DEF TableInv, TypeOK, First

\* TableInv is inductive.
LEMMA TableStep ==
    ASSUME TypeOK, TableInv, [Next]_vars
    PROVE  TableInv'
  <1>1. CASE UNCHANGED <<pc, fds>>
    BY <1>1 DEF TableInv
  <1>2. ASSUME NEW i \in Inst, NEW how \in {"success", "failure", "killed"}, Ends(i, how)
        PROVE  TableInv'
    BY <1>2, TableKept DEF Ends, Goes, First
  <1>3. ASSUME NEW i \in Inst, Start(i) PROVE TableInv'
    BY <1>3, TableKept DEF Start, Goes, First
  <1>4. ASSUME NEW i \in Inst, Fork(i) PROVE TableInv'
    <2>1. ASSUME pc' = [pc EXCEPT ![i] = "close"], UNCHANGED fds PROVE TableInv'
      BY <2>1 DEF TableInv, TypeOK, First
    <2> QED
      BY <1>2, <1>4, <2>1 DEF Fork, Fails, Goes
  <1>5. ASSUME NEW i \in Inst, Close(i) PROVE TableInv'
    BY <1>5, TableKept DEF Close, Goes, Table
  <1>6. ASSUME NEW i \in Inst, Open(i) PROVE TableInv'
    <2>1. CASE Fails(i, "failure")
      BY <1>2, <2>1 DEF Fails
    <2>2. CASE Goes(i, "lockf") /\ Opens(i, "lock")
      <3>1. Append(fds[i], "lock") = Table("lockf")
        BY <1>6, Tables DEF Open, At, TableInv
      <3> QED
        BY <2>2, <3>1, TableKept DEF Goes, Opens
    <2> QED
      BY <1>6, <2>1, <2>2 DEF Open
  <1>7. ASSUME NEW i \in Inst, Lockf(i) \/ Write(i) \/ Signal(i) PROVE TableInv'
    <2>1. CASE Ends(i, "success")
      BY <1>2, <2>1
    <2>2. ASSUME NEW call \in {"write", "signal", "log_init"}, Goes(i, call), UNCHANGED fds
          PROVE  TableInv'
      <3>1. fds[i] = Table(call)
        BY <1>7 DEF Lockf, Write, Signal, At, TableInv, First, Table
      <3> QED
        BY <2>2, <3>1 DEF Goes, TableInv, TypeOK
    <2> QED
      BY <1>7, <2>1, <2>2 DEF Lockf, Write, Signal
  <1>8. ASSUME NEW i \in Inst, LogInit(i) PROVE TableInv'
    <2>1. CASE Fails(i, "failure")
      BY <1>2, <2>1 DEF Fails
    <2>2. CASE Goes(i, "bind") /\ Opens(i, "log")
      <3>1. Append(fds[i], "log") = Table("bind")
        BY <1>8, Tables DEF LogInit, At, TableInv, First
      <3> QED
        BY <2>2, <3>1, TableKept DEF Goes, Opens
    <2> QED
      BY <1>8, <2>1, <2>2 DEF LogInit
  <1>9. ASSUME NEW i \in Inst, Bind(i) PROVE TableInv'
    <2>1. CASE Ends(i, "success")
      BY <1>2, <2>1
    <2>2. CASE Goes(i, "ssl_init") /\ Opens(i, "tcp")
      <3>1. Append(fds[i], "tcp") = Table("ssl_init")
        BY <1>9, Tables DEF Bind, At, TableInv, First
      <3> QED
        BY <2>2, <3>1, TableKept DEF Goes, Opens
    <2> QED
      BY <1>9, <2>1, <2>2 DEF Bind, StartFails
  <1>10. ASSUME NEW i \in Inst, SslInit(i) PROVE TableInv'
    <2>1. CASE Ends(i, "success")
      BY <1>2, <2>1
    <2>2. CASE Goes(i, "serve") /\ Opens(i, "ssl")
      <3>1. Append(fds[i], "ssl") = Table("serve")
        BY <1>10, Tables DEF SslInit, At, TableInv, First
      <3> QED
        BY <2>2, <3>1, TableKept DEF Goes, Opens
    <2> QED
      BY <1>10, <2>1, <2>2 DEF SslInit, StartFails
  <1>11. ASSUME NEW i \in Inst, Killed(i) PROVE TableInv'
    BY <1>2, <1>11 DEF Killed
  <1> QED
    BY <1>1, <1>3, <1>4, <1>5, <1>6, <1>7, <1>8, <1>9, <1>10, <1>11
    DEF Next, Step, Flush, ForkCgi, Execve, ChildFails, CgiExits, LingeringOver, vars

\* A server has nothing of the terminal it was started from, and its log and its
\* sockets are open (Detached; main.c:27).
THEOREM DetachedAlways == Spec => []Detached
  <1>1. Init => TableInv
    BY DEF Init, TableInv, First
  <1>2. TableInv => Detached
    BY DEF TableInv, Detached, At, First, Table
  <1> QED
    BY <1>1, <1>2, TableStep, TypeCorrect, PTL DEF Spec
==============================================================================
