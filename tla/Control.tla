------------------------------ MODULE Control ------------------------------
(***************************************************************************)
(* The control server (src/src/snapp_control.cpp) and the lock of the      *)
(* logging expression (src/src/util.c).                                    *)
(*                                                                         *)
(*  - the LISTENER accepts connections, queues their descriptors and posts *)
(*    pending_semaphore;                                                   *)
(*  - a WORKER waits for the semaphore, pops a descriptor and talks to its *)
(*    client until that one quits or hangs up: `reload' and `logregexp'    *)
(*    need a login, which is `user' and then `pass';                       *)
(*  - `logregexp' replaces log_re under the write side of pcre_log_lock;   *)
(*    print_log, which everybody calls, uses it under the read side.       *)
(*                                                                         *)
(* Descriptors are reused after close().  A received line is a verb and an *)
(* argument; what `reload' and `status' do with the configuration is in    *)
(* MainLoop.  queue_lock needs no variable: each critical section is one   *)
(* step.  A send succeeds while the client is there; once it is gone, the  *)
(* kernel may or may not still accept data.  (SIGPIPE is blocked.)         *)
(***************************************************************************)
EXTENDS Integers, Sequences, FiniteSets

CONSTANTS
    Fd,               \* descriptors accept() may return
    Worker,           \* the worker threads, 5 in the code
    Arg,              \* arguments of commands
    Length,           \* their lengths
    enable_password,  \* the one that logs in
    Listener,         \* the listening thread
    Nobody            \* no descriptor, no thread

ASSUME FdAssumption == Nobody \notin Fd
ASSUME WorkerAssumption ==
    IsFiniteSet(Worker) /\ Listener \notin Worker /\ Nobody \notin Worker \cup {Listener}
ASSUME ArgAssumption == Length \in [Arg -> Nat] /\ enable_password \in Arg

VARIABLES
    running,           \* the process has not exited
    lpc, new_fd,       \* where the listener is, and the descriptor it accepted
    pending_fd,        \* queue of accepted descriptors
    pending_semaphore, \* its semaphore
    wpc, fd,           \* where each worker is, and its descriptor
    connection_state,  \* each worker's login state
    peer,              \* the client behind each descriptor
    shown,             \* what that client has shown of a login (history)
    readers, writer,   \* the holders of pcre_log_lock
    log_re             \* the logging expression

connVars == <<connection_state, shown>>
lockVars == <<readers, writer, log_re>>
listenVars == <<lpc, new_fd>>
queueVars == <<pending_fd, pending_semaphore>>
vars == <<running, listenVars, queueVars, wpc, fd, connVars, peer, lockVars>>

Thread == Worker \cup {Listener}

\* CONTROL_CONNECTION_STATE_*
State == {"CONNECTED", "USERNAME_RECEIVED", "AUTHENTICATED"}

\* A received line: its first word, and what follows it.
Verb == {"quit", "reload", "status", "help", "user", "pass", "logregexp", "other"}
Line == [verb : Verb, arg : Arg]

\* Which command a line is; `user' and `pass' need a line of 8 characters.
Command(line) ==
    IF line.verb \in {"user", "pass"} /\ 5 + Length[line.arg] < 8
    THEN "other"
    ELSE line.verb

\* initialize() has run: the workers and the listener exist.
Init ==
    /\ running = TRUE
    /\ lpc = "accept" /\ new_fd = Nobody
    /\ pending_fd = <<>> /\ pending_semaphore = 0
    /\ wpc = [w \in Worker |-> "wait"]
    /\ fd = [w \in Worker |-> Nobody]
    /\ connection_state = [w \in Worker |-> "CONNECTED"]
    /\ peer = [f \in Fd |-> "closed"]
    /\ shown = [f \in Fd |-> "nothing"]
    /\ readers = {} /\ writer = Nobody
    /\ log_re = "null"

-----------------------------------------------------------------------------
(* print_log: a thread at a log point takes the read lock, uses log_re and   *)
(* releases the lock.                                                        *)

\* Where the workers log, and where they go on.  (A second message right after the
\* pop is left out.)
AfterLog == [woken |-> "pop", replaced |-> "recv"]

AtLog(t) ==
    \/ t = Listener /\ lpc = "accepted"
    \/ t \in Worker /\ wpc[t] \in DOMAIN AfterLog

LogLock(t) ==
    /\ AtLog(t) /\ t \notin readers
    /\ writer = Nobody
    /\ readers' = readers \cup {t}
    /\ UNCHANGED <<running, listenVars, queueVars, wpc, fd, connVars, peer, writer, log_re>>

\* Posts before the descriptor is queued, and once more after it.
ListenerLogged_PostsEarly ==
    /\ lpc = "accepted" /\ Listener \in readers
    /\ readers' = readers \ {Listener}
    /\ lpc' = "push"
    /\ pending_semaphore' = pending_semaphore + 1
    /\ UNCHANGED <<running, new_fd, pending_fd, wpc, fd, connVars, peer, writer, log_re>>

ListenerLogged ==
    /\ lpc = "accepted" /\ Listener \in readers
    /\ readers' = readers \ {Listener}
    /\ lpc' = "push"
    /\ UNCHANGED <<running, new_fd, queueVars, wpc, fd, connVars, peer, writer, log_re>>

\* Where a worker is after a send that is checked: `next', or on its way out.
SendThen(w, next) ==
    wpc' \in { [wpc EXCEPT ![w] = p] :
                 p \in {next} \cup (IF peer[fd[w]] = "gone" THEN {"close"} ELSE {}) }

\* Back in handle_connection, the next prompt is sent.
WorkerLogged(w) ==
    /\ wpc[w] \in DOMAIN AfterLog /\ w \in readers
    /\ readers' = readers \ {w}
    /\ IF wpc[w] = "replaced"
       THEN SendThen(w, "recv")
       ELSE wpc' = [wpc EXCEPT ![w] = AfterLog[wpc[w]]]
    /\ UNCHANGED <<running, listenVars, queueVars, fd, connVars, peer, writer, log_re>>

-----------------------------------------------------------------------------
(* The listener, and the clients                                             *)

Accept(f) ==
    /\ lpc = "accept" /\ peer[f] = "closed"
    /\ peer' = [peer EXCEPT ![f] = "open"]
    /\ new_fd' = f
    /\ lpc' = "accepted"
    /\ UNCHANGED <<running, queueVars, wpc, fd, connVars, lockVars>>

\* accept() returns -1, for instance because no descriptor is left: exit().
AcceptFails ==
    /\ lpc = "accept"
    /\ running' = FALSE
    /\ UNCHANGED <<listenVars, queueVars, wpc, fd, connVars, peer, lockVars>>

ListenerPush ==
    /\ lpc = "push"
    /\ pending_fd' = Append(pending_fd, new_fd)
    /\ lpc' = "post"
    /\ UNCHANGED <<running, new_fd, pending_semaphore, wpc, fd, connVars, peer, lockVars>>

\* The listener does not look at new_fd again, nor a worker at fd after Close; both
\* are then Nobody here.
ListenerPost ==
    /\ lpc = "post"
    /\ pending_semaphore' = pending_semaphore + 1
    /\ lpc' = "accept" /\ new_fd' = Nobody
    /\ UNCHANGED <<running, pending_fd, wpc, fd, connVars, peer, lockVars>>

\* A client closes its end.
HangUp(f) ==
    /\ peer[f] = "open"
    /\ peer' = [peer EXCEPT ![f] = "gone"]
    /\ UNCHANGED <<running, listenVars, queueVars, wpc, fd, connVars, lockVars>>

-----------------------------------------------------------------------------
(* A worker                                                                  *)

\* Does not wait.
WorkerWait_Tries(w) ==
    /\ wpc[w] = "wait"
    /\ pending_semaphore' = pending_semaphore - 1
    /\ wpc' = [wpc EXCEPT ![w] = "woken"]
    /\ UNCHANGED <<running, listenVars, pending_fd, fd, connVars, peer, lockVars>>

\* sem_wait's return value is not looked at.  It is not interrupted: every signal is
\* blocked in the workers.
WorkerWait(w) ==
    /\ wpc[w] = "wait"
    /\ pending_semaphore > 0
    /\ pending_semaphore' = pending_semaphore - 1
    /\ wpc' = [wpc EXCEPT ![w] = "woken"]
    /\ UNCHANGED <<running, listenVars, pending_fd, fd, connVars, peer, lockVars>>

\* front and pop without queue_lock: another worker that is about to pop reads the
\* front before this one removes it.
WorkerPop_Unlocked(w) ==
    /\ wpc[w] = "pop"
    /\ pending_fd # <<>>
    /\ \E late \in SUBSET {v \in Worker \ {w} : wpc[v] = "pop"} :
         LET popping == {w} \cup late
             popped == Cardinality(popping) IN
         /\ fd' = [v \in Worker |-> IF v \in popping THEN Head(pending_fd) ELSE fd[v]]
         /\ pending_fd' = SubSeq(pending_fd, popped + 1, Len(pending_fd))
         /\ wpc' = [v \in Worker |-> IF v \in popping THEN "hello" ELSE wpc[v]]
    /\ UNCHANGED <<running, listenVars, pending_semaphore, connVars, peer, lockVars>>

\* front and pop under queue_lock.
WorkerPop(w) ==
    /\ wpc[w] = "pop"
    /\ pending_fd # <<>>
    /\ fd' = [fd EXCEPT ![w] = Head(pending_fd)]
    /\ pending_fd' = Tail(pending_fd)
    /\ wpc' = [wpc EXCEPT ![w] = "hello"]
    /\ UNCHANGED <<running, listenVars, pending_semaphore, connVars, peer, lockVars>>

\* The login of the worker's previous client is kept.
Hello_KeepsState(w) ==
    /\ wpc[w] = "hello"
    /\ SendThen(w, "recv")
    /\ UNCHANGED <<running, listenVars, queueVars, fd, connVars, peer, lockVars>>

\* handle_connection begins: greeting and first prompt.
Hello(w) ==
    /\ wpc[w] = "hello"
    /\ connection_state' = [connection_state EXCEPT ![w] = "CONNECTED"]
    /\ SendThen(w, "recv")
    /\ UNCHANGED <<running, listenVars, queueVars, fd, shown, peer, lockVars>>

\* An end of the connection is not told from an empty line.
RecvEnd_Ignored(w) ==
    /\ wpc[w] = "recv" /\ peer[fd[w]] = "gone"
    /\ UNCHANGED vars

\* The worker waits for the next connection without closing this one.
RecvEnd_NoClose(w) ==
    /\ wpc[w] = "recv" /\ peer[fd[w]] = "gone"
    /\ wpc' = [wpc EXCEPT ![w] = "wait"]
    /\ UNCHANGED <<running, listenVars, queueVars, fd, connVars, peer, lockVars>>

\* recv() returns 0 or an error.
RecvEnd(w) ==
    /\ wpc[w] = "recv" /\ peer[fd[w]] = "gone"
    /\ wpc' = [wpc EXCEPT ![w] = "close"]
    /\ UNCHANGED <<running, listenVars, queueVars, fd, connVars, peer, lockVars>>

\* `quit': the goodbye is sent, whether or not it arrives.
Quit(w, line) ==
    /\ wpc[w] = "recv" /\ Command(line) = "quit"
    /\ wpc' = [wpc EXCEPT ![w] = "close"]
    /\ UNCHANGED <<running, listenVars, queueVars, fd, connVars, peer, lockVars>>

User(w, line) ==
    /\ wpc[w] = "recv" /\ Command(line) = "user"
    /\ connection_state[w] = "CONNECTED"
    /\ connection_state' = [connection_state EXCEPT ![w] = "USERNAME_RECEIVED"]
    /\ shown' = [shown EXCEPT ![fd[w]] = "user"]
    /\ SendThen(w, "recv")
    /\ UNCHANGED <<running, listenVars, queueVars, fd, peer, lockVars>>

\* enable_password.compare(arg)
Right(line) == line.arg = enable_password

\* What a client that sends `line' as a password has shown then (history).
Shows(f, line) == IF shown[f] = "user" /\ Right(line) THEN "login" ELSE shown[f]

Pass(w, line) ==
    /\ wpc[w] = "recv" /\ Command(line) = "pass"
    /\ connection_state[w] = "USERNAME_RECEIVED"
    /\ connection_state' = [connection_state EXCEPT
                              ![w] = IF Right(line) THEN "AUTHENTICATED" ELSE @]
    /\ shown' = [shown EXCEPT ![fd[w]] = Shows(fd[w], line)]
    /\ SendThen(w, "recv")
    /\ UNCHANGED <<running, listenVars, queueVars, fd, peer, lockVars>>

\* `reload' after a login: do_reload waits up to 55 s.
Reload(w, line) ==
    /\ wpc[w] = "recv" /\ Command(line) = "reload"
    /\ connection_state[w] = "AUTHENTICATED"
    /\ wpc' = [wpc EXCEPT ![w] = "reload"]
    /\ UNCHANGED <<running, listenVars, queueVars, fd, connVars, peer, lockVars>>

ReloadDone(w) ==
    /\ wpc[w] = "reload"
    /\ SendThen(w, "recv")
    /\ UNCHANGED <<running, listenVars, queueVars, fd, connVars, peer, lockVars>>

\* `logregexp' after a login.
LogRegexp(w, line) ==
    /\ wpc[w] = "recv" /\ Command(line) = "logregexp"
    /\ connection_state[w] = "AUTHENTICATED"
    /\ wpc' = [wpc EXCEPT ![w] = IF Length[line.arg] >= 2 THEN "set" ELSE "clear"]
    /\ UNCHANGED <<running, listenVars, queueVars, fd, connVars, peer, lockVars>>

\* send_help: in any state, two messages.
Help(w, line) ==
    /\ wpc[w] = "recv" /\ Command(line) = "help"
    /\ SendThen(w, "recv")
    /\ UNCHANGED <<running, listenVars, queueVars, fd, connVars, peer, lockVars>>

\* send_status: in any state; the counts are read (see MainLoop) and sent.
Status(w, line) ==
    /\ wpc[w] = "recv" /\ Command(line) = "status"
    /\ SendThen(w, "recv")
    /\ UNCHANGED <<running, listenVars, queueVars, fd, connVars, peer, lockVars>>

\* An unknown command, and a command in the wrong state, are refused.
Refused(w, line) ==
    /\ wpc[w] = "recv"
    /\ \/ Command(line) = "other"
       \/ Command(line) = "user" /\ connection_state[w] # "CONNECTED"
       \/ Command(line) = "pass" /\ connection_state[w] # "USERNAME_RECEIVED"
       \/ Command(line) \in {"reload", "logregexp"} /\ connection_state[w] # "AUTHENTICATED"
    /\ SendThen(w, "recv")
    /\ UNCHANGED <<running, listenVars, queueVars, fd, connVars, peer, lockVars>>

\* Takes the read side of the lock.
RegexpLock_Shared(w) ==
    /\ wpc[w] \in {"set", "clear"}
    /\ writer = Nobody
    /\ writer' = w
    /\ log_re' = IF log_re = "null" THEN "null" ELSE "freed"
    /\ wpc' = [wpc EXCEPT ![w] = IF @ = "set" THEN "compile" ELSE "unlock"]
    /\ UNCHANGED <<running, listenVars, queueVars, fd, connVars, peer, readers>>

\* do_regexp: wrlock, and the old expression is freed.
RegexpLock(w) ==
    /\ wpc[w] \in {"set", "clear"}
    /\ readers = {} /\ writer = Nobody
    /\ writer' = w
    /\ log_re' = IF log_re = "null" THEN "null" ELSE "freed"
    /\ wpc' = [wpc EXCEPT ![w] = IF @ = "set" THEN "compile" ELSE "unlock"]
    /\ UNCHANGED <<running, listenVars, queueVars, fd, connVars, peer, readers>>

\* Logs a message before it gives the write lock back.
RegexpUnlock_Logs(w) ==
    /\ wpc[w] \in {"compile", "unlock"}
    /\ writer \notin Worker
    /\ log_re' \in (IF wpc[w] = "compile" THEN {"compiled", "null"} ELSE {"null"})
    /\ writer' = Nobody
    /\ wpc' = [wpc EXCEPT ![w] = "replaced"]
    /\ UNCHANGED <<running, listenVars, queueVars, fd, connVars, peer, readers>>

\* pcre_compile succeeds or fails; pcre_study follows.
RegexpUnlock(w) ==
    /\ wpc[w] \in {"compile", "unlock"}
    /\ log_re' \in (IF wpc[w] = "compile" THEN {"compiled", "null"} ELSE {"null"})
    /\ writer' = Nobody
    /\ wpc' = [wpc EXCEPT ![w] = "replaced"]
    /\ UNCHANGED <<running, listenVars, queueVars, fd, connVars, peer, readers>>

Close(w) ==
    /\ wpc[w] = "close"
    /\ peer' = [peer EXCEPT ![fd[w]] = "closed"]
    /\ shown' = [shown EXCEPT ![fd[w]] = "nothing"]
    /\ wpc' = [wpc EXCEPT ![w] = "wait"]
    /\ fd' = [fd EXCEPT ![w] = Nobody]
    /\ UNCHANGED <<running, listenVars, queueVars, connection_state, lockVars>>

-----------------------------------------------------------------------------
HandleLine(w, line) ==
    \/ Quit(w, line)
    \/ User(w, line)
    \/ Pass(w, line)
    \/ Reload(w, line)
    \/ LogRegexp(w, line)
    \/ Help(w, line)
    \/ Status(w, line)
    \/ Refused(w, line)

WorkerStep(w) ==
    \/ WorkerLogged(w) \/ WorkerPop(w) \/ Hello(w) \/ RecvEnd(w)
    \/ ReloadDone(w) \/ RegexpUnlock(w) \/ Close(w)

ListenerStep == ListenerLogged \/ ListenerPush \/ ListenerPost

Step ==
    \/ \E f \in Fd : Accept(f) \/ HangUp(f)
    \/ AcceptFails
    \/ ListenerStep
    \/ \E t \in Thread : LogLock(t)
    \/ \E w \in Worker : \/ WorkerStep(w) \/ WorkerWait(w) \/ RegexpLock(w)
                         \/ \E line \in Line : HandleLine(w, line)

\* Once the process has exited nothing happens any more.
Exited == ~running /\ UNCHANGED vars

Next == (running /\ Step) \/ Exited

Spec == Init /\ [][Next]_vars

\* Threads that can run do; locks and the semaphore are free only now and then.
\* A client that is served does not stay for ever: it hangs up in the end.
Fairness ==
    /\ WF_vars(running /\ ListenerStep)
    /\ \A t \in Thread : SF_vars(running /\ LogLock(t))
    /\ \A w \in Worker : /\ WF_vars(running /\ WorkerStep(w))
                         /\ WF_vars(running /\ WorkerWait(w))
                         /\ SF_vars(running /\ RegexpLock(w))
    /\ \A w \in Worker : SF_vars(running /\ RecvEnd(w))
    /\ \A f \in Fd : WF_vars(running /\ HangUp(f))

FairSpec == Spec /\ Fairness

-----------------------------------------------------------------------------
(* Properties                                                                *)

WorkerPcs == {"wait", "woken", "pop", "hello", "recv", "reload",
              "set", "clear", "compile", "unlock", "replaced", "close"}

TypeOK ==
    /\ running \in BOOLEAN
    /\ lpc \in {"accept", "accepted", "push", "post"}
    /\ new_fd \in Fd \cup {Nobody}
    /\ pending_fd \in Seq(Fd) /\ pending_semaphore \in Nat
    /\ wpc \in [Worker -> WorkerPcs]
    /\ fd \in [Worker -> Fd \cup {Nobody}]
    /\ connection_state \in [Worker -> State]
    /\ peer \in [Fd -> {"closed", "open", "gone"}]
    /\ shown \in [Fd -> {"nothing", "user", "login"}]
    /\ readers \subseteq Thread /\ writer \in Worker \cup {Nobody}
    /\ log_re \in {"null", "compiled", "freed"}

\* A worker that was woken by the semaphore finds a descriptor: pending_fd.front()
\* is never called on an empty queue, although wait and pop are two steps, and several
\* workers and the listener take theirs in any order.
NoEmptyPop == \A w \in Worker : wpc[w] = "pop" => pending_fd # <<>>

\* Who is responsible for a descriptor: the listener, the queue or a worker.
InHand(f) == lpc \in {"accepted", "push"} /\ new_fd = f
Queued(f) == \E i \in 1 .. Len(pending_fd) : pending_fd[i] = f
Serving(w) == wpc[w] \notin {"wait", "woken", "pop"}
Served(f) == \E w \in Worker : Serving(w) /\ fd[w] = f

\* A connection has one owner at a time: although the numbers of closed descriptors
\* are given out again, no two workers talk to one client, and no worker works on a
\* descriptor that was accepted anew behind its back.
FdOwnedOnce ==
    /\ \A v, w \in Worker : Serving(v) /\ Serving(w) /\ fd[v] = fd[w] => v = w
    /\ \A i, j \in 1 .. Len(pending_fd) : pending_fd[i] = pending_fd[j] => i = j
    /\ \A f \in Fd : /\ ~ (InHand(f) /\ Queued(f))
                     /\ ~ (InHand(f) /\ Served(f))
                     /\ ~ (Queued(f) /\ Served(f))

\* No descriptor is lost: whatever a client does, a descriptor that is open is in
\* somebody's hands, who closes it; and what is in somebody's hands is open.
NoDescriptorLeak ==
    \A f \in Fd : peer[f] # "closed" <=> InHand(f) \/ Queued(f) \/ Served(f)

\* `reload' and `logregexp' are executed only for a client that sent, on this very
\* connection, `user' and then the right password (the manual's column "Login
\* required"), although a worker keeps its connection_state between connections.
LoginRequired ==
    \A w \in Worker :
        wpc[w] \in {"reload", "set", "clear", "compile", "unlock", "replaced"}
            => shown[fd[w]] = "login"

\* No print_log uses an expression that `logregexp' has freed.
NoFreedExpression == readers # {} => log_re # "freed"

\* `logregexp' comes to an end: do_regexp never waits for itself ("CANNOT CALL
\* print_log [w]ith the write lock") nor for a lock that nobody gives back.
RegexpEnds ==
    \A w \in Worker :
        wpc[w] \in {"set", "clear"} ~> (wpc[w] \in {"recv", "close"} \/ ~running)

\* If clients leave in the end, every accepted connection is taken up by a worker,
\* also when all workers were busy when it came.
ConnectionServed == \A f \in Fd : Queued(f) ~> (Served(f) \/ ~running)

-----------------------------------------------------------------------------
(* The inductive invariant                                                   *)

\* Tokens given out, or about to be posted, and queued descriptors match.
TokenHolders == {w \in Worker : wpc[w] \in {"woken", "pop"}}
TokensMatchQueue ==
    Len(pending_fd) = pending_semaphore + Cardinality(TokenHolders)
                      + (IF lpc = "post" THEN 1 ELSE 0)

\* Who has a descriptor in hand knows which.
FdKnown ==
    /\ lpc # "accept" => new_fd \in Fd
    /\ \A w \in Worker : Serving(w) => fd[w] \in Fd

\* From the greeting on, connection_state is what this client has shown.
LoginBacked ==
    \A w \in Worker :
        /\ wpc[w] \in {"reload", "set", "clear", "compile", "unlock", "replaced"}
             => connection_state[w] = "AUTHENTICATED"
        /\ Serving(w) /\ wpc[w] # "hello"
             => /\ connection_state[w] = "USERNAME_RECEIVED" => shown[fd[w]] = "user"
                /\ connection_state[w] = "AUTHENTICATED" => shown[fd[w]] = "login"

\* The write lock is held exactly while the expression is replaced, and excludes readers.
LogLockHeld ==
    /\ \A w \in Worker : writer = w <=> wpc[w] \in {"compile", "unlock"}
    /\ writer # Nobody => readers = {}
    /\ log_re = "freed" => writer # Nobody

\* All of it together.
IInv ==
    /\ TypeOK
    /\ TokensMatchQueue
    /\ FdKnown
    /\ FdOwnedOnce
    /\ NoDescriptorLeak
    /\ LoginBacked
    /\ LogLockHeld
=============================================================================
