---------------------------- MODULE ControlProofs ----------------------------
(***************************************************************************)
(* Proofs about Control, for any descriptors, any finite set of workers    *)
(* and any arguments and password.                                         *)
(***************************************************************************)
EXTENDS Control, QueueFacts, FiniteSetTheorems, SequenceTheorems, TLAPS

\* The constants' assumptions, cited together.
LEMMA Constants ==
    /\ Nobody \notin Fd /\ Nobody \notin Worker /\ Listener \notin Worker
    /\ IsFiniteSet(Worker)
    /\ Length \in [Arg -> Nat] /\ enable_password \in Arg
  BY FdAssumption, WorkerAssumption, ArgAssumption

\* The workers the invariant counts are finitely many.
LEMMA HoldersFinite == IsFiniteSet(TokenHolders) /\ Cardinality(TokenHolders) \in Nat
  <1>1. TokenHolders \subseteq Worker
    BY DEF TokenHolders
  <1>2. IsFiniteSet(TokenHolders)
    BY <1>1, Constants, FS_Subset
  <1> QED
    BY <1>2, FS_CardinalityType

\* A checked send leads on or out.
LEMMA SendThenFacts ==
    ASSUME NEW w \in Worker, NEW next, SendThen(w, next)
    PROVE  \E p \in {next, "close"} : wpc' = [wpc EXCEPT ![w] = p]
  BY DEF SendThen

LEMMA InitIInv == Init => IInv
  <1> SUFFICES ASSUME Init PROVE IInv
    OBVIOUS
  <1> USE Constants DEF Init
  <1>1. TypeOK
    <2>1. pending_fd \in Seq(Fd)
      BY EmptySeq
    <2> QED
      BY <2>1 DEF TypeOK, State, WorkerPcs
  <1>2. TokenHolders = {}
    BY DEF TokenHolders
  <1>3. TokensMatchQueue
    BY <1>2, FS_EmptySet, EmptySeq DEF TokensMatchQueue
  <1>4. \A w \in Worker : ~Serving(w)
    BY DEF Serving
  <1>5. FdKnown /\ LoginBacked /\ LogLockHeld
    BY <1>4 DEF FdKnown, LoginBacked, LogLockHeld
  <1>6. \A f \in Fd : ~InHand(f) /\ ~Queued(f) /\ ~Served(f)
    BY <1>4 DEF InHand, Queued, Served
  <1>7. FdOwnedOnce
    BY <1>4, <1>6 DEF FdOwnedOnce
  <1>8. NoDescriptorLeak
    BY <1>6 DEF NoDescriptorLeak
  <1> QED
    BY <1>1, <1>3, <1>5, <1>7, <1>8 DEF IInv

-----------------------------------------------------------------------------
(* A worker in the middle of a conversation: whatever it does next, the      *)
(* descriptors stay where they are and no token moves.                       *)

Talking == {"hello", "recv", "reload", "set", "clear", "compile", "unlock", "replaced", "close"}

LEMMA TalkKeeps ==
    ASSUME NEW w \in Worker, IInv, NEW p \in Talking, wpc[w] \in Talking,
           wpc' = [wpc EXCEPT ![w] = p],
           UNCHANGED <<listenVars, queueVars, fd, peer>>
    PROVE  TokensMatchQueue' /\ FdKnown' /\ FdOwnedOnce' /\ NoDescriptorLeak'
  <1> USE Constants DEF listenVars, queueVars
  <1>1. wpc \in [Worker -> WorkerPcs]
    BY DEF IInv, TypeOK
  <1>2. \A v \in Worker : Serving(v)' <=> Serving(v)
    BY <1>1 DEF Serving, Talking
  <1>3. TokenHolders' = TokenHolders
    BY <1>1 DEF TokenHolders, Talking
  <1>4. TokensMatchQueue'
    BY <1>3 DEF IInv, TokensMatchQueue
  <1>5. \A f \in Fd : /\ InHand(f)' <=> InHand(f)
                      /\ Queued(f)' <=> Queued(f)
                      /\ Served(f)' <=> Served(f)
    BY <1>2 DEF InHand, Queued, Served
  <1>6. FdKnown'
    BY <1>2 DEF IInv, FdKnown
  <1>7. FdOwnedOnce'
    BY <1>2, <1>5 DEF IInv, FdOwnedOnce
  <1>8. NoDescriptorLeak'
    BY <1>5 DEF IInv, NoDescriptorLeak
  <1> QED
    BY <1>4, <1>6, <1>7, <1>8

\* Steps that touch neither a worker nor a descriptor.
LEMMA IdleKeeps ==
    ASSUME IInv, UNCHANGED <<listenVars, queueVars, wpc, fd, peer>>
    PROVE  TokensMatchQueue' /\ FdKnown' /\ FdOwnedOnce' /\ NoDescriptorLeak'
  BY DEF IInv, listenVars, queueVars, TokensMatchQueue, TokenHolders, FdKnown, FdOwnedOnce,
         NoDescriptorLeak, Serving, Served, Queued, InHand

-----------------------------------------------------------------------------
(* Logging                                                                   *)

LEMMA LogLockIInv ==
    ASSUME NEW t \in Thread, IInv, LogLock(t)
    PROVE  IInv'
  <1> USE Constants DEF LogLock, connVars
  <1>1. TypeOK'
    BY DEF IInv, TypeOK, listenVars, queueVars, Thread
  <1>2. TokensMatchQueue' /\ FdKnown' /\ FdOwnedOnce' /\ NoDescriptorLeak'
    BY IdleKeeps
  <1>3. LoginBacked'
    BY DEF IInv, LoginBacked, Serving
  <1>4. LogLockHeld'
    BY DEF IInv, LogLockHeld
  <1> QED
    BY <1>1, <1>2, <1>3, <1>4 DEF IInv

LEMMA ListenerLoggedIInv == IInv /\ ListenerLogged => IInv'
  <1> SUFFICES ASSUME IInv, ListenerLogged PROVE IInv'
    OBVIOUS
  <1> USE Constants DEF ListenerLogged, connVars, queueVars
  <1>1. TypeOK'
    BY DEF IInv, TypeOK, Thread
  <1>2. TokensMatchQueue' /\ FdKnown'
    BY DEF IInv, TokensMatchQueue, TokenHolders, FdKnown, Serving
  <1>3. \A f \in Fd : /\ InHand(f)' <=> InHand(f)
                      /\ Queued(f)' <=> Queued(f)
                      /\ Served(f)' <=> Served(f)
    BY DEF InHand, Queued, Served, Serving
  <1>4. FdOwnedOnce' /\ NoDescriptorLeak'
    BY <1>3 DEF IInv, FdOwnedOnce, NoDescriptorLeak, Serving
  <1>5. LoginBacked' /\ LogLockHeld'
    BY DEF IInv, LoginBacked, LogLockHeld, Serving
  <1> QED
    BY <1>1, <1>2, <1>4, <1>5 DEF IInv

LEMMA WorkerLoggedIInv ==
    ASSUME NEW w \in Worker, IInv, WorkerLogged(w)
    PROVE  IInv'
  <1> USE Constants DEF WorkerLogged, connVars
  <1>1. CASE wpc[w] = "replaced"
    <2>1. PICK p \in {"recv", "close"} : wpc' = [wpc EXCEPT ![w] = p]
      BY <1>1, SendThenFacts
    <2>2. TypeOK'
      BY <2>1 DEF IInv, TypeOK, WorkerPcs, listenVars, queueVars
    <2>3. TokensMatchQueue' /\ FdKnown' /\ FdOwnedOnce' /\ NoDescriptorLeak'
      BY <1>1, <2>1, TalkKeeps DEF Talking
    <2>4. LoginBacked'
      BY <1>1, <2>1 DEF IInv, TypeOK, LoginBacked, Serving
    <2>5. LogLockHeld'
      BY <1>1, <2>1 DEF IInv, TypeOK, LogLockHeld
    <2> QED
      BY <2>2, <2>3, <2>4, <2>5 DEF IInv
  <1>2. CASE wpc[w] = "woken"
    <2> USE DEF listenVars, queueVars
    <2>1. wpc' = [wpc EXCEPT ![w] = "pop"]
      BY <1>2 DEF AfterLog
    <2>2. TypeOK'
      BY <2>1 DEF IInv, TypeOK, WorkerPcs
    <2>3. TokenHolders' = TokenHolders /\ \A v \in Worker : Serving(v)' <=> Serving(v)
      BY <1>2, <2>1 DEF IInv, TypeOK, TokenHolders, Serving
    <2>4. TokensMatchQueue' /\ FdKnown'
      BY <2>3 DEF IInv, TokensMatchQueue, FdKnown
    <2>5. \A f \in Fd : /\ InHand(f)' <=> InHand(f)
                        /\ Queued(f)' <=> Queued(f)
                        /\ Served(f)' <=> Served(f)
      BY <2>3 DEF InHand, Queued, Served
    <2>6. FdOwnedOnce' /\ NoDescriptorLeak'
      BY <2>3, <2>5 DEF IInv, FdOwnedOnce, NoDescriptorLeak
    <2>7. LoginBacked'
      BY <1>2, <2>1 DEF IInv, TypeOK, LoginBacked, Serving
    <2>8. LogLockHeld'
      BY <1>2, <2>1 DEF IInv, TypeOK, LogLockHeld
    <2> QED
      BY <2>2, <2>4, <2>6, <2>7, <2>8 DEF IInv
  <1> QED
    BY <1>1, <1>2 DEF AfterLog

-----------------------------------------------------------------------------
(* The listener and the clients                                              *)

LEMMA AcceptIInv ==
    ASSUME NEW f \in Fd, IInv, Accept(f)
    PROVE  IInv'
  <1> USE Constants DEF Accept, connVars, queueVars, lockVars
  <1>1. TypeOK'
    BY DEF IInv, TypeOK
  <1>2. TokensMatchQueue' /\ FdKnown'
    BY DEF IInv, TokensMatchQueue, TokenHolders, FdKnown, Serving
  <1>3. ~InHand(f) /\ ~Queued(f) /\ ~Served(f)
    BY DEF IInv, NoDescriptorLeak
  <1>4. \A g \in Fd : /\ InHand(g)' <=> g = f
                      /\ Queued(g)' <=> Queued(g)
                      /\ Served(g)' <=> Served(g)
                      /\ ~InHand(g)
    BY DEF InHand, Queued, Served, Serving
  <1>5. FdOwnedOnce'
    BY <1>3, <1>4 DEF IInv, FdOwnedOnce, Serving
  <1>6. NoDescriptorLeak'
    BY <1>3, <1>4 DEF IInv, TypeOK, NoDescriptorLeak
  <1>7. LoginBacked' /\ LogLockHeld'
    BY DEF IInv, LoginBacked, LogLockHeld, Serving
  <1> QED
    BY <1>1, <1>2, <1>5, <1>6, <1>7 DEF IInv

LEMMA HangUpIInv ==
    ASSUME NEW f \in Fd, IInv, HangUp(f)
    PROVE  IInv'
  <1> USE Constants DEF HangUp, listenVars, connVars, queueVars, lockVars
  <1>1. TypeOK'
    BY DEF IInv, TypeOK
  <1>2. TokensMatchQueue' /\ FdKnown'
    BY DEF IInv, TokensMatchQueue, TokenHolders, FdKnown, Serving
  <1>3. \A g \in Fd : /\ InHand(g)' <=> InHand(g)
                      /\ Queued(g)' <=> Queued(g)
                      /\ Served(g)' <=> Served(g)
                      /\ peer'[g] = "closed" <=> peer[g] = "closed"
    BY DEF IInv, TypeOK, InHand, Queued, Served, Serving
  <1>4. FdOwnedOnce' /\ NoDescriptorLeak'
    BY <1>3 DEF IInv, FdOwnedOnce, NoDescriptorLeak, Serving
  <1>5. LoginBacked' /\ LogLockHeld'
    BY DEF IInv, LoginBacked, LogLockHeld, Serving
  <1> QED
    BY <1>1, <1>2, <1>4, <1>5 DEF IInv

\* The descriptor goes from the listener's hand to the end of the queue, where it was
\* not before; the token follows.
LEMMA ListenerPushIInv == IInv /\ ListenerPush => IInv'
  <1> SUFFICES ASSUME IInv, ListenerPush PROVE IInv'
    OBVIOUS
  <1> USE Constants DEF ListenerPush, connVars, lockVars
  <1>1. pending_fd \in Seq(Fd) /\ new_fd \in Fd
    BY DEF IInv, TypeOK, FdKnown
  <1>2. /\ pending_fd' \in Seq(Fd)
        /\ Len(pending_fd') = Len(pending_fd) + 1
        /\ \A i \in 1 .. Len(pending_fd) : pending_fd'[i] = pending_fd[i]
        /\ pending_fd'[Len(pending_fd) + 1] = new_fd
        /\ Len(pending_fd) \in Nat
    BY <1>1, PushFacts
  <1>3. TypeOK'
    BY <1>2 DEF IInv, TypeOK
  <1>4. TokenHolders' = TokenHolders
    BY DEF TokenHolders
  <1>5. TokensMatchQueue'
    BY <1>2, <1>4, HoldersFinite DEF IInv, TypeOK, TokensMatchQueue
  <1>6. FdKnown' /\ LoginBacked' /\ LogLockHeld'
    BY <1>1 DEF IInv, FdKnown, LoginBacked, LogLockHeld, Serving
  <1>7. InHand(new_fd) /\ ~Queued(new_fd) /\ ~Served(new_fd)
    BY <1>1 DEF IInv, FdOwnedOnce, InHand
  <1>8. \A g \in Fd : Queued(g)' <=> Queued(g) \/ g = new_fd
    <2> HIDE DEF ListenerPush
    <2>1. \A i \in 1 .. Len(pending_fd') : i \in 1 .. Len(pending_fd) \/ i = Len(pending_fd) + 1
      BY <1>2
    <2>2. /\ \A i \in 1 .. Len(pending_fd) : i \in 1 .. Len(pending_fd')
          /\ Len(pending_fd) + 1 \in 1 .. Len(pending_fd')
      BY <1>2
    <2> QED
      BY <1>2, <2>1, <2>2 DEF Queued
  <1>9. \A g \in Fd : /\ ~InHand(g)'
                      /\ Served(g)' <=> Served(g)
                      /\ InHand(g) <=> g = new_fd
    BY DEF InHand, Served, Serving
  <1>10. \A i, j \in 1 .. Len(pending_fd') : pending_fd'[i] = pending_fd'[j] => i = j
    <2>1. \A i, j \in 1 .. Len(pending_fd) : pending_fd[i] = pending_fd[j] => i = j
      BY DEF IInv, FdOwnedOnce
    <2>2. \A i \in 1 .. Len(pending_fd) : pending_fd[i] # new_fd
      BY <1>7 DEF Queued
    <2> HIDE DEF ListenerPush
    <2>3. \A i \in 1 .. Len(pending_fd') : i \in 1 .. Len(pending_fd) \/ i = Len(pending_fd) + 1
      BY <1>2
    <2> QED
      BY <1>2, <2>1, <2>2, <2>3
  <1>11. FdOwnedOnce'
    BY <1>7, <1>8, <1>9, <1>10 DEF IInv, FdOwnedOnce, Serving
  <1>12. NoDescriptorLeak'
    BY <1>7, <1>8, <1>9 DEF IInv, NoDescriptorLeak
  <1> QED
    BY <1>3, <1>5, <1>6, <1>11, <1>12 DEF IInv

LEMMA ListenerPostIInv == IInv /\ ListenerPost => IInv'
  <1> SUFFICES ASSUME IInv, ListenerPost PROVE IInv'
    OBVIOUS
  <1> USE Constants DEF ListenerPost, connVars, lockVars
  <1>1. TypeOK'
    BY DEF IInv, TypeOK
  <1>2. TokenHolders' = TokenHolders
    BY DEF TokenHolders
  <1>3. TokensMatchQueue'
    BY <1>2, HoldersFinite DEF IInv, TypeOK, TokensMatchQueue
  <1>4. FdKnown' /\ LoginBacked' /\ LogLockHeld'
    BY DEF IInv, FdKnown, LoginBacked, LogLockHeld, Serving
  <1>5. \A g \in Fd : /\ InHand(g)' <=> InHand(g)
                      /\ Queued(g)' <=> Queued(g)
                      /\ Served(g)' <=> Served(g)
    BY DEF InHand, Queued, Served, Serving
  <1>6. FdOwnedOnce' /\ NoDescriptorLeak'
    BY <1>5 DEF IInv, FdOwnedOnce, NoDescriptorLeak, Serving
  <1> QED
    BY <1>1, <1>3, <1>4, <1>6 DEF IInv

-----------------------------------------------------------------------------
(* A worker and its queue                                                    *)

LEMMA WorkerWaitIInv ==
    ASSUME NEW w \in Worker, IInv, WorkerWait(w)
    PROVE  IInv'
  <1> USE Constants DEF WorkerWait, listenVars, connVars, lockVars
  <1>1. TypeOK'
    BY DEF IInv, TypeOK, WorkerPcs
  <1>2. TokenHolders' = TokenHolders \cup {w} /\ w \notin TokenHolders
    BY DEF IInv, TypeOK, TokenHolders
  <1>3. Cardinality(TokenHolders') = Cardinality(TokenHolders) + 1
    BY <1>2, HoldersFinite, FS_AddElement
  <1>4. TokensMatchQueue'
    BY <1>3, HoldersFinite DEF IInv, TypeOK, TokensMatchQueue
  <1>5. \A v \in Worker : Serving(v)' <=> Serving(v)
    BY DEF IInv, TypeOK, Serving
  <1>6. FdKnown'
    BY <1>5 DEF IInv, FdKnown
  <1>7. LoginBacked'
    BY DEF IInv, TypeOK, LoginBacked, Serving
  <1>8. LogLockHeld'
    BY DEF IInv, TypeOK, LogLockHeld
  <1>9. \A g \in Fd : /\ InHand(g)' <=> InHand(g)
                      /\ Queued(g)' <=> Queued(g)
                      /\ Served(g)' <=> Served(g)
    BY <1>5 DEF InHand, Queued, Served
  <1>10. FdOwnedOnce' /\ NoDescriptorLeak'
    BY <1>5, <1>9 DEF IInv, FdOwnedOnce, NoDescriptorLeak
  <1> QED
    BY <1>1, <1>4, <1>6, <1>7, <1>8, <1>10 DEF IInv

\* The descriptor goes from the head of the queue, where it was once, to the worker.
LEMMA WorkerPopIInv ==
    ASSUME NEW w \in Worker, IInv, WorkerPop(w)
    PROVE  IInv'
  <1> USE Constants DEF WorkerPop, listenVars, connVars, lockVars
  <1> DEFINE h == Head(pending_fd)
  <1>1. pending_fd \in Seq(Fd) /\ pending_fd # <<>>
    BY DEF IInv, TypeOK
  <1>2. /\ pending_fd' \in Seq(Fd)
        /\ Len(pending_fd) \in Nat /\ Len(pending_fd) > 0
        /\ Len(pending_fd') = Len(pending_fd) - 1
        /\ \A i \in 1 .. Len(pending_fd) - 1 : pending_fd'[i] = pending_fd[i + 1]
        /\ h = pending_fd[1] /\ h \in Fd
    BY <1>1, PopFacts
  <1>3. fd' = [fd EXCEPT ![w] = h] /\ wpc' = [wpc EXCEPT ![w] = "hello"]
    OBVIOUS
  <1> HIDE DEF h
  <1>4. TypeOK'
    BY <1>2, <1>3 DEF IInv, TypeOK, WorkerPcs
  <1>5. TokenHolders' = TokenHolders \ {w} /\ w \in TokenHolders
    BY DEF IInv, TypeOK, TokenHolders
  <1>6. Cardinality(TokenHolders') = Cardinality(TokenHolders) - 1
    BY <1>5, HoldersFinite, FS_RemoveElement
  <1>7. TokensMatchQueue'
    BY <1>2, <1>6, HoldersFinite DEF IInv, TypeOK, TokensMatchQueue
  <1>8. /\ \A v \in Worker : Serving(v)' <=> Serving(v) \/ v = w
        /\ ~Serving(w)
        /\ \A v \in Worker : v # w => fd'[v] = fd[v]
        /\ fd'[w] = h
    BY <1>3 DEF IInv, TypeOK, Serving
  <1>9. FdKnown'
    BY <1>2, <1>8 DEF IInv, FdKnown
  <1>10. LoginBacked'
    BY <1>3 DEF IInv, TypeOK, LoginBacked, Serving
  <1>11. LogLockHeld'
    BY <1>3 DEF IInv, TypeOK, LogLockHeld
  <1>12. Queued(h) /\ ~InHand(h) /\ ~Served(h)
    <2>1. 1 \in 1 .. Len(pending_fd)
      BY <1>2
    <2>2. Queued(h)
      BY <1>2, <2>1 DEF Queued
    <2> QED
      BY <1>2, <2>2 DEF IInv, FdOwnedOnce
  <1>13. \A i, j \in 1 .. Len(pending_fd) : pending_fd[i] = pending_fd[j] => i = j
    BY DEF IInv, FdOwnedOnce
  <1>14. \A i, j \in 1 .. Len(pending_fd') : pending_fd'[i] = pending_fd'[j] => i = j
    <2> SUFFICES ASSUME NEW i \in 1 .. Len(pending_fd'), NEW j \in 1 .. Len(pending_fd'),
                        pending_fd'[i] = pending_fd'[j]
                 PROVE  i = j
      OBVIOUS
    <2>1. /\ i + 1 \in 1 .. Len(pending_fd) /\ j + 1 \in 1 .. Len(pending_fd)
          /\ i \in 1 .. Len(pending_fd) - 1 /\ j \in 1 .. Len(pending_fd) - 1
      BY ONLY <1>2, i \in 1 .. Len(pending_fd'), j \in 1 .. Len(pending_fd')
    <2>2. pending_fd[i + 1] = pending_fd[j + 1]
      BY <1>2, <2>1
    <2>3. i + 1 = j + 1
      BY <1>13, <2>1, <2>2
    <2> QED
      BY <2>3
  <1>15. \A g \in Fd : Queued(g)' <=> Queued(g) /\ g # h
    <2> SUFFICES ASSUME NEW g \in Fd PROVE Queued(g)' <=> Queued(g) /\ g # h
      OBVIOUS
    <2>1. ASSUME Queued(g)' PROVE Queued(g) /\ g # h
      <3>1. PICK i \in 1 .. Len(pending_fd') : pending_fd'[i] = g
        BY <2>1 DEF Queued
      <3>2. /\ i \in 1 .. Len(pending_fd) - 1 /\ i + 1 \in 1 .. Len(pending_fd)
            /\ 1 \in 1 .. Len(pending_fd) /\ i + 1 # 1
        BY ONLY <1>2, i \in 1 .. Len(pending_fd')
      <3>3. pending_fd[i + 1] = g
        BY <1>2, <3>1, <3>2
      <3> QED
        BY <1>2, <1>13, <3>2, <3>3 DEF Queued
    <2>2. ASSUME Queued(g), g # h PROVE Queued(g)'
      <3>1. PICK i \in 1 .. Len(pending_fd) : pending_fd[i] = g
        BY <2>2 DEF Queued
      <3>2. i # 1
        BY <1>2, <2>2, <3>1
      <3>3. /\ i - 1 \in 1 .. Len(pending_fd') /\ i - 1 \in 1 .. Len(pending_fd) - 1
            /\ (i - 1) + 1 = i
        BY ONLY <1>2, <3>2, i \in 1 .. Len(pending_fd)
      <3>4. pending_fd'[i - 1] = g
        BY <1>2, <3>1, <3>3
      <3> QED
        BY <3>3, <3>4 DEF Queued
    <2> QED
      BY <2>1, <2>2
  <1>16. \A g \in Fd : (InHand(g)' <=> InHand(g)) /\ (Served(g)' <=> Served(g) \/ g = h)
    BY <1>8 DEF InHand, Served
  <1>17. \A u, v \in Worker : Serving(u)' /\ Serving(v)' /\ fd'[u] = fd'[v] => u = v
    <2>1. \A u, v \in Worker : Serving(u) /\ Serving(v) /\ fd[u] = fd[v] => u = v
      BY DEF IInv, FdOwnedOnce
    <2>2. \A v \in Worker : Serving(v) => fd[v] # h
      BY <1>12 DEF Served
    <2> QED
      BY <1>8, <2>1, <2>2
  <1>18. FdOwnedOnce'
    BY <1>12, <1>14, <1>15, <1>16, <1>17 DEF IInv, FdOwnedOnce
  <1>19. NoDescriptorLeak'
    BY <1>12, <1>15, <1>16 DEF IInv, NoDescriptorLeak
  <1> QED
    BY <1>4, <1>7, <1>9, <1>10, <1>11, <1>18, <1>19 DEF IInv

\* The descriptor a worker closes is nobody else's.
LEMMA CloseIInv ==
    ASSUME NEW w \in Worker, IInv, Close(w)
    PROVE  IInv'
  <1> USE Constants DEF Close, listenVars, queueVars, lockVars
  <1> DEFINE c == fd[w]
  <1>1. Serving(w) /\ c \in Fd
    BY DEF IInv, FdKnown, Serving
  <1>2. TypeOK'
    BY <1>1 DEF IInv, TypeOK, WorkerPcs
  <1>3. TokenHolders' = TokenHolders
    BY DEF IInv, TypeOK, TokenHolders
  <1>4. TokensMatchQueue'
    BY <1>3 DEF IInv, TokensMatchQueue
  <1>5. /\ \A v \in Worker : Serving(v)' <=> Serving(v) /\ v # w
        /\ \A v \in Worker : v # w => fd'[v] = fd[v]
    BY DEF IInv, TypeOK, Serving
  <1>6. FdKnown'
    BY <1>5 DEF IInv, FdKnown
  <1>7. \A v \in Worker : Serving(v) /\ v # w => fd[v] # c
    BY <1>1 DEF IInv, FdOwnedOnce
  <1>8. LoginBacked'
    <2>1. \A v \in Worker : v # w => wpc'[v] = wpc[v]
      BY DEF IInv, TypeOK
    <2>2. wpc'[w] = "wait"
      BY DEF IInv, TypeOK
    <2>3. \A v \in Worker : Serving(v) /\ v # w => shown'[fd'[v]] = shown[fd[v]]
      BY <1>1, <1>5, <1>7 DEF IInv, TypeOK, FdKnown
    <2> QED
      BY <1>5, <2>1, <2>2, <2>3 DEF IInv, LoginBacked
  <1>9. LogLockHeld'
    BY DEF IInv, TypeOK, LogLockHeld
  <1>10. Served(c) /\ ~InHand(c) /\ ~Queued(c)
    <2>1. Served(c)
      BY <1>1 DEF Served
    <2> QED
      BY <1>1, <2>1 DEF IInv, FdOwnedOnce
  <1>11. \A g \in Fd : /\ InHand(g)' <=> InHand(g)
                       /\ Queued(g)' <=> Queued(g)
                       /\ Served(g)' <=> Served(g) /\ g # c
    BY <1>5, <1>7 DEF InHand, Queued, Served
  <1>12. FdOwnedOnce'
    BY <1>5, <1>11 DEF IInv, FdOwnedOnce
  <1>13. NoDescriptorLeak'
    BY <1>1, <1>10, <1>11 DEF IInv, TypeOK, NoDescriptorLeak
  <1> QED
    BY <1>2, <1>4, <1>6, <1>8, <1>9, <1>12, <1>13 DEF IInv

-----------------------------------------------------------------------------
(* The conversation                                                          *)

\* The greeting forgets the login of the worker's previous client.
LEMMA HelloIInv ==
    ASSUME NEW w \in Worker, IInv, Hello(w)
    PROVE  IInv'
  <1> USE Constants DEF Hello, lockVars
  <1>1. PICK p \in {"recv", "close"} : wpc' = [wpc EXCEPT ![w] = p]
    BY SendThenFacts
  <1>2. TypeOK'
    BY <1>1 DEF IInv, TypeOK, WorkerPcs, State, listenVars, queueVars
  <1>3. TokensMatchQueue' /\ FdKnown' /\ FdOwnedOnce' /\ NoDescriptorLeak'
    BY <1>1, TalkKeeps DEF Talking
  <1>4. LoginBacked'
    BY <1>1 DEF IInv, TypeOK, LoginBacked, Serving
  <1>5. LogLockHeld'
    BY <1>1 DEF IInv, TypeOK, LogLockHeld
  <1> QED
    BY <1>2, <1>3, <1>4, <1>5 DEF IInv

\* Steps of a conversation that only lead to another place: to the commands that need
\* a login only from the state AUTHENTICATED.
LEMMA MoveIInv ==
    ASSUME NEW w \in Worker, IInv, wpc[w] \in {"recv", "reload"},
           NEW p \in {"recv", "close", "reload", "set", "clear"},
           p \in {"reload", "set", "clear"} => connection_state[w] = "AUTHENTICATED",
           wpc' = [wpc EXCEPT ![w] = p],
           UNCHANGED <<running, listenVars, queueVars, fd, connVars, peer, lockVars>>
    PROVE  IInv'
  <1> USE Constants DEF connVars, lockVars
  <1>1. TypeOK'
    BY DEF IInv, TypeOK, WorkerPcs, listenVars, queueVars
  <1>2. TokensMatchQueue' /\ FdKnown' /\ FdOwnedOnce' /\ NoDescriptorLeak'
    BY TalkKeeps DEF Talking
  <1>3. LoginBacked'
    BY DEF IInv, TypeOK, LoginBacked, Serving
  <1>4. LogLockHeld'
    BY DEF IInv, TypeOK, LogLockHeld
  <1> QED
    BY <1>1, <1>2, <1>3, <1>4 DEF IInv

LEMMA RecvEndIInv ==
    ASSUME NEW w \in Worker, IInv, RecvEnd(w)
    PROVE  IInv'
  BY MoveIInv DEF RecvEnd

LEMMA ReloadDoneIInv ==
    ASSUME NEW w \in Worker, IInv, ReloadDone(w)
    PROVE  IInv'
  <1>1. PICK p \in {"recv", "close"} : wpc' = [wpc EXCEPT ![w] = p]
    BY SendThenFacts DEF ReloadDone
  <1> QED
    BY <1>1, MoveIInv DEF ReloadDone

\* `user' and `pass' raise connection_state together with what the client has shown,
\* and no other worker talks to that client.
LEMMA LoginStepIInv ==
    ASSUME NEW w \in Worker, IInv, wpc[w] = "recv", NEW p \in {"recv", "close"},
           NEW st \in State, NEW sh \in {"nothing", "user", "login"},
           st = "USERNAME_RECEIVED" => sh = "user",
           st = "AUTHENTICATED" => sh = "login",
           wpc' = [wpc EXCEPT ![w] = p],
           connection_state' = [connection_state EXCEPT ![w] = st],
           shown' = [shown EXCEPT ![fd[w]] = sh],
           UNCHANGED <<running, listenVars, queueVars, fd, peer, lockVars>>
    PROVE  IInv'
  <1> USE Constants DEF lockVars
  <1>1. TypeOK'
    BY DEF IInv, TypeOK, WorkerPcs, listenVars, queueVars
  <1>2. TokensMatchQueue' /\ FdKnown' /\ FdOwnedOnce' /\ NoDescriptorLeak'
    BY TalkKeeps DEF Talking
  <1>3. Serving(w) /\ fd[w] \in Fd
    BY DEF IInv, FdKnown, Serving
  <1>4. \A v \in Worker : v # w => /\ wpc'[v] = wpc[v]
                                   /\ connection_state'[v] = connection_state[v]
    BY DEF IInv, TypeOK
  <1>5. \A v \in Worker : v # w /\ Serving(v) => fd[v] \in Fd /\ fd[v] # fd[w]
    BY <1>3 DEF IInv, FdOwnedOnce, FdKnown
  <1>6. \A v \in Worker : v # w /\ Serving(v) => shown'[fd'[v]] = shown[fd[v]]
    BY <1>5 DEF IInv, TypeOK
  <1>7. shown'[fd'[w]] = sh /\ connection_state'[w] = st /\ wpc'[w] = p
    BY <1>3 DEF IInv, TypeOK
  <1>8. LoginBacked'
    BY <1>4, <1>6, <1>7 DEF IInv, LoginBacked, Serving
  <1>9. LogLockHeld'
    BY DEF IInv, TypeOK, LogLockHeld
  <1> QED
    BY <1>1, <1>2, <1>8, <1>9 DEF IInv

LEMMA HandleLineIInv ==
    ASSUME NEW w \in Worker, NEW line \in Line, IInv, HandleLine(w, line)
    PROVE  IInv'
  <1>1. CASE Quit(w, line)
    BY <1>1, MoveIInv DEF Quit
  <1>2. CASE User(w, line)
    <2>1. PICK p \in {"recv", "close"} : wpc' = [wpc EXCEPT ![w] = p]
      BY <1>2, SendThenFacts DEF User
    <2> QED
      BY <1>2, <2>1, LoginStepIInv DEF User, State
  <1>3. CASE Pass(w, line)
    <2>1. PICK p \in {"recv", "close"} : wpc' = [wpc EXCEPT ![w] = p]
      BY <1>3, SendThenFacts DEF Pass
    <2>2. shown[fd[w]] = "user"
      BY <1>3 DEF Pass, IInv, LoginBacked, Serving
    <2>3. CASE Right(line)
      <3>1. /\ connection_state' = [connection_state EXCEPT ![w] = "AUTHENTICATED"]
            /\ shown' = [shown EXCEPT ![fd[w]] = "login"]
        BY <1>3, <2>2, <2>3 DEF Pass, Shows
      <3> QED
        BY <1>3, <2>1, <3>1, LoginStepIInv DEF Pass, State
    <2>4. CASE ~Right(line)
      <3>1. /\ connection_state' = [connection_state EXCEPT ![w] = "USERNAME_RECEIVED"]
            /\ shown' = [shown EXCEPT ![fd[w]] = "user"]
        BY <1>3, <2>2, <2>4 DEF Pass, Shows
      <3> QED
        BY <1>3, <2>1, <3>1, LoginStepIInv DEF Pass, State
    <2> QED
      BY <2>3, <2>4
  <1>4. CASE Reload(w, line)
    BY <1>4, MoveIInv DEF Reload
  <1>5. CASE LogRegexp(w, line)
    BY <1>5, MoveIInv DEF LogRegexp
  <1>6. CASE Help(w, line) \/ Status(w, line) \/ Refused(w, line)
    <2>1. PICK p \in {"recv", "close"} : wpc' = [wpc EXCEPT ![w] = p]
      BY <1>6, SendThenFacts DEF Help, Status, Refused
    <2> QED
      BY <1>6, <2>1, MoveIInv DEF Help, Status, Refused
  <1> QED
    BY <1>1, <1>2, <1>3, <1>4, <1>5, <1>6 DEF HandleLine

LEMMA RegexpLockIInv ==
    ASSUME NEW w \in Worker, IInv, RegexpLock(w)
    PROVE  IInv'
  <1> USE Constants DEF RegexpLock, connVars
  <1>1. PICK p \in {"compile", "unlock"} : wpc' = [wpc EXCEPT ![w] = p]
    OBVIOUS
  <1>2. TypeOK'
    BY <1>1 DEF IInv, TypeOK, WorkerPcs, listenVars, queueVars
  <1>3. TokensMatchQueue' /\ FdKnown' /\ FdOwnedOnce' /\ NoDescriptorLeak'
    BY <1>1, TalkKeeps DEF Talking
  <1>4. LoginBacked'
    BY <1>1 DEF IInv, TypeOK, LoginBacked, Serving
  <1>5. LogLockHeld'
    BY <1>1 DEF IInv, TypeOK, LogLockHeld
  <1> QED
    BY <1>2, <1>3, <1>4, <1>5 DEF IInv

LEMMA RegexpUnlockIInv ==
    ASSUME NEW w \in Worker, IInv, RegexpUnlock(w)
    PROVE  IInv'
  <1> USE Constants DEF RegexpUnlock, connVars
  <1>1. TypeOK'
    BY DEF IInv, TypeOK, WorkerPcs, listenVars, queueVars
  <1>2. TokensMatchQueue' /\ FdKnown' /\ FdOwnedOnce' /\ NoDescriptorLeak'
    BY TalkKeeps DEF Talking
  <1>3. LoginBacked'
    BY DEF IInv, TypeOK, LoginBacked, Serving
  <1>4. LogLockHeld'
    BY DEF IInv, TypeOK, LogLockHeld
  <1> QED
    BY <1>1, <1>2, <1>3, <1>4 DEF IInv

-----------------------------------------------------------------------------
LEMMA StutterIInv == IInv /\ UNCHANGED vars => IInv'
  <1> SUFFICES ASSUME IInv, UNCHANGED vars PROVE IInv'
    OBVIOUS
  <1> USE DEF vars, connVars, lockVars
  <1>1. TypeOK'
    BY DEF IInv, TypeOK, listenVars, queueVars
  <1>2. TokensMatchQueue' /\ FdKnown' /\ FdOwnedOnce' /\ NoDescriptorLeak'
    BY IdleKeeps
  <1>3. LoginBacked' /\ LogLockHeld'
    BY DEF IInv, LoginBacked, LogLockHeld, Serving
  <1> QED
    BY <1>1, <1>2, <1>3 DEF IInv

LEMMA AcceptFailsIInv == IInv /\ AcceptFails => IInv'
  <1> SUFFICES ASSUME IInv, AcceptFails PROVE IInv'
    OBVIOUS
  <1> USE DEF AcceptFails, connVars, lockVars
  <1>1. TypeOK'
    BY DEF IInv, TypeOK, listenVars, queueVars
  <1>2. TokensMatchQueue' /\ FdKnown' /\ FdOwnedOnce' /\ NoDescriptorLeak'
    BY IdleKeeps
  <1>3. LoginBacked' /\ LogLockHeld'
    BY DEF IInv, LoginBacked, LogLockHeld, Serving
  <1> QED
    BY <1>1, <1>2, <1>3 DEF IInv

LEMMA NextIInv == IInv /\ [Next]_vars => IInv'
  <1> SUFFICES ASSUME IInv, [Next]_vars PROVE IInv'
    OBVIOUS
  <1>1. CASE \E f \in Fd : Accept(f) \/ HangUp(f)
    BY <1>1, AcceptIInv, HangUpIInv
  <1>2. CASE AcceptFails
    BY <1>2, AcceptFailsIInv
  <1>3. CASE ListenerStep
    BY <1>3, ListenerLoggedIInv, ListenerPushIInv, ListenerPostIInv DEF ListenerStep
  <1>4. CASE \E t \in Thread : LogLock(t)
    BY <1>4, LogLockIInv
  <1>5. ASSUME NEW w \in Worker, WorkerStep(w) PROVE IInv'
    BY <1>5, WorkerLoggedIInv, WorkerPopIInv, HelloIInv, RecvEndIInv, ReloadDoneIInv,
       RegexpUnlockIInv, CloseIInv DEF WorkerStep
  <1>6. ASSUME NEW w \in Worker, WorkerWait(w) \/ RegexpLock(w) PROVE IInv'
    BY <1>6, WorkerWaitIInv, RegexpLockIInv
  <1>7. ASSUME NEW w \in Worker, NEW line \in Line, HandleLine(w, line) PROVE IInv'
    BY <1>7, HandleLineIInv
  <1>8. CASE Exited \/ UNCHANGED vars
    BY <1>8, StutterIInv DEF Exited
  <1> QED
    BY <1>1, <1>2, <1>3, <1>4, <1>5, <1>6, <1>7, <1>8 DEF Next, Step

LEMMA SpecIInv == Spec => []IInv
  BY InitIInv, NextIInv, PTL DEF Spec

-----------------------------------------------------------------------------
\* The variables of the control server keep their types.
THEOREM TypeCorrect == Spec => []TypeOK
  <1>1. IInv => TypeOK
    BY DEF IInv
  <1> QED
    BY <1>1, SpecIInv, PTL

\* With any number of workers, pending_fd.front() is never called on an empty queue:
\* a worker between sem_wait and pop is counted, and its descriptor was pushed before
\* its token was posted.
THEOREM PendingNeverPoppedEmpty == Spec => []NoEmptyPop
  <1>1. IInv => NoEmptyPop
    <2> SUFFICES ASSUME IInv, NEW w \in Worker, wpc[w] = "pop" PROVE pending_fd # <<>>
      BY DEF NoEmptyPop
    <2>1. w \in TokenHolders
      BY DEF TokenHolders
    <2>2. Cardinality(TokenHolders) # 0
      BY <2>1, HoldersFinite, FS_EmptySet
    <2>3. Len(pending_fd) # 0
      BY <2>2, HoldersFinite DEF IInv, TypeOK, TokensMatchQueue
    <2> QED
      BY <2>3, EmptySeq
  <1> QED
    BY <1>1, SpecIInv, PTL

\* Every open descriptor has exactly one owner, the listener, the queue or one worker,
\* and every owned descriptor is open, however numbers are reused.
THEOREM OneOwnerPerDescriptor == Spec => [](FdOwnedOnce /\ NoDescriptorLeak)
  <1>1. IInv => FdOwnedOnce /\ NoDescriptorLeak
    BY DEF IInv
  <1> QED
    BY <1>1, SpecIInv, PTL

\* An accepted descriptor is open exactly as long as it has an owner, so no path of a
\* connection leaks it, and none closes it while it is in use.
THEOREM NoDescriptorLost == Spec => []NoDescriptorLeak
  <1>1. IInv => NoDescriptorLeak
    BY DEF IInv
  <1> QED
    BY <1>1, SpecIInv, PTL

\* `reload' and `logregexp' are executed only after a login on the same connection.
THEOREM OnlyAfterLogin == Spec => []LoginRequired
  <1>1. IInv => LoginRequired
    BY DEF IInv, LoginRequired, LoginBacked, Serving
  <1> QED
    BY <1>1, SpecIInv, PTL

\* No print_log reads an expression that `logregexp' has freed.
THEOREM ExpressionNeverFreedInUse == Spec => []NoFreedExpression
  <1>1. IInv => NoFreedExpression
    BY DEF IInv, NoFreedExpression, LogLockHeld
  <1> QED
    BY <1>1, SpecIInv, PTL
=============================================================================
