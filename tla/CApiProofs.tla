----------------------------- MODULE CApiProofs -----------------------------
(***************************************************************************)
(* Proofs about the C interface.  First its calls, for any threads and any *)
(* number of calls: the depth of the handler stacks, whose message a       *)
(* thread finds, and what out-pointers hold.  Then the layout that a call  *)
(* compiles, for all extents and every pattern.                            *)
(***************************************************************************)
EXTENDS CApi, Layout, ArithmeticProofs

LEMMA InitInv == CAInit => CAInv
  BY CApiAssumption DEF CAInit, CAInv, CATypeOK, MessageIsOwn, HandlesDelivered,
                        CallInv, NoneToCome, Threads

(* The message that a thread in a call leaves of itself is well formed.    *)
LEMMA SetErrorInv ==
  ASSUME CAInv, NEW u \in Users, calls[u] > 0, NEW kind \in {"cpl", "set"},
         SetError(u, Message(u, kind))
  PROVE  /\ last' \in [Threads -> {NoMessage} \cup
                         [by : Users, call : 1..MaxCalls, kind : {"cpl", "set"}]]
         /\ \A v \in Users :
              last'[v] # NoMessage => last'[v].by = v /\ last'[v].call = calls[v]
<1>1. PICK held \in {Message(u, kind), NoMessage} : last' = [last EXCEPT ![u] = held]
  BY DEF SetError, Slot
<1>2. calls[u] \in 1..MaxCalls /\ u \in Threads
  BY CApiAssumption DEF CAInv, CATypeOK, Threads
<1>3. /\ Message(u, kind) \in [by : Users, call : 1..MaxCalls, kind : {"cpl", "set"}]
      /\ Message(u, kind).by = u /\ Message(u, kind).call = calls[u]
  BY <1>2 DEF Message
<1>4. last' \in [Threads -> {NoMessage} \cup
                   [by : Users, call : 1..MaxCalls, kind : {"cpl", "set"}]]
  BY <1>1, <1>3 DEF CAInv, CATypeOK
<1>5. ASSUME NEW v \in Users, last'[v] # NoMessage
      PROVE  last'[v].by = v /\ last'[v].call = calls[v]
  <2>1. CASE v = u
    BY <2>1, <1>1, <1>2, <1>3, <1>5 DEF CAInv, CATypeOK
  <2>2. CASE v # u
    BY <2>2, <1>1, <1>5 DEF CAInv, CATypeOK, MessageIsOwn, Threads
  <2> QED
    BY <2>1, <2>2
<1> QED
  BY <1>4, <1>5

(* A step that leaves last alone leaves every message about its own call.  *)
LEMMA MessagesKept ==
  ASSUME CAInv, UNCHANGED last
  PROVE  /\ last' \in [Threads -> {NoMessage} \cup
                         [by : Users, call : 1..MaxCalls, kind : {"cpl", "set"}]]
         /\ \A v \in Users :
              last'[v] # NoMessage => last'[v].by = v /\ last'[v].call = calls[v]
  BY DEF CAInv, CATypeOK, MessageIsOwn

(* capi_call begins: the new number, no message, one handler more.         *)
LEMMA EnterInv ==
  ASSUME CAInv, NEW u \in Users, NEW f \in Functions, Enter(u, f)
  PROVE  CAInv'
<1> USE DEF CAInv
<1>1. /\ u \in Threads /\ calls[u] \in Nat /\ calls[u] + 1 \in 1..MaxCalls
      /\ calls'[u] = calls[u] + 1 /\ \A v \in Users \ {u} : calls'[v] = calls[v]
      /\ f # "none"
  BY CApiAssumption DEF Enter, CATypeOK, Threads, Functions
<1>2. CATypeOK'
  <2>1. handlers' = [t \in Threads |-> IF t \in Users /\ in'[t] # "none" THEN 1 ELSE 0]
    BY <1>1 DEF Enter, CATypeOK
  <2>2. in' \in [Users -> Functions \cup {"none"}] /\ calls' \in [Users -> 0..MaxCalls]
    BY <1>1 DEF Enter, CATypeOK
  <2>3. last' \in [Threads -> {NoMessage} \cup
                     [by : Users, call : 1..MaxCalls, kind : {"cpl", "set"}]]
    BY <1>1 DEF Enter, ClearedOnEntry, Slot, CATypeOK
  <2> QED
    BY <2>1, <2>2, <2>3 DEF Enter, CATypeOK
<1>3. MessageIsOwn'
  BY <1>1 DEF Enter, ClearedOnEntry, Slot, CATypeOK, MessageIsOwn, Threads
<1>4. NoneToCome'
  BY <1>1 DEF Enter, NoneToCome, CATypeOK
<1>5. Handle(u)' \notin live
  <2>1. Handle(u)' = <<u, calls[u] + 1>>
    BY <1>1 DEF Handle
  <2> QED
    BY <1>1, <2>1 DEF NoneToCome
<1>6. CallInv'
  BY <1>1, <1>5 DEF Enter, CallInv, CATypeOK, Handle
<1>7. HandlesDelivered'
  <2>1. ASSUME NEW h \in live', h[2] = calls'[h[1]] PROVE out'[h[1]] = h
    <3>1. h \in live /\ h[1] \in Users /\ h[2] \in Nat /\ h = <<h[1], h[2]>>
      BY <2>1 DEF Enter, CATypeOK
    <3>2. h[1] # u
      BY <1>1, <2>1, <3>1 DEF NoneToCome
    <3> QED
      BY <1>1, <2>1, <3>1, <3>2 DEF Enter, HandlesDelivered, CATypeOK
  <2>2. ASSUME NEW v \in Users
        PROVE  /\ out'[v] # NoHandle => status'[v] \in {"ok", "none"} /\ out'[v] \in live'
               /\ status'[v] = "ok" /\ out'[v] = NoHandle => Handle(v)' \notin live'
    BY <1>1 DEF Enter, HandlesDelivered, CATypeOK, Handle
  <2> QED
    BY <2>1, <2>2 DEF HandlesDelivered
<1> QED
  BY <1>2, <1>3, <1>4, <1>6, <1>7

(* A call ends with a status that nothing was allocated for.               *)
LEMMA LeaveInv ==
  ASSUME CAInv, NEW u \in Users, in[u] # "none", NEW s \in Failures \cup {"ok"}, Leave(u, s),
         last' \in [Threads -> {NoMessage} \cup
                      [by : Users, call : 1..MaxCalls, kind : {"cpl", "set"}]],
         \A v \in Users : last'[v] # NoMessage => last'[v].by = v /\ last'[v].call = calls[v],
         UNCHANGED <<calls, cause, out, live>>
  PROVE  CAInv'
<1> USE DEF CAInv
<1>1. u \in Threads /\ out[u] = NoHandle /\ Handle(u) \notin live
  BY DEF CallInv, Threads
<1>2. CATypeOK'
  <2>1. handlers' = [t \in Threads |-> IF t \in Users /\ in'[t] # "none" THEN 1 ELSE 0]
    BY <1>1 DEF Leave, CATypeOK
  <2> QED
    BY <2>1 DEF Leave, CATypeOK
<1>3. MessageIsOwn' /\ NoneToCome'
  BY DEF MessageIsOwn, NoneToCome
<1>4. CallInv'
  BY <1>1 DEF Leave, CallInv, CATypeOK, Handle
<1>5. HandlesDelivered'
  BY <1>1 DEF Leave, HandlesDelivered, CATypeOK, Handle
<1> QED
  BY <1>2, <1>3, <1>4, <1>5

(* A call that allocates: the handle and the out-pointer come together.    *)
LEMMA AllocateInv ==
  ASSUME CAInv, NEW u \in Users, in[u] # "none", Leave(u, "ok"),
         live' = live \cup {Handle(u)}, out' = [out EXCEPT ![u] = Handle(u)],
         UNCHANGED <<last, calls, cause>>
  PROVE  CAInv'
<1> USE DEF CAInv
<1>1. /\ u \in Threads /\ calls[u] \in 1..MaxCalls /\ Handle(u) = <<u, calls[u]>>
      /\ Handle(u)' = Handle(u)
  BY CApiAssumption DEF CallInv, CATypeOK, Threads, Handle
<1>2. CATypeOK'
  <2>1. handlers' = [t \in Threads |-> IF t \in Users /\ in'[t] # "none" THEN 1 ELSE 0]
    BY <1>1 DEF Leave, CATypeOK
  <2>2. live' \subseteq Users \X (1..MaxCalls)
        /\ out' \in [Users -> (Users \X (1..MaxCalls)) \cup {NoHandle}]
    BY <1>1 DEF CATypeOK
  <2> QED
    BY <2>1, <2>2 DEF Leave, CATypeOK
<1>3. MessageIsOwn'
  BY DEF MessageIsOwn
<1>4. NoneToCome'
  BY <1>1 DEF NoneToCome, CATypeOK
<1>5. CallInv'
  BY <1>1 DEF Leave, CallInv, CATypeOK, Handle
<1>6. HandlesDelivered'
  <2>1. ASSUME NEW h \in live', h[2] = calls'[h[1]] PROVE out'[h[1]] = h
    <3>1. CASE h = Handle(u)
      BY <1>1, <3>1 DEF CATypeOK
    <3>2. CASE h # Handle(u)
      <4>1. h \in live /\ h[1] \in Users /\ h = <<h[1], h[2]>>
        BY <3>2, <2>1 DEF CATypeOK
      <4>2. h[1] # u
        BY <1>1, <2>1, <3>2, <4>1
      <4> QED
        BY <2>1, <4>1, <4>2 DEF HandlesDelivered, CATypeOK
    <3> QED
      BY <3>1, <3>2
  <2>2. ASSUME NEW v \in Users
        PROVE  /\ out'[v] # NoHandle => status'[v] \in {"ok", "none"} /\ out'[v] \in live'
               /\ status'[v] = "ok" /\ out'[v] = NoHandle => Handle(v)' \notin live'
    <3>1. CASE v = u
      <4>1. status'[u] = "ok" /\ out'[u] = Handle(u) /\ Handle(u) \in live'
        BY <1>1 DEF Leave, CATypeOK
      <4>2. Handle(u) # NoHandle
        BY <1>1, CApiAssumption
      <4> QED
        BY <3>1, <4>1, <4>2
    <3>2. CASE v # u
      BY <1>1, <3>2 DEF Leave, HandlesDelivered, CATypeOK, Handle
    <3> QED
      BY <3>1, <3>2
  <2> QED
    BY <2>1, <2>2 DEF HandlesDelivered
<1> QED
  BY <1>2, <1>3, <1>4, <1>5, <1>6

(* A CPL error changes nothing but the message of the thread it is raised  *)
(* on, and that only when the thread has the handler.                      *)
LEMMA CplErrorInv ==
  ASSUME CAInv, NEW u \in Users,
         CplErrorHere(u) \/ \E w \in Workers : CplErrorOnWorker(u, w)
  PROVE  CAInv'
<1> USE DEF CAInv
<1>1. /\ last' \in [Threads -> {NoMessage} \cup
                      [by : Users, call : 1..MaxCalls, kind : {"cpl", "set"}]]
      /\ \A v \in Users : last'[v] # NoMessage => last'[v].by = v /\ last'[v].call = calls[v]
  <2>1. CASE CplErrorHere(u)
    <3>1. calls[u] > 0 /\ (SetError(u, Message(u, "cpl")) \/ UNCHANGED last)
      BY <2>1 DEF CplErrorHere, CplError, CallInv
    <3> QED
      BY <3>1, SetErrorInv, MessagesKept
  <2>2. ASSUME NEW w \in Workers, CplErrorOnWorker(u, w) PROVE UNCHANGED last
    <3>1. w \in Threads /\ w \notin Users
      BY CApiAssumption DEF Threads
    <3>2. handlers[w] = 0
      BY <3>1 DEF CATypeOK
    <3> QED
      BY <2>2, <3>2 DEF CplErrorOnWorker, CplError
  <2> QED
    BY <2>1, <2>2, MessagesKept
<1>2. /\ UNCHANGED <<in, calls, handlers, status, out, live>>
      /\ cause' \in [Users -> {"none", "here", "worker"}]
  BY DEF CplErrorHere, CplErrorOnWorker, CATypeOK
<1>3. CATypeOK'
  BY <1>1, <1>2 DEF CATypeOK
<1>4. MessageIsOwn' /\ NoneToCome' /\ CallInv' /\ HandlesDelivered'
  BY <1>1, <1>2 DEF MessageIsOwn, NoneToCome, CallInv, HandlesDelivered, Handle
<1> QED
  BY <1>3, <1>4

(* The five ways out of a call.                                            *)
LEMMA EndInv ==
  ASSUME CAInv, NEW u \in Users,
         \/ Succeed(u) \/ Allocate(u) \/ ReadFails(u)
         \/ \E s \in Failures : Refuse(u, s) \/ Throw(u, s)
  PROVE  CAInv'
<1>1. in[u] # "none" /\ calls[u] > 0
  <2>1. in[u] # "none"
    BY DEF Succeed, Allocate, Allocating, ReadFails, Refuse, Throw
  <2> QED
    BY <2>1 DEF CAInv, CallInv
<1>2. CASE Succeed(u)
  BY <1>1, <1>2, MessagesKept, LeaveInv DEF Succeed
<1>3. CASE Allocate(u)
  <2>1. CASE Leave(u, "ok") /\ live' = live \cup {Handle(u)}
             /\ out' = [out EXCEPT ![u] = Handle(u)] /\ UNCHANGED last
    BY <1>1, <1>3, <2>1, AllocateInv DEF Allocate
  <2>2. CASE Leave(u, "oom") /\ SetError(u, Message(u, "set")) /\ UNCHANGED <<live, out>>
    BY <1>1, <1>3, <2>2, SetErrorInv, LeaveInv DEF Allocate, Failures
  <2> QED
    BY <1>3, <2>1, <2>2 DEF Allocate
<1>4. CASE ReadFails(u)
  <2>1. Leave(u, "io") /\ UNCHANGED <<calls, cause, out, live>>
        /\ (SetError(u, Message(u, "set")) \/ UNCHANGED last)
    BY <1>4 DEF ReadFails
  <2> QED
    BY <1>1, <2>1, SetErrorInv, MessagesKept, LeaveInv DEF Failures
<1>5. ASSUME NEW s \in Failures, Refuse(u, s) \/ Throw(u, s) PROVE CAInv'
  <2>1. Leave(u, s) /\ SetError(u, Message(u, "set")) /\ UNCHANGED <<calls, cause, out, live>>
    BY <1>5 DEF Refuse, Throw
  <2> QED
    BY <1>1, <2>1, SetErrorInv, LeaveInv
<1> QED
  BY <1>2, <1>3, <1>4, <1>5

(* Between calls: the message is cleared, a handle is released.            *)
LEMMA OutsideInv ==
  ASSUME CAInv, NEW u \in Users, ClearError(u) \/ \E h \in live : Release(u, h)
  PROVE  CAInv'
<1> USE DEF CAInv
<1>1. CASE ClearError(u)
  <2>1. CATypeOK'
    BY <1>1 DEF ClearError, Slot, CATypeOK, Threads
  <2>2. MessageIsOwn'
    BY <1>1 DEF ClearError, Slot, CATypeOK, MessageIsOwn, Threads
  <2>3. CallInv' /\ NoneToCome' /\ HandlesDelivered'
    BY <1>1 DEF ClearError, CATypeOK, CallInv, NoneToCome, HandlesDelivered, Handle
  <2> QED
    BY <2>1, <2>2, <2>3
<1>2. ASSUME NEW h \in live, Release(u, h) PROVE CAInv'
  <2>1. CATypeOK'
    BY <1>2 DEF Release, CATypeOK
  <2>2. MessageIsOwn' /\ NoneToCome'
    BY <1>2 DEF Release, MessageIsOwn, NoneToCome
  <2>3. CallInv'
    BY <1>2 DEF Release, CallInv, Handle
  <2>4. ASSUME NEW g \in live', g[2] = calls'[g[1]] PROVE out'[g[1]] = g
    BY <1>2, <2>4 DEF Release, HandlesDelivered, CATypeOK
  <2>5. ASSUME NEW v \in Users
        PROVE  /\ out'[v] # NoHandle => status'[v] \in {"ok", "none"} /\ out'[v] \in live'
               /\ status'[v] = "ok" /\ out'[v] = NoHandle => Handle(v)' \notin live'
    <3>1. out'[v] = IF out[v] = h THEN NoHandle ELSE out[v]
      BY <1>2 DEF Release
    <3>2. CASE out[v] = h
      <4>1. h # NoHandle /\ h = Handle(v)
        BY <1>2, <3>2, CApiAssumption DEF CATypeOK, CallInv, Threads
      <4> QED
        BY <1>2, <3>1, <3>2, <4>1 DEF Release, Handle
    <3>3. CASE out[v] # h
      BY <1>2, <3>1, <3>3 DEF Release, HandlesDelivered, Handle
    <3> QED
      BY <3>2, <3>3
  <2> QED
    BY <2>1, <2>2, <2>3, <2>4, <2>5 DEF HandlesDelivered
<1> QED
  BY <1>1, <1>2

(* The inductive invariant of the C interface.                             *)
THEOREM CAInvariant == CASpec => []CAInv
<1>1. CAInv /\ [CANext]_caVars => CAInv'
  <2> SUFFICES ASSUME CAInv, [CANext]_caVars PROVE CAInv'
    OBVIOUS
  <2>1. CASE CANext
    BY <2>1, EnterInv, CplErrorInv, EndInv, OutsideInv DEF CANext
  <2>2. CASE UNCHANGED caVars
    BY <2>2 DEF caVars, CAInv, CATypeOK, MessageIsOwn, HandlesDelivered, CallInv,
                NoneToCome, Handle
  <2> QED
    BY <2>1, <2>2
<1> QED
  BY <1>1, InitInv, PTL DEF CASpec

(* Every way out of a call leaves as many handlers as there were before.   *)
THEOREM CATypeCorrect == CASpec => []CATypeOK
  BY CAInvariant, PTL DEF CAInv

(* No thread ever finds a message about another thread or an earlier call. *)
THEOREM CAMessageIsOwn == CASpec => []MessageIsOwn
  BY CAInvariant, PTL DEF CAInv

(* Out-pointers hold what lives, and everything that lives was handed out. *)
THEOREM CAHandlesDelivered == CASpec => []HandlesDelivered
  BY CAInvariant, PTL DEF CAInv

-----------------------------------------------------------------------------
(***************************************************************************)
(* shortcog_compile_layout: the layout, for every pattern and all extents. *)
(***************************************************************************)

(* A fold over a sequence: its values after every prefix.                  *)
Products(f, o, g) ==
  /\ g \in [0..Len(o) -> Int] /\ g[0] = 1
  /\ \A k \in 1..Len(o) : g[k] = g[k - 1] * f[o[k]]

Ranks(c, s, o, g) ==
  /\ g \in [0..Len(o) -> Int] /\ g[0] = 0
  /\ \A k \in 1..Len(o) : g[k] = g[k - 1] * s[o[k]] + c[o[k]]

Joins(A, t, g) ==
  /\ g \in [0..Len(t) -> Seq(A)] /\ g[0] = <<>>
  /\ \A k \in 1..Len(t) : g[k] = g[k - 1] \o t[k]

(* The recursive functions of the model are such folds.                    *)
LEMMA ProductFolds ==
  ASSUME NEW A, NEW f \in [A -> Int], NEW o \in Seq(A)
  PROVE  \E g : Products(f, o, g) /\ Product(f, o) = g[Len(o)]
<1> DEFINE n == Len(o)
           IsFold(g) == g = [k \in 0..Len(o) |-> IF k = 0 THEN 1 ELSE g[k - 1] * f[o[k]]]
           step == [p \in (1..n) \X Int |-> p[2] * f[o[p[1]]]]
           g == CHOOSE g : IsFold(g)
<1>1. n \in Nat /\ \A k \in 1..n : f[o[k]] \in Int
  OBVIOUS
<1>2. step \in [(1..n) \X Int -> Int]
  BY <1>1
<1>3. PICK h \in [0..n -> Int] : h[0] = 1 /\ \A k \in 1..n : h[k] = step[<<k, h[k - 1]>>]
  <2> HIDE DEF step, n
  <2>1. 1 \in Int
    OBVIOUS
  <2>2. Recursion(Int, 1, n, step)
    BY <1>1, <1>2, <2>1, RecursionExists
  <2>3. QED
    BY <2>2 DEF Recursion
<1>4. \A k \in 1..n : k \in 0..n /\ k - 1 \in 0..n /\ k # 0
  BY <1>1
<1>5. \A k \in 1..n : h[k] = h[k - 1] * f[o[k]]
  <2>1. ASSUME NEW k \in 1..n PROVE h[k] = h[k - 1] * f[o[k]]
    <3>1. <<k, h[k - 1]>> \in (1..n) \X Int
      BY <1>3, <1>4
    <3>2. QED
      BY <1>3, <3>1
  <2>2. QED
    BY <2>1
<1> HIDE DEF step
<1>6. IsFold(h)
  <2>1. \A k \in 0..n : h[k] = IF k = 0 THEN 1 ELSE h[k - 1] * f[o[k]]
    BY <1>1, <1>3, <1>5
  <2>2. h = [k \in 0..n |-> h[k]]
    BY <1>3
  <2> HIDE DEF n
  <2>3. h = [k \in 0..n |-> IF k = 0 THEN 1 ELSE h[k - 1] * f[o[k]]]
    BY <2>1, <2>2
  <2>4. QED
    BY <2>3 DEF n
<1>7. IsFold(g)
  <2> HIDE DEF IsFold
  <2>1. QED
    BY <1>6
<1>8. Product(f, o) = g[Len(o)]
  BY DEF Product
<1> HIDE DEF g
<1>9. \A k \in 0..n : g[k] = IF k = 0 THEN 1 ELSE g[k - 1] * f[o[k]]
  BY <1>7
<1>10. \A k \in 0..n : g[k] \in Int
  <2> DEFINE S == {k \in 0..n : g[k] \in Int}
  <2>1. 0 \in S
    BY <1>1, <1>9
  <2>2. ASSUME NEW k \in 0..(n - 1), k \in S PROVE k + 1 \in S
    <3>1. k + 1 \in 0..n /\ k + 1 # 0 /\ k + 1 \in 1..n /\ (k + 1) - 1 = k
      BY <1>1
    <3>2. g[k + 1] = g[k] * f[o[k + 1]]
      BY <1>9, <3>1
    <3>3. g[k] \in Int /\ f[o[k + 1]] \in Int
      BY <1>1, <2>2, <3>1
    <3>4. QED
      BY <3>1, <3>2, <3>3
  <2>3. \A k \in 0..n : k \in S
    <3> HIDE DEF S, n
    <3>1. QED
      BY <1>1, <2>1, <2>2, InductionUpTo
  <2>4. QED
    BY <2>3
<1>11. Products(f, o, g)
  <2>1. g \in [0..n -> Int]
    BY <1>7, <1>10
  <2>2. g[0] = 1 /\ \A k \in 1..n : g[k] = g[k - 1] * f[o[k]]
    BY <1>1, <1>4, <1>9
  <2>3. QED
    BY <2>1, <2>2 DEF Products
<1>12. QED
  BY <1>8, <1>11

LEMMA RankFolds ==
  ASSUME NEW A, NEW c \in [A -> Int], NEW s \in [A -> Int], NEW o \in Seq(A)
  PROVE  \E g : Ranks(c, s, o, g) /\ RowMajor(c, s, o) = g[Len(o)]
<1> DEFINE n == Len(o)
           IsFold(g) == g = [k \in 0..Len(o) |-> IF k = 0 THEN 0 ELSE g[k - 1] * s[o[k]] + c[o[k]]]
           step == [p \in (1..n) \X Int |-> p[2] * s[o[p[1]]] + c[o[p[1]]]]
           g == CHOOSE g : IsFold(g)
<1>1. n \in Nat /\ \A k \in 1..n : s[o[k]] \in Int /\ c[o[k]] \in Int
  OBVIOUS
<1>2. step \in [(1..n) \X Int -> Int]
  BY <1>1
<1>3. PICK h \in [0..n -> Int] : h[0] = 0 /\ \A k \in 1..n : h[k] = step[<<k, h[k - 1]>>]
  <2> HIDE DEF step, n
  <2>1. 0 \in Int
    OBVIOUS
  <2>2. Recursion(Int, 0, n, step)
    BY <1>1, <1>2, <2>1, RecursionExists
  <2>3. QED
    BY <2>2 DEF Recursion
<1>4. \A k \in 1..n : k \in 0..n /\ k - 1 \in 0..n /\ k # 0
  BY <1>1
<1>5. \A k \in 1..n : h[k] = h[k - 1] * s[o[k]] + c[o[k]]
  <2>1. ASSUME NEW k \in 1..n PROVE h[k] = h[k - 1] * s[o[k]] + c[o[k]]
    <3>1. <<k, h[k - 1]>> \in (1..n) \X Int
      BY <1>3, <1>4
    <3>2. QED
      BY <1>3, <3>1
  <2>2. QED
    BY <2>1
<1> HIDE DEF step
<1>6. IsFold(h)
  <2>1. \A k \in 0..n : h[k] = IF k = 0 THEN 0 ELSE h[k - 1] * s[o[k]] + c[o[k]]
    BY <1>1, <1>3, <1>5
  <2>2. h = [k \in 0..n |-> h[k]]
    BY <1>3
  <2> HIDE DEF n
  <2>3. h = [k \in 0..n |-> IF k = 0 THEN 0 ELSE h[k - 1] * s[o[k]] + c[o[k]]]
    BY <2>1, <2>2
  <2>4. QED
    BY <2>3 DEF n
<1>7. IsFold(g)
  <2> HIDE DEF IsFold
  <2>1. QED
    BY <1>6
<1>8. RowMajor(c, s, o) = g[Len(o)]
  BY DEF RowMajor
<1> HIDE DEF g
<1>9. \A k \in 0..n : g[k] = IF k = 0 THEN 0 ELSE g[k - 1] * s[o[k]] + c[o[k]]
  BY <1>7
<1>10. \A k \in 0..n : g[k] \in Int
  <2> DEFINE S == {k \in 0..n : g[k] \in Int}
  <2>1. 0 \in S
    BY <1>1, <1>9
  <2>2. ASSUME NEW k \in 0..(n - 1), k \in S PROVE k + 1 \in S
    <3>1. k + 1 \in 0..n /\ k + 1 # 0 /\ k + 1 \in 1..n /\ (k + 1) - 1 = k
      BY <1>1
    <3>2. g[k + 1] = g[k] * s[o[k + 1]] + c[o[k + 1]]
      BY <1>9, <3>1
    <3>3. g[k] \in Int /\ s[o[k + 1]] \in Int /\ c[o[k + 1]] \in Int
      BY <1>1, <2>2, <3>1
    <3>4. QED
      BY <3>1, <3>2, <3>3
  <2>3. \A k \in 0..n : k \in S
    <3> HIDE DEF S, n
    <3>1. QED
      BY <1>1, <2>1, <2>2, InductionUpTo
  <2>4. QED
    BY <2>3
<1>11. Ranks(c, s, o, g)
  <2>1. g \in [0..n -> Int]
    BY <1>7, <1>10
  <2>2. g[0] = 0 /\ \A k \in 1..n : g[k] = g[k - 1] * s[o[k]] + c[o[k]]
    BY <1>1, <1>4, <1>9
  <2>3. QED
    BY <2>1, <2>2 DEF Ranks
<1>12. QED
  BY <1>8, <1>11

LEMMA FlattenJoins ==
  ASSUME NEW A, NEW t \in Seq(Seq(A))
  PROVE  \E g : Joins(A, t, g) /\ FlattenSeq(t) = g[Len(t)]
<1> DEFINE n == Len(t)
           IsFold(f) == f = [i \in 1..Len(t) |-> IF i = 1 THEN t[i] ELSE f[i - 1] \o t[i]]
           step == [p \in (1..n) \X Seq(A) |-> p[2] \o t[p[1]]]
           f == CHOOSE f : IsFold(f)
<1>1. n \in Nat /\ \A k \in 1..n : t[k] \in Seq(A)
  OBVIOUS
<1>2. step \in [(1..n) \X Seq(A) -> Seq(A)]
  BY <1>1
<1>3. PICK h \in [0..n -> Seq(A)] : h[0] = <<>> /\ \A k \in 1..n : h[k] = step[<<k, h[k - 1]>>]
  <2> HIDE DEF step, n
  <2>1. <<>> \in Seq(A)
    OBVIOUS
  <2>2. Recursion(Seq(A), <<>>, n, step)
    BY <1>1, <1>2, <2>1, RecursionExists
  <2>3. QED
    BY <2>2 DEF Recursion
<1>4. \A k \in 1..n : k \in 0..n /\ k - 1 \in 0..n /\ k # 0
  BY <1>1
<1>5. \A k \in 1..n : h[k] = h[k - 1] \o t[k]
  <2>1. ASSUME NEW k \in 1..n PROVE h[k] = h[k - 1] \o t[k]
    <3>1. <<k, h[k - 1]>> \in (1..n) \X Seq(A)
      BY <1>3, <1>4
    <3>2. QED
      BY <1>3, <3>1
  <2>2. QED
    BY <2>1
<1> HIDE DEF step
<1>6. Joins(A, t, h)
  BY <1>3, <1>5 DEF Joins
<1>7. CASE n = 0
  <2>1. FlattenSeq(t) = t /\ t = <<>>
    BY <1>7 DEF FlattenSeq
  <2>2. QED
    BY <1>3, <1>6, <1>7, <2>1
<1>8. CASE n # 0
  <2> DEFINE r == [i \in 1..n |-> h[i]]
  <2>1. ASSUME NEW k \in 1..n PROVE r[k] = IF k = 1 THEN t[k] ELSE r[k - 1] \o t[k]
    <3>1. CASE k = 1
      <4>1. k - 1 = 0 /\ h[k] = <<>> \o t[k] /\ t[k] \in Seq(A)
        <5>1. k - 1 = 0 /\ t[k] \in Seq(A)
          BY <1>1, <3>1
        <5>2. h[k] = h[k - 1] \o t[k]
          BY <1>5
        <5>3. QED
          BY <1>3, <5>1, <5>2
      <4>2. QED
        BY <3>1, <4>1
    <3>2. CASE k # 1
      <4>1. k - 1 \in 1..n
        BY <1>1, <3>2
      <4>2. QED
        BY <1>5, <3>2, <4>1
    <3>3. QED
      BY <3>1, <3>2
  <2>2. IsFold(r)
    <3>1. r = [k \in 1..n |-> r[k]]
      OBVIOUS
    <3> HIDE DEF n
    <3>2. r = [k \in 1..n |-> IF k = 1 THEN t[k] ELSE r[k - 1] \o t[k]]
      BY <2>1, <3>1
    <3>3. QED
      BY <3>2 DEF n
  <2>3. IsFold(f)
    <3> HIDE DEF IsFold
    <3>1. QED
      BY <2>2
  <2>4. FlattenSeq(t) = f[Len(t)]
    BY <1>8 DEF FlattenSeq
  <2> HIDE DEF f
  <2>5. \A k \in 1..n : f[k] = IF k = 1 THEN t[k] ELSE f[k - 1] \o t[k]
    BY <2>3
  <2>6. \A k \in 0..n : k # 0 => f[k] = h[k]
    <3> DEFINE S == {k \in 0..n : k # 0 => f[k] = h[k]}
    <3>1. 0 \in S
      BY <1>1
    <3>2. ASSUME NEW k \in 0..(n - 1), k \in S PROVE k + 1 \in S
      <4>1. k + 1 \in 0..n /\ k + 1 \in 1..n /\ (k + 1) - 1 = k
        BY <1>1
      <4>2. r[k + 1] = h[k + 1]
        BY <4>1
      <4>3. CASE k = 0
        <5>1. k + 1 = 1
          BY <4>3
        <5>2. f[k + 1] = t[k + 1] /\ r[k + 1] = t[k + 1]
          <6> HIDE DEF r
          <6>1. QED
            BY <2>1, <2>5, <4>1, <5>1
        <5>3. QED
          BY <4>1, <4>2, <5>2
      <4>4. CASE k # 0
        <5>1. f[k] = h[k] /\ k + 1 # 1
          BY <3>2, <4>4
        <5>2. f[k + 1] = f[k] \o t[k + 1] /\ h[k + 1] = h[k] \o t[k + 1]
          BY <1>5, <2>5, <4>1, <5>1
        <5>3. QED
          BY <4>1, <5>1, <5>2
      <4>5. QED
        BY <4>3, <4>4
    <3>3. \A k \in 0..n : k \in S
      <4> HIDE DEF S, n
      <4>1. QED
        BY <1>1, <3>1, <3>2, InductionUpTo
    <3>4. QED
      BY <3>3
  <2>7. f[Len(t)] = h[Len(t)]
    BY <1>1, <1>8, <2>6
  <2>8. QED
    BY <1>6, <2>4, <2>7
<1>9. QED
  BY <1>7, <1>8

(* Two folds that begin alike and go on alike are the same so far.         *)
GoAlike(n, g, h) == g[0] = h[0] /\ \A k \in 1..n : g[k - 1] = h[k - 1] => g[k] = h[k]
Alike(n, g, h) == \A k \in 0..n : g[k] = h[k]

LEMMA SameSoFar ==
  ASSUME NEW n \in Nat, NEW g, NEW h, GoAlike(n, g, h)
  PROVE  Alike(n, g, h)
<1> DEFINE S == {k \in 0..n : g[k] = h[k]}
<1>1. 0 \in S
  BY DEF GoAlike
<1>2. ASSUME NEW k \in 0..(n - 1), k \in S PROVE k + 1 \in S
  <2>1. k + 1 \in 0..n /\ k + 1 \in 1..n /\ (k + 1) - 1 = k
    OBVIOUS
  <2>2. QED
    BY <1>2, <2>1 DEF GoAlike
<1>3. \A k \in 0..n : k \in S
  <2> HIDE DEF S
  <2>1. QED
    BY <1>1, <1>2, InductionUpTo
<1>4. QED
  BY <1>3 DEF Alike

LEMMA Concatenated ==
  ASSUME NEW A, NEW o \in Seq(A), NEW q \in Seq(A)
  PROVE  /\ o \o q \in Seq(A) /\ Len(o \o q) = Len(o) + Len(q)
         /\ Len(o) \in Nat /\ Len(q) \in Nat
         /\ \A k \in 1..Len(o) : (o \o q)[k] = o[k]
         /\ \A k \in 1..Len(q) : (o \o q)[Len(o) + k] = q[k]
OBVIOUS

LEMMA Regroup == ASSUME NEW a \in Int, NEW u \in Int, NEW s \in Int PROVE (a * u) * s = a * (u * s)
OBVIOUS

(* A product over two sequences, one after the other, and a position: the  *)
(* second one runs faster.                                                 *)
LEMMA ProductJoined ==
  ASSUME NEW A, NEW f \in [A -> Int], NEW o \in Seq(A), NEW q \in Seq(A)
  PROVE  Product(f, o \o q) = Product(f, o) * Product(f, q)
<1> DEFINE p == o \o q
           L == Len(o)
           M == Len(q)
<1>1. /\ p \in Seq(A) /\ Len(p) = L + M /\ L \in Nat /\ M \in Nat
      /\ \A k \in 1..L : p[k] = o[k]
      /\ \A k \in 1..M : p[L + k] = q[k]
  BY Concatenated
<1>2. PICK h : Products(f, o, h) /\ Product(f, o) = h[L]
  BY ProductFolds
<1>3. PICK u : Products(f, q, u) /\ Product(f, q) = u[M]
  BY ProductFolds
<1>m. \A k \in 1..M : f[q[k]] \in Int
  OBVIOUS
<1> HIDE DEF p
<1>4. PICK g : Products(f, p, g) /\ Product(f, p) = g[Len(p)]
  BY <1>1, ProductFolds
<1>5. g[L] = h[L] /\ h[L] \in Int
  <2>1. L <= Len(p) /\ L <= Len(o) /\ Len(p) \in Nat /\ Len(o) \in Nat /\ L \in 0..L
    BY <1>1
  <2>2. h[L] \in Int
    BY <1>2, <2>1 DEF Products
  <2>3. \A k \in 0..L : g[k] = h[k]
    <3>1. g[0] = h[0]
      BY <1>2, <1>4 DEF Products
    <3>2. ASSUME NEW k \in 1..L
          PROVE  g[k] = g[k - 1] * f[o[k]] /\ h[k] = h[k - 1] * f[o[k]]
      <4>1. k \in 1..Len(p) /\ k \in 1..Len(o) /\ p[k] = o[k]
        BY <1>1
      <4>2. QED
        BY <1>2, <1>4, <4>1 DEF Products
    <3> HIDE DEF L
    <3>3. \A k \in 1..L : g[k - 1] = h[k - 1] => g[k] = h[k]
      BY <3>2
    <3>4. GoAlike(L, g, h)
      BY <3>1, <3>3 DEF GoAlike
    <3>5. Alike(L, g, h)
      BY <1>1, <3>4, SameSoFar
    <3>6. QED
      BY <3>5 DEF Alike
  <2>4. QED
    BY <2>1, <2>2, <2>3
<1>6. /\ u \in [0..M -> Int] /\ u[0] = 1
      /\ \A k \in 1..M : u[k] = u[k - 1] * f[q[k]]
      /\ \A k \in 1..(L + M) : g[k] = g[k - 1] * f[p[k]]
  BY <1>1, <1>3, <1>4 DEF Products
<1> HIDE DEF L, M
<1>7. \A k \in 0..M : g[L + k] = h[L] * u[k]
  <2> DEFINE S == {k \in 0..M : g[L + k] = h[L] * u[k]}
  <2>1. 0 \in S
    BY <1>1, <1>5, <1>6
  <2>2. ASSUME NEW k \in 0..(M - 1), k \in S PROVE k + 1 \in S
    <3>1. /\ k + 1 \in 0..M /\ k + 1 \in 1..M /\ L + (k + 1) \in 1..(L + M) /\ (L + (k + 1)) - 1 = L + k
          /\ (k + 1) - 1 = k /\ k \in 0..M
      BY <1>1
    <3>2. g[L + (k + 1)] = g[L + k] * f[q[k + 1]] /\ u[k + 1] = u[k] * f[q[k + 1]]
      BY <1>1, <1>6, <3>1, ZenonT(30)
    <3>3. g[L + k] = h[L] * u[k] /\ u[k] \in Int /\ f[q[k + 1]] \in Int
      BY <1>6, <1>m, <2>2, <3>1
    <3>4. (h[L] * u[k]) * f[q[k + 1]] = h[L] * (u[k] * f[q[k + 1]])
      BY <1>5, <3>3, Regroup
    <3>5. QED
      BY <3>1, <3>2, <3>3, <3>4
  <2>3. \A k \in 0..M : k \in S
    <3> HIDE DEF S
    <3>1. QED
      BY <1>1, <2>1, <2>2, InductionUpTo
  <2>4. QED
    BY <2>3
<1>8. Product(f, p) = h[L] * u[M]
  BY <1>1, <1>4, <1>7
<1>9. QED
  BY <1>2, <1>3, <1>8 DEF p, L, M

LEMMA RankJoined ==
  ASSUME NEW A, NEW c \in [A -> Int], NEW s \in [A -> Int], NEW o \in Seq(A), NEW q \in Seq(A)
  PROVE  RowMajor(c, s, o \o q) = RowMajor(c, s, o) * Product(s, q) + RowMajor(c, s, q)
<1> DEFINE p == o \o q
           L == Len(o)
           M == Len(q)
<1>1. /\ p \in Seq(A) /\ Len(p) = L + M /\ L \in Nat /\ M \in Nat
      /\ \A k \in 1..L : p[k] = o[k]
      /\ \A k \in 1..M : p[L + k] = q[k]
  BY Concatenated
<1>2. PICK h : Ranks(c, s, o, h) /\ RowMajor(c, s, o) = h[L]
  BY RankFolds
<1>3. PICK u : Products(s, q, u) /\ Product(s, q) = u[M]
  BY ProductFolds
<1>v. PICK v : Ranks(c, s, q, v) /\ RowMajor(c, s, q) = v[M]
  BY RankFolds
<1>m. \A k \in 1..M : s[q[k]] \in Int /\ c[q[k]] \in Int
  OBVIOUS
<1> HIDE DEF p
<1>4. PICK g : Ranks(c, s, p, g) /\ RowMajor(c, s, p) = g[Len(p)]
  <2>1. p \in Seq(A)
    BY <1>1
  <2>2. QED
    BY <2>1, RankFolds
<1>5. g[L] = h[L] /\ h[L] \in Int
  <2>1. L <= Len(p) /\ L <= Len(o) /\ Len(p) \in Nat /\ Len(o) \in Nat /\ L \in 0..L
    BY <1>1
  <2>2. h[L] \in Int
    BY <1>2, <2>1 DEF Ranks
  <2>3. \A k \in 0..L : g[k] = h[k]
    <3>1. g[0] = h[0]
      BY <1>2, <1>4 DEF Ranks
    <3>2. ASSUME NEW k \in 1..L
          PROVE  g[k] = g[k - 1] * s[o[k]] + c[o[k]] /\ h[k] = h[k - 1] * s[o[k]] + c[o[k]]
      <4>1. k \in 1..Len(p) /\ k \in 1..Len(o) /\ p[k] = o[k]
        BY <1>1
      <4>2. QED
        BY <1>2, <1>4, <4>1 DEF Ranks
    <3> HIDE DEF L
    <3>3. \A k \in 1..L : g[k - 1] = h[k - 1] => g[k] = h[k]
      BY <3>2
    <3>4. GoAlike(L, g, h)
      BY <3>1, <3>3 DEF GoAlike
    <3>5. Alike(L, g, h)
      BY <1>1, <3>4, SameSoFar
    <3>6. QED
      BY <3>5 DEF Alike
  <2>4. QED
    BY <2>1, <2>2, <2>3
<1>6. /\ u \in [0..M -> Int] /\ u[0] = 1 /\ v \in [0..M -> Int] /\ v[0] = 0
      /\ \A k \in 1..M : u[k] = u[k - 1] * s[q[k]] /\ v[k] = v[k - 1] * s[q[k]] + c[q[k]]
      /\ \A k \in 1..(L + M) : g[k] = g[k - 1] * s[p[k]] + c[p[k]]
  BY <1>1, <1>3, <1>v, <1>4 DEF Products, Ranks
<1> HIDE DEF L, M
<1>7. \A k \in 0..M : g[L + k] = h[L] * u[k] + v[k]
  <2> DEFINE S == {k \in 0..M : g[L + k] = h[L] * u[k] + v[k]}
  <2>1. 0 \in S
    BY <1>1, <1>5, <1>6
  <2>2. ASSUME NEW k \in 0..(M - 1), k \in S PROVE k + 1 \in S
    <3>1. /\ k + 1 \in 0..M /\ k + 1 \in 1..M /\ L + (k + 1) \in 1..(L + M) /\ (L + (k + 1)) - 1 = L + k
          /\ (k + 1) - 1 = k /\ k \in 0..M
      BY <1>1
    <3>2. /\ g[L + (k + 1)] = g[L + k] * s[q[k + 1]] + c[q[k + 1]]
          /\ u[k + 1] = u[k] * s[q[k + 1]] /\ v[k + 1] = v[k] * s[q[k + 1]] + c[q[k + 1]]
      BY <1>1, <1>6, <3>1
    <3>3. /\ g[L + k] = h[L] * u[k] + v[k] /\ u[k] \in Int /\ v[k] \in Int
          /\ s[q[k + 1]] \in Int /\ c[q[k + 1]] \in Int
      BY <1>6, <1>m, <2>2, <3>1
    <3>4. (h[L] * u[k] + v[k]) * s[q[k + 1]] + c[q[k + 1]]
          = h[L] * (u[k] * s[q[k + 1]]) + (v[k] * s[q[k + 1]] + c[q[k + 1]])
      <4>1. h[L] \in Int /\ u[k] \in Int /\ v[k] \in Int /\ s[q[k + 1]] \in Int /\ c[q[k + 1]] \in Int
        BY <1>5, <3>3
      <4> DEFINE a == h[L]
                 b == u[k]
                 d == v[k]
                 z == s[q[k + 1]]
                 e == c[q[k + 1]]
      <4> HIDE DEF a, b, d, z, e
      <4>2. a \in Int /\ b \in Int /\ d \in Int /\ z \in Int /\ e \in Int
        BY <4>1 DEF a, b, d, z, e
      <4>3. (a * b + d) * z + e = a * (b * z) + (d * z + e)
        BY <4>2
      <4>4. QED
        BY <4>3 DEF a, b, d, z, e
    <3>5. QED
      BY <3>1, <3>2, <3>3, <3>4
  <2>3. \A k \in 0..M : k \in S
    <3> HIDE DEF S
    <3>1. QED
      BY <1>1, <2>1, <2>2, InductionUpTo
  <2>4. QED
    BY <2>3
<1>8. RowMajor(c, s, p) = h[L] * u[M] + v[M]
  BY <1>1, <1>4, <1>7
<1>9. QED
  BY <1>2, <1>3, <1>v, <1>8 DEF p, L, M

LEMMA FlattenAppended ==
  ASSUME NEW A, NEW t \in Seq(Seq(A)), NEW o \in Seq(A)
  PROVE  FlattenSeq(t) \in Seq(A) /\ FlattenSeq(Append(t, o)) = FlattenSeq(t) \o o
<1> DEFINE n == Len(t)
           w == Append(t, o)
<1>1. w \in Seq(Seq(A)) /\ Len(w) = n + 1 /\ n \in Nat /\ w[n + 1] = o /\ \A k \in 1..n : t[k] = w[k]
  OBVIOUS
<1>2. PICK g : Joins(A, t, g) /\ FlattenSeq(t) = g[n]
  BY FlattenJoins
<1> HIDE DEF w
<1>3. PICK h : Joins(A, w, h) /\ FlattenSeq(w) = h[Len(w)]
  BY <1>1, FlattenJoins
<1>4. \A k \in 0..n : g[k] = h[k]
  <2>1. g[0] = h[0]
    BY <1>2, <1>3 DEF Joins
  <2>2. ASSUME NEW k \in 1..n
        PROVE  g[k] = g[k - 1] \o t[k] /\ h[k] = h[k - 1] \o t[k]
    <3>1. k \in 1..Len(w) /\ w[k] = t[k]
      <4>1. k \in 1..(n + 1) /\ t[k] = w[k]
        BY <1>1
      <4>2. QED
        BY <1>1, <4>1
    <3>2. QED
      BY <1>2, <1>3, <3>1 DEF Joins
  <2> HIDE DEF n
  <2>3. \A k \in 1..n : g[k - 1] = h[k - 1] => g[k] = h[k]
    BY <2>2
  <2>4. GoAlike(n, g, h)
    BY <2>1, <2>3 DEF GoAlike
  <2>5. Alike(n, g, h)
    BY <1>1, <2>4, SameSoFar
  <2>6. QED
    BY <2>5 DEF Alike
<1>5. h[n + 1] = h[n] \o o
  <2>1. n + 1 \in 1..Len(w) /\ (n + 1) - 1 = n
    BY <1>1
  <2>2. h[n + 1] = h[(n + 1) - 1] \o w[n + 1]
    BY <1>3, <2>1 DEF Joins
  <2>3. QED
    BY <1>1, <2>1, <2>2
<1>6. g[n] \in Seq(A) /\ g[n] = h[n]
  BY <1>1, <1>2, <1>4 DEF Joins
<1>7. FlattenSeq(w) = FlattenSeq(t) \o o
  BY <1>1, <1>2, <1>3, <1>5, <1>6
<1>8. QED
  BY <1>2, <1>6, <1>7 DEF w


(* The products and positions over three and four axes.                    *)
LEMMA ProductOfFour ==
  ASSUME NEW A, NEW f \in [A -> Int], NEW a1 \in A, NEW a2 \in A, NEW a3 \in A, NEW a4 \in A
  PROVE  Product(f, <<a1, a2, a3, a4>>) = f[a1] * f[a2] * f[a3] * f[a4]
<1> DEFINE o == <<a1, a2, a3, a4>>
<1>1. o \in Seq(A) /\ Len(o) = 4 /\ o[1] = a1 /\ o[2] = a2 /\ o[3] = a3 /\ o[4] = a4
  OBVIOUS
<1> HIDE DEF o
<1>2. PICK g : Products(f, o, g) /\ Product(f, o) = g[4]
  BY <1>1, ProductFolds
<1>3. 1 \in 1..4 /\ 2 \in 1..4 /\ 3 \in 1..4 /\ 4 \in 1..4
  OBVIOUS
<1>4. g[0] = 1 /\ g[1] = g[0] * f[a1] /\ g[2] = g[1] * f[a2] /\ g[3] = g[2] * f[a3] /\ g[4] = g[3] * f[a4]
  BY <1>1, <1>2, <1>3 DEF Products
<1>5. f[a1] \in Int /\ f[a2] \in Int /\ f[a3] \in Int /\ f[a4] \in Int
  OBVIOUS
<1>6. QED
  BY <1>2, <1>4, <1>5 DEF o

LEMMA RankOfFour ==
  ASSUME NEW A, NEW c \in [A -> Int], NEW s \in [A -> Int],
         NEW a1 \in A, NEW a2 \in A, NEW a3 \in A, NEW a4 \in A
  PROVE  RowMajor(c, s, <<a1, a2, a3, a4>>)
         = Rank(s[a2], s[a3], s[a4], c[a1], c[a2], c[a3], c[a4])
<1> DEFINE o == <<a1, a2, a3, a4>>
<1>1. o \in Seq(A) /\ Len(o) = 4 /\ o[1] = a1 /\ o[2] = a2 /\ o[3] = a3 /\ o[4] = a4
  OBVIOUS
<1> HIDE DEF o
<1>2. PICK g : Ranks(c, s, o, g) /\ RowMajor(c, s, o) = g[4]
  BY <1>1, RankFolds
<1>3. 1 \in 1..4 /\ 2 \in 1..4 /\ 3 \in 1..4 /\ 4 \in 1..4
  OBVIOUS
<1>4. /\ g[0] = 0 /\ g[1] = g[0] * s[a1] + c[a1] /\ g[2] = g[1] * s[a2] + c[a2]
      /\ g[3] = g[2] * s[a3] + c[a3] /\ g[4] = g[3] * s[a4] + c[a4]
  BY <1>1, <1>2, <1>3 DEF Ranks
<1>5. s[a1] \in Int /\ c[a1] \in Int
  OBVIOUS
<1>6. g[1] = c[a1]
  BY <1>4, <1>5
<1>7. QED
  BY <1>2, <1>4, <1>6 DEF Rank, o

LEMMA RankOfThree ==
  ASSUME NEW A, NEW c \in [A -> Int], NEW s \in [A -> Int], NEW a2 \in A, NEW a3 \in A, NEW a4 \in A
  PROVE  RowMajor(c, s, <<a2, a3, a4>>) = Rank(s[a2], s[a3], s[a4], 0, c[a2], c[a3], c[a4])
<1> DEFINE o == <<a2, a3, a4>>
<1>1. o \in Seq(A) /\ Len(o) = 3 /\ o[1] = a2 /\ o[2] = a3 /\ o[3] = a4
  OBVIOUS
<1> HIDE DEF o
<1>2. PICK g : Ranks(c, s, o, g) /\ RowMajor(c, s, o) = g[3]
  BY <1>1, RankFolds
<1>3. 1 \in 1..3 /\ 2 \in 1..3 /\ 3 \in 1..3
  OBVIOUS
<1>4. /\ g[0] = 0 /\ g[1] = g[0] * s[a2] + c[a2] /\ g[2] = g[1] * s[a3] + c[a3]
      /\ g[3] = g[2] * s[a4] + c[a4]
  BY <1>1, <1>2, <1>3 DEF Ranks
<1>5. QED
  BY <1>2, <1>4 DEF Rank, o

-----------------------------------------------------------------------------
(* The inductive invariant.                                                *)

(* The pattern has been read to its end.                                   *)
Late == lpc = "strides" \/ outcome \in {"ok", "overflow"}

WholeInv ==
  Late => /\ ~in_paren /\ {"b", "y", "x"} \subseteq seen
          /\ "n" \notin seen => extent["n"] = 1 /\ stride["n"] = 0

(* The elements that one step along the axis of position k passes over.    *)
After(k) == IF k = Len(Flat) THEN 1 ELSE stride[Flat[k + 1]] * extent[Flat[k + 1]]

DealtInv ==
  Late => /\ \A k \in (left + 1)..Len(Flat) : stride[Flat[k]] = After(k)
          /\ run = After(left)

NoStrides == left = 0 /\ run = 1 /\ stride = [a \in Axes |-> 0]

PhaseInv ==
  /\ lpc = "idle" => LOInit
  /\ lpc = "scan" => NoStrides /\ outcome = "none"
  /\ lpc = "strides" => outcome = "none"
  /\ outcome = "ok" => lpc = "done" /\ left = 0
  /\ outcome = "overflow" => lpc = "done" /\ left > 0 /\ run > I64Max \div extent[Flat[left]]

LOInv == LOTypeOK /\ AxesOnce /\ WholeInv /\ DealtInv /\ PhaseInv

LEMMA FlatIsSeq ==
  ASSUME LOTypeOK
  PROVE  groups \in Seq(Seq(Axes)) /\ Flat \in Seq(Axes) /\ cur \in Seq(Axes)
<1>1. groups \in Seq(Seq(Axes)) /\ cur \in Seq(Axes)
  BY DEF LOTypeOK
<1>2. PICK g : Joins(Axes, groups, g) /\ FlattenSeq(groups) = g[Len(groups)]
  BY <1>1, FlattenJoins
<1>3. Len(groups) \in 0..Len(groups)
  BY <1>1
<1>4. QED
  BY <1>1, <1>2, <1>3 DEF Joins, Flat

LEMMA FlatOfNone == FlattenSeq(<<>>) = <<>>
BY DEF FlattenSeq

LEMMA NoneInjective == IsInjective(<<>>) /\ ToSet(<<>>) = {} /\ <<>> \o <<>> = <<>>
BY DEF IsInjective, ToSet

LEMMA InjectiveAppended ==
  ASSUME NEW A, NEW r \in Seq(A), NEW a \in A, IsInjective(r), a \notin ToSet(r)
  PROVE  IsInjective(Append(r, a)) /\ ToSet(Append(r, a)) = ToSet(r) \cup {a}
<1> DEFINE w == Append(r, a)
<1>1. /\ Len(r) \in Nat /\ DOMAIN r = 1..Len(r) /\ DOMAIN w = 1..(Len(r) + 1)
      /\ w[Len(r) + 1] = a /\ \A k \in 1..Len(r) : w[k] = r[k]
  OBVIOUS
<1>2. \A k \in 1..Len(r) : r[k] # a /\ r[k] \in ToSet(r)
  BY <1>1 DEF ToSet
<1>3. \A k \in 1..(Len(r) + 1) : k \in 1..Len(r) \/ k = Len(r) + 1
  BY <1>1
<1>4. \A k \in 1..Len(r) : k \in 1..(Len(r) + 1)
  BY <1>1
<1>5. Len(r) + 1 \in 1..(Len(r) + 1)
  BY <1>1
<1> HIDE DEF w
<1>6. IsInjective(w)
  BY <1>1, <1>2, <1>3 DEF IsInjective
<1>7. ToSet(w) = ToSet(r) \cup {a}
  BY <1>1, <1>3, <1>4, <1>5 DEF ToSet
<1>8. QED
  BY <1>6, <1>7 DEF w

LEMMA AppendsAgree ==
  ASSUME NEW A, NEW o \in Seq(A), NEW c \in Seq(A), NEW a \in A
  PROVE  /\ o \o Append(c, a) = Append(o \o c, a) /\ o \o <<a>> = Append(o, a) /\ o \o <<>> = o
         /\ o \o c \in Seq(A) /\ (o \o c) \o <<>> = o \o c /\ <<a>> \in Seq(A) /\ <<a>> # <<>>
         /\ Append(c, a) \in Seq(A)
OBVIOUS


-----------------------------------------------------------------------------
(* Its preservation.                                                       *)

LEMMA LayoutInitInv == LOInit => LOInv
<1> SUFFICES ASSUME LOInit PROVE LOInv
  OBVIOUS
<1>1. Flat = <<>>
  BY FlatOfNone DEF LOInit, Flat
<1>2. <<>> \in Seq(Axes) /\ <<>> \in Seq(Seq(Axes) \ {<<>>}) /\ Len(<<>>) = 0
  OBVIOUS
<1>3. LOTypeOK
  <2>1. 1 \in 1..I64Max /\ 0 \in 0..I64Max
    BY LayoutAssumption
  <2>2. [a \in Axes |-> 1] \in [Axes -> 1..I64Max] /\ [a \in Axes |-> 0] \in [Axes -> 0..I64Max]
    BY <2>1
  <2>3. 0 \in 0..Len(Flat)
    BY <1>1, <1>2
  <2>4. QED
    BY <1>2, <2>1, <2>2, <2>3 DEF LOInit, LOTypeOK
<1>4. AxesOnce
  BY <1>1, NoneInjective DEF LOInit, AxesOnce
<1>5. QED
  BY <1>3, <1>4 DEF LOInit, LOInv, WholeInv, DealtInv, PhaseInv, Late

LEMMA RejectInv ==
  ASSUME LOInv, lpc # "done", NEW why \in {"extents", "pattern"}, Reject(why)
  PROVE  LOInv'
<1>1. UNCHANGED <<extent, groups, cur, in_paren, seen, left, run, stride>> /\ lpc' = "done" /\ outcome' = why
  BY DEF Reject
<1>2. LOTypeOK' /\ AxesOnce'
  BY <1>1 DEF LOInv, LOTypeOK, AxesOnce, Flat
<1>3. QED
  BY <1>1, <1>2 DEF LOInv, WholeInv, DealtInv, PhaseInv, Late

LEMMA LayoutBeginInv == ASSUME LOInv, LayoutBegin PROVE LOInv'
<1>1. PICK e \in Extents :
        LET size == [n |-> e[1], b |-> e[2], y |-> e[3], x |-> e[4]]
        IN  IF \E a \in Axes : size[a] <= 0
            THEN Reject("extents")
            ELSE /\ lpc' = "scan" /\ extent' = size
                 /\ UNCHANGED <<groups, cur, in_paren, seen, left, run, stride, outcome>>
  BY DEF LayoutBegin
<1> DEFINE size == [n |-> e[1], b |-> e[2], y |-> e[3], x |-> e[4]]
<1>2. CASE \E a \in Axes : size[a] <= 0
  BY <1>1, <1>2, RejectInv DEF LayoutBegin
<1>3. CASE ~\E a \in Axes : size[a] <= 0
  <2>1. lpc = "idle" /\ lpc' = "scan" /\ extent' = size
    BY <1>1, <1>3 DEF LayoutBegin
  <2>2. UNCHANGED <<groups, cur, in_paren, seen, left, run, stride, outcome>>
    BY <1>1, <1>3
  <2>3. size \in [Axes -> 1..I64Max]
    <3>1. /\ e[1] \in Int /\ e[2] \in Int /\ e[3] \in Int /\ e[4] \in Int
          /\ e[1] <= I64Max /\ e[2] <= I64Max /\ e[3] <= I64Max /\ e[4] <= I64Max
      BY LayoutAssumption
    <3>2. size["n"] > 0 /\ size["b"] > 0 /\ size["y"] > 0 /\ size["x"] > 0
      BY <1>3, <3>1 DEF Axes
    <3>3. /\ size["n"] = e[1] /\ size["b"] = e[2] /\ size["y"] = e[3] /\ size["x"] = e[4]
          /\ size = [a \in Axes |-> size[a]]
      BY DEF Axes
    <3> HIDE DEF size
    <3>4. \A a \in Axes : size[a] \in 1..I64Max
      BY <3>1, <3>2, <3>3, LayoutAssumption DEF Axes
    <3>5. QED
      BY <3>3, <3>4
  <2> HIDE DEF size
  <2>4. LOTypeOK'
    BY <2>1, <2>2, <2>3 DEF LOInv, LOTypeOK, Flat
  <2>5. AxesOnce'
    BY <2>2 DEF LOInv, AxesOnce, Flat
  <2>6. NoStrides /\ outcome = "none"
    BY <2>1 DEF LOInv, PhaseInv, LOInit, NoStrides
  <2>7. QED
    BY <2>1, <2>2, <2>4, <2>5, <2>6 DEF LOInv, WholeInv, DealtInv, PhaseInv, Late, NoStrides
<1>4. QED
  BY <1>2, <1>3

(* What a character does not change, and what it must keep.                *)
LEMMA CharacterInv ==
  ASSUME LOInv, lpc = "scan",
         UNCHANGED <<lpc, extent, left, run, stride, outcome>>,
         groups' \in Seq(Seq(Axes) \ {<<>>}), cur' \in Seq(Axes), in_paren' \in BOOLEAN,
         seen' \subseteq Axes, AxesOnce', Len(Flat') \in Nat
  PROVE  LOInv'
<1>1. /\ lpc' = "scan" /\ extent' = extent /\ left' = left /\ run' = run /\ stride' = stride
      /\ outcome' = outcome /\ left = 0 /\ outcome = "none"
  BY DEF LOInv, PhaseInv, NoStrides
<1>2. left' \in 0..Len(Flat')
  BY <1>1
<1>3. LOTypeOK'
  BY <1>1, <1>2 DEF LOInv, LOTypeOK
<1>4. PhaseInv'
  BY <1>1 DEF LOInv, PhaseInv, NoStrides
<1>5. ~Late'
  BY <1>1 DEF Late
<1>6. QED
  BY <1>3, <1>4, <1>5 DEF LOInv, WholeInv, DealtInv

LEMMA OpenInv == ASSUME LOInv, Open PROVE LOInv'
<1>1. CASE in_paren
  BY <1>1, RejectInv DEF Open
<1>2. CASE ~in_paren
  <2>1. /\ lpc = "scan" /\ in_paren' = TRUE /\ cur' = <<>>
        /\ UNCHANGED <<lpc, extent, groups, seen, left, run, stride, outcome>>
    BY <1>2 DEF Open
  <2>2. groups' = groups /\ seen' = seen /\ Flat' = Flat
    BY <2>1 DEF Flat
  <2>3. Flat \in Seq(Axes)
    BY FlatIsSeq DEF LOInv
  <2>4. AxesOnce'
    BY <1>2, <2>1, <2>2 DEF LOInv, AxesOnce
  <2>5. <<>> \in Seq(Axes) /\ Len(Flat) \in Nat
    BY <2>3
  <2>6. groups' \in Seq(Seq(Axes) \ {<<>>}) /\ seen' \subseteq Axes
    BY <2>2 DEF LOInv, LOTypeOK
  <2>7. QED
    BY <2>1, <2>2, <2>4, <2>5, <2>6, CharacterInv
<1>3. QED
  BY <1>1, <1>2

LEMMA CloseInv == ASSUME LOInv, Close PROVE LOInv'
<1>1. CASE ~in_paren \/ cur = <<>>
  BY <1>1, RejectInv DEF Close
<1>2. CASE in_paren /\ cur # <<>>
  <2>1. /\ lpc = "scan" /\ groups' = Append(groups, cur) /\ in_paren' = FALSE
        /\ UNCHANGED <<lpc, extent, cur, seen, left, run, stride, outcome>>
    BY <1>2 DEF Close
  <2>2. groups \in Seq(Seq(Axes) \ {<<>>}) /\ cur \in Seq(Axes) /\ seen \subseteq Axes
    BY DEF LOInv, LOTypeOK
  <2>3. groups \in Seq(Seq(Axes)) /\ Flat \in Seq(Axes)
    BY FlatIsSeq DEF LOInv
  <2>4. Flat' = Flat \o cur
    BY <2>1, <2>2, <2>3, FlattenAppended DEF Flat
  <2>5. Flat \o cur \in Seq(Axes) /\ (Flat \o cur) \o <<>> = Flat \o cur
    BY <2>2, <2>3
  <2>6. AxesOnce'
    BY <1>2, <2>1, <2>4, <2>5 DEF LOInv, AxesOnce
  <2>7. groups' \in Seq(Seq(Axes) \ {<<>>})
    BY <1>2, <2>1, <2>2
  <2>8. Len(Flat') \in Nat
    BY <2>4, <2>5
  <2>9. QED
    BY <2>1, <2>2, <2>6, <2>7, <2>8, CharacterInv
<1>3. QED
  BY <1>1, <1>2

LEMMA AxisInv == ASSUME LOInv, NEW a \in Axes, Axis(a) PROVE LOInv'
<1>1. CASE a \in seen
  BY <1>1, RejectInv DEF Axis
<1>2. CASE a \notin seen
  <2>1. /\ lpc = "scan" /\ seen' = seen \cup {a}
        /\ IF in_paren THEN cur' = Append(cur, a) /\ UNCHANGED groups
                       ELSE groups' = Append(groups, <<a>>) /\ UNCHANGED cur
        /\ UNCHANGED <<lpc, extent, in_paren, left, run, stride, outcome>>
    BY <1>2 DEF Axis
  <2>2. /\ groups \in Seq(Seq(Axes) \ {<<>>}) /\ cur \in Seq(Axes) /\ seen \subseteq Axes
        /\ in_paren \in BOOLEAN
    BY DEF LOInv, LOTypeOK
  <2>3. groups \in Seq(Seq(Axes)) /\ Flat \in Seq(Axes)
    BY FlatIsSeq DEF LOInv
  <2>4. CASE in_paren
    <3>1. cur' = Append(cur, a) /\ groups' = groups /\ Flat' = Flat /\ in_paren'
      BY <2>1, <2>4 DEF Flat
    <3>2. Flat \o cur \in Seq(Axes) /\ Flat \o Append(cur, a) = Append(Flat \o cur, a)
      BY <2>2, <2>3, AppendsAgree
    <3>3. IsInjective(Flat \o cur) /\ ToSet(Flat \o cur) = seen
      BY <2>4 DEF LOInv, AxesOnce
    <3>4. /\ IsInjective(Append(Flat \o cur, a))
          /\ ToSet(Append(Flat \o cur, a)) = seen \cup {a}
      <4>1. PICK r : r = Flat \o cur
        OBVIOUS
      <4>2. r \in Seq(Axes) /\ IsInjective(r) /\ ToSet(r) = seen
        BY <3>2, <3>3, <4>1
      <4>3. IsInjective(Append(r, a)) /\ ToSet(Append(r, a)) = ToSet(r) \cup {a}
        BY <1>2, <4>2, InjectiveAppended
      <4>4. QED
        BY <4>1, <4>2, <4>3
    <3>5. AxesOnce'
      BY <2>1, <3>1, <3>2, <3>4 DEF AxesOnce
    <3>6. cur' \in Seq(Axes) /\ Len(Flat') \in Nat
      BY <2>2, <2>3, <3>1
    <3>7. QED
      BY <2>1, <2>2, <3>1, <3>5, <3>6, CharacterInv
  <2>5. CASE ~in_paren
    <3>1. groups' = Append(groups, <<a>>) /\ cur' = cur /\ ~in_paren'
      BY <2>1, <2>5
    <3>2. <<a>> \in Seq(Axes) /\ <<a>> # <<>>
      OBVIOUS
    <3>3. Flat' = Flat \o <<a>>
      BY <2>3, <3>1, <3>2, FlattenAppended DEF Flat
    <3>4. Flat \o <<>> = Flat /\ Flat \o <<a>> = Append(Flat, a) /\ Append(Flat, a) \in Seq(Axes)
      BY <2>3
    <3>5. IsInjective(Flat) /\ ToSet(Flat) = seen
      BY <2>5, <3>4 DEF LOInv, AxesOnce
    <3>6. IsInjective(Append(Flat, a)) /\ ToSet(Append(Flat, a)) = seen \cup {a}
      BY <1>2, <2>3, <3>5, InjectiveAppended
    <3>7. Append(Flat, a) \o <<>> = Append(Flat, a)
      BY <3>4
    <3>8. AxesOnce'
      BY <2>1, <3>1, <3>3, <3>4, <3>6, <3>7 DEF AxesOnce
    <3>9. groups' \in Seq(Seq(Axes) \ {<<>>})
      BY <2>2, <3>1, <3>2
    <3>10. Len(Flat') \in Nat
      BY <3>3, <3>4
    <3>11. QED
      BY <2>1, <2>2, <3>1, <3>8, <3>9, <3>10, CharacterInv
  <2>6. QED
    BY <2>4, <2>5
<1>3. QED
  BY <1>1, <1>2

LEMMA EndScanInv == ASSUME LOInv, EndScan PROVE LOInv'
<1> DEFINE Bad == \/ in_paren
                  \/ ~({"b", "y", "x"} \subseteq seen)
                  \/ "n" \notin seen /\ extent["n"] > 1
<1>1. CASE Bad
  BY <1>1, RejectInv DEF EndScan
<1>2. CASE ~Bad
  <2>1. /\ lpc = "scan" /\ lpc' = "strides" /\ left' = Len(Flat)
        /\ UNCHANGED <<extent, groups, cur, in_paren, seen, run, stride, outcome>>
    BY <1>2 DEF EndScan
  <2>2. Flat' = Flat
    BY <2>1 DEF Flat
  <2>3. Flat \in Seq(Axes) /\ Len(Flat) \in Nat
    BY FlatIsSeq DEF LOInv
  <2>4. run = 1 /\ stride = [a \in Axes |-> 0] /\ outcome = "none"
    BY <2>1 DEF LOInv, PhaseInv, NoStrides
  <2>5. extent["n"] \in 1..I64Max /\ stride["n"] = 0
    BY <2>4 DEF LOInv, LOTypeOK, Axes
  <2>6. LOTypeOK'
    BY <2>1, <2>2, <2>3 DEF LOInv, LOTypeOK
  <2>7. AxesOnce'
    BY <2>1, <2>2 DEF LOInv, AxesOnce
  <2>8. WholeInv'
    BY <1>2, <2>1, <2>5, LayoutAssumption DEF WholeInv
  <2>9. DealtInv'
    <3>1. left' = Len(Flat') /\ run' = 1
      BY <2>1, <2>2, <2>4
    <3>2. \A k \in (left' + 1)..Len(Flat') : FALSE
      BY <2>2, <2>3, <3>1
    <3>3. After(left)' = 1
      BY <3>1 DEF After
    <3>4. QED
      BY <3>1, <3>2, <3>3 DEF DealtInv
  <2>10. PhaseInv'
    BY <2>1, <2>4 DEF PhaseInv
  <2>11. QED
    BY <2>6, <2>7, <2>8, <2>9, <2>10 DEF LOInv
<1>3. QED
  BY <1>1, <1>2


(* The axes in output order, once the pattern has been read.               *)
LEMMA FlatFacts ==
  ASSUME LOInv, Late
  PROVE  /\ Flat \in Seq(Axes) /\ Len(Flat) \in Nat
         /\ \A p, q \in 1..Len(Flat) : Flat[p] = Flat[q] => p = q
         /\ \A a \in Axes : a \in seen <=> \E p \in 1..Len(Flat) : Flat[p] = a
         /\ \A p \in 1..Len(Flat) : Flat[p] \in Axes
<1>1. Flat \in Seq(Axes)
  BY FlatIsSeq DEF LOInv
<1>2. ~in_paren
  BY DEF LOInv, WholeInv
<1>3. Flat \o <<>> = Flat
  BY <1>1
<1>4. IsInjective(Flat) /\ ToSet(Flat) = seen
  BY <1>2, <1>3 DEF LOInv, AxesOnce
<1>5. DOMAIN Flat = 1..Len(Flat)
  BY <1>1
<1>6. QED
  BY <1>1, <1>4, <1>5 DEF IsInjective, ToSet

(* A step of the strides leaves those alone that are dealt.                *)
LEMMA AfterKept ==
  ASSUME LOInv, lpc = "strides", left > 0, NEW r,
         groups' = groups, extent' = extent, stride' = [stride EXCEPT ![Flat[left]] = r]
  PROVE  \A k \in left..Len(Flat) : /\ After(k)' = After(k)
                                    /\ k > left => stride'[Flat[k]] = stride[Flat[k]]
<1>1. /\ Flat \in Seq(Axes) /\ Len(Flat) \in Nat
      /\ \A p, q \in 1..Len(Flat) : Flat[p] = Flat[q] => p = q
      /\ \A p \in 1..Len(Flat) : Flat[p] \in Axes
  BY FlatFacts DEF Late
<1>2. left \in 1..Len(Flat) /\ stride \in [Axes -> 0..I64Max] /\ Flat' = Flat
  BY <1>1 DEF LOInv, LOTypeOK, Flat
<1>3. ASSUME NEW k \in left..Len(Flat), k > left
      PROVE  stride'[Flat[k]] = stride[Flat[k]]
  <2>1. k \in 1..Len(Flat) /\ k # left
    BY <1>2, <1>3
  <2>2. Flat[k] # Flat[left] /\ Flat[k] \in Axes
    BY <1>1, <1>2, <2>1
  <2>3. QED
    BY <1>2, <2>2
<1>4. ASSUME NEW k \in left..Len(Flat)
      PROVE  After(k)' = After(k)
  <2>1. CASE k = Len(Flat)
    BY <1>2, <2>1 DEF After
  <2>2. CASE k # Len(Flat)
    <3>1. k + 1 \in left..Len(Flat) /\ k + 1 > left
      BY <1>1, <1>2, <2>2
    <3>2. stride'[Flat[k + 1]] = stride[Flat[k + 1]]
      BY <1>3, <3>1
    <3>3. After(k) = stride[Flat[k + 1]] * extent[Flat[k + 1]]
      BY <2>2 DEF After
    <3>4. After(k)' = stride'[Flat'[k + 1]] * extent'[Flat'[k + 1]]
      BY <1>2, <2>2 DEF After
    <3>5. QED
      BY <1>2, <3>2, <3>3, <3>4
  <2>3. QED
    BY <2>1, <2>2
<1>5. QED
  BY <1>3, <1>4

(* The test for overflow divides, and is exact.                            *)
LEMMA QuotientFits ==
  ASSUME NEW m \in Nat, NEW e \in 1..m, NEW r \in 1..m
  PROVE  IF r > m \div e THEN r * e > m ELSE r * e \in 1..m
<1>1. /\ m \div e \in Nat /\ (m \div e) * e \in Nat /\ (m \div e) * e <= m
      /\ m < (m \div e) * e + e
  BY RoundDown
<1> DEFINE q == m \div e
<1> HIDE DEF q
<1>2. q \in Nat /\ q * e \in Nat /\ q * e <= m /\ m < q * e + e /\ r * e \in Nat /\ r * e >= 1
  BY <1>1 DEF q
<1>3. CASE r > q
  <2>1. (q + 1) * e <= r * e
    BY <1>2, <1>3, ProductMonotone
  <2>2. (q + 1) * e = q * e + e
    BY <1>2
  <2>3. QED
    BY <1>2, <1>3, <2>1, <2>2 DEF q
<1>4. CASE ~(r > q)
  <2>1. r * e <= q * e
    BY <1>2, <1>4, ProductMonotone
  <2>2. QED
    BY <1>2, <1>4, <2>1 DEF q
<1>5. QED
  BY <1>3, <1>4

LEMMA StrideStepInv == ASSUME LOInv, StrideStep PROVE LOInv'
<1> DEFINE a == Flat[left]
           L == Len(Flat)
<1>1. /\ lpc = "strides" /\ left > 0 /\ stride' = [stride EXCEPT ![Flat[left]] = run]
      /\ UNCHANGED <<extent, groups, cur, in_paren, seen>>
  BY DEF StrideStep, TakeLast, StrideOf
<1>2. /\ extent' = extent /\ groups' = groups /\ cur' = cur /\ in_paren' = in_paren /\ seen' = seen
      /\ Flat' = Flat
  BY <1>1 DEF Flat
<1>3. /\ Flat \in Seq(Axes) /\ L \in Nat
      /\ \A z \in Axes : z \in seen <=> \E p \in 1..L : Flat[p] = z
      /\ \A p \in 1..L : Flat[p] \in Axes
  BY <1>1, FlatFacts DEF Late
<1>4. /\ left \in 1..L /\ a \in Axes /\ a \in seen /\ extent[a] \in 1..I64Max /\ run \in 1..I64Max
      /\ stride \in [Axes -> 0..I64Max] /\ outcome = "none"
  BY <1>1, <1>3, SMTT(30) DEF LOInv, LOTypeOK, PhaseInv
<1>5. /\ ~in_paren /\ {"b", "y", "x"} \subseteq seen
      /\ "n" \notin seen => extent["n"] = 1 /\ stride["n"] = 0
  BY <1>1 DEF LOInv, WholeInv, Late
<1>6. run = After(left) /\ \A k \in (left + 1)..L : stride[Flat[k]] = After(k)
  BY <1>1 DEF LOInv, DealtInv, Late
<1>7. /\ \A k \in left..L : After(k)' = After(k)
      /\ \A k \in left..L : k > left => stride'[Flat[k]] = stride[Flat[k]]
  BY <1>1, <1>2, AfterKept
<1>8. stride' \in [Axes -> 0..I64Max] /\ stride'[a] = run
  <2>1. run \in 0..I64Max
    BY <1>4
  <2>2. QED
    BY <1>1, <1>4, <2>1
<1>9. AxesOnce'
  BY <1>2 DEF LOInv, AxesOnce
<1>10. WholeInv'
  <2>1. "n" \notin seen => stride'["n"] = 0
    <3>1. "n" \notin seen => a # "n" /\ "n" \in Axes
      BY <1>4 DEF Axes
    <3>2. QED
      BY <1>1, <1>4, <1>5, <3>1
  <2>2. QED
    BY <1>2, <1>5, <2>1 DEF WholeInv
<1>11. \A k \in (left + 1)..L : stride'[Flat[k]] = After(k)'
  <2>1. ASSUME NEW k \in (left + 1)..L PROVE stride'[Flat[k]] = After(k)'
    <3>1. k \in left..L /\ k > left
      BY <1>3, <1>4
    <3>2. QED
      BY <1>6, <1>7, <3>1
  <2>2. QED
    BY <2>1
<1>l. PICK l : l = left
  OBVIOUS
<1>12. run = After(l)'
  <2>1. l \in left..L
    BY <1>3, <1>4, <1>l
  <2>2. run = After(l) /\ After(l)' = After(l)
    BY <1>6, <1>7, <1>l, <2>1
  <2>3. QED
    BY <2>2
<1>13. CASE TooLarge(a)
  <2>1. lpc' = "done" /\ outcome' = "overflow" /\ left' = left /\ run' = run
    BY <1>13 DEF StrideStep, TakeLast
  <2>2. LOTypeOK'
    BY <1>2, <1>8, <2>1 DEF LOInv, LOTypeOK
  <2>3. DealtInv'
    <3>1. run' = After(l)' /\ left' = l
      BY <1>l, <1>12, <2>1
    <3>2. \A k \in (left' + 1)..Len(Flat') : stride'[Flat'[k]] = After(k)'
      BY <1>2, <1>11, <2>1
    <3>3. QED
      BY <3>1, <3>2 DEF DealtInv, After
  <2>4. PhaseInv'
    BY <1>1, <1>2, <1>13, <2>1 DEF PhaseInv, TooLarge
  <2>5. QED
    BY <1>9, <1>10, <2>2, <2>3, <2>4 DEF LOInv
<1>14. CASE ~TooLarge(a)
  <2>1. lpc' = lpc /\ outcome' = outcome /\ left' = left - 1 /\ run' = run * extent[a]
    BY <1>14 DEF StrideStep, TakeLast
  <2>2. run * extent[a] \in 1..I64Max
    <3>1. ~(run > I64Max \div extent[a]) /\ I64Max \in Nat
      BY <1>14, LayoutAssumption DEF TooLarge
    <3>2. QED
      BY <1>4, <3>1, QuotientFits
  <2>3. LOTypeOK'
    <3>1. left' \in 0..Len(Flat')
      BY <1>2, <1>3, <1>4, <2>1
    <3>2. QED
      BY <1>2, <1>8, <2>1, <2>2, <3>1 DEF LOInv, LOTypeOK
  <2>4. DealtInv'
    <3>1. \A k \in left..L : stride'[Flat[k]] = After(k)'
      <4>1. ASSUME NEW k \in left..L PROVE stride'[Flat[k]] = After(k)'
        <5>1. CASE k = left
          <6>1. k = l
            BY <1>l, <5>1
          <6>2. stride'[Flat[k]] = run
            BY <1>8, <5>1
          <6>3. QED
            BY <1>12, <6>1, <6>2
        <5>2. CASE k # left
          <6>1. k \in (left + 1)..L
            BY <1>3, <1>4, <5>2
          <6>2. QED
            BY <1>11, <6>1
        <5>3. QED
          BY <5>1, <5>2
      <4>2. QED
        BY <4>1
    <3>2. (left - 1) + 1 = left /\ left - 1 # L
      BY <1>3, <1>4
    <3>3. run' = IF left' = Len(Flat') THEN 1 ELSE stride'[Flat'[left' + 1]] * extent'[Flat'[left' + 1]]
      BY <1>2, <1>8, <2>1, <3>2
    <3>4. \A k \in (left' + 1)..Len(Flat') : stride'[Flat'[k]] = After(k)'
      BY <1>2, <2>1, <3>1, <3>2
    <3>5. QED
      BY <3>3, <3>4 DEF DealtInv, After
  <2>5. PhaseInv'
    BY <1>1, <1>4, <2>1 DEF PhaseInv
  <2>6. QED
    BY <1>9, <1>10, <2>3, <2>4, <2>5 DEF LOInv
<1>15. QED
  BY <1>13, <1>14

LEMMA LayoutEndInv == ASSUME LOInv, LayoutEnd PROVE LOInv'
<1>1. /\ lpc = "strides" /\ left = 0 /\ lpc' = "done" /\ outcome' = "ok"
      /\ UNCHANGED <<extent, groups, cur, in_paren, seen, left, run, stride>>
  BY DEF LayoutEnd
<1>2. LOTypeOK' /\ AxesOnce'
  BY <1>1 DEF LOInv, LOTypeOK, AxesOnce, Flat
<1>3. Late
  BY <1>1 DEF Late
<1>4. WholeInv' /\ DealtInv'
  BY <1>1, <1>3 DEF LOInv, WholeInv, DealtInv, After, Flat
<1>5. PhaseInv'
  BY <1>1 DEF PhaseInv
<1>6. QED
  BY <1>2, <1>4, <1>5 DEF LOInv

LEMMA LayoutInitAgain == LOInit' => LOInv'
BY LayoutInitInv, PTL

LEMMA LayoutReturnInv == ASSUME LOInv, LayoutReturn PROVE LOInv'
<1>1. LOInit'
  BY DEF LayoutReturn, LOInit
<1>2. LOInit' => LOInv'
  BY LayoutInitAgain
<1>3. QED
  BY <1>1, <1>2

LEMMA LayoutStutterInv == ASSUME LOInv, UNCHANGED loVars PROVE LOInv'
<1>1. /\ lpc' = lpc /\ extent' = extent /\ groups' = groups /\ cur' = cur /\ in_paren' = in_paren
      /\ seen' = seen /\ left' = left /\ run' = run /\ stride' = stride /\ outcome' = outcome
  BY DEF loVars
<1>2. LOTypeOK' /\ AxesOnce'
  BY <1>1 DEF LOInv, LOTypeOK, AxesOnce, Flat
<1>3. WholeInv' /\ DealtInv'
  BY <1>1 DEF LOInv, WholeInv, DealtInv, After, Flat, Late
<1>4. PhaseInv'
  BY <1>1 DEF LOInv, PhaseInv, LOInit, NoStrides, Flat
<1>5. QED
  BY <1>2, <1>3, <1>4 DEF LOInv

LEMMA LayoutNextInv == LOInv /\ [LONext]_loVars => LOInv'
<1> SUFFICES ASSUME LOInv, [LONext]_loVars PROVE LOInv'
  OBVIOUS
<1>1. CASE LayoutBegin
  BY <1>1, LayoutBeginInv
<1>2. CASE Open
  BY <1>2, OpenInv
<1>3. CASE Close
  BY <1>3, CloseInv
<1>4. CASE Unknown
  BY <1>4, RejectInv DEF Unknown
<1>5. CASE EndScan
  BY <1>5, EndScanInv
<1>6. CASE \E a \in Axes : Axis(a)
  BY <1>6, AxisInv
<1>7. CASE StrideStep
  BY <1>7, StrideStepInv
<1>8. CASE LayoutEnd
  BY <1>8, LayoutEndInv
<1>9. CASE LayoutReturn
  BY <1>9, LayoutReturnInv
<1>10. CASE UNCHANGED loVars
  BY <1>10, LayoutStutterInv
<1>11. QED
  BY <1>1, <1>2, <1>3, <1>4, <1>5, <1>6, <1>7, <1>8, <1>9, <1>10 DEF LONext

(* The loop invariant of compile_layout: no axis is lost or read twice,    *)
(* and the strides that are dealt are those of the axes after them.        *)
THEOREM LOInvariant == LOSpec => []LOInv
<1>1. LOInit => LOInv
  BY LayoutInitInv
<1>2. LOInv /\ [LONext]_loVars => LOInv'
  BY LayoutNextInv
<1>3. QED
  BY <1>1, <1>2, PTL DEF LOSpec


-----------------------------------------------------------------------------
(* What the strides of an accepted layout are.                             *)

LEMMA LayoutAxes == FourAxes(Axes)
BY DEF FourAxes, Axes

(* The output order, with an absent n in front.                            *)
Ordered(a1, a2, a3, a4) ==
  /\ IsOrder(Axes, a1, a2, a3, a4)
  /\ \/ Flat = <<a1, a2, a3, a4>>
     \/ Flat = <<a2, a3, a4>> /\ a1 = "n" /\ extent["n"] = 1 /\ stride["n"] = 0

LEMMA OutputOrder ==
  ASSUME LOInv, Late
  PROVE  \E a1, a2, a3, a4 : Ordered(a1, a2, a3, a4)
<1>1. /\ Flat \in Seq(Axes)
      /\ \A p, q \in 1..Len(Flat) : Flat[p] = Flat[q] => p = q
      /\ \A a \in Axes : a \in seen <=> \E p \in 1..Len(Flat) : Flat[p] = a
  BY FlatFacts
<1>2. /\ {"b", "y", "x"} \subseteq seen
      /\ "n" \notin seen => extent["n"] = 1 /\ stride["n"] = 0
  BY DEF LOInv, WholeInv
<1>3. PICK o : o = Flat
  OBVIOUS
<1>4. PICK pb \in 1..Len(o), py \in 1..Len(o), px \in 1..Len(o) : o[pb] = "b" /\ o[py] = "y" /\ o[px] = "x"
  BY <1>1, <1>2, <1>3 DEF Axes
<1>5. HasOrder(Axes, o)
  BY <1>1, <1>3, <1>4, LayoutAxes, OrderOf
<1>6. PICK a1, a2, a3, a4 :
        /\ IsOrder(Axes, a1, a2, a3, a4)
        /\ \/ o = <<a1, a2, a3, a4>>
           \/ o = <<a2, a3, a4>> /\ a1 = "n" /\ \A p \in 1..Len(o) : o[p] # "n"
  BY <1>5 DEF HasOrder
<1>7. (\A p \in 1..Len(o) : o[p] # "n") => "n" \notin seen
  BY <1>1, <1>3 DEF Axes
<1>8. Ordered(a1, a2, a3, a4)
  BY <1>2, <1>3, <1>6, <1>7 DEF Ordered
<1>9. QED
  BY <1>8

LEMMA ExtentTypes ==
  ASSUME LOInv
  PROVE  /\ extent \in [Axes -> Int] /\ \A a \in Axes : extent[a] \in Nat \ {0} /\ extent[a] \in 1..I64Max
         /\ stride \in [Axes -> Int]
  <1>1. extent \in [Axes -> 1..I64Max] /\ stride \in [Axes -> 0..I64Max] /\ I64Max \in Nat
    BY LayoutAssumption DEF LOInv, LOTypeOK
  <1>2. QED
    BY <1>1

(* Each stride is the product of the extents that run faster.              *)
LEMMA DealtStrides ==
  ASSUME LOInv, outcome = "ok", NEW a1, NEW a2, NEW a3, NEW a4, Ordered(a1, a2, a3, a4)
  PROVE  /\ stride[a4] = 1 /\ stride[a3] = extent[a4] /\ stride[a2] = extent[a4] * extent[a3]
         /\ \/ stride[a1] = (extent[a4] * extent[a3]) * extent[a2]
            \/ stride[a1] = 0 /\ a1 = "n" /\ extent[a1] = 1
<1>1. \A k \in 1..Len(Flat) : stride[Flat[k]] = After(k)
  BY DEF LOInv, DealtInv, PhaseInv, Late
<1>2. /\ extent[a1] \in Nat /\ extent[a2] \in Nat /\ extent[a3] \in Nat /\ extent[a4] \in Nat
  BY ExtentTypes DEF Ordered, IsOrder
<1>3. CASE Flat = <<a1, a2, a3, a4>>
  <2>1. Len(Flat) = 4 /\ Flat[1] = a1 /\ Flat[2] = a2 /\ Flat[3] = a3 /\ Flat[4] = a4
    BY <1>3
  <2>2. stride[a4] = 1 /\ stride[a3] = stride[a4] * extent[a4]
        /\ stride[a2] = stride[a3] * extent[a3] /\ stride[a1] = stride[a2] * extent[a2]
    BY <1>1, <2>1 DEF After
  <2>3. QED
    BY <1>2, <2>2
<1>4. CASE Flat = <<a2, a3, a4>> /\ a1 = "n" /\ extent["n"] = 1 /\ stride["n"] = 0
  <2>1. Len(Flat) = 3 /\ Flat[1] = a2 /\ Flat[2] = a3 /\ Flat[3] = a4
    BY <1>4
  <2>2. stride[a4] = 1 /\ stride[a3] = stride[a4] * extent[a4] /\ stride[a2] = stride[a3] * extent[a3]
    BY <1>1, <2>1 DEF After
  <2>3. QED
    BY <1>2, <1>4, <2>2
<1>5. QED
  BY <1>3, <1>4 DEF Ordered

(* An element's positions.                                                 *)
LEMMA BoxIsFunctions ==
  ASSUME LOInv
  PROVE  /\ \A i \in Box : i \in [Axes -> Int] /\ \A a \in Axes : i[a] \in 0..(extent[a] - 1)
         /\ \A i \in [Axes -> Int] : (\A a \in Axes : i[a] \in 0..(extent[a] - 1)) => i \in Box
<1>1. \A a \in Axes : extent[a] \in Nat
  BY ExtentTypes
<1>2. ASSUME NEW i \in Box
      PROVE  i \in [Axes -> Int] /\ \A a \in Axes : i[a] \in 0..(extent[a] - 1)
  <2>1. /\ i["n"] \in 0..(extent["n"] - 1) /\ i["b"] \in 0..(extent["b"] - 1)
        /\ i["y"] \in 0..(extent["y"] - 1) /\ i["x"] \in 0..(extent["x"] - 1)
    BY DEF Box
  <2>2. i = [a \in Axes |-> i[a]]
    BY DEF Box, Axes
  <2>3. \A a \in Axes : i[a] \in 0..(extent[a] - 1)
    BY <2>1 DEF Axes
  <2>4. \A a \in Axes : i[a] \in Int
    BY <2>3
  <2>5. QED
    BY <2>2, <2>3, <2>4
<1>3. ASSUME NEW i \in [Axes -> Int], \A a \in Axes : i[a] \in 0..(extent[a] - 1)
      PROVE  i \in Box
  <2>1. i = [n |-> i["n"], b |-> i["b"], y |-> i["y"], x |-> i["x"]]
    BY DEF Axes
  <2>2. /\ i["n"] \in 0..(extent["n"] - 1) /\ i["b"] \in 0..(extent["b"] - 1)
        /\ i["y"] \in 0..(extent["y"] - 1) /\ i["x"] \in 0..(extent["x"] - 1)
    BY <1>3 DEF Axes
  <2>3. QED
    BY <2>1, <2>2 DEF Box
<1>4. QED
  BY <1>2, <1>3

(* The place of an element is its position in the output order.            *)
LEMMA OffsetIsRank ==
  ASSUME LOInv, outcome = "ok", NEW a1, NEW a2, NEW a3, NEW a4, Ordered(a1, a2, a3, a4), NEW i \in Box
  PROVE  /\ Offset(i) = Rank(extent[a2], extent[a3], extent[a4], i[a1], i[a2], i[a3], i[a4])
         /\ RowMajor(i, extent, Flat) = Offset(i)
<1>1. IsOrder(Axes, a1, a2, a3, a4)
  BY DEF Ordered
<1>2. /\ i \in [Axes -> Int] /\ extent \in [Axes -> Int] /\ stride \in [Axes -> Int]
      /\ i[a1] \in 0..(extent[a1] - 1)
      /\ i[a1] \in Int /\ i[a2] \in Int /\ i[a3] \in Int /\ i[a4] \in Int
      /\ extent[a2] \in Int /\ extent[a3] \in Int /\ extent[a4] \in Int
  BY <1>1, BoxIsFunctions, ExtentTypes DEF IsOrder
<1>3. a1 \in Axes /\ a2 \in Axes /\ a3 \in Axes /\ a4 \in Axes
  BY <1>1 DEF IsOrder
<1> DEFINE f == [z \in Axes |-> i[z] * stride[z]]
<1>4. f \in [Axes -> Int]
  BY <1>2
<1>5. Offset(i) = f["n"] + f["b"] + f["y"] + f["x"]
  BY DEF Offset, Axes
<1>6. /\ f[a1] = i[a1] * stride[a1] /\ f[a2] = i[a2] * stride[a2]
      /\ f[a3] = i[a3] * stride[a3] /\ f[a4] = i[a4] * stride[a4]
  BY <1>3
<1> HIDE DEF f
<1>7. Offset(i) = f[a1] + f[a2] + f[a3] + f[a4]
  BY <1>1, <1>4, <1>5, LayoutAxes, SumInOrder
<1>8. f[a1] = i[a1] * ((extent[a4] * extent[a3]) * extent[a2])
  <2>1. CASE stride[a1] = (extent[a4] * extent[a3]) * extent[a2]
    BY <1>6, <2>1
  <2>2. CASE stride[a1] = 0 /\ extent[a1] = 1
    <3>1. i[a1] = 0
      BY <1>2, <2>2
    <3>2. (extent[a4] * extent[a3]) * extent[a2] \in Int
      BY <1>2
    <3>3. QED
      BY <1>6, <2>2, <3>1, <3>2
  <2>3. QED
    BY <2>1, <2>2, DealtStrides
<1>9. /\ f[a2] = i[a2] * (extent[a4] * extent[a3]) /\ f[a3] = i[a3] * extent[a4] /\ f[a4] = i[a4] * 1
  BY <1>6, DealtStrides
<1>10. Offset(i) = Rank(extent[a2], extent[a3], extent[a4], i[a1], i[a2], i[a3], i[a4])
  <2>1. PICK s2, s3, s4, d1, d2, d3, d4 :
          /\ s2 = extent[a2] /\ s3 = extent[a3] /\ s4 = extent[a4]
          /\ d1 = i[a1] /\ d2 = i[a2] /\ d3 = i[a3] /\ d4 = i[a4]
    OBVIOUS
  <2>2. /\ s2 \in Int /\ s3 \in Int /\ s4 \in Int
        /\ d1 \in Int /\ d2 \in Int /\ d3 \in Int /\ d4 \in Int
    BY <1>2, <2>1
  <2>3. Offset(i) = d1 * ((s4 * s3) * s2) + d2 * (s4 * s3) + d3 * s4 + d4 * 1
    BY <1>7, <1>8, <1>9, <2>1
  <2>4. d1 * ((s4 * s3) * s2) + d2 * (s4 * s3) + d3 * s4 + d4 * 1 = Rank(s2, s3, s4, d1, d2, d3, d4)
    BY <2>2 DEF Rank
  <2>5. QED
    BY <2>1, <2>3, <2>4
<1>11. RowMajor(i, extent, Flat) = Rank(extent[a2], extent[a3], extent[a4], i[a1], i[a2], i[a3], i[a4])
  <2>1. CASE Flat = <<a1, a2, a3, a4>>
    <3>1. RowMajor(i, extent, <<a1, a2, a3, a4>>)
          = Rank(extent[a2], extent[a3], extent[a4], i[a1], i[a2], i[a3], i[a4])
      BY <1>2, <1>3, RankOfFour, SMTT(30)
    <3>2. QED
      BY <2>1, <3>1
  <2>2. CASE Flat = <<a2, a3, a4>> /\ a1 = "n" /\ extent["n"] = 1
    <3>1. i[a1] = 0
      BY <1>2, <2>2
    <3>2. RowMajor(i, extent, <<a2, a3, a4>>)
          = Rank(extent[a2], extent[a3], extent[a4], 0, i[a2], i[a3], i[a4])
      BY <1>2, <1>3, RankOfThree
    <3>3. QED
      BY <2>2, <3>1, <3>2
  <2>3. QED
    BY <2>1, <2>2 DEF Ordered
<1>12. QED
  BY <1>10, <1>11


(* The elements of a read.                                                 *)
LEMMA TotalInOrder ==
  ASSUME LOInv, NEW a1, NEW a2, NEW a3, NEW a4, IsOrder(Axes, a1, a2, a3, a4)
  PROVE  Product(extent, Canonical) = extent[a1] * extent[a2] * extent[a3] * extent[a4]
<1>1. extent \in [Axes -> Int]
  BY ExtentTypes
<1>2. "n" \in Axes /\ "b" \in Axes /\ "y" \in Axes /\ "x" \in Axes
  BY DEF Axes
<1>3. Product(extent, <<"n", "b", "y", "x">>) = extent["n"] * extent["b"] * extent["y"] * extent["x"]
  BY <1>1, <1>2, ProductOfFour
<1>4. extent["n"] * extent["b"] * extent["y"] * extent["x"] = extent[a1] * extent[a2] * extent[a3] * extent[a4]
  BY <1>1, LayoutAxes, ProductInOrder
<1>5. QED
  BY <1>3, <1>4 DEF Canonical

LEMMA DenseFollows == LOInv => LayoutDense
<1> SUFFICES ASSUME LOInv, outcome = "ok" PROVE LayoutDense
  BY DEF LayoutDense
<1>1. Late
  BY DEF Late
<1>2. PICK a1, a2, a3, a4 : Ordered(a1, a2, a3, a4)
  BY <1>1, OutputOrder
<1>3. IsOrder(Axes, a1, a2, a3, a4)
  BY <1>2 DEF Ordered
<1>4. PICK total : total = Product(extent, Canonical)
  OBVIOUS
<1>5. PICK e1, e2, e3, e4 : e1 = extent[a1] /\ e2 = extent[a2] /\ e3 = extent[a3] /\ e4 = extent[a4]
  OBVIOUS
<1>6. e1 \in Nat \ {0} /\ e2 \in Nat \ {0} /\ e3 \in Nat \ {0} /\ e4 \in Nat \ {0}
  BY <1>3, <1>5, ExtentTypes DEF IsOrder
<1>7. total = ((e1 * e2) * e3) * e4
  BY <1>3, <1>4, <1>5, TotalInOrder
<1>8. total <= I64Max
  <2>1. run = After(0) /\ left = 0 /\ run \in 1..I64Max
    BY <1>1 DEF LOInv, DealtInv, PhaseInv, LOTypeOK
  <2>2. run = ((e4 * e3) * e2) * e1
    <3>1. /\ stride[a4] = 1 /\ stride[a3] = e4 /\ stride[a2] = e4 * e3
          /\ \/ stride[a1] = (e4 * e3) * e2
             \/ stride[a1] = 0 /\ a1 = "n" /\ e1 = 1
      BY <1>2, <1>5, DealtStrides
    <3>2. CASE Flat = <<a1, a2, a3, a4>>
      <4>1. Len(Flat) = 4 /\ Flat[1] = a1 /\ Flat[2] = a2
        BY <3>2
      <4>2. run = stride[a1] * e1 /\ stride[a1] = stride[a2] * e2
        <5>1. stride[Flat[1]] = After(1)
          BY <2>1, <4>1 DEF LOInv, DealtInv, Late
        <5>2. QED
          BY <1>5, <2>1, <4>1, <5>1 DEF After
      <4>3. QED
        BY <1>6, <3>1, <4>2
    <3>3. CASE Flat = <<a2, a3, a4>> /\ a1 = "n" /\ extent["n"] = 1
      <4>1. Len(Flat) = 3 /\ Flat[1] = a2 /\ e1 = 1
        BY <1>5, <3>3
      <4>2. run = stride[a2] * e2
        BY <1>5, <2>1, <4>1 DEF After
      <4>3. QED
        BY <1>6, <3>1, <4>1, <4>2
    <3>4. QED
      BY <1>2, <3>2, <3>3 DEF Ordered
  <2>3. ((e4 * e3) * e2) * e1 = ((e1 * e2) * e3) * e4
    BY <1>6
  <2>4. QED
    BY <1>7, <2>1, <2>2, <2>3
<1>9. ASSUME NEW i \in Box PROVE Offset(i) \in 0..(total - 1)
  <2>1. Offset(i) = Rank(e2, e3, e4, i[a1], i[a2], i[a3], i[a4])
    BY <1>2, <1>5, OffsetIsRank
  <2>2. /\ i[a1] \in 0..(e1 - 1) /\ i[a2] \in 0..(e2 - 1)
        /\ i[a3] \in 0..(e3 - 1) /\ i[a4] \in 0..(e4 - 1)
    BY <1>3, <1>5, BoxIsFunctions DEF IsOrder
  <2>3. Rank(e2, e3, e4, i[a1], i[a2], i[a3], i[a4]) \in 0..(((e1 * e2) * e3) * e4 - 1)
    <3>1. e1 \in Nat /\ e2 \in Nat /\ e3 \in Nat /\ e4 \in Nat
      BY <1>6
    <3>2. QED
      BY <2>2, <3>1, RankBelow
  <2>4. QED
    BY <1>7, <2>1, <2>3
<1>10. ASSUME NEW m \in 0..(total - 1) PROVE \E i \in Box : Offset(i) = m
  <2>1. HasRank(e1, e2, e3, e4, m)
    <3>1. m \in 0..(((e1 * e2) * e3) * e4 - 1) /\ e1 \in Nat
      BY <1>6, <1>7
    <3>2. QED
      BY <1>6, <3>1, RankOnto
  <2>2. PICK d1 \in 0..(e1 - 1), d2 \in 0..(e2 - 1), d3 \in 0..(e3 - 1), d4 \in 0..(e4 - 1) :
          Rank(e2, e3, e4, d1, d2, d3, d4) = m
    BY <2>1 DEF HasRank
  <2> DEFINE i == [a \in Axes |-> IF a = a1 THEN d1 ELSE IF a = a2 THEN d2 ELSE IF a = a3 THEN d3 ELSE d4]
  <2>3. i[a1] = d1 /\ i[a2] = d2 /\ i[a3] = d3 /\ i[a4] = d4
    BY <1>3 DEF IsOrder
  <2>4. i \in [Axes -> Int]
    BY <2>2
  <2> HIDE DEF i
  <2>5. \A a \in Axes : i[a] \in 0..(extent[a] - 1)
    <3>1. Axes = {a1, a2, a3, a4}
      BY <1>3, LayoutAxes, AllAxes
    <3>2. /\ i[a1] \in 0..(extent[a1] - 1) /\ i[a2] \in 0..(extent[a2] - 1)
          /\ i[a3] \in 0..(extent[a3] - 1) /\ i[a4] \in 0..(extent[a4] - 1)
      BY <1>5, <2>2, <2>3
    <3>3. QED
      BY <3>1, <3>2
  <2>6. i \in Box
    BY <2>4, <2>5, BoxIsFunctions
  <2>7. Offset(i) = Rank(e2, e3, e4, d1, d2, d3, d4)
    BY <1>2, <1>5, <2>3, <2>6, OffsetIsRank
  <2>8. QED
    BY <2>2, <2>6, <2>7
<1>11. {Offset(i) : i \in Box} = 0..(total - 1)
  BY <1>9, <1>10
<1>12. QED
  BY <1>4, <1>8, <1>11 DEF LayoutDense

(* An accepted layout is dense: every element has a place of its own, and  *)
(* no place of the buffer is left over.                                    *)
THEOREM LOLayoutDense == LOSpec => []LayoutDense
BY LOInvariant, DenseFollows, PTL

LEMMA OverflowFollows == LOInv => OverflowIsReal
<1> SUFFICES ASSUME LOInv, outcome = "overflow" PROVE Product(extent, Canonical) > I64Max
  BY DEF OverflowIsReal
<1>1. Late
  BY DEF Late
<1>2. PICK a1, a2, a3, a4 : Ordered(a1, a2, a3, a4)
  BY <1>1, OutputOrder
<1>3. IsOrder(Axes, a1, a2, a3, a4)
  BY <1>2 DEF Ordered
<1>5. PICK e1, e2, e3, e4 : e1 = extent[a1] /\ e2 = extent[a2] /\ e3 = extent[a3] /\ e4 = extent[a4]
  OBVIOUS
<1>6. e1 \in Nat \ {0} /\ e2 \in Nat \ {0} /\ e3 \in Nat \ {0} /\ e4 \in Nat \ {0}
  BY <1>3, <1>5, ExtentTypes DEF IsOrder
<1>7. Product(extent, Canonical) = ((e1 * e2) * e3) * e4
  BY <1>3, <1>5, TotalInOrder
<1>8. PICK r, l, m : r = run /\ l = left /\ m = I64Max
  OBVIOUS
<1>9. /\ l \in 1..Len(Flat) /\ r \in 1..m /\ m \in Nat /\ r > m \div extent[Flat[l]] /\ r = After(l)
      /\ \A k \in (l + 1)..Len(Flat) : stride[Flat[k]] = After(k)
  <2>1. left \in 0..Len(Flat) /\ left > 0 /\ run > I64Max \div extent[Flat[left]] /\ run \in 1..I64Max
    BY DEF LOInv, LOTypeOK, PhaseInv
  <2>2. run = After(left) /\ \A k \in (left + 1)..Len(Flat) : stride[Flat[k]] = After(k)
    BY <1>1 DEF LOInv, DealtInv
  <2>3. QED
    BY <1>8, <2>1, <2>2, LayoutAssumption
<1>10. Flat[l] \in Axes
  BY <1>1, <1>9, FlatFacts
<1>11. r * extent[Flat[l]] > m
  <2>1. extent[Flat[l]] \in 1..m
    BY <1>8, <1>10, ExtentTypes
  <2>2. QED
    BY <1>9, <2>1, QuotientFits
<1>12. \E w \in Nat \ {0} : ((e1 * e2) * e3) * e4 = (r * extent[Flat[l]]) * w
  <2>1. CASE Flat = <<a1, a2, a3, a4>>
    <3>1. Len(Flat) = 4 /\ Flat[1] = a1 /\ Flat[2] = a2 /\ Flat[3] = a3 /\ Flat[4] = a4
      BY <2>1
    <3>2. l = 1 \/ l = 2 \/ l = 3 \/ l = 4
      BY <1>9, <3>1
    <3>3. l < 4 => stride[a4] = 1
      BY <1>9, <3>1 DEF After
    <3>4. l < 3 => stride[a3] = stride[a4] * e4
      BY <1>5, <1>9, <3>1 DEF After
    <3>5. l < 2 => stride[a2] = stride[a3] * e3
      BY <1>5, <1>9, <3>1 DEF After
    <3>6. CASE l = 4
      <4>1. r = 1 /\ extent[Flat[l]] = e4
        BY <1>5, <1>9, <3>1, <3>6 DEF After
      <4>2. (e1 * e2) * e3 \in Nat \ {0} /\ ((e1 * e2) * e3) * e4 = (1 * e4) * ((e1 * e2) * e3)
        BY <1>6
      <4>3. QED
        BY <4>1, <4>2
    <3>7. CASE l = 3
      <4>1. r = e4 /\ extent[Flat[l]] = e3
        BY <1>5, <1>6, <1>9, <3>1, <3>3, <3>7 DEF After
      <4>2. e1 * e2 \in Nat \ {0} /\ ((e1 * e2) * e3) * e4 = (e4 * e3) * (e1 * e2)
        BY <1>6
      <4>3. QED
        BY <4>1, <4>2
    <3>8. CASE l = 2
      <4>1. stride[a3] = e4 /\ extent[Flat[l]] = e2
        BY <1>5, <1>6, <3>1, <3>3, <3>4, <3>8
      <4>2. r = e4 * e3
        BY <1>5, <1>9, <3>1, <3>8, <4>1 DEF After
      <4>3. ((e1 * e2) * e3) * e4 = ((e4 * e3) * e2) * e1
        BY <1>6
      <4>4. QED
        BY <1>6, <4>1, <4>2, <4>3
    <3>9. CASE l = 1
      <4>1. stride[a2] = e4 * e3 /\ extent[Flat[l]] = e1
        BY <1>5, <1>6, <3>1, <3>3, <3>4, <3>5, <3>9
      <4>2. r = (e4 * e3) * e2
        BY <1>5, <1>9, <3>1, <3>9, <4>1 DEF After
      <4>3. ((e1 * e2) * e3) * e4 = (((e4 * e3) * e2) * e1) * 1
        BY <1>6
      <4>4. QED
        BY <4>1, <4>2, <4>3
    <3>10. QED
      BY <3>2, <3>6, <3>7, <3>8, <3>9
  <2>2. CASE Flat = <<a2, a3, a4>> /\ a1 = "n" /\ extent["n"] = 1
    <3>1. Len(Flat) = 3 /\ Flat[1] = a2 /\ Flat[2] = a3 /\ Flat[3] = a4 /\ e1 = 1
      BY <1>5, <2>2
    <3>2. l = 1 \/ l = 2 \/ l = 3
      BY <1>9, <3>1
    <3>3. l < 3 => stride[a4] = 1
      BY <1>9, <3>1 DEF After
    <3>4. l < 2 => stride[a3] = stride[a4] * e4
      BY <1>5, <1>9, <3>1 DEF After
    <3>5. CASE l = 3
      <4>1. r = 1 /\ extent[Flat[l]] = e4
        BY <1>5, <1>9, <3>1, <3>5 DEF After
      <4>2. e2 * e3 \in Nat \ {0} /\ ((1 * e2) * e3) * e4 = (1 * e4) * (e2 * e3)
        BY <1>6
      <4>3. QED
        BY <3>1, <4>1, <4>2
    <3>6. CASE l = 2
      <4>1. r = e4 /\ extent[Flat[l]] = e3
        BY <1>5, <1>6, <1>9, <3>1, <3>3, <3>6 DEF After
      <4>2. ((1 * e2) * e3) * e4 = (e4 * e3) * e2
        BY <1>6
      <4>3. QED
        BY <1>6, <3>1, <4>1, <4>2
    <3>7. CASE l = 1
      <4>1. stride[a3] = e4 /\ extent[Flat[l]] = e2
        BY <1>5, <1>6, <3>1, <3>3, <3>4, <3>7
      <4>2. r = e4 * e3
        BY <1>5, <1>9, <3>1, <3>7, <4>1 DEF After
      <4>3. ((1 * e2) * e3) * e4 = ((e4 * e3) * e2) * 1
        BY <1>6
      <4>4. QED
        BY <3>1, <4>1, <4>2, <4>3
    <3>8. QED
      BY <3>2, <3>5, <3>6, <3>7
  <2>3. QED
    BY <1>2, <2>1, <2>2 DEF Ordered
<1>13. PICK w \in Nat \ {0} : ((e1 * e2) * e3) * e4 = (r * extent[Flat[l]]) * w
  BY <1>12
<1>14. PICK v : v = r * extent[Flat[l]]
  OBVIOUS
<1>15. v \in Nat /\ v > m
  BY <1>9, <1>10, <1>11, <1>14, ExtentTypes
<1>16. 1 * v <= w * v /\ w * v = v * w /\ 1 * v = v
  BY <1>15, ProductMonotone
<1>17. QED
  BY <1>7, <1>8, <1>9, <1>13, <1>14, <1>15, <1>16

(* compile_layout refuses a read for its size only if int64 cannot count   *)
(* its elements: the test it makes before every product is exact.         *)
THEOREM LOOverflowIsReal == LOSpec => []OverflowIsReal
BY LOInvariant, OverflowFollows, PTL


LEMMA NativeFollows == LOInv => NativeIsCanonical
<1> SUFFICES ASSUME LOInv, outcome = "ok", Native, NEW i \in Box
             PROVE  Offset(i) = RowMajor(i, extent, Canonical)
  BY DEF NativeIsCanonical
<1>1. Late
  BY DEF Late
<1>2. PICK a1, a2, a3, a4 : Ordered(a1, a2, a3, a4)
  BY <1>1, OutputOrder
<1>3. RowMajor(i, extent, Flat) = Offset(i)
  BY <1>2, OffsetIsRank
<1>4. CASE "n" \in seen
  BY <1>3, <1>4 DEF Native
<1>5. CASE "n" \notin seen
  <2>1. Flat = <<"b", "y", "x">>
    BY <1>5 DEF Native, Canonical
  <2>2. extent["n"] = 1
    BY <1>1, <1>5 DEF LOInv, WholeInv
  <2>3. "n" \in Axes /\ "b" \in Axes /\ "y" \in Axes /\ "x" \in Axes
    BY DEF Axes
  <2>4. i \in [Axes -> Int] /\ i["n"] = 0 /\ extent \in [Axes -> Int]
    BY <2>2, <2>3, BoxIsFunctions, ExtentTypes
  <2>5. RowMajor(i, extent, <<"b", "y", "x">>)
        = Rank(extent["b"], extent["y"], extent["x"], 0, i["b"], i["y"], i["x"])
    BY <2>3, <2>4, RankOfThree
  <2>6. RowMajor(i, extent, <<"n", "b", "y", "x">>)
        = Rank(extent["b"], extent["y"], extent["x"], i["n"], i["b"], i["y"], i["x"])
    BY <2>3, <2>4, RankOfFour
  <2>7. QED
    BY <1>3, <2>1, <2>4, <2>5, <2>6 DEF Canonical
<1>6. QED
  BY <1>4, <1>5

(* A layout called native is the canonical one: the binding may hand the   *)
(* buffer on as (n) b y x without a copy.                                  *)
THEOREM LONativeIsCanonical == LOSpec => []NativeIsCanonical
BY LOInvariant, NativeFollows, PTL

(* A position over groups of axes is the position over the axes.           *)
GroupPlaces(c, s, t) == [g \in DOMAIN t |-> RowMajor(c, s, t[g])]
GroupSizes(s, t) == [g \in DOMAIN t |-> Product(s, t[g])]
GroupOrder(t) == [g \in DOMAIN t |-> g]

LEMMA RankOfGroups ==
  ASSUME NEW A, NEW c \in [A -> Int], NEW s \in [A -> Int], NEW t \in Seq(Seq(A))
  PROVE  RowMajor(GroupPlaces(c, s, t), GroupSizes(s, t), GroupOrder(t)) = RowMajor(c, s, FlattenSeq(t))
<1> DEFINE n == Len(t)
           place == GroupPlaces(c, s, t)
           shape == GroupSizes(s, t)
           o == GroupOrder(t)
<1>1. n \in Nat /\ DOMAIN t = 1..n /\ \A k \in 1..n : t[k] \in Seq(A)
  OBVIOUS
<1>2. o \in Seq(1..n) /\ Len(o) = n /\ \A k \in 1..n : o[k] = k
  BY <1>1 DEF GroupOrder
<1>3. \A q \in Seq(A) : Product(s, q) \in Int /\ RowMajor(c, s, q) \in Int
  <2>1. ASSUME NEW q \in Seq(A) PROVE Product(s, q) \in Int /\ RowMajor(c, s, q) \in Int
    <3>1. PICK g : Products(s, q, g) /\ Product(s, q) = g[Len(q)]
      BY ProductFolds
    <3>2. PICK h : Ranks(c, s, q, h) /\ RowMajor(c, s, q) = h[Len(q)]
      BY RankFolds
    <3>3. Len(q) \in 0..Len(q)
      OBVIOUS
    <3>4. QED
      BY <3>1, <3>2, <3>3 DEF Products, Ranks
  <2>2. QED
    BY <2>1
<1>4. place \in [1..n -> Int] /\ shape \in [1..n -> Int]
  BY <1>1, <1>3 DEF GroupPlaces, GroupSizes
<1>5. \A k \in 1..n : place[k] = RowMajor(c, s, t[k]) /\ shape[k] = Product(s, t[k])
  BY <1>1 DEF GroupPlaces, GroupSizes
<1> HIDE DEF place, shape, o, n
<1>6. PICK outer : Ranks(place, shape, o, outer) /\ RowMajor(place, shape, o) = outer[n]
  <2> DEFINE B == 1..n
  <2>1. place \in [B -> Int] /\ shape \in [B -> Int] /\ o \in Seq(B) /\ Len(o) = n
    BY <1>2, <1>4
  <2> HIDE DEF B
  <2>2. QED
    BY <2>1, RankFolds
<1>7. PICK g : Joins(A, t, g) /\ FlattenSeq(t) = g[n]
  BY FlattenJoins DEF n
<1>8. /\ outer[0] = 0 /\ \A k \in 1..n : outer[k] = outer[k - 1] * shape[k] + place[k]
      /\ g \in [0..n -> Seq(A)] /\ g[0] = <<>> /\ \A k \in 1..n : g[k] = g[k - 1] \o t[k]
  BY <1>2, <1>6, <1>7 DEF Ranks, Joins, n
<1> DEFINE S == {k \in 0..n : outer[k] = RowMajor(c, s, g[k])}
<1>9. 0 \in S
  <2>1. PICK h : Ranks(c, s, <<>>, h) /\ RowMajor(c, s, <<>>) = h[Len(<<>>)]
    <3>1. <<>> \in Seq(A)
      OBVIOUS
    <3>2. QED
      BY <3>1, RankFolds
  <2>2. RowMajor(c, s, <<>>) = 0
    BY <2>1 DEF Ranks
  <2>3. 0 \in 0..n
    BY <1>1
  <2>4. QED
    BY <1>8, <2>2, <2>3
<1>10. ASSUME NEW k \in 0..(n - 1), k \in S PROVE k + 1 \in S
  <2>1. k + 1 \in 1..n /\ k + 1 \in 0..n /\ (k + 1) - 1 = k /\ k \in 0..n
    BY <1>1
  <2>2. outer[k] = RowMajor(c, s, g[k]) /\ g[k] \in Seq(A) /\ t[k + 1] \in Seq(A)
    BY <1>1, <1>8, <1>10, <2>1
  <2>3. g[k + 1] = g[k] \o t[k + 1]
    BY <1>8, <2>1
  <2>4. outer[k + 1] = outer[k] * Product(s, t[k + 1]) + RowMajor(c, s, t[k + 1])
    BY <1>5, <1>8, <2>1
  <2>5. RowMajor(c, s, g[k] \o t[k + 1])
        = RowMajor(c, s, g[k]) * Product(s, t[k + 1]) + RowMajor(c, s, t[k + 1])
    <3>1. PICK q, r : q = g[k] /\ r = t[k + 1]
      OBVIOUS
    <3>2. q \in Seq(A) /\ r \in Seq(A)
      BY <2>2, <3>1
    <3>3. RowMajor(c, s, q \o r) = RowMajor(c, s, q) * Product(s, r) + RowMajor(c, s, r)
      BY <3>2, RankJoined
    <3>4. QED
      BY <3>1, <3>3
  <2>6. QED
    BY <2>1, <2>2, <2>3, <2>4, <2>5
<1>11. \A k \in 0..n : k \in S
  <2> HIDE DEF S
  <2>1. QED
    BY <1>1, <1>9, <1>10, InductionUpTo
<1>12. outer[n] = RowMajor(c, s, g[n])
  BY <1>1, <1>11
<1>13. QED
  BY <1>6, <1>7, <1>12 DEF place, shape, o

LEMMA ShapeFollows == LOInv => ShapeAgrees
<1> SUFFICES ASSUME LOInv, outcome = "ok", NEW i \in Box
             PROVE  Offset(i) = RowMajor([g \in DOMAIN groups |-> RowMajor(i, extent, groups[g])],
                                         Shape, [g \in DOMAIN groups |-> g])
  BY DEF ShapeAgrees
<1>1. Late
  BY DEF Late
<1>2. PICK a1, a2, a3, a4 : Ordered(a1, a2, a3, a4)
  BY <1>1, OutputOrder
<1>3. RowMajor(i, extent, Flat) = Offset(i)
  BY <1>2, OffsetIsRank
<1>4. i \in [Axes -> Int] /\ extent \in [Axes -> Int]
  BY BoxIsFunctions, ExtentTypes
<1>5. PICK t, s : t = groups /\ s = extent
  OBVIOUS
<1>6. t \in Seq(Seq(Axes)) /\ s \in [Axes -> Int]
  BY <1>4, <1>5, FlatIsSeq DEF LOInv
<1>7. i \in [Axes -> Int]
  BY <1>4
<1>8. RowMajor(GroupPlaces(i, s, t), GroupSizes(s, t), GroupOrder(t)) = RowMajor(i, s, FlattenSeq(t))
  BY <1>6, <1>7, RankOfGroups
<1>9. QED
  BY <1>3, <1>5, <1>8 DEF Shape, Flat, GroupPlaces, GroupSizes, GroupOrder

(* The strides are those of an array of the promised shape: along a merged *)
(* axis its parts follow each other, the last one fastest.                 *)
THEOREM LOShapeAgrees == LOSpec => []ShapeAgrees
BY LOInvariant, ShapeFollows, PTL

(* Every axis is read once: no character sends an axis to two places.      *)
THEOREM LOAxesOnce == LOSpec => []AxesOnce
<1>1. LOInv => AxesOnce
  BY DEF LOInv
<1>2. QED
  BY <1>1, LOInvariant, PTL

(* Type correctness; in particular, no stride and no product on the way    *)
(* exceeds int64.                                                          *)
THEOREM LOTypeCorrect == LOSpec => []LOTypeOK
<1>1. LOInv => LOTypeOK
  BY DEF LOInv
<1>2. QED
  BY <1>1, LOInvariant, PTL
=============================================================================
