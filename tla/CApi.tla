-------------------------------- MODULE CApi --------------------------------
(***************************************************************************)
(* The error plumbing and the ownership rules of the C interface           *)
(* (core/src/capi.cpp).  Every status-returning function runs its body in  *)
(* capi_call, which clears the thread's last error, installs a CPL error   *)
(* handler on the calling thread and turns an exception into a status.     *)
(* Several threads are inside such calls at once; the tiles of a read may  *)
(* be decoded by the calling thread or by threads of the pool, which raise *)
(* CPL errors where they run.                                              *)
(*                                                                         *)
(* A message is known by the thread and the call it is about.              *)
(***************************************************************************)
EXTENDS Integers, FiniteSets

CONSTANTS
  Users,     (* threads that call the library                              *)
  Workers,   (* threads of the global pool                                 *)
  MaxCalls,  (* calls a thread makes                                       *)
  NoMessage, NoHandle

Threads == Users \cup Workers

ASSUME CApiAssumption == /\ MaxCalls \in Nat \ {0}
                         /\ Users \cap Workers = {} /\ NoHandle \notin Threads \X Nat

Functions == {"index_file", "compile_layout", "spec_parse", "spec_header", "read"}

(* The functions whose success hands the caller a handle to release.       *)
Allocating == {"index_file", "spec_parse"}

Failures == {"invalid", "io", "parse", "format", "oom", "internal"}

VARIABLES
  in,        (* the function a thread is in, "none" outside the library    *)
  calls,     (* how many calls it has made                                 *)
  last,      (* g_last_error: what each thread's copy holds                *)
  handlers,  (* how many handlers a thread has pushed and not popped       *)
  cause,     (* where this call's last CPL error was raised: "none",       *)
             (* "here" or "worker"                                         *)
  status,    (* what the thread's last call returned, "none" before        *)
  out,       (* what its out-pointer holds                                 *)
  live       (* the handles that have been allocated and not released      *)

caVars == <<in, calls, last, handlers, cause, status, out, live>>

Message(u, kind) == [by |-> u, call |-> calls[u], kind |-> kind]
Handle(u) == <<u, calls[u]>>

-----------------------------------------------------------------------------
(* g_last_error is thread_local.                                           *)
Slot(t) == t

(* set_error: assigning the string may itself run out of memory.           *)
SetError(t, m) == \E held \in {m, NoMessage} : last' = [last EXCEPT ![Slot(t)] = held]

CAInit ==
  /\ in = [u \in Users |-> "none"]
  /\ calls = [u \in Users |-> 0]
  /\ last = [t \in Threads |-> NoMessage]
  /\ handlers = [t \in Threads |-> 0]
  /\ cause = [u \in Users |-> "none"]
  /\ status = [u \in Users |-> "none"]
  /\ out = [u \in Users |-> NoHandle]
  /\ live = {}

(* slip: the message of the call before is kept.                           *)
KeptOnEntry(u) == last

ClearedOnEntry(u) == [last EXCEPT ![Slot(u)] = NoMessage]

(* capi_call, up to the body.                                              *)
Enter(u, f) ==
  /\ in[u] = "none" /\ calls[u] < MaxCalls
  /\ in' = [in EXCEPT ![u] = f]
  /\ calls' = [calls EXCEPT ![u] = @ + 1]
  /\ last' = ClearedOnEntry(u)
  /\ handlers' = [handlers EXCEPT ![u] = @ + 1]
  /\ cause' = [cause EXCEPT ![u] = "none"]
  /\ status' = [status EXCEPT ![u] = "none"]
  /\ out' = [out EXCEPT ![u] = NoHandle]
  /\ UNCHANGED live

(* GDAL or execute_task raises a CPL error on thread t, on behalf of u's   *)
(* call: capture_cpl takes it where that thread has the handler installed, *)
(* and GDAL's own handler prints it where it has not.                      *)
CplError(t, u) ==
  IF handlers[t] > 0 THEN SetError(t, Message(u, "cpl")) ELSE UNCHANGED last

CplErrorHere(u) ==
  /\ in[u] \in {"index_file", "read"} /\ cause[u] = "none"
  /\ CplError(u, u)
  /\ cause' = [cause EXCEPT ![u] = "here"]
  /\ UNCHANGED <<in, calls, handlers, status, out, live>>

CplErrorOnWorker(u, w) ==
  /\ in[u] = "read" /\ cause[u] = "none"
  /\ CplError(w, u)
  /\ cause' = [cause EXCEPT ![u] = "worker"]
  /\ UNCHANGED <<in, calls, handlers, status, out, live>>

-----------------------------------------------------------------------------
(* The ends of a call.                                                     *)

(* slip: the handler is left behind when the body did not return normally. *)
LeavePushed(u, s) ==
  /\ in' = [in EXCEPT ![u] = "none"]
  /\ status' = [status EXCEPT ![u] = s]
  /\ handlers' = IF s \in {"oom", "internal"} THEN handlers ELSE [handlers EXCEPT ![u] = @ - 1]

(* The body returns s and CplScope is destroyed.                           *)
Leave(u, s) ==
  /\ in' = [in EXCEPT ![u] = "none"]
  /\ status' = [status EXCEPT ![u] = s]
  /\ handlers' = [handlers EXCEPT ![u] = @ - 1]

Succeed(u) ==
  /\ in[u] \notin Allocating \cup {"none"}
  /\ in[u] = "read" => cause[u] = "none"
  /\ Leave(u, "ok")
  /\ UNCHANGED <<calls, last, cause, out, live>>

(* slip: the out-pointer is set before the allocation is known to succeed. *)
AllocateEarly(u) ==
  /\ in[u] \in Allocating
  /\ out' = [out EXCEPT ![u] = Handle(u)]
  /\ \/ Leave(u, "ok") /\ live' = live \cup {Handle(u)} /\ UNCHANGED last
     \/ Leave(u, "oom") /\ SetError(u, Message(u, "set")) /\ UNCHANGED live
  /\ UNCHANGED <<calls, cause>>

(* malloc and memcpy of the blob, or new shortcog_spec.                    *)
Allocate(u) ==
  /\ in[u] \in Allocating
  /\ \/ /\ Leave(u, "ok")
        /\ live' = live \cup {Handle(u)} /\ out' = [out EXCEPT ![u] = Handle(u)]
        /\ UNCHANGED last
     \/ /\ Leave(u, "oom")
        /\ SetError(u, Message(u, "set"))
        /\ UNCHANGED <<live, out>>
  /\ UNCHANGED <<calls, cause>>

(* What a body refuses, and with which status.                             *)
Refusals(f) ==
  CASE f = "index_file" -> {"invalid", "format"}
    [] f = "spec_parse" -> {"invalid", "parse"}
    [] f \in {"compile_layout", "spec_header", "read"} -> {"invalid"}

Refuse(u, s) ==
  /\ in[u] # "none" /\ s \in Refusals(in[u])
  /\ in[u] = "read" => cause[u] = "none"
  /\ Leave(u, s) /\ SetError(u, Message(u, "set"))
  /\ UNCHANGED <<calls, cause, out, live>>

(* read_window or read_stack failed: a message that is there already says  *)
(* more than "read failed".                                                *)
ReadFails(u) ==
  /\ in[u] = "read"
  /\ Leave(u, "io")
  /\ IF last[Slot(u)] = NoMessage THEN SetError(u, Message(u, "set")) ELSE UNCHANGED last
  /\ UNCHANGED <<calls, cause, out, live>>

(* An exception: bad_alloc, or anything else.                              *)
Throw(u, s) ==
  /\ in[u] # "none" /\ s \in {"oom", "internal"}
  /\ Leave(u, s) /\ SetError(u, Message(u, "set"))
  /\ UNCHANGED <<calls, cause, out, live>>

-----------------------------------------------------------------------------
(* Outside capi_call.                                                      *)

ClearError(u) ==
  /\ in[u] = "none" /\ status[u] # "none"
  /\ last' = [last EXCEPT ![Slot(u)] = NoMessage]
  /\ status' = [status EXCEPT ![u] = "none"]
  /\ UNCHANGED <<in, calls, handlers, cause, out, live>>

(* shortcog_free and shortcog_spec_destroy, by any thread that was given   *)
(* the handle.                                                             *)
Release(u, h) ==
  /\ in[u] = "none" /\ h \in live
  /\ live' = live \ {h}
  /\ out' = [v \in Users |-> IF out[v] = h THEN NoHandle ELSE out[v]]
  /\ UNCHANGED <<in, calls, last, handlers, cause, status>>

CANext ==
  \E u \in Users :
    \/ \E f \in Functions : Enter(u, f)
    \/ CplErrorHere(u) \/ \E w \in Workers : CplErrorOnWorker(u, w)
    \/ Succeed(u) \/ Allocate(u) \/ ReadFails(u) \/ ClearError(u)
    \/ \E s \in Failures : Refuse(u, s) \/ Throw(u, s)
    \/ \E h \in live : Release(u, h)

CASpec == CAInit /\ [][CANext]_caVars

-----------------------------------------------------------------------------
(* The state is well formed, and the handler stack of every thread is as   *)
(* deep as the calls it is in: GDAL code that runs later on the same       *)
(* thread finds the handler it installed itself.                           *)
CATypeOK ==
  /\ in \in [Users -> Functions \cup {"none"}] /\ calls \in [Users -> 0..MaxCalls]
  /\ last \in [Threads -> {NoMessage} \cup [by : Users, call : 1..MaxCalls, kind : {"cpl", "set"}]]
  /\ cause \in [Users -> {"none", "here", "worker"}]
  /\ status \in [Users -> Failures \cup {"ok", "none"}]
  /\ live \subseteq Users \X (1..MaxCalls)
  /\ out \in [Users -> (Users \X (1..MaxCalls)) \cup {NoHandle}]
  /\ handlers = [t \in Threads |-> IF t \in Users /\ in[t] # "none" THEN 1 ELSE 0]

(* What a thread finds as its last error is about its own last call,       *)
(* whatever the other threads and the pool did meanwhile.                  *)
MessageIsOwn ==
  \A u \in Users :
    last[u] # NoMessage => last[u].by = u /\ last[u].call = calls[u]

(* An out-pointer is set by success alone, and to something that lives     *)
(* until it is released; nothing is allocated that no caller was given.    *)
HandlesDelivered ==
  /\ \A u \in Users : /\ out[u] # NoHandle => status[u] \in {"ok", "none"} /\ out[u] \in live
                      /\ status[u] = "ok" /\ out[u] = NoHandle => Handle(u) \notin live
  /\ \A h \in live : h[2] = calls[h[1]] => out[h[1]] = h

(* A read that failed because decoding a tile raised a CPL error leaves    *)
(* that error as the last error, memory permitting.                        *)
CplErrorIsRouted ==
  \A u \in Users :
    status[u] = "io" /\ cause[u] = "worker" /\ last[u] # NoMessage => last[u].kind = "cpl"

-----------------------------------------------------------------------------
(* Why: a call in progress has its number and has given out nothing yet;   *)
(* an out-pointer holds the handle of its thread's last call; no handle is *)
(* of a call still to come.                                                *)
CallInv ==
  \A u \in Users :
    /\ in[u] # "none" => calls[u] > 0 /\ out[u] = NoHandle /\ status[u] = "none"
                         /\ Handle(u) \notin live
    /\ out[u] # NoHandle => out[u] = Handle(u)

NoneToCome == \A h \in live : h[2] <= calls[h[1]]

(* What every reachable state satisfies and every step preserves.          *)
CAInv == CATypeOK /\ MessageIsOwn /\ HandlesDelivered /\ CallInv /\ NoneToCome
=============================================================================
