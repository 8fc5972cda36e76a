------------------------------ MODULE BlockCache ------------------------------
(***************************************************************************)
(* The block cache of a Band (core/src/image.cpp) used by several threads: *)
(* GetLockedBlockRef, TryGetLockedBlockRef and FlushBlock take the band's  *)
(* recursive mutex and call GDAL's own functions, which call them again.   *)
(* What those functions do with the cache is external: a block that is     *)
(* missing is entered in the cache first and read by IReadBlock then, and  *)
(* flushed when that fails.  What a block holds once read is in module     *)
(* Driver; IReadBlock takes no lock, its one task runs on the thread.      *)
(***************************************************************************)
EXTENDS Naturals

CONSTANTS
  Threads,
  Blocks,    (* the blocks of the band                                     *)
  NoThread

ASSUME BlockAssumption == NoThread \notin Threads

VARIABLES
  owner,     (* the thread that has block_cache_mutex_, or NoThread        *)
  depth,     (* how often it has locked it                                 *)
  cache,     (* "none", "fresh" (entered, not read) or "decoded"           *)
  holders,   (* the threads that have a lock on the block                  *)
  tpc,       (* where a thread is in the three functions                   *)
  at         (* the block it is about                                      *)

bcVars == <<owner, depth, cache, holders, tpc, at>>

BCInit ==
  /\ owner = NoThread /\ depth = 0
  /\ cache = [p \in Blocks |-> "none"] /\ holders = [p \in Blocks |-> {}]
  /\ tpc = [t \in Threads |-> "out"] /\ at \in [Threads -> Blocks]

-----------------------------------------------------------------------------
(* The recursive mutex.                                                    *)

(* slip: a mutex that keeps nobody out.                                    *)
AlwaysFree(t) == TRUE

Free(t) == owner \in {NoThread, t}

Lock(t) == Free(t) /\ owner' = t /\ depth' = depth + 1

Unlock == /\ depth' = depth - 1
          /\ owner' = IF depth = 1 THEN NoThread ELSE owner

Goto(t, where) == tpc' = [tpc EXCEPT ![t] = where]

-----------------------------------------------------------------------------
(* A thread calls one of the three and gets the mutex.  It locks a block   *)
(* once at a time.                                                         *)

Enter(t, p, where) ==
  /\ tpc[t] = "out" /\ Lock(t)
  /\ Goto(t, where) /\ at' = [at EXCEPT ![t] = p]
  /\ UNCHANGED <<cache, holders>>

(* A block to be read: just_initialize is FALSE.  TRUE asks for a block    *)
(* that is left as it is because all of it will be written, which nobody   *)
(* asks of a read-only band.                                               *)
EnterGet(t, p) == t \notin holders[p] /\ Enter(t, p, "get")
EnterTry(t, p) == t \notin holders[p] /\ Enter(t, p, "try")
EnterFlush(t, p) == Enter(t, p, "flush")

(* GDALRasterBand::GetLockedBlockRef calls TryGetLockedBlockRef.           *)
GetCallsTry(t) ==
  /\ tpc[t] = "get" /\ Lock(t) /\ Goto(t, "getTry")
  /\ UNCHANGED <<cache, holders, at>>

(* GDALRasterBand::TryGetLockedBlockRef: a block of the cache is locked    *)
(* and handed out, whoever put it there.                                   *)
Try(t) ==
  /\ tpc[t] \in {"try", "getTry"} /\ Unlock
  /\ holders' = IF cache[at[t]] = "none" THEN holders
                ELSE [holders EXCEPT ![at[t]] = @ \cup {t}]
  /\ Goto(t, CASE tpc[t] = "try" -> "out"
               [] tpc[t] = "getTry" /\ cache[at[t]] = "none" -> "missing"
               [] tpc[t] = "getTry" /\ cache[at[t]] # "none" -> "leave")
  /\ UNCHANGED <<cache, at>>

(* It is missing: GetLockedBlockRef enters a new block, locked.            *)
AdoptBlock(t) ==
  /\ tpc[t] = "missing"
  /\ cache' = [cache EXCEPT ![at[t]] = "fresh"]
  /\ holders' = [holders EXCEPT ![at[t]] = {t}]
  /\ Goto(t, "read")
  /\ UNCHANGED <<owner, depth, at>>

(* IReadBlock succeeds ...                                                 *)
BlockRead(t) ==
  /\ tpc[t] = "read"
  /\ cache' = [cache EXCEPT ![at[t]] = "decoded"]
  /\ Goto(t, "leave")
  /\ UNCHANGED <<owner, depth, holders, at>>

(* slip: a block that cannot be read is tried again.                       *)
BlockFailsAgain(t) ==
  /\ tpc[t] = "read"
  /\ Goto(t, "missing")
  /\ UNCHANGED <<owner, depth, cache, holders, at>>

(* ... or fails: the block is unlocked and flushed.                        *)
BlockFails(t) ==
  /\ tpc[t] = "read"
  /\ holders' = [holders EXCEPT ![at[t]] = @ \ {t}]
  /\ Goto(t, "failed")
  /\ UNCHANGED <<owner, depth, cache, at>>

GetCallsFlush(t) ==
  /\ tpc[t] = "failed" /\ Lock(t) /\ Goto(t, "getFlush")
  /\ UNCHANGED <<cache, holders, at>>

(* slip: the override takes the mutex and does no more.                    *)
FlushNothing(t) ==
  /\ tpc[t] \in {"flush", "getFlush"} /\ Unlock
  /\ Goto(t, IF tpc[t] = "flush" THEN "out" ELSE "leave")
  /\ UNCHANGED <<cache, holders, at>>

(* GDALRasterBand::FlushBlock: a block nobody has locked leaves the cache. *)
Flush(t) ==
  /\ tpc[t] \in {"flush", "getFlush"} /\ Unlock
  /\ cache' = IF holders[at[t]] = {} THEN [cache EXCEPT ![at[t]] = "none"] ELSE cache
  /\ Goto(t, IF tpc[t] = "flush" THEN "out" ELSE "leave")
  /\ UNCHANGED <<holders, at>>

(* GetLockedBlockRef returns.                                              *)
Leave(t) ==
  /\ tpc[t] = "leave" /\ Unlock /\ Goto(t, "out")
  /\ UNCHANGED <<cache, holders, at>>

-----------------------------------------------------------------------------
(* Outside the mutex: a thread is done with a block, and GDAL drops blocks *)
(* nobody has locked when its global cache is full.                        *)

DropLock(t, p) ==
  /\ tpc[t] = "out" /\ t \in holders[p]
  /\ holders' = [holders EXCEPT ![p] = @ \ {t}]
  /\ UNCHANGED <<owner, depth, cache, tpc, at>>

Evict(p) ==
  /\ cache[p] # "none" /\ holders[p] = {}
  /\ cache' = [cache EXCEPT ![p] = "none"]
  /\ UNCHANGED <<owner, depth, holders, tpc, at>>

Onward(t) ==
  \/ GetCallsTry(t) \/ Try(t) \/ AdoptBlock(t) \/ BlockRead(t) \/ BlockFails(t)
  \/ GetCallsFlush(t) \/ Flush(t) \/ Leave(t)

BCNext ==
  \/ \E t \in Threads :
       \/ Onward(t)
       \/ \E p \in Blocks : EnterGet(t, p) \/ EnterTry(t, p) \/ EnterFlush(t, p) \/ DropLock(t, p)
  \/ \E p \in Blocks : Evict(p)

(* A thread inside is scheduled, and IReadBlock returns.                   *)
BCSpec == BCInit /\ [][BCNext]_bcVars /\ \A t \in Threads : WF_bcVars(Onward(t))

-----------------------------------------------------------------------------
Places == {"out", "get", "try", "getTry", "missing", "read", "failed",
           "getFlush", "flush", "leave"}

BCTypeOK ==
  /\ owner \in Threads \cup {NoThread} /\ depth \in Nat
  /\ cache \in [Blocks -> {"none", "fresh", "decoded"}]
  /\ holders \in [Blocks -> SUBSET Threads]
  /\ tpc \in [Threads -> Places] /\ at \in [Threads -> Blocks]

(* A block that a thread was given is completely decoded, although blocks  *)
(* are in the cache before they are read, and stays in the cache while the *)
(* thread has it.                                                          *)
RefIsDecoded ==
  \A t \in Threads, p \in Blocks :
    t \in holders[p] /\ ~(tpc[t] = "read" /\ at[t] = p) => cache[p] = "decoded"

(* GetLockedBlockRef gets out, although it calls two functions that lock   *)
(* the mutex it has.                                                       *)
EveryGetReturns == \A t \in Threads : tpc[t] = "get" ~> tpc[t] = "out"

(* A block whose read failed is never left in the cache: an unread block   *)
(* is there only while the thread that reads it has the mutex.             *)
FreshIsBeingRead ==
  \A p \in Blocks : cache[p] = "fresh" =>
    owner # NoThread /\ at[owner] = p /\ tpc[owner] \in {"read", "failed", "getFlush"}

-----------------------------------------------------------------------------
(* Why: exactly the owner is inside, as deep as its place says, and the    *)
(* block it is about is not there yet, is its own, or is released.         *)

DepthOf(where) ==
  IF where = "out" THEN 0 ELSE IF where \in {"getTry", "getFlush"} THEN 2 ELSE 1

MutexInv ==
  /\ \A t \in Threads : tpc[t] # "out" => owner = t
  /\ depth = IF owner = NoThread THEN 0 ELSE DepthOf(tpc[owner])
  /\ owner # NoThread => tpc[owner] # "out"

OwnBlockInv ==
  \A t \in Threads :
    /\ tpc[t] = "missing" => cache[at[t]] = "none"
    /\ tpc[t] = "read" => cache[at[t]] = "fresh" /\ holders[at[t]] = {t}
    /\ tpc[t] \in {"failed", "getFlush"} => holders[at[t]] = {}

BCInv == BCTypeOK /\ MutexInv /\ OwnBlockInv /\ FreshIsBeingRead /\ RefIsDecoded
=============================================================================
