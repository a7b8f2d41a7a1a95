----------------------------- MODULE BlockCache -----------------------------
(* The block cache: the LRU list of the crate lru, the buffers of block_io and *)
(* the references of the log that keep modified buffers in memory              *)
(* (ov6_kernel/src/fs/log.rs).                                                 *)
(*                                                                             *)
(* A process gets a reference to the buffer of a block, locks it, reads or     *)
(* overwrites it, and lets it go.  A buffer it leaves dirty stays referenced   *)
(* by the log until the commit has written it home.                            *)
EXTENDS Integers, FiniteSets

CONSTANTS Users,      \* processes that use the cache
          Blocks,     \* block numbers of the device
          NBuf,       \* number of buffers
          Contents    \* contents of a block, 0 for a zeroed one

VARIABLES list,       \* the LRU list of keys and buffers, most recent first
          index,      \* BlockData.index of each buffer
          valid,      \* the buffers whose BlockData.valid is set
          modified,   \* the buffers whose BlockData.dirty is set
          data,       \* BlockData.data of each buffer
          holder,     \* who holds each buffer's sleep lock, 0 for none
          ref,        \* the reference of each process, or NoRef
          pins,       \* the references of the log
          dev,        \* contents of the device
          cur,        \* what was last stored in each block
          exhausted   \* "block buffer exhausted"

buffers == <<index, valid, modified, data>>
blockVars == <<list, buffers, holder, ref, pins, dev, cur, exhausted>>

Bufs == 1..NBuf
NoKey == -1
Entry(k, b) == [key |-> k, buf |-> b]
NoRef == Entry(NoKey, 0)

Guard(p) == ref[p] # NoRef /\ holder[ref[p].buf] = p
Blk(p) == ref[p].key
Buf(p) == ref[p].buf

(* Arc::strong_count > 1.                                                      *)
Pinned(b) == \E r \in pins : r.buf = b
Referenced(b) == Pinned(b) \/ \E p \in Users : ref[p].buf = b

CacheInit ==
  /\ list = [i \in 1..NBuf |-> Entry(NoKey, i)]
  /\ index = [b \in Bufs |-> 0] /\ data = [b \in Bufs |-> 0]
  /\ valid = {} /\ modified = Bufs
  /\ holder = [b \in Bufs |-> 0]
  /\ ref = [p \in Users |-> NoRef]
  /\ pins = {}
  /\ dev = [k \in Blocks |-> 0]
  /\ cur = dev
  /\ exhausted = FALSE

(* LruMap::get: the positions of the key, and those that can be recycled.      *)
Hits(k) == {i \in 1..NBuf : list[i].key = k}
Unused == {i \in 1..NBuf : ~Referenced(list[i].buf)}

(* try_get and get: the cached buffer, else the least recently used one that   *)
(* nothing refers to takes the key, else the kernel stops.                     *)
Get(p, k) ==
  /\ ref[p] = NoRef
  /\ \/ \E i \in Hits(k) : /\ \A j \in Hits(k) : i <= j
                           /\ ref' = [ref EXCEPT ![p] = list[i]]
                           /\ UNCHANGED <<list, exhausted>>
     \/ /\ Hits(k) = {}
        /\ \E i \in Unused : /\ \A j \in Unused : j <= i
                             /\ list' = [list EXCEPT ![i] = Entry(k, list[i].buf)]
                             /\ ref' = [ref EXCEPT ![p] = Entry(k, list[i].buf)]
                             /\ UNCHANGED exhausted
     \/ Hits(k) = {} /\ Unused = {} /\ exhausted' = TRUE /\ UNCHANGED <<list, ref>>
  /\ UNCHANGED <<buffers, holder, pins, dev, cur>>

(* Faulty variant: a recycled buffer stays valid.                              *)
StillValid(b, k) == valid

(* A buffer recycled since it was last locked is not valid.                    *)
Claimed(b, k) == IF index[b] # k THEN valid \ {b} ELSE valid

(* BlockRef::lock.                                                             *)
Lock(p) ==
  /\ ref[p] # NoRef /\ holder[Buf(p)] = 0
  /\ holder' = [holder EXCEPT ![Buf(p)] = p]
  /\ index' = [index EXCEPT ![Buf(p)] = Blk(p)]
  /\ valid' = Claimed(Buf(p), Blk(p))
  /\ UNCHANGED <<list, modified, data, ref, pins, dev, cur, exhausted>>

(* BlockGuard::read.                                                           *)
Read(p) ==
  /\ Guard(p) /\ Buf(p) \notin valid
  /\ valid' = valid \cup {Buf(p)}
  /\ modified' = modified \ {Buf(p)}
  /\ data' = [data EXCEPT ![Buf(p)] = dev[Blk(p)]]
  /\ UNCHANGED <<list, index, holder, ref, pins, dev, cur, exhausted>>

Store(p, v) ==
  /\ valid' = valid \cup {Buf(p)}
  /\ modified' = modified \cup {Buf(p)}
  /\ data' = [data EXCEPT ![Buf(p)] = v]
  /\ cur' = [cur EXCEPT ![Blk(p)] = v]
  /\ UNCHANGED <<list, index, holder, ref, pins, dev, exhausted>>

(* set_data and zeroed need no valid data; bytes_mut and data_mut do.          *)
SetData(p, v) == Guard(p) /\ Store(p, v)
BytesMut(p, v) == Guard(p) /\ Buf(p) \in valid /\ Store(p, v)

(* BlockGuard::write.                                                          *)
Write(p) ==
  /\ Guard(p) /\ Buf(p) \in valid
  /\ dev' = [dev EXCEPT ![Blk(p)] = data[Buf(p)]]
  /\ modified' = modified \ {Buf(p)}
  /\ UNCHANGED <<list, index, valid, data, holder, ref, pins, cur, exhausted>>

(* LruMap::promote, when a reference is dropped: the first entry of the key    *)
(* moves to the front.                                                         *)
MovedToFront(i) == [j \in 1..NBuf |-> IF j = 1 THEN list[i]
                                      ELSE IF j <= i THEN list[j - 1] ELSE list[j]]
Promote(k) ==
  \/ \E i \in Hits(k) : (\A j \in Hits(k) : i <= j) /\ list' = MovedToFront(i)
  \/ Hits(k) = {} /\ UNCHANGED list

(* The guard goes: the log takes a reference to a valid buffer that is dirty.  *)
UnlockBuf(p) ==
  /\ Guard(p)
  /\ holder' = [holder EXCEPT ![Buf(p)] = 0]
  /\ pins' = IF Buf(p) \in valid \cap modified THEN pins \cup {ref[p]} ELSE pins
  /\ Promote(Blk(p))
  /\ UNCHANGED <<buffers, ref, dev, cur, exhausted>>

(* The reference goes.  Every caller in the kernel has locked the buffer by    *)
(* then, and the cache depends on it: a buffer recycled and let go unlocked    *)
(* would keep the index of its earlier block, and pass for it when it is       *)
(* recycled to that block again.                                               *)
Drop(p) ==
  /\ ref[p] # NoRef /\ ~Guard(p) /\ index[Buf(p)] = Blk(p)
  /\ ref' = [ref EXCEPT ![p] = NoRef]
  /\ Promote(Blk(p))
  /\ UNCHANGED <<buffers, holder, pins, dev, cur, exhausted>>

(* install_transaction: a logged buffer is locked, read, written home and let  *)
(* go.  No transaction is open then, so no process holds a lock.               *)
InstallBlock(r) ==
  LET v == IF r.buf \in Claimed(r.buf, r.key) THEN data[r.buf] ELSE dev[r.key]
  IN /\ r \in pins /\ \A b \in Bufs : holder[b] = 0
     /\ dev' = [dev EXCEPT ![r.key] = v]
     /\ index' = [index EXCEPT ![r.buf] = r.key]
     /\ valid' = valid \cup {r.buf}
     /\ modified' = modified \ {r.buf}
     /\ data' = [data EXCEPT ![r.buf] = v]
     /\ pins' = pins \ {r}
     /\ Promote(r.key)
     /\ UNCHANGED <<holder, ref, cur, exhausted>>

CacheNext ==
  /\ ~exhausted
  /\ \/ \E p \in Users : \/ \E k \in Blocks : Get(p, k)
                         \/ Lock(p) \/ Read(p) \/ Write(p) \/ UnlockBuf(p) \/ Drop(p)
                         \/ \E v \in Contents : SetData(p, v) \/ BytesMut(p, v)
     \/ \E r \in pins : InstallBlock(r)

CacheSpec == CacheInit /\ [][CacheNext]_blockVars

-----------------------------------------------------------------------------

CacheTypeOK ==
  /\ list \in [1..NBuf -> [key : Blocks \cup {NoKey}, buf : Bufs]]
  /\ index \in [Bufs -> Blocks \cup {0}] /\ data \in [Bufs -> Contents \cup {0}]
  /\ valid \subseteq Bufs /\ modified \subseteq Bufs
  /\ holder \in [Bufs -> Users \cup {0}]
  /\ ref \in [Users -> [key : Blocks, buf : Bufs] \cup {NoRef}]
  /\ pins \subseteq [key : Blocks, buf : Bufs] /\ IsFiniteSet(pins)
  /\ dev \in [Blocks -> Contents \cup {0}] /\ cur \in [Blocks -> Contents \cup {0}]

Listed(r, l) == \E i \in 1..NBuf : l[i] = r

(* A buffer is not recycled under a reference: the list holds every buffer     *)
(* once, a block is the key of at most one, and the buffer a process or the    *)
(* log refers to is listed under the block it asked for.                       *)
OneBufferPerBlock ==
  /\ \A i, j \in 1..NBuf : i # j => /\ list[i].buf # list[j].buf
                                    /\ list[i].key = list[j].key => list[i].key = NoKey
  /\ \A b \in Bufs : \E i \in 1..NBuf : list[i].buf = b
  /\ \A r \in pins : Listed(r, list)
  /\ \A p \in Users : ref[p] # NoRef => Listed(ref[p], list)

(* A buffer that is locked, logged or let go belongs to the block it is listed *)
(* under; what the log refers to is valid, and it refers to all that is left   *)
(* dirty.                                                                      *)
LockedIsClaimed ==
  \A b \in Bufs : holder[b] # 0 => ref[holder[b]] = Entry(index[b], b)
LoggedIsDirty ==
  /\ \A r \in pins : index[r.buf] = r.key /\ r.buf \in valid
  /\ \A b \in valid \cap modified : holder[b] # 0 \/ Pinned(b)
Claims(b) == \/ Listed(Entry(index[b], b), list)
             \/ Listed(Entry(NoKey, b), list) /\ b \notin valid
LetGoIsClaimed == \A b \in Bufs : Referenced(b) \/ Claims(b)

(* A block's buffer holds what was last stored in the block, and is dirty      *)
(* unless the device does too; the device does when no buffer holds it.        *)
Holds(k, b) == Listed(Entry(k, b), list) /\ index[b] = k /\ b \in valid
HoldsLastStore ==
  \A k \in Blocks : /\ \A b \in Bufs : Holds(k, b) => /\ data[b] = cur[k]
                                                      /\ b \in modified \/ dev[k] = cur[k]
                    /\ dev[k] = cur[k] \/ \E b \in Bufs : Holds(k, b)

(* Whoever reads a block through the cache sees what was last stored in it,    *)
(* whichever buffer the block has been in and whether or not it was written    *)
(* home: recycling, lazy invalidation and the log's references lose nothing.   *)
ReadersSeeLastStore ==
  \A p \in Users : Guard(p) /\ Buf(p) \in valid => data[Buf(p)] = cur[Blk(p)]

(* get runs out of buffers only when the log holds all but those the other     *)
(* processes use; NBUF = LOG_SIZE leaves none for a full log.                  *)
ExhaustedOnlyByLog ==
  exhausted => Cardinality(pins) > NBuf - Cardinality(Users)

(* What the cache promises its users: get gives every user of a block the one  *)
(* buffer of it, with what was last stored in the block, and fails only when   *)
(* the log pins the buffers.  The other conjuncts are why.                     *)
CacheInv ==
  /\ CacheTypeOK /\ LockedIsClaimed /\ LoggedIsDirty /\ LetGoIsClaimed /\ HoldsLastStore
  /\ OneBufferPerBlock /\ ReadersSeeLastStore /\ ExhaustedOnlyByLog
=============================================================================
