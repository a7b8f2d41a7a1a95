-------------------------- MODULE BlockCacheProofs --------------------------
(***************************************************************************)
(* The block cache keeps one buffer a block, with what was last stored in  *)
(* it, for any buffers, blocks and processes.  Then the sleep locks that   *)
(* guard the buffers: they exclude and lose no wakeup.                     *)
(***************************************************************************)
EXTENDS BlockCache, SleepLock, FiniteSetTheorems, TLAPS

(* The marks for "no block" and "no holder" are neither.                   *)
Sane == NBuf \in Nat /\ NoKey \notin Blocks /\ 0 \notin Users

(* References, and entries of the list.                                    *)
Entries == [key : Blocks, buf : Bufs]
Slots == [key : Blocks \cup {NoKey}, buf : Bufs]

(* An entry is its key and its buffer.                                     *)
LEMMA EntryIs ==
  /\ \A k, b : Entry(k, b).key = k /\ Entry(k, b).buf = b
  /\ \A k \in Blocks, b \in Bufs : Entry(k, b) \in Entries
  /\ \A r \in Slots : r.buf \in Bufs /\ r = Entry(r.key, r.buf)
  /\ \A r \in Entries : r \in Slots /\ r.buf \in Bufs /\ r.key \in Blocks /\ r = Entry(r.key, r.buf)
  /\ \A r \in Slots : r.key \in Blocks => r \in Entries
  /\ NoRef.buf = 0 /\ NoRef.key = NoKey
BY DEF Entry, Entries, Slots, NoRef

(* The same, of a reference known by another name.                         *)
LEMMA Fields ==
  ASSUME NEW r, NEW k, NEW b, r = Entry(k, b) PROVE r.key = k /\ r.buf = b
BY DEF Entry

(* The list, its entries apart and every buffer in it.                     *)
ListOK(l) ==
  /\ l \in [1..NBuf -> Slots]
  /\ \A i, j \in 1..NBuf : i # j => /\ l[i].buf # l[j].buf
                                    /\ l[i].key = l[j].key => l[i].key = NoKey
  /\ \A b \in Bufs : \E i \in 1..NBuf : l[i].buf = b

(* Two entries of the list with one buffer or one key are the same.        *)
LEMMA Apart ==
  ASSUME NEW l, ListOK(l), NEW r, NEW s, Listed(r, l), Listed(s, l)
  PROVE  /\ r.buf = s.buf => r = s
         /\ r.key = s.key /\ r.key # NoKey => r = s
         /\ r \in Slots /\ r.buf \in Bufs
<1>1. PICK i \in 1..NBuf : l[i] = r
  BY Zenon DEF Listed
<1>2. PICK j \in 1..NBuf : l[j] = s
  BY Zenon DEF Listed
<1>3. r \in Slots
  BY <1>1, Zenon DEF ListOK
<1>4. r.buf \in Bufs
  BY <1>3, EntryIs, Zenon
<1> QED BY <1>1, <1>2, <1>3, <1>4, Zenon DEF ListOK

(* Moving an entry to the front permutes the list.                         *)
From(j, i) == IF j = 1 THEN i ELSE IF j <= i THEN j - 1 ELSE j

(* Each position of the new list comes from one of the old.                *)
LEMMA FromPermutes ==
  ASSUME NBuf \in Nat, NEW i \in 1..NBuf
  PROVE  /\ \A j \in 1..NBuf : From(j, i) \in 1..NBuf
         /\ \A j, l \in 1..NBuf : j # l => From(j, i) # From(l, i)
         /\ \A l \in 1..NBuf : \E j \in 1..NBuf : From(j, i) = l
<1>1. \A j \in 1..NBuf : From(j, i) \in 1..NBuf
  BY DEF From
<1>2. \A j, l \in 1..NBuf : j # l => From(j, i) # From(l, i)
  BY DEF From
<1>3. ASSUME NEW l \in 1..NBuf PROVE \E j \in 1..NBuf : From(j, i) = l
  <2>1. CASE l = i
    <3>1. From(1, i) = l /\ 1 \in 1..NBuf
      BY <2>1 DEF From
    <3> QED BY <3>1, Zenon
  <2>2. CASE l < i
    <3>1. From(l + 1, i) = l /\ l + 1 \in 1..NBuf
      BY <2>2 DEF From
    <3> QED BY <3>1, Zenon
  <2>3. CASE l > i
    <3>1. From(l, i) = l
      BY <2>3 DEF From
    <3> QED BY <3>1, Zenon
  <2> QED BY <2>1, <2>2, <2>3
<1> QED BY <1>1, <1>2, <1>3, Zenon

(* A permuted list has the same entries, still apart.                      *)
LEMMA Permuted ==
  ASSUME NEW f \in [1..NBuf -> 1..NBuf], \A j, k \in 1..NBuf : j # k => f[j] # f[k],
         \A k \in 1..NBuf : \E j \in 1..NBuf : f[j] = k,
         NEW l, ListOK(l), NEW m, m = [j \in 1..NBuf |-> m[j]], \A j \in 1..NBuf : m[j] = l[f[j]]
  PROVE  ListOK(m) /\ \A r : Listed(r, m) <=> Listed(r, l)
<1>1. \A j \in 1..NBuf : f[j] \in 1..NBuf /\ m[j] = l[f[j]]
  BY Zenon
<1>2. m \in [1..NBuf -> Slots]
  <2>1. \A i \in 1..NBuf : l[i] \in Slots
    BY Zenon DEF ListOK
  <2>2. \A j \in 1..NBuf : m[j] \in Slots
    BY <1>1, <2>1, Zenon
  <2> QED BY <2>2
<1>3. ASSUME NEW i \in 1..NBuf, NEW j \in 1..NBuf, i # j
      PROVE  m[i].buf # m[j].buf /\ (m[i].key = m[j].key => m[i].key = NoKey)
  <2>1. f[i] # f[j] /\ f[i] \in 1..NBuf /\ f[j] \in 1..NBuf /\ m[i] = l[f[i]] /\ m[j] = l[f[j]]
    BY <1>1, <1>3, Zenon
  <2>2. l[f[i]].buf # l[f[j]].buf /\ (l[f[i]].key = l[f[j]].key => l[f[i]].key = NoKey)
    BY <2>1, Zenon DEF ListOK
  <2> QED BY <2>1, <2>2, Zenon
<1>4. ASSUME NEW b \in Bufs PROVE \E j \in 1..NBuf : m[j].buf = b
  <2>1. PICK i \in 1..NBuf : l[i].buf = b
    BY Zenon DEF ListOK
  <2>2. PICK j \in 1..NBuf : f[j] = i
    BY Zenon
  <2> QED BY <1>1, <2>1, <2>2, Zenon
<1>5. ASSUME NEW r PROVE Listed(r, m) <=> Listed(r, l)
  <2>1. ASSUME NEW i \in 1..NBuf, l[i] = r PROVE Listed(r, m)
    <3>1. PICK j \in 1..NBuf : f[j] = i
      BY Zenon
    <3> QED BY <1>1, <2>1, <3>1, Zenon DEF Listed
  <2>2. ASSUME NEW i \in 1..NBuf, m[i] = r PROVE Listed(r, l)
    BY <1>1, <2>2, Zenon DEF Listed
  <2> QED BY <2>1, <2>2, Zenon DEF Listed
<1> QED BY <1>2, <1>3, <1>4, <1>5, Zenon DEF ListOK

(* promote permutes the list.                                              *)
LEMMA PromoteKeeps ==
  ASSUME NBuf \in Nat, ListOK(list), NEW k, Promote(k)
  PROVE  ListOK(list') /\ \A r : Listed(r, list') <=> Listed(r, list)
<1>1. CASE UNCHANGED list
  BY <1>1, Zenon
<1>2. CASE \E i \in Hits(k) : (\A j \in Hits(k) : i <= j) /\ list' = MovedToFront(i)
  <2>1. PICK i \in 1..NBuf : list' = MovedToFront(i)
    BY <1>2, Zenon DEF Hits
  <2>2. PICK f : f = [j \in 1..NBuf |-> From(j, i)]
    BY Zenon
  <2>3. \A j \in 1..NBuf : f[j] = From(j, i)
    BY <2>2, Zenon
  <2>4. /\ f \in [1..NBuf -> 1..NBuf] /\ \A j, l \in 1..NBuf : j # l => f[j] # f[l]
        /\ \A l \in 1..NBuf : \E j \in 1..NBuf : f[j] = l
    BY <2>2, <2>3, FromPermutes, Zenon
  <2>5. list' = [j \in 1..NBuf |-> list'[j]] /\ \A j \in 1..NBuf : list'[j] = list[f[j]]
    BY <2>1, <2>3, Zenon DEF MovedToFront, From
  <2> QED BY <2>4, <2>5, Permuted, Zenon
<1> QED BY <1>1, <1>2, Zenon DEF Promote

-----------------------------------------------------------------------------
(* Whatever the log or a process refers to is listed.                      *)
Refs ==
  /\ \A r \in pins : Listed(r, list)
  /\ \A p \in Users : ref[p] # NoRef => Listed(ref[p], list)

(* The inductive invariant; the rest of CacheInv follows from it.          *)
Core ==
  /\ CacheTypeOK /\ ListOK(list) /\ Refs
  /\ LockedIsClaimed /\ LoggedIsDirty /\ LetGoIsClaimed /\ HoldsLastStore /\ ExhaustedOnlyByLog

(* A process that refers to something refers to a block's buffer.          *)
LEMMA RefIs ==
  ASSUME Sane, Core, NEW p \in Users, ref[p] # NoRef
  PROVE  \E b \in Bufs, k \in Blocks : ref[p] = Entry(k, b)
<1>1. ref[p] \in [key : Blocks, buf : Bufs]
  BY DEF Core, CacheTypeOK
<1> QED BY <1>1, EntryIs, Zenon DEF Entries

(* An entry is the only one of its buffer and of its block.                *)
LEMMA OwnEntry ==
  ASSUME Sane, Core, NEW b \in Bufs, NEW k \in Blocks, Listed(Entry(k, b), list)
  PROVE  \A c, j : Listed(Entry(j, c), list) => (c = b <=> j = k)
<1>1. k # NoKey
  BY Zenon DEF Sane
<1>2. SUFFICES ASSUME NEW c, NEW j, Listed(Entry(j, c), list) PROVE c = b <=> j = k
  OBVIOUS
<1>3. ListOK(list)
  BY Zenon DEF Core
<1>4. Entry(j, c).key = j /\ Entry(j, c).buf = c /\ Entry(k, b).key = k /\ Entry(k, b).buf = b
  BY EntryIs, Zenon
<1>5. /\ Entry(j, c).buf = Entry(k, b).buf => Entry(j, c) = Entry(k, b)
      /\ Entry(j, c).key = Entry(k, b).key /\ Entry(j, c).key # NoKey => Entry(j, c) = Entry(k, b)
  BY <1>2, <1>3, Apart, Zenon
<1> QED BY <1>1, <1>4, <1>5, Zenon

(* lock: the buffer is claimed for the block, and is no longer valid if    *)
(* it was another's.  No other reference can be to that other block.       *)
LEMMA LockStep ==
  ASSUME Sane, Core, NEW p \in Users, NEW b \in Bufs, NEW k \in Blocks, ref[p] = Entry(k, b), Lock(p),
         ~exhausted
  PROVE  Core'
<1>1. CacheTypeOK /\ ListOK(list) /\ Refs /\ LockedIsClaimed /\ LoggedIsDirty /\ LetGoIsClaimed /\ HoldsLastStore
  BY Zenon DEF Core
<1>2. Buf(p) = b /\ Blk(p) = k /\ ref[p].buf = b /\ p # 0
  <2>1. ref[p].buf = b /\ ref[p].key = k
    BY Fields, Zenon
  <2>2. p # 0
    BY DEF Sane
  <2> QED BY <2>1, <2>2, Zenon DEF Buf, Blk
<1>3. /\ holder[b] = 0 /\ holder' = [holder EXCEPT ![b] = p]
      /\ index' = [index EXCEPT ![b] = k] /\ valid' = Claimed(b, k)
      /\ UNCHANGED <<list, modified, data, ref, pins, dev, cur, exhausted>> /\ ref[p] # NoRef
  BY <1>2, Zenon DEF Lock
<1>4. /\ holder' \in [Bufs -> Users \cup {0}] /\ holder'[b] = p
      /\ \A c \in Bufs \ {b} : holder'[c] = holder[c] /\ index'[c] = index[c]
      /\ index' \in [Bufs -> Blocks \cup {0}] /\ index'[b] = k
  BY <1>1, <1>3 DEF CacheTypeOK
<1>5. /\ valid' \subseteq Bufs /\ \A c : c \in valid' => c \in valid
      /\ \A c \in Bufs \ {b} : c \in valid' <=> c \in valid
      /\ b \in valid' <=> b \in valid /\ index[b] = k
  BY <1>1, <1>3, Zenon DEF CacheTypeOK, Claimed
<1>6. CacheTypeOK'
  BY <1>1, <1>3, <1>4, <1>5, Zenon DEF CacheTypeOK
<1>7. ListOK(list') /\ Refs' /\ Listed(Entry(k, b), list)
  BY <1>1, <1>3, Zenon DEF Refs
<1>8. \A c, j : Listed(Entry(j, c), list) => (c = b <=> j = k)
  BY <1>7, OwnEntry, Zenon
<1>9. LockedIsClaimed'
  BY <1>1, <1>3, <1>4, Zenon DEF LockedIsClaimed
<1>10. LoggedIsDirty'
  <2>1. ASSUME NEW r \in pins PROVE index'[r.buf] = r.key /\ r.buf \in valid'
    <3>1. index[r.buf] = r.key /\ r.buf \in valid /\ r.buf \in Bufs /\ r = Entry(r.key, r.buf)
      BY <1>1, EntryIs, Zenon DEF LoggedIsDirty, CacheTypeOK, Entries
    <3>2. r.buf = b => r.key = k
      BY <1>1, <1>8, <3>1, Zenon DEF Refs
    <3> QED BY <1>4, <1>5, <3>1, <3>2, Zenon
  <2>2. ASSUME NEW c \in valid' \cap modified' PROVE holder'[c] # 0 \/ Pinned(c)'
    <3>1. c \in Bufs /\ c \in valid \cap modified
      BY <1>3, <1>5, <2>2, Zenon
    <3>2. holder[c] # 0 \/ Pinned(c)
      BY <1>1, <3>1, Zenon DEF LoggedIsDirty
    <3> QED BY <1>2, <1>3, <1>4, <3>1, <3>2, Zenon DEF Pinned
  <2> QED BY <1>3, <2>1, <2>2, Zenon DEF LoggedIsDirty
<1>11. LetGoIsClaimed'
  <2>1. ASSUME NEW c \in Bufs, ~Referenced(c)' PROVE Claims(c)'
    <3>1. ~Referenced(c) /\ c # b
      BY <1>2, <1>3, <2>1, Zenon DEF Referenced, Pinned
    <3>2. Claims(c)
      BY <1>1, <3>1, Zenon DEF LetGoIsClaimed
    <3> QED BY <1>3, <1>4, <1>5, <3>1, <3>2, Zenon DEF Claims
  <2> QED BY <2>1, Zenon DEF LetGoIsClaimed
<1>12. HoldsLastStore'
  <2>1. \A j, c : c \in Bufs => (Holds(j, c)' <=> Holds(j, c))
    BY <1>3, <1>4, <1>5, <1>8, Zenon DEF Holds
  <2> QED BY <1>1, <1>3, <2>1, Zenon DEF HoldsLastStore
<1>13. ExhaustedOnlyByLog'
  BY <1>3, Zenon DEF ExhaustedOnlyByLog
<1> QED BY <1>6, <1>7, <1>9, <1>10, <1>11, <1>12, <1>13, Zenon DEF Core

(* Who holds the lock of a buffer has claimed it.                          *)
LEMMA GuardIs ==
  ASSUME Sane, Core, NEW p \in Users, NEW b \in Bufs, NEW k \in Blocks, ref[p] = Entry(k, b), Guard(p)
  PROVE  /\ Buf(p) = b /\ Blk(p) = k /\ ref[p].buf = b /\ p # 0 /\ ref[p] # NoRef
         /\ holder[b] = p /\ index[b] = k /\ Listed(Entry(k, b), list)
         /\ \A c, j : Listed(Entry(j, c), list) => (c = b <=> j = k)
<1>1. ref[p].buf = b /\ ref[p].key = k
  BY Fields, Zenon
<1>2. p # 0
  BY DEF Sane
<1>3. Buf(p) = b /\ Blk(p) = k /\ holder[b] = p /\ ref[p] # NoRef
  BY <1>1, Zenon DEF Buf, Blk, Guard
<1>4. Entry(k, b) = Entry(index[b], b)
  BY <1>2, <1>3, Zenon DEF Core, LockedIsClaimed
<1>5. index[b] = k
  BY <1>4 DEF Entry
<1>6. Listed(Entry(k, b), list)
  BY <1>3, Zenon DEF Core, Refs
<1> QED BY <1>1, <1>2, <1>3, <1>5, <1>6, OwnEntry, Zenon

(* What a holder does to its buffer disturbs no other.                     *)
LEMMA GuardedKeeps ==
  ASSUME Sane, Core, NEW p \in Users, NEW b \in Bufs, NEW k \in Blocks, ref[p] = Entry(k, b), Guard(p),
         ~exhausted, UNCHANGED <<list, index, holder, ref, pins, exhausted>>,
         CacheTypeOK', HoldsLastStore', b \in valid',
         \A c \in Bufs \ {b} : (c \in valid' <=> c \in valid) /\ (c \in modified' <=> c \in modified)
  PROVE  Core'
<1>1. CacheTypeOK /\ ListOK(list) /\ Refs /\ LockedIsClaimed /\ LoggedIsDirty /\ LetGoIsClaimed
  BY Zenon DEF Core
<1>2. holder[b] # 0 /\ ref[p].buf = b
  BY GuardIs
<1>3. ListOK(list') /\ Refs' /\ LockedIsClaimed'
  BY <1>1, Zenon DEF Refs, LockedIsClaimed
<1>4. LoggedIsDirty'
  <2>1. ASSUME NEW r \in pins PROVE index'[r.buf] = r.key /\ r.buf \in valid'
    <3>1. index[r.buf] = r.key /\ r.buf \in valid /\ r.buf \in Bufs
      BY <1>1, EntryIs, Zenon DEF LoggedIsDirty, CacheTypeOK, Entries
    <3> QED BY <3>1, Zenon
  <2>2. ASSUME NEW c \in valid' \cap modified' PROVE holder'[c] # 0 \/ Pinned(c)'
    <3>1. c \in Bufs
      BY <2>2, Zenon DEF CacheTypeOK
    <3>2. CASE c = b
      BY <1>2, <3>2, Zenon
    <3>3. CASE c # b
      <4>1. holder[c] # 0 \/ Pinned(c)
        BY <1>1, <2>2, <3>1, <3>3, Zenon DEF LoggedIsDirty
      <4> QED BY <4>1, Zenon DEF Pinned
    <3> QED BY <3>2, <3>3
  <2> QED BY <2>1, <2>2, Zenon DEF LoggedIsDirty
<1>5. LetGoIsClaimed'
  <2>1. ASSUME NEW c \in Bufs, ~Referenced(c)' PROVE Claims(c)'
    <3>1. ~Referenced(c) /\ c # b
      BY <1>2, <2>1, Zenon DEF Referenced, Pinned
    <3>2. Claims(c)
      BY <1>1, <3>1, Zenon DEF LetGoIsClaimed
    <3> QED BY <3>1, <3>2, Zenon DEF Claims
  <2> QED BY <2>1, Zenon DEF LetGoIsClaimed
<1>6. ExhaustedOnlyByLog'
  BY Zenon DEF ExhaustedOnlyByLog
<1> QED BY <1>3, <1>4, <1>5, <1>6, Zenon DEF Core

(* read: the block is in no other buffer, so the device has its contents.  *)
LEMMA ReadStep ==
  ASSUME Sane, Core, NEW p \in Users, NEW b \in Bufs, NEW k \in Blocks, ref[p] = Entry(k, b), Read(p),
         ~exhausted
  PROVE  Core'
<1>1. Guard(p) /\ CacheTypeOK /\ HoldsLastStore
  BY Zenon DEF Core, Read
<1>2. /\ Buf(p) = b /\ Blk(p) = k /\ index[b] = k /\ Listed(Entry(k, b), list)
      /\ \A c, j : Listed(Entry(j, c), list) => (c = b <=> j = k)
  BY <1>1, GuardIs
<1>3. /\ b \notin valid /\ valid' = valid \cup {b} /\ modified' = modified \ {b}
      /\ data' = [data EXCEPT ![b] = dev[k]]
      /\ UNCHANGED <<list, index, holder, ref, pins, dev, cur, exhausted>>
  BY <1>2, Zenon DEF Read
<1>4. /\ data' \in [Bufs -> Contents \cup {0}] /\ data'[b] = dev[k]
      /\ \A c \in Bufs \ {b} : data'[c] = data[c]
  BY <1>1, <1>3 DEF CacheTypeOK
<1>5. CacheTypeOK'
  BY <1>1, <1>3, <1>4, Zenon DEF CacheTypeOK
<1>6. \A c : ~Holds(k, c)
  BY <1>2, <1>3, Zenon DEF Holds
<1>7. dev[k] = cur[k]
  BY <1>1, <1>6, Zenon DEF HoldsLastStore
<1>8. \A j, c : c # b => (Holds(j, c)' <=> Holds(j, c))
  BY <1>3, Zenon DEF Holds
<1>9. \A j : Holds(j, b)' => j = k
  BY <1>2, <1>3, Zenon DEF Holds
<1>10. \A j : ~Holds(j, b)
  BY <1>3, Zenon DEF Holds
<1>11. HoldsLastStore'
  <2>1. ASSUME NEW j \in Blocks, NEW c \in Bufs, Holds(j, c)'
        PROVE  data'[c] = cur'[j] /\ (c \in modified' \/ dev'[j] = cur'[j])
    <3>1. CASE c = b
      BY <1>3, <1>4, <1>7, <1>9, <2>1, <3>1, Zenon
    <3>2. CASE c # b
      <4>1. Holds(j, c)
        BY <1>8, <2>1, <3>2, Zenon
      <4>2. data[c] = cur[j] /\ (c \in modified \/ dev[j] = cur[j])
        BY <1>1, <4>1, Zenon DEF HoldsLastStore
      <4> QED BY <1>3, <1>4, <3>2, <4>2, Zenon
    <3> QED BY <3>1, <3>2
  <2>2. ASSUME NEW j \in Blocks PROVE dev'[j] = cur'[j] \/ \E c \in Bufs : Holds(j, c)'
    <3>1. dev[j] = cur[j] \/ \E c \in Bufs : Holds(j, c)
      BY <1>1, Zenon DEF HoldsLastStore
    <3> QED BY <1>3, <1>8, <1>10, <3>1, Zenon
  <2> QED BY <2>1, <2>2, Zenon DEF HoldsLastStore
<1> QED BY <1>1, <1>3, <1>5, <1>11, GuardedKeeps, Zenon

(* set_data, zeroed, bytes_mut and data_mut.                               *)
LEMMA StoreStep ==
  ASSUME Sane, Core, NEW p \in Users, NEW b \in Bufs, NEW k \in Blocks, ref[p] = Entry(k, b),
         NEW v \in Contents, SetData(p, v) \/ BytesMut(p, v), ~exhausted
  PROVE  Core'
<1>1. Guard(p) /\ CacheTypeOK /\ HoldsLastStore /\ Store(p, v)
  BY Zenon DEF Core, SetData, BytesMut
<1>2. /\ Buf(p) = b /\ Blk(p) = k /\ index[b] = k /\ Listed(Entry(k, b), list)
      /\ \A c, j : Listed(Entry(j, c), list) => (c = b <=> j = k)
  BY <1>1, GuardIs
<1>3. /\ valid' = valid \cup {b} /\ modified' = modified \cup {b}
      /\ data' = [data EXCEPT ![b] = v] /\ cur' = [cur EXCEPT ![k] = v]
      /\ UNCHANGED <<list, index, holder, ref, pins, dev, exhausted>>
  BY <1>1, <1>2, Zenon DEF Store
<1>4. /\ data' \in [Bufs -> Contents \cup {0}] /\ data'[b] = v
      /\ \A c \in Bufs \ {b} : data'[c] = data[c]
      /\ cur' \in [Blocks -> Contents \cup {0}] /\ cur'[k] = v
      /\ \A j \in Blocks \ {k} : cur'[j] = cur[j]
  BY <1>1, <1>3 DEF CacheTypeOK
<1>5. CacheTypeOK'
  BY <1>1, <1>3, <1>4, Zenon DEF CacheTypeOK
<1>6. \A j, c : c # b => (Holds(j, c)' <=> Holds(j, c))
  BY <1>3, Zenon DEF Holds
<1>7. \A j : Holds(j, b)' <=> j = k
  BY <1>2, <1>3, Zenon DEF Holds
<1>8. \A c : Holds(k, c) => c = b
  BY <1>2, Zenon DEF Holds
<1>9. \A j : Holds(j, b) => j = k
  BY <1>2, Zenon DEF Holds
<1>10. HoldsLastStore'
  <2>1. ASSUME NEW j \in Blocks, NEW c \in Bufs, Holds(j, c)'
        PROVE  data'[c] = cur'[j] /\ (c \in modified' \/ dev'[j] = cur'[j])
    <3>1. CASE c = b
      BY <1>3, <1>4, <1>7, <2>1, <3>1, Zenon
    <3>2. CASE c # b
      <4>1. Holds(j, c) /\ j # k
        BY <1>6, <1>8, <2>1, <3>2, Zenon
      <4>2. data[c] = cur[j] /\ (c \in modified \/ dev[j] = cur[j])
        BY <1>1, <4>1, Zenon DEF HoldsLastStore
      <4> QED BY <1>3, <1>4, <3>2, <4>1, <4>2, Zenon
    <3> QED BY <3>1, <3>2
  <2>2. ASSUME NEW j \in Blocks PROVE dev'[j] = cur'[j] \/ \E c \in Bufs : Holds(j, c)'
    <3>1. CASE j = k
      BY <1>7, <3>1, Zenon
    <3>2. CASE j # k
      <4>1. dev[j] = cur[j] \/ \E c \in Bufs : Holds(j, c)
        BY <1>1, Zenon DEF HoldsLastStore
      <4> QED BY <1>3, <1>4, <1>6, <1>9, <3>2, <4>1, ZenonT(40)
    <3> QED BY <3>1, <3>2
  <2> QED BY <2>1, <2>2, Zenon DEF HoldsLastStore
<1> QED BY <1>1, <1>3, <1>5, <1>10, GuardedKeeps, Zenon

(* write: the buffer has what was last stored.                             *)
LEMMA WriteStep ==
  ASSUME Sane, Core, NEW p \in Users, NEW b \in Bufs, NEW k \in Blocks, ref[p] = Entry(k, b), Write(p),
         ~exhausted
  PROVE  Core'
<1>1. Guard(p) /\ CacheTypeOK /\ HoldsLastStore
  BY Zenon DEF Core, Write
<1>2. /\ Buf(p) = b /\ Blk(p) = k /\ index[b] = k /\ Listed(Entry(k, b), list)
      /\ \A c, j : Listed(Entry(j, c), list) => (c = b <=> j = k)
  BY <1>1, GuardIs
<1>3. /\ b \in valid /\ modified' = modified \ {b} /\ dev' = [dev EXCEPT ![k] = data[b]]
      /\ UNCHANGED <<list, index, valid, data, holder, ref, pins, cur, exhausted>>
  BY <1>2, Zenon DEF Write
<1>4. Holds(k, b)
  BY <1>2, <1>3, Zenon DEF Holds
<1>5. data[b] = cur[k]
  BY <1>1, <1>4, Zenon DEF HoldsLastStore
<1>6. /\ dev' \in [Blocks -> Contents \cup {0}] /\ dev'[k] = cur[k]
      /\ \A j \in Blocks \ {k} : dev'[j] = dev[j]
  BY <1>1, <1>3, <1>5 DEF CacheTypeOK
<1>7. CacheTypeOK'
  BY <1>1, <1>3, <1>6, Zenon DEF CacheTypeOK
<1>8. \A j, c : Holds(j, c)' <=> Holds(j, c)
  BY <1>3, Zenon DEF Holds
<1>9. \A j, c : Holds(j, c) => (c = b <=> j = k)
  BY <1>2, Zenon DEF Holds
<1>10. HoldsLastStore'
  <2>1. ASSUME NEW j \in Blocks, NEW c \in Bufs, Holds(j, c)'
        PROVE  data'[c] = cur'[j] /\ (c \in modified' \/ dev'[j] = cur'[j])
    <3>1. Holds(j, c) /\ (c = b <=> j = k)
      BY <1>8, <1>9, <2>1, Zenon
    <3>2. data[c] = cur[j] /\ (c \in modified \/ dev[j] = cur[j])
      BY <1>1, <3>1, Zenon DEF HoldsLastStore
    <3> QED BY <1>3, <1>6, <3>1, <3>2, Zenon
  <2>2. ASSUME NEW j \in Blocks PROVE dev'[j] = cur'[j] \/ \E c \in Bufs : Holds(j, c)'
    <3>1. dev[j] = cur[j] \/ \E c \in Bufs : Holds(j, c)
      BY <1>1, Zenon DEF HoldsLastStore
    <3> QED BY <1>3, <1>6, <1>8, <3>1, Zenon
  <2> QED BY <2>1, <2>2, Zenon DEF HoldsLastStore
<1> QED BY <1>1, <1>3, <1>7, <1>10, GuardedKeeps, Zenon

(* The guard goes: a valid and dirty buffer is left to the log.            *)
LEMMA UnlockStep ==
  ASSUME Sane, Core, NEW p \in Users, NEW b \in Bufs, NEW k \in Blocks, ref[p] = Entry(k, b), UnlockBuf(p),
         ~exhausted
  PROVE  Core'
<1>1. /\ Guard(p) /\ CacheTypeOK /\ ListOK(list) /\ Refs /\ LockedIsClaimed /\ LoggedIsDirty
      /\ LetGoIsClaimed /\ HoldsLastStore
  BY Zenon DEF Core, UnlockBuf
<1>2. /\ Buf(p) = b /\ Blk(p) = k /\ ref[p].buf = b /\ ref[p] # NoRef
      /\ index[b] = k /\ Listed(Entry(k, b), list)
  BY <1>1, GuardIs
<1>3. /\ holder' = [holder EXCEPT ![b] = 0] /\ Promote(k)
      /\ pins' = IF b \in valid \cap modified THEN pins \cup {ref[p]} ELSE pins
      /\ UNCHANGED <<index, valid, modified, data, ref, dev, cur, exhausted>>
  BY <1>2, Zenon DEF UnlockBuf, buffers
<1>4. ListOK(list') /\ \A r : Listed(r, list') <=> Listed(r, list)
  BY <1>1, <1>3, PromoteKeeps, Zenon DEF Sane
<1>5. ref[p].key = k /\ ref[p] \in [key : Blocks, buf : Bufs]
  BY Fields, EntryIs DEF Entries
<1>6. /\ pins' \subseteq [key : Blocks, buf : Bufs] /\ IsFiniteSet(pins')
      /\ \A r : r \in pins => r \in pins'
      /\ \A r \in pins' : r \in pins \/ (r = ref[p] /\ b \in valid)
      /\ b \in valid \cap modified => ref[p] \in pins'
  <2>1. IsFiniteSet(pins) /\ pins \subseteq [key : Blocks, buf : Bufs]
    BY <1>1, Zenon DEF CacheTypeOK
  <2>2. IsFiniteSet(pins \cup {ref[p]})
    BY <2>1, FS_AddElement, Zenon
  <2>3. CASE b \in valid \cap modified
    <3>1. pins' = pins \cup {ref[p]} /\ b \in valid
      BY <1>3, <2>3, Zenon
    <3> QED BY <1>5, <2>1, <2>2, <3>1, Zenon
  <2>4. CASE b \notin valid \cap modified
    <3>1. pins' = pins
      BY <1>3, <2>4, Zenon
    <3> QED BY <2>1, <2>4, <3>1, Zenon
  <2> QED BY <2>3, <2>4, Zenon
<1>7. holder' \in [Bufs -> Users \cup {0}] /\ holder'[b] = 0 /\ \A c \in Bufs \ {b} : holder'[c] = holder[c]
  BY <1>1, <1>3 DEF CacheTypeOK
<1>8. CacheTypeOK'
  BY <1>1, <1>3, <1>4, <1>6, <1>7, Zenon DEF CacheTypeOK, ListOK, Slots
<1>9. Refs'
  BY <1>1, <1>2, <1>3, <1>4, <1>6, Zenon DEF Refs
<1>10. LockedIsClaimed'
  BY <1>1, <1>3, <1>7, Zenon DEF LockedIsClaimed
<1>11. LoggedIsDirty'
  <2>1. ASSUME NEW r \in pins' PROVE index'[r.buf] = r.key /\ r.buf \in valid'
    BY <1>1, <1>2, <1>3, <1>5, <1>6, Zenon DEF LoggedIsDirty
  <2>2. ASSUME NEW c \in valid' \cap modified' PROVE holder'[c] # 0 \/ Pinned(c)'
    <3>1. c \in Bufs /\ c \in valid \cap modified
      BY <1>1, <1>3, <2>2, Zenon DEF CacheTypeOK
    <3>2. CASE c = b
      BY <1>2, <1>6, <3>1, <3>2, Zenon DEF Pinned
    <3>3. CASE c # b
      <4>1. holder[c] # 0 \/ Pinned(c)
        BY <1>1, <3>1, Zenon DEF LoggedIsDirty
      <4> QED BY <1>6, <1>7, <3>1, <3>3, <4>1, Zenon DEF Pinned
    <3> QED BY <3>2, <3>3
  <2> QED BY <2>1, <2>2, Zenon DEF LoggedIsDirty
<1>12. LetGoIsClaimed'
  <2>1. ASSUME NEW c \in Bufs, ~Referenced(c)' PROVE Claims(c)'
    <3>1. ~Referenced(c)
      BY <1>3, <1>6, <2>1, Zenon DEF Referenced, Pinned
    <3>2. Claims(c)
      BY <1>1, <3>1, Zenon DEF LetGoIsClaimed
    <3> QED BY <1>3, <1>4, <3>2, Zenon DEF Claims
  <2> QED BY <2>1, Zenon DEF LetGoIsClaimed
<1>13. HoldsLastStore'
  <2>1. \A j, c : Holds(j, c)' <=> Holds(j, c)
    BY <1>3, <1>4, Zenon DEF Holds
  <2> QED BY <1>1, <1>3, <2>1, Zenon DEF HoldsLastStore
<1>14. ExhaustedOnlyByLog'
  BY <1>3, Zenon DEF ExhaustedOnlyByLog
<1> QED BY <1>4, <1>8, <1>9, <1>10, <1>11, <1>12, <1>13, <1>14, Zenon DEF Core

(* The reference goes: the buffer was claimed for its block.               *)
LEMMA DropStep ==
  ASSUME Sane, Core, NEW p \in Users, NEW b \in Bufs, NEW k \in Blocks, ref[p] = Entry(k, b), Drop(p),
         ~exhausted
  PROVE  Core'
<1>1. /\ ~Guard(p) /\ ref[p] # NoRef /\ CacheTypeOK /\ ListOK(list) /\ Refs /\ LockedIsClaimed /\ LoggedIsDirty
      /\ LetGoIsClaimed /\ HoldsLastStore
  BY Zenon DEF Core, Drop
<1>2. ref[p].buf = b /\ ref[p].key = k /\ Buf(p) = b /\ Blk(p) = k
  BY Fields DEF Buf, Blk
<1>3. /\ index[b] = k /\ ref' = [ref EXCEPT ![p] = NoRef] /\ Promote(k)
      /\ UNCHANGED <<index, valid, modified, data, holder, pins, dev, cur, exhausted>>
  BY <1>2, Zenon DEF Drop, buffers
<1>4. ListOK(list') /\ \A r : Listed(r, list') <=> Listed(r, list)
  BY <1>1, <1>3, PromoteKeeps, Zenon DEF Sane
<1>5. /\ ref' \in [Users -> [key : Blocks, buf : Bufs] \cup {NoRef}] /\ ref'[p] = NoRef
      /\ \A q \in Users \ {p} : ref'[q] = ref[q]
  BY <1>1, <1>3, Zenon DEF CacheTypeOK
<1>6. CacheTypeOK'
  BY <1>1, <1>3, <1>4, <1>5, Zenon DEF CacheTypeOK, ListOK, Slots
<1>7. Refs'
  BY <1>1, <1>3, <1>4, <1>5, Zenon DEF Refs
<1>8. LockedIsClaimed'
  <2>1. ASSUME NEW c \in Bufs, holder[c] # 0 PROVE ref'[holder[c]] = Entry(index[c], c)
    <3>1. ref[holder[c]] = Entry(index[c], c) /\ holder[c] \in Users
      BY <1>1, <2>1, Zenon DEF LockedIsClaimed, CacheTypeOK
    <3>2. holder[c] = p => c = b
      BY <1>2, <3>1, Fields
    <3>3. holder[c] # p
      BY <1>1, <1>2, <3>2, Zenon DEF Guard
    <3> QED BY <1>5, <3>1, <3>3, Zenon
  <2> QED BY <1>3, <2>1, Zenon DEF LockedIsClaimed
<1>9. LoggedIsDirty'
  BY <1>1, <1>3, Zenon DEF LoggedIsDirty, Pinned
<1>10. LetGoIsClaimed'
  <2>1. ASSUME NEW c \in Bufs, ~Referenced(c)' PROVE Claims(c)'
    <3>1. CASE c = b
      <4>1. Listed(Entry(k, b), list)
        BY <1>1, Zenon DEF Refs
      <4> QED BY <1>3, <1>4, <3>1, <4>1, Zenon DEF Claims
    <3>2. CASE c # b
      <4>1. ~Referenced(c)
        BY <1>2, <1>3, <1>5, <2>1, <3>2, Zenon DEF Referenced, Pinned
      <4>2. Claims(c)
        BY <1>1, <4>1, Zenon DEF LetGoIsClaimed
      <4> QED BY <1>3, <1>4, <4>2, Zenon DEF Claims
    <3> QED BY <3>1, <3>2
  <2> QED BY <2>1, Zenon DEF LetGoIsClaimed
<1>11. HoldsLastStore'
  <2>1. \A j, c : Holds(j, c)' <=> Holds(j, c)
    BY <1>3, <1>4, Zenon DEF Holds
  <2> QED BY <1>1, <1>3, <2>1, Zenon DEF HoldsLastStore
<1>12. ExhaustedOnlyByLog'
  BY <1>3, Zenon DEF ExhaustedOnlyByLog
<1> QED BY <1>4, <1>6, <1>7, <1>8, <1>9, <1>10, <1>11, <1>12, Zenon DEF Core

(* install_transaction: the logged buffer is still claimed and valid.      *)
LEMMA InstallStep ==
  ASSUME Sane, Core, NEW b \in Bufs, NEW k \in Blocks, NEW r, r = Entry(k, b), InstallBlock(r), ~exhausted
  PROVE  Core'
<1>1. /\ CacheTypeOK /\ ListOK(list) /\ Refs /\ LockedIsClaimed /\ LoggedIsDirty
      /\ LetGoIsClaimed /\ HoldsLastStore
  BY Zenon DEF Core
<1>2. r.buf = b /\ r.key = k /\ r \in pins
  BY Fields DEF InstallBlock
<1>3. index[b] = k /\ b \in valid /\ Listed(Entry(k, b), list)
  BY <1>1, <1>2, Zenon DEF LoggedIsDirty, Refs
<1>4. \A c, j : Listed(Entry(j, c), list) => (c = b <=> j = k)
  BY <1>3, OwnEntry, Zenon
<1>5. Holds(k, b)
  BY <1>3, Zenon DEF Holds
<1>6. data[b] = cur[k]
  BY <1>1, <1>5, Zenon DEF HoldsLastStore
<1>7. /\ \A c \in Bufs : holder[c] = 0
      /\ dev' = [dev EXCEPT ![k] = cur[k]] /\ index' = [index EXCEPT ![b] = k]
      /\ valid' = valid \cup {b} /\ modified' = modified \ {b} /\ data' = [data EXCEPT ![b] = cur[k]]
      /\ pins' = pins \ {r} /\ Promote(k) /\ UNCHANGED <<holder, ref, cur, exhausted>>
  BY <1>2, <1>3, <1>6, Zenon DEF InstallBlock, Claimed
<1>8. index' = index /\ valid' = valid /\ data' = data
  BY <1>1, <1>3, <1>6, <1>7 DEF CacheTypeOK
<1>9. /\ dev' \in [Blocks -> Contents \cup {0}] /\ dev'[k] = cur[k]
      /\ \A j \in Blocks \ {k} : dev'[j] = dev[j]
  BY <1>1, <1>7 DEF CacheTypeOK
<1>10. ListOK(list') /\ \A s : Listed(s, list') <=> Listed(s, list)
  BY <1>1, <1>7, PromoteKeeps, Zenon DEF Sane
<1>11. CacheTypeOK'
  <2>1. pins' \subseteq [key : Blocks, buf : Bufs] /\ IsFiniteSet(pins')
    BY <1>1, <1>7, FS_RemoveElement, Zenon DEF CacheTypeOK
  <2> QED BY <1>1, <1>7, <1>8, <1>9, <1>10, <2>1, Zenon DEF CacheTypeOK, ListOK, Slots
<1>12. Refs' /\ LockedIsClaimed'
  BY <1>1, <1>7, <1>8, <1>10, Zenon DEF Refs, LockedIsClaimed
<1>13. ASSUME NEW s \in pins, s.buf = b PROVE s = r
  <2>1. Listed(s, list) /\ Listed(r, list)
    BY <1>1, <1>2, Zenon DEF Refs
  <2> QED BY <1>1, <1>2, <1>13, <2>1, Apart, Zenon
<1>14. LoggedIsDirty'
  <2>1. ASSUME NEW s \in pins' PROVE index'[s.buf] = s.key /\ s.buf \in valid'
    BY <1>1, <1>7, <1>8, Zenon DEF LoggedIsDirty
  <2>2. ASSUME NEW c \in valid' \cap modified' PROVE holder'[c] # 0 \/ Pinned(c)'
    <3>1. c \in Bufs /\ c \in valid \cap modified /\ c # b
      BY <1>1, <1>7, <1>8, <2>2, Zenon DEF CacheTypeOK
    <3>2. holder[c] # 0 \/ Pinned(c)
      BY <1>1, <3>1, Zenon DEF LoggedIsDirty
    <3>3. PICK s \in pins : s.buf = c
      BY <1>7, <3>1, <3>2, Zenon DEF Pinned
    <3>4. s \in pins'
      BY <1>2, <1>7, <3>1, <3>3, Zenon
    <3> QED BY <3>3, <3>4, Zenon DEF Pinned
  <2> QED BY <2>1, <2>2, Zenon DEF LoggedIsDirty
<1>15. LetGoIsClaimed'
  <2>1. ASSUME NEW c \in Bufs, ~Referenced(c)' PROVE Claims(c)'
    <3>1. CASE c = b
      BY <1>3, <1>8, <1>10, <3>1, Zenon DEF Claims
    <3>2. CASE c # b
      <4>1. ~Pinned(c)
        <5>1. ASSUME NEW s \in pins, s.buf = c PROVE FALSE
          <6>1. s \in pins'
            BY <1>2, <1>7, <3>2, <5>1, Zenon
          <6> QED BY <2>1, <5>1, <6>1, Zenon DEF Referenced, Pinned
        <5> QED BY <5>1, Zenon DEF Pinned
      <4>2. ~Referenced(c)
        BY <1>7, <2>1, <4>1, Zenon DEF Referenced
      <4>3. Claims(c)
        BY <1>1, <4>2, Zenon DEF LetGoIsClaimed
      <4> QED BY <1>8, <1>10, <4>3, Zenon DEF Claims
    <3> QED BY <3>1, <3>2
  <2> QED BY <2>1, Zenon DEF LetGoIsClaimed
<1>16. HoldsLastStore'
  <2>1. \A j, c : Holds(j, c)' <=> Holds(j, c)
    BY <1>8, <1>10, Zenon DEF Holds
  <2>2. \A j, c : Holds(j, c) => (c = b <=> j = k)
    BY <1>4, Zenon DEF Holds
  <2>3. ASSUME NEW j \in Blocks, NEW c \in Bufs, Holds(j, c)'
        PROVE  data'[c] = cur'[j] /\ (c \in modified' \/ dev'[j] = cur'[j])
    <3>1. Holds(j, c) /\ (c = b <=> j = k)
      BY <2>1, <2>2, <2>3, Zenon
    <3>2. data[c] = cur[j] /\ (c \in modified \/ dev[j] = cur[j])
      BY <1>1, <3>1, Zenon DEF HoldsLastStore
    <3> QED BY <1>7, <1>8, <1>9, <3>1, <3>2, Zenon
  <2>4. ASSUME NEW j \in Blocks PROVE dev'[j] = cur'[j] \/ \E c \in Bufs : Holds(j, c)'
    <3>1. dev[j] = cur[j] \/ \E c \in Bufs : Holds(j, c)
      BY <1>1, Zenon DEF HoldsLastStore
    <3> QED BY <1>7, <1>9, <2>1, <3>1, Zenon
  <2> QED BY <2>3, <2>4, Zenon DEF HoldsLastStore
<1>17. ExhaustedOnlyByLog'
  BY <1>7, Zenon DEF ExhaustedOnlyByLog
<1> QED BY <1>10, <1>11, <1>12, <1>14, <1>15, <1>16, <1>17, Zenon DEF Core

(* get, when the block is in the list.                                     *)
LEMMA GetHitStep ==
  ASSUME Sane, Core, NEW p \in Users, NEW r \in Entries, Listed(r, list), ~exhausted, ref[p] = NoRef,
         ref' = [ref EXCEPT ![p] = r],
         UNCHANGED <<list, index, valid, modified, data, holder, pins, dev, cur, exhausted>>
  PROVE  Core'
<1>1. /\ CacheTypeOK /\ ListOK(list) /\ Refs /\ LockedIsClaimed /\ LoggedIsDirty
      /\ LetGoIsClaimed /\ HoldsLastStore
  BY Zenon DEF Core
<1>2. /\ ref' \in [Users -> [key : Blocks, buf : Bufs] \cup {NoRef}] /\ ref'[p] = r
      /\ \A q \in Users \ {p} : ref'[q] = ref[q]
  BY <1>1, Zenon DEF CacheTypeOK, Entries
<1>3. CacheTypeOK' /\ ListOK(list') /\ Refs'
  BY <1>1, <1>2, Zenon DEF CacheTypeOK, Refs
<1>4. LockedIsClaimed'
  <2>1. ASSUME NEW c \in Bufs, holder[c] # 0 PROVE ref'[holder[c]] = Entry(index[c], c)
    <3>1. ref[holder[c]] = Entry(index[c], c) /\ holder[c] \in Users
      BY <1>1, <2>1, Zenon DEF LockedIsClaimed, CacheTypeOK
    <3>2. Entry(index[c], c) # NoRef
      <4>1. c # 0
        BY DEF Bufs
      <4> QED BY <4>1, Zenon DEF Entry, NoRef
    <3> QED BY <1>2, <3>1, <3>2, Zenon
  <2> QED BY <2>1, Zenon DEF LockedIsClaimed
<1>5. LoggedIsDirty'
  BY <1>1, Zenon DEF LoggedIsDirty, Pinned
<1>6. LetGoIsClaimed'
  <2>1. ASSUME NEW c \in Bufs, ~Referenced(c)' PROVE Claims(c)'
    <3>1. ~Referenced(c)
      <4>1. ~Pinned(c)
        BY <2>1, Zenon DEF Referenced, Pinned
      <4>2. ref[p].buf # c
        <5>1. c # 0 /\ NoRef.buf = 0
          BY EntryIs DEF Bufs
        <5> QED BY <5>1, Zenon
      <4>3. \A q \in Users : ref[q].buf # c
        BY <1>2, <2>1, <4>2, Zenon DEF Referenced
      <4> QED BY <4>1, <4>3, Zenon DEF Referenced
    <3>2. Claims(c)
      BY <1>1, <3>1, Zenon DEF LetGoIsClaimed
    <3> QED BY <3>2, Zenon DEF Claims
  <2> QED BY <2>1, Zenon DEF LetGoIsClaimed
<1>7. HoldsLastStore'
  BY <1>1, Zenon DEF HoldsLastStore, Holds
<1>8. ExhaustedOnlyByLog'
  BY Zenon DEF ExhaustedOnlyByLog
<1> QED BY <1>3, <1>4, <1>5, <1>6, <1>7, <1>8, Zenon DEF Core

(* The list when get has recycled a buffer for a block.                    *)
Renames(m, i, k, b) == b = list[i].buf /\ m = [list EXCEPT ![i] = Entry(k, b)]

(* The new key is nowhere else, and no other entry has the buffer.         *)
LEMMA Recycled ==
  ASSUME Sane, Core, NEW k \in Blocks, Hits(k) = {}, NEW i \in 1..NBuf, NEW b, NEW m, Renames(m, i, k, b)
  PROVE  /\ b \in Bufs /\ ListOK(m) /\ Listed(Entry(k, b), m)
         /\ \A r : r # Entry(k, b) => (Listed(r, m) <=> Listed(r, list) /\ r.buf # b)
<1>1. ListOK(list) /\ list \in [1..NBuf -> Slots] /\ b = list[i].buf /\ b \in Bufs
  BY EntryIs, Zenon DEF Core, ListOK, Renames
<1>2. Entry(k, b) \in Slots /\ Entry(k, b).key = k /\ Entry(k, b).buf = b
  BY <1>1 DEF Slots, Entry
<1>3. m \in [1..NBuf -> Slots] /\ m[i] = Entry(k, b) /\ \A j \in 1..NBuf : j # i => m[j] = list[j]
  BY <1>1, <1>2, Zenon DEF Renames
<1>4. \A j \in 1..NBuf : list[j].key # k
  BY Zenon DEF Hits
<1>5. \A j \in 1..NBuf : j # i => list[j].buf # b
  BY <1>1, Zenon DEF ListOK
<1>6. \A j, l \in 1..NBuf : j # l => /\ m[j].buf # m[l].buf
                                     /\ m[j].key = m[l].key => m[j].key = NoKey
  <2>1. SUFFICES ASSUME NEW j \in 1..NBuf, NEW l \in 1..NBuf, j # l
                 PROVE  m[j].buf # m[l].buf /\ (m[j].key = m[l].key => m[j].key = NoKey)
    OBVIOUS
  <2>2. CASE j # i /\ l # i
    <3>1. m[j] = list[j] /\ m[l] = list[l]
      BY <1>3, <2>2, Zenon
    <3>2. list[j].buf # list[l].buf /\ (list[j].key = list[l].key => list[j].key = NoKey)
      BY <1>1, <2>1, Zenon DEF ListOK
    <3> QED BY <3>1, <3>2, Zenon
  <2>3. CASE j = i
    <3>1. m[l] = list[l] /\ m[j] = Entry(k, b) /\ list[l].key # k /\ list[l].buf # b
      BY <1>3, <1>4, <1>5, <2>1, <2>3, Zenon
    <3> QED BY <1>2, <3>1
  <2>4. CASE l = i
    <3>1. m[j] = list[j] /\ m[l] = Entry(k, b) /\ list[j].key # k /\ list[j].buf # b
      BY <1>3, <1>4, <1>5, <2>1, <2>4, Zenon
    <3> QED BY <1>2, <3>1
  <2> QED BY <2>2, <2>3, <2>4, Zenon
<1>7. \A c \in Bufs : \E j \in 1..NBuf : m[j].buf = c
  <2>1. SUFFICES ASSUME NEW c \in Bufs PROVE \E j \in 1..NBuf : m[j].buf = c
    OBVIOUS
  <2>2. PICK j \in 1..NBuf : list[j].buf = c
    BY <1>1, Zenon DEF ListOK
  <2>3. m[j].buf = c
    <3>1. CASE j = i
      BY <1>1, <1>2, <1>3, <2>2, <3>1
    <3>2. CASE j # i
      BY <1>3, <2>2, <3>2, Zenon
    <3> QED BY <3>1, <3>2
  <2> QED BY <2>3, Zenon
<1>8. ASSUME NEW r, r # Entry(k, b) PROVE Listed(r, m) <=> Listed(r, list) /\ r.buf # b
  <2>1. ASSUME NEW j \in 1..NBuf, m[j] = r PROVE Listed(r, list) /\ r.buf # b
    BY <1>3, <1>5, <1>8, <2>1, Zenon DEF Listed
  <2>2. ASSUME NEW j \in 1..NBuf, list[j] = r, r.buf # b PROVE Listed(r, m)
    <3>1. j # i
      BY <1>1, <2>2, Zenon
    <3> QED BY <1>3, <2>2, <3>1, Zenon DEF Listed
  <2> QED BY <2>1, <2>2, Zenon DEF Listed
<1>9. Listed(Entry(k, b), m)
  BY <1>3, Zenon DEF Listed
<1> QED BY <1>1, <1>3, <1>6, <1>7, <1>8, <1>9, Zenon DEF ListOK

(* A buffer that nothing refers to is not locked.                          *)
LEMMA UnusedIsFree ==
  ASSUME Sane, Core, NEW b \in Bufs, ~Referenced(b) PROVE holder[b] = 0
<1>1. SUFFICES ASSUME holder[b] # 0 PROVE FALSE
  OBVIOUS
<1>2. holder[b] \in Users /\ ref[holder[b]] = Entry(index[b], b)
  BY <1>1, Zenon DEF Core, CacheTypeOK, LockedIsClaimed
<1>3. ref[holder[b]].buf = b
  BY <1>2, Fields, Zenon
<1> QED BY <1>2, <1>3, Zenon DEF Referenced

(* get, when it recycles a buffer: nothing refers to it, so what it held   *)
(* is clean, and it cannot pass for the new block before it is claimed.    *)
LEMMA GetRecycleStep ==
  ASSUME Sane, Core, NEW p \in Users, NEW k \in Blocks, Hits(k) = {}, NEW i \in 1..NBuf,
         NEW b, ~Referenced(b), ~exhausted, ref[p] = NoRef,
         Renames(list', i, k, b), ref' = [ref EXCEPT ![p] = Entry(k, b)],
         UNCHANGED <<index, valid, modified, data, holder, pins, dev, cur, exhausted>>
  PROVE  Core'
<1>1. /\ CacheTypeOK /\ ListOK(list) /\ Refs /\ LockedIsClaimed /\ LoggedIsDirty
      /\ LetGoIsClaimed /\ HoldsLastStore
  BY Zenon DEF Core
<1>2. /\ b \in Bufs /\ ListOK(list') /\ Listed(Entry(k, b), list')
      /\ \A r : r # Entry(k, b) => (Listed(r, list') <=> Listed(r, list) /\ r.buf # b)
  BY Recycled, Zenon
<1>3. holder[b] = 0 /\ Entry(k, b).buf = b /\ Entry(k, b) \in [key : Blocks, buf : Bufs]
  BY <1>2, UnusedIsFree, EntryIs, Zenon DEF Entries
<1>4. /\ ref' \in [Users -> [key : Blocks, buf : Bufs] \cup {NoRef}] /\ ref'[p] = Entry(k, b)
      /\ \A q \in Users \ {p} : ref'[q] = ref[q]
  BY <1>1, <1>3, Zenon DEF CacheTypeOK
<1>5. \A q \in Users : ref[q].buf # b
  BY Zenon DEF Referenced
<1>6. \A r \in pins : r.buf # b
  BY Zenon DEF Referenced, Pinned
<1>7. CacheTypeOK'
  BY <1>1, <1>2, <1>4, Zenon DEF CacheTypeOK, ListOK, Slots
<1>8. Refs'
  <2>1. \A r \in pins : Listed(r, list')
    BY <1>1, <1>2, <1>6, Zenon DEF Refs
  <2>2. \A q \in Users \ {p} : ref[q] # NoRef => Listed(ref[q], list')
    BY <1>1, <1>2, <1>5, Zenon DEF Refs
  <2> QED BY <1>2, <1>4, <2>1, <2>2, Zenon DEF Refs
<1>9. LockedIsClaimed'
  <2>1. ASSUME NEW c \in Bufs, holder[c] # 0 PROVE ref'[holder[c]] = Entry(index[c], c)
    <3>1. ref[holder[c]] = Entry(index[c], c) /\ holder[c] \in Users
      BY <1>1, <2>1, Zenon DEF LockedIsClaimed, CacheTypeOK
    <3>2. Entry(index[c], c) # NoRef
      <4>1. c # 0
        BY DEF Bufs
      <4> QED BY <4>1 DEF Entry, NoRef
    <3> QED BY <1>4, <3>1, <3>2, Zenon
  <2> QED BY <2>1, Zenon DEF LockedIsClaimed
<1>10. LoggedIsDirty'
  BY <1>1, Zenon DEF LoggedIsDirty, Pinned
<1>11. \A j, c : c # b => (Listed(Entry(j, c), list') <=> Listed(Entry(j, c), list))
  <2>1. SUFFICES ASSUME NEW j, NEW c, c # b
                 PROVE  Listed(Entry(j, c), list') <=> Listed(Entry(j, c), list)
    BY Zenon
  <2>2. Entry(j, c).buf = c
    BY EntryIs, Zenon
  <2>3. Entry(j, c) # Entry(k, b)
    BY <1>3, <2>1, <2>2
  <2> QED BY <1>2, <2>1, <2>2, <2>3, Zenon
<1>12. LetGoIsClaimed'
  <2>1. ASSUME NEW c \in Bufs, ~Referenced(c)' PROVE Claims(c)'
    <3>1. c # b
      BY <1>3, <1>4, <2>1, Zenon DEF Referenced
    <3>2. ~Referenced(c)
      <4>1. ~Pinned(c)
        BY <2>1, Zenon DEF Referenced, Pinned
      <4>2. ref[p].buf # c
        <5>1. c # 0 /\ NoRef.buf = 0
          BY EntryIs DEF Bufs
        <5> QED BY <5>1, Zenon
      <4>3. \A q \in Users : ref[q].buf # c
        BY <1>4, <2>1, <4>2, Zenon DEF Referenced
      <4> QED BY <4>1, <4>3, Zenon DEF Referenced
    <3>3. Claims(c)
      BY <1>1, <3>2, Zenon DEF LetGoIsClaimed
    <3> QED BY <1>11, <3>1, <3>3, Zenon DEF Claims
  <2> QED BY <2>1, Zenon DEF LetGoIsClaimed
<1>13. \A j, c : Holds(j, c)' <=> Holds(j, c) /\ c # b
  <2>1. SUFFICES ASSUME NEW j, NEW c PROVE Holds(j, c)' <=> Holds(j, c) /\ c # b
    BY Zenon
  <2>2. CASE c # b
    BY <1>11, <2>2, Zenon DEF Holds
  <2>3. CASE c = b
    <3>1. SUFFICES ASSUME Listed(Entry(j, b), list'), index[b] = j, b \in valid PROVE FALSE
      BY <2>3, Zenon DEF Holds
    <3>2. Listed(Entry(j, b), list)
      BY <1>1, <1>2, <3>1, Zenon DEF LetGoIsClaimed, Claims
    <3>3. PICK l \in 1..NBuf : list[l] = Entry(j, b)
      BY <3>2, Zenon DEF Listed
    <3>4. j # k
      <4>1. list[l].key = j
        BY <3>3, Fields, Zenon
      <4> QED BY <4>1, Zenon DEF Hits
    <3>5. Entry(j, b) # Entry(k, b)
      BY <3>4 DEF Entry
    <3>6. Entry(j, b).buf = b
      BY EntryIs, Zenon
    <3> QED BY <1>2, <3>1, <3>5, <3>6, Zenon
  <2> QED BY <2>2, <2>3
<1>14. HoldsLastStore'
  <2>1. ASSUME NEW j \in Blocks, NEW c \in Bufs, Holds(j, c)'
        PROVE  data'[c] = cur'[j] /\ (c \in modified' \/ dev'[j] = cur'[j])
    BY <1>1, <1>13, <2>1, Zenon DEF HoldsLastStore
  <2>2. ASSUME NEW j \in Blocks PROVE dev'[j] = cur'[j] \/ \E c \in Bufs : Holds(j, c)'
    <3>1. CASE Holds(j, b)
      <4>1. b \notin valid \cap modified
        BY <1>1, <1>3, <1>6, Zenon DEF LoggedIsDirty, Pinned
      <4>2. b \in valid
        BY <3>1, Zenon DEF Holds
      <4>3. dev[j] = cur[j]
        BY <1>1, <1>2, <3>1, <4>1, <4>2, Zenon DEF HoldsLastStore
      <4> QED BY <4>3, Zenon
    <3>2. CASE ~Holds(j, b)
      <4>1. dev[j] = cur[j] \/ \E c \in Bufs : Holds(j, c)
        BY <1>1, Zenon DEF HoldsLastStore
      <4> QED BY <1>13, <3>2, <4>1, Zenon
    <3> QED BY <3>1, <3>2
  <2> QED BY <2>1, <2>2, Zenon DEF HoldsLastStore
<1>15. ExhaustedOnlyByLog'
  BY Zenon DEF ExhaustedOnlyByLog
<1> QED BY <1>2, <1>7, <1>8, <1>9, <1>10, <1>12, <1>14, <1>15, Zenon DEF Core

(* get, when every buffer is referred to: the caller refers to none.       *)
LEMMA Exhausted ==
  ASSUME Sane, Core, IsFiniteSet(Users), NEW p \in Users, ref[p] = NoRef, Unused = {}
  PROVE  Cardinality(pins) > NBuf - Cardinality(Users)
<1> DEFINE P == {b \in Bufs : Pinned(b)}
           Q == Bufs \ P
           A == {q \in Users \ {p} : ref[q].buf \in Q}
<1>1. CacheTypeOK /\ ListOK(list) /\ NBuf \in Nat
  BY Zenon DEF Core, Sane
<1>2. IsFiniteSet(Bufs) /\ Cardinality(Bufs) = NBuf
  <2>1. 1 \in Int /\ NBuf \in Int
    BY <1>1
  <2>2. IsFiniteSet(1..NBuf) /\ Cardinality(1..NBuf) = (IF 1 > NBuf THEN 0 ELSE NBuf - 1 + 1)
    BY <2>1, FS_Interval, Zenon
  <2> QED BY <1>1, <2>2 DEF Bufs
<1>3. IsFiniteSet(P) /\ IsFiniteSet(Q) /\ P \cup Q = Bufs
  <2>1. P \in SUBSET Bufs /\ Q \in SUBSET Bufs /\ P \cup Q = Bufs
    BY Zenon
  <2> QED BY <1>2, <2>1, FS_Subset, Zenon
<1>4. NBuf <= Cardinality(P) + Cardinality(Q)
  <2>1. IsFiniteSet(P \cap Q)
    <3>1. P \cap Q \in SUBSET P
      BY Zenon
    <3> QED BY <1>3, <3>1, FS_Subset, Zenon
  <2>2. Cardinality(P \cup Q) = Cardinality(P) + Cardinality(Q) - Cardinality(P \cap Q)
    BY <1>3, FS_Union, Zenon
  <2>3. Cardinality(P) \in Nat /\ Cardinality(Q) \in Nat /\ Cardinality(P \cap Q) \in Nat
    BY <1>3, <2>1, FS_CardinalityType, Zenon
  <2>4. Cardinality(P \cup Q) = NBuf
    BY <1>2, <1>3, Zenon
  <2> HIDE DEF P, Q
  <2> QED BY <1>1, <2>2, <2>3, <2>4
<1>5. Cardinality(P) <= Cardinality(pins)
  <2>1. \A r \in pins : r.buf \in P
    BY <1>1, EntryIs, Zenon DEF CacheTypeOK, Entries, Pinned
  <2>2. [r \in pins |-> r.buf] \in Surjection(pins, P)
    BY <2>1, Zenon DEF Surjection, Pinned
  <2>3. IsFiniteSet(pins)
    BY <1>1, Zenon DEF CacheTypeOK
  <2> QED BY <2>2, <2>3, FS_Surjection, Zenon
<1>6. Cardinality(Q) <= Cardinality(A) /\ IsFiniteSet(A)
  <2>1. IsFiniteSet(A)
    <3>1. A \in SUBSET Users
      BY Zenon
    <3> QED BY <3>1, FS_Subset, Zenon
  <2>2. ASSUME NEW b \in Q PROVE \E q \in A : ref[q].buf = b
    <3>1. Referenced(b)
      <4>1. PICK j \in 1..NBuf : list[j].buf = b
        BY <1>1, <2>2, Zenon DEF ListOK
      <4> QED BY <4>1, Zenon DEF Unused
    <3>2. PICK q \in Users : ref[q].buf = b
      BY <2>2, <3>1, Zenon DEF Referenced
    <3>3. q # p
      <4>1. ref[p].buf = 0 /\ b # 0
        BY <2>2, EntryIs DEF Bufs
      <4> QED BY <3>2, <4>1, Zenon
    <3> QED BY <2>2, <3>2, <3>3, Zenon
  <2>3. [q \in A |-> ref[q].buf] \in Surjection(A, Q)
    BY <2>2, Zenon DEF Surjection
  <2> QED BY <2>1, <2>3, FS_Surjection, Zenon
<1>7. Cardinality(A) <= Cardinality(Users) - 1
  <2>1. IsFiniteSet(Users \ {p}) /\ Cardinality(Users \ {p}) = Cardinality(Users) - 1
    BY FS_RemoveElement, Zenon
  <2>2. A \in SUBSET (Users \ {p})
    BY Zenon
  <2>3. Cardinality(A) <= Cardinality(Users \ {p})
    BY <2>1, <2>2, FS_Subset, Zenon
  <2> QED BY <2>1, <2>3, Zenon
<1>8. /\ Cardinality(P) \in Nat /\ Cardinality(Q) \in Nat /\ Cardinality(A) \in Nat
      /\ Cardinality(pins) \in Nat /\ Cardinality(Users) \in Nat
  BY <1>1, <1>3, <1>6, FS_CardinalityType, Zenon DEF CacheTypeOK
<1> HIDE DEF P, Q, A
<1> QED BY <1>1, <1>4, <1>5, <1>6, <1>7, <1>8

(* get: the block's buffer, a recycled one, or none.                       *)
LEMMA GetStep ==
  ASSUME Sane, Core, IsFiniteSet(Users), NEW p \in Users, NEW k \in Blocks, Get(p, k), ~exhausted
  PROVE  Core'
<1>1. ref[p] = NoRef /\ UNCHANGED <<index, valid, modified, data, holder, pins, dev, cur>> /\ ListOK(list)
  BY Zenon DEF Get, buffers, Core
<1>2. CASE \E i \in Hits(k) : /\ \A j \in Hits(k) : i <= j
                              /\ ref' = [ref EXCEPT ![p] = list[i]]
                              /\ UNCHANGED <<list, exhausted>>
  <2>1. PICK i \in 1..NBuf : /\ list[i].key = k /\ ref' = [ref EXCEPT ![p] = list[i]]
                             /\ UNCHANGED <<list, exhausted>>
    BY <1>2, Zenon DEF Hits
  <2>2. list[i] \in Slots /\ list[i].key \in Blocks /\ Listed(list[i], list)
    BY <1>1, <2>1, Zenon DEF ListOK, Listed
  <2>3. list[i] \in Entries
    BY <2>2, EntryIs, Zenon
  <2> QED BY <1>1, <2>1, <2>2, <2>3, GetHitStep, Zenon
<1>3. CASE /\ Hits(k) = {}
           /\ \E i \in Unused : /\ \A j \in Unused : j <= i
                                /\ list' = [list EXCEPT ![i] = Entry(k, list[i].buf)]
                                /\ ref' = [ref EXCEPT ![p] = Entry(k, list[i].buf)]
                                /\ UNCHANGED exhausted
  <2>1. PICK i \in 1..NBuf : /\ ~Referenced(list[i].buf) /\ UNCHANGED exhausted
                             /\ list' = [list EXCEPT ![i] = Entry(k, list[i].buf)]
                             /\ ref' = [ref EXCEPT ![p] = Entry(k, list[i].buf)]
    BY <1>3, Zenon DEF Unused
  <2>2. PICK b : b = list[i].buf
    BY Zenon
  <2>3. ~Referenced(b) /\ Renames(list', i, k, b) /\ ref' = [ref EXCEPT ![p] = Entry(k, b)]
    BY <2>1, <2>2, Zenon DEF Renames
  <2> QED BY <1>1, <1>3, <2>1, <2>3, GetRecycleStep, Zenon
<1>4. CASE Hits(k) = {} /\ Unused = {} /\ exhausted' = TRUE /\ UNCHANGED <<list, ref>>
  <2>1. Cardinality(pins) > NBuf - Cardinality(Users)
    BY <1>1, <1>4, Exhausted, Zenon
  <2>2. ExhaustedOnlyByLog'
    BY <1>1, <2>1, Zenon DEF ExhaustedOnlyByLog
  <2>3. CacheTypeOK' /\ ListOK(list') /\ Refs'
    BY <1>1, <1>4, Zenon DEF Core, CacheTypeOK, Refs
  <2>4. LockedIsClaimed' /\ LoggedIsDirty'
    BY <1>1, <1>4, Zenon DEF Core, LockedIsClaimed, LoggedIsDirty, Pinned
  <2>5. LetGoIsClaimed'
    BY <1>1, <1>4, Zenon DEF Core, LetGoIsClaimed, Claims, Referenced, Pinned
  <2>6. HoldsLastStore'
    BY <1>1, <1>4, Zenon DEF Core, HoldsLastStore, Holds
  <2> QED BY <2>2, <2>3, <2>4, <2>5, <2>6, Zenon DEF Core
<1> QED BY <1>2, <1>3, <1>4, Zenon DEF Get

(* The cache begins empty.                                                 *)
LEMMA CacheStarts ==
  ASSUME Sane, CacheInit PROVE Core
<1>1. /\ list = [i \in 1..NBuf |-> Entry(NoKey, i)]
      /\ index = [b \in Bufs |-> 0] /\ data = [b \in Bufs |-> 0] /\ valid = {} /\ modified = Bufs
      /\ holder = [b \in Bufs |-> 0] /\ ref = [p \in Users |-> NoRef] /\ pins = {}
      /\ dev = [k \in Blocks |-> 0] /\ cur = dev /\ exhausted = FALSE
  BY Zenon DEF CacheInit
<1>2. list \in [1..NBuf -> Slots]
  BY <1>1 DEF Slots, Entry, Bufs
<1>3. IsFiniteSet(pins)
  BY <1>1, FS_EmptySet, Zenon
<1>4. CacheTypeOK
  BY <1>1, <1>2, <1>3, Zenon DEF CacheTypeOK, Slots
<1>5. \A i \in 1..NBuf : list[i] = Entry(NoKey, i) /\ list[i].buf = i
  BY <1>1, EntryIs, Zenon
<1>6. ListOK(list)
  <2>1. ASSUME NEW i \in 1..NBuf PROVE list[i].key = NoKey
    <3>1. list[i] = Entry(NoKey, i) /\ Entry(NoKey, i).key = NoKey
      BY <1>5, EntryIs, Zenon
    <3> QED BY <3>1, Zenon
  <2> QED BY <1>2, <1>5, <2>1, Zenon DEF ListOK, Bufs
<1>7. Refs /\ LockedIsClaimed /\ LoggedIsDirty
  BY <1>1, Zenon DEF Refs, LockedIsClaimed, LoggedIsDirty
<1>8. LetGoIsClaimed
  BY <1>1, <1>5, Zenon DEF LetGoIsClaimed, Claims, Listed, Bufs
<1>9. HoldsLastStore
  BY <1>1, Zenon DEF HoldsLastStore, Holds
<1>10. ExhaustedOnlyByLog
  BY <1>1, Zenon DEF ExhaustedOnlyByLog
<1> QED BY <1>4, <1>6, <1>7, <1>8, <1>9, <1>10, Zenon DEF Core

(* The inductive invariant gives what the cache promises.                  *)
LEMMA CoreHolds ==
  ASSUME Sane, Core PROVE CacheInv
<1>1. OneBufferPerBlock
  BY Zenon DEF Core, OneBufferPerBlock, ListOK, Refs
<1>2. ReadersSeeLastStore
  <2>1. SUFFICES ASSUME NEW p \in Users, Guard(p), Buf(p) \in valid PROVE data[Buf(p)] = cur[Blk(p)]
    BY Zenon DEF ReadersSeeLastStore
  <2>2. ref[p] # NoRef
    BY <2>1, Zenon DEF Guard
  <2>3. PICK b \in Bufs, k \in Blocks : ref[p] = Entry(k, b)
    BY <2>2, RefIs, Zenon
  <2>4. Buf(p) = b /\ Blk(p) = k /\ index[b] = k /\ Listed(Entry(k, b), list)
    BY <2>1, <2>3, GuardIs
  <2>5. Holds(k, b)
    BY <2>1, <2>4, Zenon DEF Holds
  <2> QED BY <2>4, <2>5, Zenon DEF Core, HoldsLastStore
<1> QED BY <1>1, <1>2, Zenon DEF Core, CacheInv

(* get gives every user of a block its one buffer with what was last       *)
(* stored in the block, whatever was recycled, written home or logged      *)
(* meanwhile, and fails only when the log holds the buffers, for any       *)
(* number of buffers, blocks and processes.                                *)
THEOREM CacheInvariant ==
  ASSUME NBuf \in Nat, NoKey \notin Blocks, IsFiniteSet(Users), 0 \notin Users
  PROVE  CacheSpec => []CacheInv
<1> Sane
  BY Zenon DEF Sane
<1>1. CacheInit => Core
  BY CacheStarts, Zenon
<1>2. Core /\ [CacheNext]_blockVars => Core'
  <2>1. SUFFICES ASSUME Core, [CacheNext]_blockVars PROVE Core'
    OBVIOUS
  <2>2. CASE UNCHANGED blockVars
    <3>1. UNCHANGED <<list, index, valid, modified, data, holder, ref, pins, dev, cur, exhausted>>
      BY <2>2, Zenon DEF blockVars, buffers
    <3>2. CacheTypeOK' /\ ListOK(list') /\ Refs'
      BY <2>1, <3>1, Zenon DEF Core, CacheTypeOK, Refs
    <3>3. LockedIsClaimed' /\ LoggedIsDirty' /\ ExhaustedOnlyByLog'
      BY <2>1, <3>1, Zenon DEF Core, LockedIsClaimed, LoggedIsDirty, Pinned, ExhaustedOnlyByLog
    <3>4. LetGoIsClaimed'
      BY <2>1, <3>1, Zenon DEF Core, LetGoIsClaimed, Claims, Referenced, Pinned
    <3>5. HoldsLastStore'
      BY <2>1, <3>1, Zenon DEF Core, HoldsLastStore, Holds
    <3> QED BY <3>2, <3>3, <3>4, <3>5, Zenon DEF Core
  <2>3. CASE CacheNext
    <3>1. ~exhausted
      BY <2>3, Zenon DEF CacheNext
    <3>2. ASSUME NEW p \in Users, NEW k \in Blocks, Get(p, k) PROVE Core'
      BY <2>1, <3>1, <3>2, GetStep, Zenon
    <3>3. ASSUME NEW p \in Users, \/ Lock(p) \/ Read(p) \/ Write(p) \/ UnlockBuf(p) \/ Drop(p)
                                  \/ \E v \in Contents : SetData(p, v) \/ BytesMut(p, v)
          PROVE  Core'
      <4>1. ref[p] # NoRef
        BY <3>3, Zenon DEF Lock, Read, Write, UnlockBuf, Drop, SetData, BytesMut, Guard
      <4>2. PICK b \in Bufs, k \in Blocks : ref[p] = Entry(k, b)
        BY <2>1, <4>1, RefIs, Zenon
      <4>3. CASE Lock(p)
        BY <2>1, <3>1, <4>2, <4>3, LockStep
      <4>4. CASE Read(p)
        BY <2>1, <3>1, <4>2, <4>4, ReadStep
      <4>5. CASE Write(p)
        BY <2>1, <3>1, <4>2, <4>5, WriteStep
      <4>6. CASE UnlockBuf(p)
        BY <2>1, <3>1, <4>2, <4>6, UnlockStep
      <4>7. CASE Drop(p)
        BY <2>1, <3>1, <4>2, <4>7, DropStep
      <4>8. ASSUME NEW v \in Contents, SetData(p, v) \/ BytesMut(p, v) PROVE Core'
        BY <2>1, <3>1, <4>2, <4>8, StoreStep
      <4> QED BY <3>3, <4>3, <4>4, <4>5, <4>6, <4>7, <4>8, Zenon
    <3>4. ASSUME NEW r \in pins, InstallBlock(r) PROVE Core'
      <4>1. r \in Entries
        BY <2>1, Zenon DEF Core, CacheTypeOK, Entries
      <4>2. PICK b \in Bufs, k \in Blocks : r = Entry(k, b)
        BY <4>1, EntryIs, Zenon
      <4> QED BY <2>1, <3>1, <3>4, <4>2, InstallStep
    <3> QED BY <2>3, <3>2, <3>3, <3>4, Zenon DEF CacheNext
  <2> QED BY <2>1, <2>2, <2>3
<1>3. Core => CacheInv
  BY CoreHolds, Zenon
<1> QED BY <1>1, <1>2, <1>3, PTL DEF CacheSpec

-----------------------------------------------------------------------------
USE DEF PC, SpinPC, WaitPC, Inside

LEMMA InitInv == Init => SleepLockInv
BY ConstAssumption DEF Init, SleepLockInv, TypeOK, MutualExclusion, SpinDiscipline,
   SharedDiscipline, ScanDiscipline, CounterDiscipline

(* Every step keeps the types.                                             *)
LEMMA TypeStep == TypeOK /\ [Next]_vars => TypeOK'
<1> SUFFICES ASSUME TypeOK, [Next]_vars PROVE TypeOK'
  OBVIOUS
<1>1. CASE UNCHANGED vars
  BY <1>1 DEF vars, TypeOK
<1>2. ASSUME NEW p \in Proc, NEW m \in {"wait", "force"}, Call(p, m) PROVE TypeOK'
  BY <1>2 DEF Call, Goto, TypeOK
<1>3. ASSUME NEW p \in Proc, TryLock(p) \/ Acquire(p) \/ Unlock(p) \/ Kill(p) PROVE TypeOK'
  BY <1>3 DEF TryLock, Acquire, Unlock, Kill, Goto, TypeOK
<1>4. ASSUME NEW p \in Proc, Take(p) \/ Wait(p) \/ LockShared(p) \/ Fail(p) PROVE TypeOK'
  BY <1>4 DEF Take, Wait, LockShared, Fail, Goto, TypeOK
<1>5. ASSUME NEW p \in Proc, LetGo(p) \/ Doze(p) \/ Switch(p) \/ Dispatch(p) PROVE TypeOK'
  BY <1>5 DEF LetGo, Doze, Switch, Dispatch, Goto, TypeOK
<1>6. ASSUME NEW p \in Proc, RecheckKilled(p) \/ Recheck(p) \/ Release(p) \/ Notified(p)
      PROVE TypeOK'
  BY <1>6 DEF RecheckKilled, Recheck, Release, Notified, Goto, TypeOK
<1>7. ASSUME NEW p \in Proc, NEW q \in Proc, Wake(p, q) PROVE TypeOK'
  BY <1>7 DEF Wake, Goto, TypeOK
<1> QED BY <1>1, <1>2, <1>3, <1>4, <1>5, <1>6, <1>7 DEF Next, KernelStep

(* The rest of the invariant, one action at a time.                        *)
Rest ==
  /\ MutualExclusion
  /\ SpinDiscipline
  /\ SharedDiscipline
  /\ ScanDiscipline
  /\ CounterDiscipline

LEMMA RestStep == SleepLockInv /\ [Next]_vars => Rest'
<1> SUFFICES ASSUME SleepLockInv, [Next]_vars PROVE Rest'
  OBVIOUS
<1> USE ConstAssumption DEF SleepLockInv, TypeOK, MutualExclusion, SpinDiscipline,
        SharedDiscipline, ScanDiscipline, CounterDiscipline, Rest, Goto
<1>1. CASE UNCHANGED vars
  BY <1>1 DEF vars
<1>2. ASSUME NEW p \in Proc, NEW m \in {"wait", "force"}, Call(p, m) PROVE Rest'
  BY <1>2 DEF Call
<1>3. ASSUME NEW p \in Proc, TryLock(p) PROVE Rest'
  BY <1>3 DEF TryLock
<1>4. ASSUME NEW p \in Proc, Acquire(p) PROVE Rest'
  BY <1>4 DEF Acquire
<1>5. ASSUME NEW p \in Proc, Take(p) PROVE Rest'
  BY <1>5 DEF Take
<1>6. ASSUME NEW p \in Proc, Wait(p) PROVE Rest'
  BY <1>6 DEF Wait
<1>7. ASSUME NEW p \in Proc, LockShared(p) PROVE Rest'
  BY <1>7 DEF LockShared
<1>8. ASSUME NEW p \in Proc, Fail(p) PROVE Rest'
  BY <1>8 DEF Fail
<1>9. ASSUME NEW p \in Proc, LetGo(p) PROVE Rest'
  BY <1>9 DEF LetGo
<1>10. ASSUME NEW p \in Proc, Doze(p) PROVE Rest'
  BY <1>10 DEF Doze
<1>11. ASSUME NEW p \in Proc, Switch(p) PROVE Rest'
  BY <1>11 DEF Switch
<1>12. ASSUME NEW p \in Proc, Dispatch(p) PROVE Rest'
  BY <1>12 DEF Dispatch
<1>13. ASSUME NEW p \in Proc, RecheckKilled(p) \/ Recheck(p) PROVE Rest'
  BY <1>13 DEF RecheckKilled, Recheck
<1>14. ASSUME NEW p \in Proc, Unlock(p) PROVE Rest'
  BY <1>14 DEF Unlock
<1>15. ASSUME NEW p \in Proc, Release(p) PROVE Rest'
  BY <1>15 DEF Release
<1>16. ASSUME NEW p \in Proc, NEW q \in Proc, Wake(p, q) PROVE Rest'
  BY <1>16 DEF Wake
<1>17. ASSUME NEW p \in Proc, Notified(p) PROVE Rest'
  BY <1>17 DEF Notified
<1>18. ASSUME NEW p \in Proc, Kill(p) PROVE Rest'
  BY <1>18 DEF Kill
<1> HIDE DEF SleepLockInv, Rest
<1> QED BY <1>1, <1>2, <1>3, <1>4, <1>5, <1>6, <1>7, <1>8, <1>9, <1>10, <1>11, <1>12,
           <1>13, <1>14, <1>15, <1>16, <1>17, <1>18 DEF Next, KernelStep

(* The inductive invariant of the sleep lock: who may hold the spin lock   *)
(* and Proc::shared at each step of wait_lock, force_wait_lock and drop,   *)
(* and that a sleeper the counter has passed is still ahead of the scan.   *)
THEOREM SleepLockInvariant == Spec => []SleepLockInv
<1>1. SleepLockInv /\ [Next]_vars => SleepLockInv'
  BY TypeStep, RestStep DEF SleepLockInv, Rest
<1> QED BY InitInv, <1>1, PTL DEF Spec

(* No wakeup of SleepLockGuard::drop is lost, killed sleepers included.    *)
THEOREM NoWakeupIsLost == Spec => []NoLostWakeup
<1>1. SleepLockInv => NoLostWakeup
  BY DEF SleepLockInv, TypeOK, SharedDiscipline, CounterDiscipline, NoLostWakeup
<1> QED BY SleepLockInvariant, <1>1, PTL
=============================================================================
