------------------------------- MODULE HpCache -------------------------------
(***************************************************************************)
(* hp_cache.c, which keeps the contents of files.  A file is the sequence  *)
(* of the seconds in which it was written; its version is the length of    *)
(* it, and hp_cache looks at the last second only.                         *)
(***************************************************************************)
EXTENDS Integers, Sequences

CONSTANTS
  CacheKeys,     \* files
  EntryMax,      \* ENTRY_MAX, slots of the table
  MaxVersion     \* bound: changes of a file

ASSUME CacheAssumption == EntryMax \in Nat /\ MaxVersion \in Nat

VARIABLES
  disk,          \* key -> seconds of its versions
  slots,         \* the table: Seq of [key, ver, chksum, freed]
  getting,       \* the hp_cache_get under way
  got2           \* what the latest one returned

cacheVars == <<disk, slots, getting, got2>>

NoGet == [pc |-> "idle", key |-> "", sec |-> 0, from |-> 0]
Sec(key) == disk[key][Len(disk[key])]     \* of its last change
Slot(key) == {k \in DOMAIN slots : slots[k].key = key}

CacheInit ==
  /\ disk = [k \in CacheKeys |-> <<0>>]
  /\ slots = <<>>
  /\ getting = NoGet
  /\ got2 = [rc |-> 1, key |-> "", ver |-> 0, from |-> 0]

\* Someone writes the file, in the second of its last change or later.
FileChanges ==
  /\ \E key \in CacheKeys, s \in {0, 1} :
       /\ Len(disk[key]) < MaxVersion
       /\ disk' = [disk EXCEPT ![key] = Append(@, Sec(key) + s)]
  /\ UNCHANGED <<slots, getting, got2>>

\* stat, and the search in the table
hp_cache_get ==
  /\ getting.pc = "idle"
  /\ \E key \in CacheKeys :
       \* the entry that is found is not one that was freed
       /\ \A k \in Slot(key) : ~slots[k].freed
       /\ getting' = [pc |-> "stat", key |-> key, sec |-> Sec(key),
                      from |-> Len(disk[key])]
  /\ UNCHANGED <<disk, slots, got2>>

Finish(rc, ver) ==
  /\ getting' = NoGet
  /\ got2' = [rc |-> rc, key |-> getting.key, ver |-> ver, from |-> getting.from]
  /\ UNCHANGED disk

\* Mutant: an entry that is found is not looked at.
Bad_Current(k) == TRUE

Current(k) == slots[k].chksum = getting.sec

CacheHit ==
  /\ getting.pc = "stat"
  /\ \E k \in Slot(getting.key) : Current(k) /\ Finish(0, slots[k].ver)
  /\ UNCHANGED slots

Read(ver) == [key |-> getting.key, ver |-> ver, chksum |-> getting.sec, freed |-> FALSE]

\* The file is opened and read later than it was looked at.
CacheRead ==
  /\ getting.pc = "stat"
  /\ \A k \in Slot(getting.key) : ~Current(k)
  /\ LET ver == Len(disk[getting.key])
     IN  \/ \E k \in Slot(getting.key) :
              slots' = [slots EXCEPT ![k] = Read(ver)] /\ Finish(0, ver)
         \/ /\ Slot(getting.key) = {} /\ Len(slots) < EntryMax
            /\ slots' = Append(slots, Read(ver)) /\ Finish(0, ver)
         \/ /\ Slot(getting.key) = {} /\ Len(slots) = EntryMax
            /\ UNCHANGED slots /\ Finish(-8, 0)

\* fopen or fread fails: the entry is freed, in the table or not.
CacheReadFails ==
  /\ getting.pc = "stat"
  /\ \A k \in Slot(getting.key) : ~Current(k)
  /\ slots' = [k \in DOMAIN slots |->
                 IF k \in Slot(getting.key) THEN [slots[k] EXCEPT !.freed = TRUE] ELSE slots[k]]
  /\ Finish(-5, 0)

CacheNext == FileChanges \/ hp_cache_get \/ CacheHit \/ CacheRead \/ CacheReadFails
CacheSpec == CacheInit /\ [][CacheNext]_cacheVars
-----------------------------------------------------------------------------
\* What hp_cache_get returns is at least as new as the file was when it was called,
\* unless the file was written twice in one second: a change while the file is
\* read is seen the next time.
StaleOnlyWithinSecond ==
  got2.rc = 0 /\ got2.ver < got2.from =>
    disk[got2.key][got2.ver] = disk[got2.key][got2.from]
=============================================================================
