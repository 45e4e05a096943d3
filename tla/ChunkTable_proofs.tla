------------------------- MODULE ChunkTable_proofs -------------------------
(***************************************************************************)
(* Proofs about ChunkTable: the counts of the chunk table cover what the   *)
(* files and the snapshots need, so no needed chunk is ever deleted.       *)
(***************************************************************************)
EXTENDS ChunkTable, FiniteSetTheorems, TLAPS

Tables == [Keys -> Entry]
Images == [Keys -> ImageEntry]

-----------------------------------------------------------------------------
(* The operations of the table, entry by entry.                            *)

\* The empty table counts nothing.
LEMMA EmptyTableFacts ==
    /\ EmptyTable \in Tables
    /\ \A k \in Keys : /\ EmptyTable[k].ref = 0 /\ EmptyTable[k].snap = 0
                       /\ ~EmptyTable[k].listed
    /\ Image(EmptyTable) \in Images
    /\ \A k \in Keys : Image(EmptyTable)[k].ref = 0
  BY DEF EmptyTable, Absent, Tables, Entry, Image, Images, ImageEntry

\* use raises one count and reports new exactly what was not counted.
LEMMA UseFacts ==
    ASSUME NEW t \in Tables, NEW k \in Keys
    PROVE  /\ Use(t, k) \in Tables
           /\ Use(t, k)[k].ref = t[k].ref + 1
           /\ Use(t, k)[k].snap = t[k].snap
           /\ Use(t, k)[k].listed
           /\ \A x \in Keys \ {k} : Use(t, k)[x] = t[x]
           /\ UseIsNew(t, k) <=> Zero(t[k])
  BY DEF Use, UseIsNew, Zero, Tables, Entry

\* release lowers one count and reports the last reference.
LEMMA ReleaseFacts ==
    ASSUME NEW t \in Tables, NEW k \in Keys, t[k].ref > 0
    PROVE  /\ Release(t, k) \in Tables
           /\ Release(t, k)[k].ref = t[k].ref - 1
           /\ Release(t, k)[k].snap = t[k].snap
           /\ Release(t, k)[k].listed => t[k].listed
           /\ ReleaseIsLast(t, k) <=> Zero(Release(t, k)[k])
           /\ (t[k].listed /\ ~ReleaseIsLast(t, k)) => Release(t, k)[k].listed
           /\ \A x \in Keys \ {k} : Release(t, k)[x] = t[x]
  BY DEF Release, ReleaseIsLast, Released, Zero, Absent, Tables, Entry

\* The image of a table carries its keys and reference counts.
LEMMA ImageFacts ==
    ASSUME NEW t \in Tables
    PROVE  /\ Image(t) \in Images
           /\ \A k \in Keys : /\ Image(t)[k].ref = t[k].ref
                              /\ Image(t)[k].listed <=> t[k].listed
  BY DEF Image, Images, ImageEntry, Tables, Entry

\* snapshot raises the snapshot count of the referenced keys.
LEMMA SnapshotFacts ==
    ASSUME NEW t \in Tables
    PROVE  /\ Snapshot(t) \in Tables
           /\ \A k \in Keys :
                /\ Snapshot(t)[k].ref = t[k].ref
                /\ Snapshot(t)[k].listed = t[k].listed
                /\ Snapshot(t)[k].snap = IF t[k].ref > 0 THEN t[k].snap + 1
                                                         ELSE t[k].snap
  BY DEF Snapshot, Tables, Entry

\* restore touches reference counts only, and only of listed keys.
LEMMA RestoreFacts ==
    ASSUME NEW t \in Tables, NEW i \in Images,
           \A k \in Keys : ~t[k].listed => Zero(t[k])
    PROVE  /\ Restore(t, i) \in Tables
           /\ \A k \in Keys :
                /\ Restore(t, i)[k].snap = t[k].snap
                /\ ~Restore(t, i)[k].listed => Zero(Restore(t, i)[k])
                /\ (i[k].listed /\ t[k].listed) => Restore(t, i)[k].ref = i[k].ref
                /\ ~(i[k].listed /\ t[k].listed) => Restore(t, i)[k].ref = t[k].ref
  BY DEF Restore, RestoredEntry, Absent, Zero, Tables, Images, ImageEntry, Entry

\* snapshot_deleted lowers snapshot counts and drops what reaches zero.
LEMMA DeletedFacts ==
    ASSUME NEW t \in Tables, NEW i \in Images,
           \A k \in Keys : ~t[k].listed => Zero(t[k]),
           \A k \in Keys : i[k].ref > 0 => i[k].listed /\ t[k].snap > 0
    PROVE  /\ SnapshotDeleted(t, i) \in Tables
           /\ Dropped(t, i) \subseteq Keys
           /\ \A k \in Keys :
                /\ SnapshotDeleted(t, i)[k].ref = t[k].ref
                /\ SnapshotDeleted(t, i)[k].snap =
                        IF i[k].ref > 0 THEN t[k].snap - 1 ELSE t[k].snap
                /\ ~SnapshotDeleted(t, i)[k].listed => Zero(SnapshotDeleted(t, i)[k])
                /\ k \in Dropped(t, i) => Zero(SnapshotDeleted(t, i)[k])
                /\ (Zero(SnapshotDeleted(t, i)[k]) /\ ~Zero(t[k])) => k \in Dropped(t, i)
  BY DEF SnapshotDeleted, Dropped, Discounted, Zero, Absent, Tables, Images,
         ImageEntry, Entry
-----------------------------------------------------------------------------
(* Counting the snapshots that use a chunk.                                *)

\* There are finitely many snapshots, so that they can be counted.
LEMMA ShotsFinite == IsFiniteSet(Shots) /\ \A S \in SUBSET Shots : IsFiniteSet(S)
<1>1. IsFiniteSet(1..MaxShots)
  BY BoundsAssumption, FS_Interval
<1>2. QED
  BY <1>1, FS_Subset DEF Shots

\* The users of a chunk are counted by a natural number, 0 when none.
LEMMA UsersCount ==
    ASSUME TypeOK
    PROVE  \A k \in Keys : /\ Users(k) \subseteq Shots
                           /\ IsFiniteSet(Users(k))
                           /\ Cardinality(Users(k)) \in Nat
                           /\ Cardinality(Users(k)) = 0 <=> Users(k) = {}
<1>1. \A k \in Keys : Users(k) \subseteq Shots
  BY DEF Users, TypeOK
<1>2. QED
  BY <1>1, ShotsFinite, FS_CardinalityType, FS_EmptySet

\* What an action that leaves the snapshots alone cannot change.
LEMMA UsersUnchanged ==
    ASSUME UNCHANGED <<shots, image>>
    PROVE  \A k \in Keys : Users(k)' = Users(k)
  BY DEF Users

-----------------------------------------------------------------------------
\* The invariant holds when the file system is first mounted.
LEMMA InitInvariant == Init => IInv
<1> SUFFICES ASSUME Init PROVE IInv
  OBVIOUS
<1>1. TypeOK
  BY EmptyTableFacts, BoundsAssumption
  DEF Init, TypeOK, Tables, Images, Counts, NoCounts, Events, Shots
<1>2. \A k \in Keys : Users(k) = {}
  BY DEF Init, Users
<1>3. \A k \in Keys : Cardinality(Users(k)) = 0
  BY <1>2, FS_EmptySet
<1>4. Covers(chunk_table) /\ SnapshotCountsExact /\ RefExact
  BY <1>3, EmptyTableFacts
  DEF Init, Covers, SnapshotCountsExact, RefExact, NoCounts, Zero
<1>5. ShotsSound /\ CountedStored /\ StoredCounted /\ TableSaved /\ CloudSound
  BY EmptyTableFacts DEF Init, ShotsSound, CountedStored, StoredCounted,
     TableSaved, CloudSound, Zero
<1>6. QED
  BY <1>1, <1>4, <1>5 DEF IInv

\* Adding a chunk to a file preserves the invariant.
LEMMA UseChunkInvariant ==
    ASSUME IInv, NEW k \in Keys, UseChunk(k)
    PROVE  IInv'
<1> DEFINE t == chunk_table
<1>0. t \in Tables
  BY DEF IInv, TypeOK, Tables
<1>1. chunk_table' = Use(t, k) /\ chunk_table' \in Tables
  BY <1>0, UseFacts DEF UseChunk
<1>2. TypeOK'
  <2>1. live' \in Counts
    BY DEF IInv, TypeOK, UseChunk, Counts
  <2>2. QED
    BY <1>1, <2>1 DEF IInv, TypeOK, UseChunk, Tables, shotVars, mountVars
<1>3. \A x \in Keys : Users(x)' = Users(x)
  BY UsersUnchanged DEF UseChunk, shotVars
<1>4. /\ t'[k].ref = t[k].ref + 1 /\ t'[k].snap = t[k].snap /\ t'[k].listed
      /\ \A x \in Keys \ {k} : t'[x] = t[x]
      /\ UseIsNew(t, k) <=> Zero(t[k])
  BY <1>0, <1>1, UseFacts
<1>5. live'[k] = live[k] + 1 /\ \A x \in Keys \ {k} : live'[x] = live[x]
  BY DEF IInv, TypeOK, UseChunk, Counts
<1>6. t[k] \in Entry /\ live[k] \in Nat
  BY <1>0 DEF IInv, TypeOK, Tables, Counts
<1>7. Covers(chunk_table)'
  BY <1>3, <1>4, <1>5, <1>6 DEF IInv, Covers, Entry
<1>8. ShotsSound'
  BY DEF IInv, ShotsSound, UseChunk, shotVars
<1>9. SnapshotCountsExact'
  BY <1>3, <1>4 DEF IInv, SnapshotCountsExact, UseChunk
<1>10. RefExact'
  BY <1>4, <1>5 DEF IInv, RefExact, UseChunk, shotVars
<1>11. CountedStored'
  BY <1>4 DEF IInv, CountedStored, UseChunk
<1>12. StoredCounted'
  BY <1>4, <1>6 DEF IInv, StoredCounted, UseChunk, Zero, Entry, TypeOK
<1>13. TableSaved' /\ CloudSound'
  BY DEF IInv, TableSaved, CloudSound, UseChunk, mountVars
<1>14. QED
  BY <1>2, <1>7, <1>8, <1>9, <1>10, <1>11, <1>12, <1>13 DEF IInv

\* Removing a chunk from a file preserves the invariant.
LEMMA ReleaseChunkInvariant ==
    ASSUME IInv, NEW k \in Keys, ReleaseChunk(k)
    PROVE  IInv'
<1> DEFINE t == chunk_table
<1>0. t \in Tables /\ t[k].ref > 0 /\ t[k].ref \in Nat /\ live[k] \in Nat
  BY DEF IInv, TypeOK, Tables, Counts, Covers, ReleaseChunk, Entry
<1>1. chunk_table' = Release(t, k) /\ chunk_table' \in Tables
  BY <1>0, ReleaseFacts DEF ReleaseChunk
<1>2. TypeOK'
  <2>1. live' \in Counts
    BY DEF IInv, TypeOK, ReleaseChunk, Counts
  <2>2. QED
    BY <1>1, <2>1 DEF IInv, TypeOK, ReleaseChunk, Tables, shotVars, mountVars
<1>3. \A x \in Keys : Users(x)' = Users(x)
  BY UsersUnchanged DEF ReleaseChunk, shotVars
<1>4. /\ t'[k].ref = t[k].ref - 1 /\ t'[k].snap = t[k].snap
      /\ ReleaseIsLast(t, k) <=> Zero(t'[k])
      /\ (t[k].listed /\ ~ReleaseIsLast(t, k)) => t'[k].listed
      /\ \A x \in Keys \ {k} : t'[x] = t[x]
  BY <1>0, <1>1, ReleaseFacts
<1>5. live'[k] = live[k] - 1 /\ \A x \in Keys \ {k} : live'[x] = live[x]
  BY DEF IInv, TypeOK, ReleaseChunk, Counts
<1>6. t[k].listed /\ ~Zero(t[k])
  BY <1>0 DEF IInv, Covers, Zero
<1>7. Covers(chunk_table)'
  BY <1>0, <1>3, <1>4, <1>5, <1>6 DEF IInv, Covers, Entry
<1>8. ShotsSound'
  BY DEF IInv, ShotsSound, ReleaseChunk, shotVars
<1>9. SnapshotCountsExact'
  BY <1>3, <1>4 DEF IInv, SnapshotCountsExact, ReleaseChunk
<1>10. RefExact'
  BY <1>4, <1>5 DEF IInv, RefExact, ReleaseChunk, shotVars
<1>11. CountedStored'
  BY <1>4, <1>6 DEF IInv, CountedStored, ReleaseChunk
<1>12. StoredCounted'
  BY <1>4 DEF IInv, StoredCounted, ReleaseChunk, TypeOK
<1>13. TableSaved' /\ CloudSound'
  BY DEF IInv, TableSaved, CloudSound, ReleaseChunk, mountVars
<1>14. QED
  BY <1>2, <1>7, <1>8, <1>9, <1>10, <1>11, <1>12, <1>13 DEF IInv

\* ChunkTable::snapshot raises the counts of exactly the chunks in use.
LEMMA SnapshotCovers ==
    ASSUME TypeOK, chunk_table' = Snapshot(chunk_table)
    PROVE  /\ chunk_table' \in Tables
           /\ \A k \in Keys :
                /\ chunk_table'[k].ref = chunk_table[k].ref
                /\ chunk_table'[k].listed = chunk_table[k].listed
                /\ chunk_table'[k].snap = IF chunk_table[k].ref > 0
                        THEN chunk_table[k].snap + 1 ELSE chunk_table[k].snap
                /\ Zero(chunk_table'[k]) <=> Zero(chunk_table[k])
<1>1. chunk_table \in Tables
  BY DEF TypeOK, Tables
<1>2. \A k \in Keys : chunk_table[k] \in Entry
  BY <1>1 DEF Tables
<1>3. QED
  BY <1>1, <1>2, SnapshotFacts DEF Zero, Entry

\* Creating a snapshot preserves the invariant.
LEMMA TakeSnapshotInvariant ==
    ASSUME IInv, TakeSnapshot
    PROVE  IInv'
<1> DEFINE t == chunk_table
           n == NextShot
<1>0. t \in Tables /\ \A k \in Keys : t[k] \in Entry
  BY DEF IInv, TypeOK, Tables
<1>1. n \in Shots /\ n \notin shots /\ n > taken /\ taken \in Nat
  BY BoundsAssumption DEF IInv, TypeOK, ShotsSound, TakeSnapshot, NextShot, Shots
<1>2. /\ t' \in Tables
      /\ \A k \in Keys :
            /\ t'[k].ref = t[k].ref /\ t'[k].listed = t[k].listed
            /\ t'[k].snap = IF t[k].ref > 0 THEN t[k].snap + 1 ELSE t[k].snap
            /\ Zero(t'[k]) <=> Zero(t[k])
  BY SnapshotCovers DEF TakeSnapshot, IInv
<1>3. /\ image'[n] = Image(t) /\ saved'[n] = live
      /\ \A s \in shots : image'[s] = image[s] /\ saved'[s] = saved[s]
      /\ image' \in [Shots -> Images]
      /\ saved' \in [Shots -> Counts]
  BY <1>0, <1>1, ImageFacts DEF TakeSnapshot, IInv, TypeOK, Images
<1>4. \A k \in Keys : Image(t)[k].ref = t[k].ref
  BY <1>0, ImageFacts
<1>5. TypeOK'
  BY <1>1, <1>2, <1>3, BoundsAssumption
  DEF IInv, TypeOK, TakeSnapshot, Tables, Images, mountVars, NextShot, Shots
<1>6. \A k \in Keys : Users(k)' = IF t[k].ref > 0 THEN Users(k) \union {n} ELSE Users(k)
  BY <1>1, <1>3, <1>4 DEF Users, TakeSnapshot
<1>7. \A k \in Keys : n \notin Users(k)
  BY <1>1 DEF Users
<1>8. \A k \in Keys : Cardinality(Users(k)') =
            IF t[k].ref > 0 THEN Cardinality(Users(k)) + 1 ELSE Cardinality(Users(k))
  BY <1>6, <1>7, UsersCount, FS_AddElement DEF IInv
<1>9. Covers(chunk_table)'
  <2> SUFFICES ASSUME NEW k \in Keys
               PROVE  /\ t'[k].ref >= live'[k]
                      /\ t'[k].snap >= Cardinality(Users(k)')
                      /\ ~t'[k].listed => Zero(t'[k])
    BY DEF Covers
  <2>1. live' = live
    BY DEF TakeSnapshot
  <2>2. Cardinality(Users(k)) \in Nat /\ t[k].snap \in Nat
    BY <1>0, UsersCount DEF IInv, Entry
  <2>3. t[k].ref >= live[k] /\ t[k].snap >= Cardinality(Users(k)) /\ (~t[k].listed => Zero(t[k]))
    BY DEF IInv, Covers
  <2>4. QED
    BY <1>2, <1>8, <2>1, <2>2, <2>3
<1>10. ShotsSound'
  <2>1. \A s \in shots' : s <= taken'
    BY <1>1 DEF IInv, ShotsSound, TakeSnapshot, NextShot, TypeOK, Shots
  <2>2. \A k \in Keys : /\ Image(t)[k].ref >= live[k]
                        /\ Image(t)[k].ref > 0 => Image(t)[k].listed
    <3> SUFFICES ASSUME NEW k \in Keys
                 PROVE  /\ Image(t)[k].ref >= live[k]
                        /\ Image(t)[k].ref > 0 => Image(t)[k].listed
      OBVIOUS
    <3>1. t[k].ref >= live[k] /\ (t[k].ref > 0 => t[k].listed)
      BY <1>0 DEF IInv, Covers, Zero, Entry
    <3>2. Image(t)[k].listed <=> t[k].listed
      BY <1>0, ImageFacts
    <3>3. QED
      BY <1>4, <3>1, <3>2
  <2>3. \A s \in shots', k \in Keys : /\ image'[s][k].ref >= saved'[s][k]
                                      /\ image'[s][k].ref > 0 => image'[s][k].listed
    BY <1>3, <2>2 DEF IInv, ShotsSound, TakeSnapshot
  <2>4. QED
    BY <2>1, <2>3 DEF ShotsSound
<1>11. SnapshotCountsExact'
  BY <1>2, <1>8 DEF IInv, SnapshotCountsExact, TakeSnapshot
<1>12. RefExact'
  BY <1>2, <1>3, <1>4 DEF IInv, RefExact, TakeSnapshot
<1>13. CountedStored' /\ StoredCounted'
  BY <1>2 DEF IInv, CountedStored, StoredCounted, TakeSnapshot, TypeOK
<1>14. TableSaved' /\ CloudSound'
  BY DEF IInv, TableSaved, CloudSound, TakeSnapshot, mountVars
<1>15. QED
  BY <1>5, <1>9, <1>10, <1>11, <1>12, <1>13, <1>14 DEF IInv

\* A snapshot that fails after the table was saved preserves it.
LEMMA AbortSnapshotInvariant ==
    ASSUME IInv, AbortSnapshot
    PROVE  IInv'
<1> DEFINE t == chunk_table
<1>0. \A k \in Keys : t[k] \in Entry
  BY DEF IInv, TypeOK
<1>1. /\ t' \in Tables
      /\ \A k \in Keys :
            /\ t'[k].ref = t[k].ref /\ t'[k].listed = t[k].listed
            /\ t'[k].snap = IF t[k].ref > 0 THEN t[k].snap + 1 ELSE t[k].snap
            /\ Zero(t'[k]) <=> Zero(t[k])
  BY SnapshotCovers DEF AbortSnapshot, IInv
<1>2. TypeOK'
  BY <1>1, BoundsAssumption
  DEF IInv, TypeOK, AbortSnapshot, Tables, mountVars, Events
<1>3. \A k \in Keys : Users(k)' = Users(k)
  BY UsersUnchanged DEF AbortSnapshot
<1>4. \A k \in Keys : Cardinality(Users(k)) \in Nat
  BY UsersCount DEF IInv
<1>5. Covers(chunk_table)'
  BY <1>0, <1>1, <1>3, <1>4 DEF IInv, Covers, AbortSnapshot, Entry
<1>6. ShotsSound'
  BY BoundsAssumption DEF IInv, ShotsSound, AbortSnapshot, TypeOK, Shots
<1>7. SnapshotCountsExact' /\ RefExact' /\ StoredCounted'
  BY DEF SnapshotCountsExact, RefExact, StoredCounted, AbortSnapshot
<1>8. CountedStored'
  BY <1>1 DEF IInv, CountedStored, AbortSnapshot
<1>9. TableSaved' /\ CloudSound'
  BY DEF IInv, TableSaved, CloudSound, AbortSnapshot, mountVars
<1>10. QED
  BY <1>2, <1>5, <1>6, <1>7, <1>8, <1>9 DEF IInv

\* The recorded counts cover the recorded files; keys whose entry is gone or
\* that the image does not list have no recorded reference at all.
LEMMA RestoreSnapshotInvariant ==
    ASSUME IInv, NEW s \in Shots, RestoreSnapshot(s)
    PROVE  IInv'
<1> DEFINE t == chunk_table
           i == image[s]
<1>0. /\ t \in Tables /\ i \in Images /\ s \in shots
      /\ \A k \in Keys : t[k] \in Entry /\ i[k] \in ImageEntry /\ saved[s][k] \in Nat
  BY DEF IInv, TypeOK, Tables, Images, RestoreSnapshot, Counts
<1>1. /\ t' \in Tables
      /\ \A k \in Keys :
            /\ t'[k].snap = t[k].snap
            /\ ~t'[k].listed => Zero(t'[k])
            /\ (i[k].listed /\ t[k].listed) => t'[k].ref = i[k].ref
            /\ ~(i[k].listed /\ t[k].listed) => t'[k].ref = t[k].ref
  BY <1>0, RestoreFacts DEF IInv, Covers, RestoreSnapshot
<1>2. TypeOK'
  <2>1. live' \in Counts
    BY DEF IInv, TypeOK, RestoreSnapshot
  <2>2. QED
    BY <1>1, <2>1 DEF IInv, TypeOK, RestoreSnapshot, Tables, Events, shotVars, mountVars
<1>3. \A k \in Keys : Users(k)' = Users(k)
  BY UsersUnchanged DEF RestoreSnapshot, shotVars
<1>4. \A k \in Keys : i[k].ref > 0 => t[k].snap > 0 /\ t[k].listed /\ i[k].listed
  <2> SUFFICES ASSUME NEW k \in Keys, i[k].ref > 0
               PROVE  t[k].snap > 0 /\ t[k].listed /\ i[k].listed
    OBVIOUS
  <2>1. s \in Users(k)
    BY <1>0 DEF Users
  <2>2. Cardinality(Users(k)) \in Nat /\ Cardinality(Users(k)) # 0
    BY <2>1, UsersCount DEF IInv
  <2>3. t[k].snap > 0
    BY <1>0, <2>2 DEF IInv, Covers, Entry
  <2>4. QED
    BY <1>0, <2>3 DEF IInv, Covers, ShotsSound, Zero, Entry
<1>5. Covers(chunk_table)'
  <2> SUFFICES ASSUME NEW k \in Keys
               PROVE  /\ t'[k].ref >= live'[k]
                      /\ t'[k].snap >= Cardinality(Users(k)')
                      /\ ~t'[k].listed => Zero(t'[k])
    BY DEF Covers
  <2>1. live'[k] = saved[s][k] /\ i[k].ref >= saved[s][k]
    BY <1>0 DEF IInv, ShotsSound, RestoreSnapshot
  <2>2. t'[k].ref >= live'[k]
    BY <1>0, <1>1, <1>4, <2>1 DEF Entry, ImageEntry
  <2>3. QED
    BY <1>1, <1>3, <2>2 DEF IInv, Covers
<1>6. ShotsSound'
  BY DEF IInv, ShotsSound, RestoreSnapshot, shotVars
<1>7. SnapshotCountsExact'
  BY <1>1, <1>3 DEF IInv, SnapshotCountsExact, RestoreSnapshot
<1>8. RefExact' /\ StoredCounted'
  BY DEF RefExact, StoredCounted, RestoreSnapshot
<1>9. CountedStored'
  <2>1. \A k \in Keys : ~Zero(t'[k]) => ~Zero(t[k])
    BY <1>0, <1>1, <1>4 DEF Zero, Entry, ImageEntry
  <2>2. QED
    BY <2>1 DEF IInv, CountedStored, RestoreSnapshot
<1>10. TableSaved' /\ CloudSound'
  BY DEF IInv, TableSaved, CloudSound, RestoreSnapshot, mountVars
<1>11. QED
  BY <1>2, <1>5, <1>6, <1>7, <1>8, <1>9, <1>10 DEF IInv

\* Deleting a snapshot preserves the invariant.
LEMMA DeleteSnapshotInvariant ==
    ASSUME IInv, NEW s \in Shots, DeleteSnapshot(s)
    PROVE  IInv'
<1> DEFINE t == chunk_table
           i == image[s]
<1>0. /\ t \in Tables /\ i \in Images /\ s \in shots
      /\ \A k \in Keys : t[k] \in Entry /\ i[k] \in ImageEntry
  BY DEF IInv, TypeOK, Tables, Images, DeleteSnapshot
<1>1. \A k \in Keys : s \in Users(k) <=> i[k].ref > 0
  BY <1>0 DEF Users
<1>2. \A k \in Keys : i[k].ref > 0 => t[k].snap > 0 /\ t[k].listed /\ i[k].listed
  <2> SUFFICES ASSUME NEW k \in Keys, i[k].ref > 0
               PROVE  t[k].snap > 0 /\ t[k].listed /\ i[k].listed
    OBVIOUS
  <2>1. Cardinality(Users(k)) \in Nat /\ Cardinality(Users(k)) # 0
    BY <1>1, UsersCount DEF IInv
  <2>2. t[k].snap > 0
    BY <1>0, <2>1 DEF IInv, Covers, Entry
  <2>3. QED
    BY <1>0, <2>2 DEF IInv, Covers, ShotsSound, Zero, Entry
<1>3. /\ t' \in Tables
      /\ Dropped(t, i) \subseteq Keys
      /\ \A k \in Keys :
            /\ t'[k].ref = t[k].ref
            /\ t'[k].snap = IF i[k].ref > 0 THEN t[k].snap - 1 ELSE t[k].snap
            /\ ~t'[k].listed => Zero(t'[k])
            /\ k \in Dropped(t, i) => Zero(t'[k])
            /\ (Zero(t'[k]) /\ ~Zero(t[k])) => k \in Dropped(t, i)
  BY <1>0, <1>2, DeletedFacts DEF IInv, Covers, DeleteSnapshot
<1>4. /\ image' \in [Shots -> Images] /\ saved' \in [Shots -> Counts]
      /\ \A x \in shots' : image'[x] = image[x] /\ saved'[x] = saved[x]
  BY EmptyTableFacts
  DEF IInv, TypeOK, DeleteSnapshot, Images, Counts, NoCounts
<1>5. TypeOK'
  BY <1>3, <1>4 DEF IInv, TypeOK, DeleteSnapshot, Tables, Images, mountVars
<1>6. \A k \in Keys : Users(k)' = Users(k) \ {s}
  BY <1>4 DEF Users, DeleteSnapshot
<1>7. \A k \in Keys : Cardinality(Users(k)') =
            IF i[k].ref > 0 THEN Cardinality(Users(k)) - 1 ELSE Cardinality(Users(k))
  BY <1>1, <1>6, UsersCount, FS_RemoveElement DEF IInv
<1>8. Covers(chunk_table)'
  <2> SUFFICES ASSUME NEW k \in Keys
               PROVE  /\ t'[k].ref >= live'[k]
                      /\ t'[k].snap >= Cardinality(Users(k)')
                      /\ ~t'[k].listed => Zero(t'[k])
    BY DEF Covers
  <2>1. Cardinality(Users(k)) \in Nat /\ t[k].snap \in Nat /\ live' = live
    BY <1>0, UsersCount DEF IInv, Entry, DeleteSnapshot
  <2>2. t[k].ref >= live[k] /\ t[k].snap >= Cardinality(Users(k))
    BY DEF IInv, Covers
  <2>3. t'[k].snap >= Cardinality(Users(k)')
    BY <1>3, <1>7, <2>1, <2>2
  <2>4. QED
    BY <1>3, <2>1, <2>2, <2>3
<1>9. ShotsSound'
  BY <1>4 DEF IInv, ShotsSound, DeleteSnapshot
<1>10. SnapshotCountsExact'
  BY <1>3, <1>7 DEF IInv, SnapshotCountsExact, DeleteSnapshot
<1>11. RefExact'
  BY <1>3, <1>4 DEF IInv, RefExact, DeleteSnapshot
<1>12. CountedStored'
  <2>1. \A k \in Keys : ~Zero(t'[k]) => ~Zero(t[k]) /\ k \notin Dropped(t, i)
    BY <1>0, <1>2, <1>3 DEF Zero, Entry
  <2>2. QED
    BY <2>1 DEF IInv, CountedStored, DeleteSnapshot
<1>13. StoredCounted'
  <2>1. \A k \in objects' : ~Zero(t'[k]) \/ Zero(t[k])
    BY <1>3 DEF IInv, TypeOK, DeleteSnapshot
  <2>2. QED
    BY <2>1 DEF IInv, StoredCounted, DeleteSnapshot
<1>14. TableSaved' /\ CloudSound'
  BY DEF IInv, TableSaved, CloudSound, DeleteSnapshot, mountVars
<1>15. QED
  BY <1>5, <1>8, <1>9, <1>10, <1>11, <1>12, <1>13, <1>14 DEF IInv

\* An empty table that persist does not upload covers nothing because nothing
\* is needed then; so the table left on the cloud still covers it.
LEMMA UnmountInvariant ==
    ASSUME IInv, Unmount
    PROVE  IInv'
<1>1. cloud_table' = IF chunk_table = EmptyTable THEN cloud_table ELSE chunk_table
  BY DEF Unmount, Persisted
<1>2. \A k \in Keys : Users(k)' = Users(k)
  BY UsersUnchanged DEF Unmount, shotVars
<1>3. TypeOK'
  BY <1>1 DEF IInv, TypeOK, Unmount, shotVars, Events
<1>4. Covers(chunk_table)' /\ Covers(chunk_table)
  BY <1>2 DEF IInv, Covers, Unmount
<1>5. Covers(cloud_table)'
  <2>1. CASE cloud_table' = chunk_table
    BY <1>4, <2>1 DEF Covers, Unmount
  <2>2. CASE chunk_table = EmptyTable /\ cloud_table' = cloud_table
    <3> SUFFICES ASSUME NEW k \in Keys
                 PROVE  /\ cloud_table[k].ref >= live[k]
                        /\ cloud_table[k].snap >= Cardinality(Users(k))
                        /\ ~cloud_table[k].listed => Zero(cloud_table[k])
      BY <1>2, <2>2 DEF Covers, Unmount
    <3>1. live[k] = 0 /\ Cardinality(Users(k)) = 0
      BY <1>4, <2>2, EmptyTableFacts, UsersCount DEF IInv, Covers, TypeOK, Counts
    <3>2. cloud_table[k].ref \in Nat /\ cloud_table[k].snap \in Nat
      BY DEF IInv, TypeOK, Entry
    <3>3. ~cloud_table[k].listed => Zero(cloud_table[k])
      BY DEF IInv, CloudSound
    <3>4. QED
      BY <3>1, <3>2, <3>3
  <2>3. QED
    BY <1>1, <2>1, <2>2
<1>6. TableSaved'
  BY <1>5 DEF TableSaved, Unmount
<1>7. ShotsSound' /\ SnapshotCountsExact' /\ RefExact' /\ CountedStored' /\ StoredCounted'
  BY <1>2 DEF IInv, ShotsSound, SnapshotCountsExact, RefExact, CountedStored,
              StoredCounted, Unmount, shotVars
<1>8. CloudSound'
  BY <1>5 DEF CloudSound, Covers
<1>9. QED
  BY <1>3, <1>4, <1>6, <1>7, <1>8 DEF IInv

\* Mounting preserves the invariant.
LEMMA MountInvariant ==
    ASSUME IInv, Mount
    PROVE  IInv'
<1>1. \A k \in Keys : Users(k)' = Users(k)
  BY UsersUnchanged DEF Mount, shotVars
<1>2. Covers(cloud_table) /\ ("stale" \notin past => chunk_table' = chunk_table)
  BY DEF IInv, TableSaved, Mount
<1>3. TypeOK'
  BY BoundsAssumption DEF IInv, TypeOK, Mount, shotVars
<1>4. Covers(chunk_table)'
  BY <1>1, <1>2 DEF Covers, Mount
<1>5. SnapshotCountsExact' /\ RefExact' /\ CountedStored' /\ StoredCounted'
  BY <1>1, <1>2 DEF IInv, SnapshotCountsExact, RefExact, CountedStored,
                    StoredCounted, Mount, shotVars
<1>6. ShotsSound' /\ TableSaved' /\ CloudSound'
  BY DEF IInv, ShotsSound, TableSaved, CloudSound, Mount, shotVars
<1>7. QED
  BY <1>3, <1>4, <1>5, <1>6 DEF IInv

\* Every step preserves the invariant, stuttering steps included.
LEMMA NextInvariant == IInv /\ [Next]_vars => IInv'
<1> SUFFICES ASSUME IInv, [Next]_vars PROVE IInv'
  OBVIOUS
<1>1. ASSUME NEW k \in Keys, UseChunk(k) PROVE IInv'
  BY <1>1, UseChunkInvariant
<1>2. ASSUME NEW k \in Keys, ReleaseChunk(k) PROVE IInv'
  BY <1>2, ReleaseChunkInvariant
<1>3. CASE TakeSnapshot
  BY <1>3, TakeSnapshotInvariant
<1>4. CASE AbortSnapshot
  BY <1>4, AbortSnapshotInvariant
<1>5. ASSUME NEW s \in Shots, RestoreSnapshot(s) PROVE IInv'
  BY <1>5, RestoreSnapshotInvariant
<1>6. ASSUME NEW s \in Shots, DeleteSnapshot(s) PROVE IInv'
  BY <1>6, DeleteSnapshotInvariant
<1>7. CASE Unmount
  BY <1>7, UnmountInvariant
<1>8. CASE Mount
  BY <1>8, MountInvariant
<1>9. CASE UNCHANGED vars
  <2>1. \A k \in Keys : Users(k)' = Users(k)
    BY <1>9, UsersUnchanged DEF vars
  <2>2. QED
    BY <1>9, <2>1 DEF vars, IInv, TypeOK, Covers, CloudSound, ShotsSound,
       SnapshotCountsExact, RefExact, CountedStored, StoredCounted, TableSaved
<1>10. QED
  BY <1>1, <1>2, <1>3, <1>4, <1>5, <1>6, <1>7, <1>8, <1>9 DEF Next

(***************************************************************************)
(* The inductive invariant: the counts cover what they count, in memory    *)
(* and on the cloud, through every operation of the chunk table.           *)
(***************************************************************************)
THEOREM Invariance == Spec => []IInv
  BY InitInvariant, NextInvariant, PTL DEF Spec

-----------------------------------------------------------------------------
(***************************************************************************)
(* Every count of the table stays a natural number, in memory and on the   *)
(* cloud: no sequence of operations drives one negative.                   *)
(***************************************************************************)
THEOREM TypeCorrect == Spec => []TypeOK
  BY Invariance, PTL DEF IInv

(***************************************************************************)
(* No chunk that a live file or a snapshot needs is deleted from the       *)
(* store, for any keys and any number of snapshots and mounts.             *)
(***************************************************************************)
THEOREM ChunksNeverLost == Spec => []NoChunkLost
<1>1. IInv => NoChunkLost
  <2> SUFFICES ASSUME IInv, "stale" \notin past, NEW k \in Keys, Needed(k)
               PROVE  k \in objects
    BY DEF NoChunkLost
  <2>1. chunk_table[k] \in Entry /\ live[k] \in Nat
    BY DEF IInv, TypeOK, Counts
  <2>2. CASE live[k] > 0
    BY <2>1, <2>2 DEF IInv, Covers, CountedStored, Zero, Entry
  <2>3. CASE \E s \in shots : saved[s][k] > 0
    <3>1. PICK s \in shots : saved[s][k] > 0
      BY <2>3
    <3>2. image[s][k].ref \in Nat /\ saved[s][k] \in Nat
      BY DEF IInv, TypeOK, ImageEntry, Counts
    <3>3. s \in Users(k)
      BY <3>1, <3>2 DEF IInv, ShotsSound, Users
    <3>4. Cardinality(Users(k)) \in Nat /\ Cardinality(Users(k)) # 0
      BY <3>3, UsersCount DEF IInv
    <3>5. chunk_table[k].snap > 0
      BY <2>1, <3>4 DEF IInv, Covers, Entry
    <3>6. QED
      BY <2>1, <3>5 DEF IInv, CountedStored, Zero, Entry
  <2>4. QED
    BY <2>2, <2>3 DEF Needed
<1>2. QED
  BY <1>1, Invariance, PTL

(***************************************************************************)
(* Every stored chunk is needed by a live file or by a snapshot, until a   *)
(* snapshot is restored or fails or a table is left stale.                 *)
(***************************************************************************)
THEOREM ChunksNeverLeaked == Spec => []NoChunkLeaked
<1>1. IInv => NoChunkLeaked
  <2> SUFFICES ASSUME IInv, past = {}, NEW k \in objects
               PROVE  Needed(k)
    BY DEF NoChunkLeaked
  <2>1. k \in Keys /\ chunk_table[k] \in Entry
    BY DEF IInv, TypeOK
  <2>2. CASE chunk_table[k].ref > 0
    BY <2>1, <2>2 DEF IInv, RefExact, Needed
  <2>3. CASE chunk_table[k].ref = 0
    <3>1. chunk_table[k].snap # 0
      BY <2>3 DEF IInv, StoredCounted, Zero
    <3>2. Users(k) # {}
      BY <2>1, <3>1, UsersCount DEF IInv, SnapshotCountsExact
    <3>3. QED
      BY <2>1, <3>2 DEF IInv, RefExact, Users, Needed
  <2>4. QED
    BY <2>1, <2>2, <2>3 DEF Entry
<1>2. QED
  BY <1>1, Invariance, PTL

(***************************************************************************)
(* snapshot_ref_count_ equals the number of snapshots that use the chunk   *)
(* until creating a snapshot fails half way or a table is left stale.      *)
(***************************************************************************)
THEOREM SnapshotCounts == Spec => []SnapshotCountsExact
  BY Invariance, PTL DEF IInv

(***************************************************************************)
(* Releasing a chunk of a live file always finds the chunk in the table    *)
(* with a positive count.                                                  *)
(***************************************************************************)
THEOREM ReleaseSafe == Spec => []ReleaseNeverThrows
<1>1. IInv => ReleaseNeverThrows
  BY DEF IInv, TypeOK, Covers, ReleaseNeverThrows, Zero, Entry, Counts
<1>2. QED
  BY <1>1, Invariance, PTL

(***************************************************************************)
(* Chunks are uploaded only when no object is stored under their key and   *)
(* deleted only when one is, until a snapshot is restored or fails or a    *)
(* table is left stale.                                                    *)
(***************************************************************************)
THEOREM CallsFit == Spec => []CallsFitTheStore
<1>1. IInv => CallsFitTheStore
  <2> SUFFICES ASSUME IInv, past = {}, NEW k \in Keys
               PROVE  /\ UseIsNew(chunk_table, k) => k \notin objects
                      /\ live[k] > 0 /\ ReleaseIsLast(chunk_table, k) => k \in objects
    BY DEF CallsFitTheStore
  <2>1. chunk_table \in Tables /\ chunk_table[k] \in Entry
    BY DEF IInv, TypeOK, Tables
  <2>2. UseIsNew(chunk_table, k) => k \notin objects
    BY <2>1, UseFacts DEF IInv, StoredCounted
  <2>3. live[k] > 0 => ~Zero(chunk_table[k])
    BY <2>1 DEF IInv, Covers, TypeOK, Counts, Zero, Entry
  <2>4. QED
    BY <2>2, <2>3 DEF IInv, CountedStored
<1>2. QED
  BY <1>1, Invariance, PTL
=============================================================================
