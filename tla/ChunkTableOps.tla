--------------------------- MODULE ChunkTableOps ---------------------------
(***************************************************************************)
(* The operations of class ChunkTable (chunk_table.cc) as functions of the *)
(* table.  A table gives every key an entry; a key the unordered_map lacks *)
(* has the entry Absent.  The image of a table is the part of it that a    *)
(* snapshot object carries: the keys listed and their ref_count_.          *)
(***************************************************************************)
EXTENDS Integers

CONSTANT Keys       \* chunk keys: the digest of a chunk stands for its content

Absent == [listed |-> FALSE, ref |-> 0, snap |-> 0]
Entry == [listed : BOOLEAN, ref : Nat, snap : Nat]
EmptyTable == [k \in Keys |-> Absent]

Zero(e) == e.ref = 0 /\ e.snap = 0

\* chunk_table_[key] creates the entry when the map lacks it.
Use(t, k) ==
    [t EXCEPT ![k] = [listed |-> TRUE, ref |-> @.ref + 1, snap |-> @.snap]]

Mut_SecondRefIsNew(t, k) == t[k].ref = 0
UseIsNew(t, k) == Use(t, k)[k].ref = 1 /\ Use(t, k)[k].snap = 0

Released(e) == [e EXCEPT !.ref = @ - 1]

Mut_ReleaseIgnoresSnapshots(t, k) == Released(t[k]).ref = 0
ReleaseIsLast(t, k) == Zero(Released(t[k]))

Release(t, k) == [t EXCEPT ![k] = IF ReleaseIsLast(t, k) THEN Absent ELSE Released(@)]

Image(t) == [k \in Keys |-> [listed |-> t[k].listed, ref |-> t[k].ref]]
ImageEntry == [listed : BOOLEAN, ref : Nat]

Mut_SnapshotCountsZombies(t) ==
    [k \in Keys |-> IF t[k].listed THEN [t[k] EXCEPT !.snap = @ + 1] ELSE t[k]]
Snapshot(t) ==
    [k \in Keys |-> IF t[k].ref > 0 THEN [t[k] EXCEPT !.snap = @ + 1] ELSE t[k]]

\* A listed key takes the image's count; a key the image lists with no
\* references is entered afresh; a key the image does not list is untouched.
RestoredEntry(e, i) ==
    IF i.listed /\ e.listed THEN [e EXCEPT !.ref = i.ref]
    ELSE IF i.listed /\ i.ref = 0 THEN [Absent EXCEPT !.listed = TRUE]
    ELSE e
Restore(t, image) == [k \in Keys |-> RestoredEntry(t[k], image[k])]

Mut_DiscountAll(e, i) == [e EXCEPT !.snap = @ - 1]
Discounted(e, i) == IF i.ref > 0 THEN [e EXCEPT !.snap = @ - 1] ELSE e

\* The keys snapshot_deleted erases, whose objects it deletes.
Mut_DeleteIgnoresLiveRefs(t, image) ==
    {k \in Keys : t[k].listed /\ image[k].listed /\ Discounted(t[k], image[k]).snap = 0}
Mut_DropBeforeDiscount(t, image) ==
    {k \in Keys : t[k].listed /\ image[k].listed /\ Zero(t[k])}
Dropped(t, image) ==
    {k \in Keys : t[k].listed /\ image[k].listed /\ Zero(Discounted(t[k], image[k]))}

SnapshotDeleted(t, image) ==
    [k \in Keys |-> IF k \in Dropped(t, image) THEN Absent
                    ELSE IF t[k].listed THEN Discounted(t[k], image[k])
                    ELSE t[k]]
=============================================================================
