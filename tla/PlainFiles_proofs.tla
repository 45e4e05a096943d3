-------------------------- MODULE PlainFiles_proofs --------------------------
(***************************************************************************)
(* Proofs about PlainFiles.                                                *)
(***************************************************************************)
EXTENDS PlainFiles, TLAPS

\* A content is a sequence of at most MaxSize units.
LEMMA ContentFacts ==
    /\ \A c \in Contents : c \in Seq(Units) /\ Len(c) \in 0..MaxSize /\ c # None /\ c # Lost
    /\ <<>> \in Contents /\ Len(<<>>) = 0
    /\ \A n \in 0..MaxSize : [1..n -> Units] \subseteq Contents
<1>1. \A n \in 0..MaxSize : [1..n -> Units] \subseteq Contents
  BY DEF Contents, SeqsUpTo
<1>2. ASSUME NEW c \in Contents
      PROVE  c \in Seq(Units) /\ Len(c) \in 0..MaxSize /\ c # None /\ c # Lost
  <2>1. PICK m \in 0..MaxSize : c \in [1..m -> Units]
    BY DEF Contents, SeqsUpTo
  <2>2. c \in Seq(Units) /\ Len(c) = m
    BY <2>1, SizesAssumption
  <2>3. QED
    BY <2>2, NoContentAssumption
<1>3. <<>> \in Contents /\ Len(<<>>) = 0
  <2>1. <<>> \in [1..0 -> Units]
    OBVIOUS
  <2>2. 0 \in 0..MaxSize
    BY SizesAssumption
  <2>3. <<>> \in Contents
    BY <2>1, <2>2, <1>1
  <2>4. QED
    BY <2>3
<1>4. QED
  BY <1>1, <1>2, <1>3

\* Truncating and writing keep within the bound.
LEMMA ResizedFacts ==
    ASSUME NEW c \in Contents, NEW n \in 0..MaxSize
    PROVE  Resized(c, n) \in Contents
<1>1. Resized(c, n) \in [1..n -> Units]
  BY ContentFacts, UnitsAssumption DEF Resized
<1>2. QED
  BY <1>1, ContentFacts

\* So does pwrite.
LEMMA OverwriteFacts ==
    ASSUME NEW c \in Contents, NEW offset \in 0..MaxSize, NEW data \in Data,
           offset + Len(data) <= MaxSize
    PROVE  Overwrite(c, offset, data) \in Contents
<1>1. c \in Seq(Units) /\ Len(c) \in 0..MaxSize
  BY ContentFacts
<1>2. data \in Seq(Units) /\ Len(data) \in Nat
  <2>1. PICK m \in 0..MaxWrite : data \in [1..m -> Units]
    BY DEF Data, SeqsUpTo
  <2>2. data \in Seq(Units) /\ Len(data) = m
    BY <2>1, SizesAssumption
  <2>3. QED
    BY <2>2
<1> DEFINE n == Max({Len(c), offset + Len(data)})
<1>3. n \in 0..MaxSize /\ n >= Len(c) /\ n >= offset + Len(data)
  <2> DEFINE S == {Len(c), offset + Len(data)}
  <2>1. \E x \in S : \A y \in S : x >= y
    BY <1>1, <1>2, SizesAssumption
  <2>2. n \in S /\ \A y \in S : n >= y
    BY <2>1 DEF Max
  <2>3. QED
    BY <2>2, <1>1, <1>2, SizesAssumption
<1>4. Overwrite(c, offset, data) \in [1..n -> Units]
  BY <1>1, <1>2, <1>3, UnitsAssumption DEF Overwrite
<1>5. QED
  BY <1>3, <1>4, ContentFacts

-----------------------------------------------------------------------------
(* The inductive invariant.                                                *)

HasDirty(i) == \E fd \in OpenOn(i) : open_files_[fd].dirty

\* Every file has a buffer file of its own, and an object of its own if it
\* is on the cloud.
OwnPaths ==
    /\ \A i \in Inodes : buffer_path[i] # None <=> Linked(i)
    /\ \A i, j \in Inodes : Linked(i) /\ Linked(j) /\ buffer_path[i] = buffer_path[j] => i = j
    /\ \A i, j \in Inodes :
          Linked(i) /\ Linked(j) /\ is_on_cloud[i] /\ is_on_cloud[j] /\ Key(i) = Key(j) => i = j
    /\ \A i \in lost \union truncated \union interrupted : Linked(i)

ObjectsOwned ==
    \A k \in Keys \ orphans : cloud[k] # None =>
        \E i \in Inodes : Linked(i) /\ is_on_cloud[i] /\ Key(i) = k

\* What buffer file, size and object of one file are to each other.
FileOK(i) ==
    Linked(i) /\ i \notin lost =>
        /\ is_on_cloud[i] => cloud[Key(i)] # None
        /\ is_on_cloud[i] /\ OpenOn(i) # {} /\ i \notin truncated /\ ~HasDirty(i) =>
              Buffer(i) = cloud[Key(i)]
        /\ ~is_on_cloud[i] /\ i \notin truncated => Size(i) = Len(Buffer(i))
        /\ ~is_on_cloud[i] /\ i \notin interrupted /\ ~HasDirty(i) => Size(i) <= Threshold
        /\ is_on_cloud[i] /\ i \notin interrupted /\ OpenOn(i) = {} =>
              Len(Buffer(i)) = 0 /\ Size(i) = Len(cloud[Key(i)])
        /\ is_on_cloud[i] /\ i \notin interrupted /\ OpenOn(i) # {} /\ i \notin truncated =>
              Size(i) = Len(Buffer(i))

FilesOK == OwnPaths /\ ObjectsOwned /\ \A i \in Inodes : FileOK(i)

IInv == TypeOK /\ (past = {} => FilesOK)

-----------------------------------------------------------------------------
(* Facts about single files.                                               *)

\* What the type invariant says of a file that has a name.
LEMMA LinkedFacts ==
    ASSUME TypeOK, past = {}, NEW i \in Inodes, Linked(i)
    PROVE  /\ buffer_path[i] \in Names /\ Buffer(i) \in Contents
           /\ Size(i) \in 0..MaxSize /\ Key(i) \in Keys
<1>1. PICK n \in Names : dir[n] = i
  BY DEF Linked
<1>2. buffer_path[i] # None /\ buffer[buffer_path[i]] # None /\ buffer_path[i] \in Names \union {None}
  BY <1>1, NoneAssumption DEF TypeOK
<1>3. QED
  BY <1>2, KeyAssumption DEF TypeOK, Buffer, Size, Key

\* What it says of an open descriptor.
LEMMA OpenFacts ==
    ASSUME TypeOK, NEW fd \in Fds, IsOpen(fd)
    PROVE  /\ InodeOf(fd) \in Inodes /\ Linked(InodeOf(fd)) /\ fd \in OpenOn(InodeOf(fd))
           /\ open_files_[fd].name \in Names
<1>1. open_files_[fd].name \in Names /\ dir[open_files_[fd].name] # None
  BY DEF TypeOK, IsOpen
<1>2. QED
  BY <1>1 DEF TypeOK, InodeOf, Linked, OpenOn

\* A step keeps a file: its buffer file, its object and their attributes.
Kept(j) ==
    /\ Buffer(j)' = Buffer(j) /\ Size(j)' = Size(j) /\ Key(j)' = Key(j)
    /\ is_on_cloud'[j] = is_on_cloud[j]
    /\ is_on_cloud[j] => cloud'[Key(j)] = cloud[Key(j)]

\* And leaves it alone.
Untouched(j) ==
    /\ Kept(j)
    /\ OpenOn(j)' = OpenOn(j) /\ (HasDirty(j)' <=> HasDirty(j))
    /\ j \in lost <=> j \in lost'
    /\ j \in truncated <=> j \in truncated'
    /\ j \in interrupted <=> j \in interrupted'

OthersUntouched(i) == \A j \in Inodes \ {i} : Linked(j) => Untouched(j)

\* Then it keeps its invariant.
LEMMA UntouchedFile ==
    ASSUME NEW j \in Inodes, FileOK(j), Linked(j)' => Linked(j) /\ Untouched(j)
    PROVE  FileOK(j)'
  BY DEF FileOK, Untouched, Kept

-----------------------------------------------------------------------------
(* The invariant is inductive; one lemma per action.                       *)

\* No file, no descriptor, no object.
LEMMA Initially == Init => IInv
<1> SUFFICES ASSUME Init PROVE IInv
  OBVIOUS
<1>1. \A i \in Inodes : ~Linked(i)
  BY NoneAssumption DEF Init, Linked
<1>2. TypeOK
  BY SizesAssumption DEF Init, TypeOK, Closed
<1>3. OwnPaths
  BY <1>1, NoneAssumption DEF Init, OwnPaths
<1>4. QED
  BY <1>1, <1>2, <1>3 DEF Init, IInv, FilesOK, ObjectsOwned, FileOK

\* A created file is local and empty; its buffer file was nobody's.
LEMMA CreateStep ==
    ASSUME IInv, NEW n \in Names, NEW i \in Inodes, NEW fd \in Fds, Create(n, i, fd)
    PROVE  IInv' /\ (past' = {} => OthersUntouched(i))
<1> USE DEF IInv, Create, CreateFile, Idle
<1>1. \A j \in Inodes : Linked(j)' <=> Linked(j) \/ j = i
  BY NoneAssumption DEF Linked, TypeOK
<1>2. /\ OpenOn(i)' = {fd}
      /\ \A j \in Inodes \ {i} : OpenOn(j)' = OpenOn(j) /\ fd \notin OpenOn(j)
  BY NoneAssumption DEF OpenOn, IsOpen, InodeOf, TypeOK, Linked
<1>3. TypeOK'
  <2>1. \A m \in Names : dir'[m] # None => buffer_path'[dir'[m]] # None
    BY NoneAssumption DEF TypeOK
  <2>2. \A m \in Names : dir'[m] # None => buffer'[buffer_path'[dir'[m]]] # None
    BY <2>1, NoneAssumption, ContentFacts DEF TypeOK, Linked
  <2>3. \A f \in Fds : open_files_'[f].name # None => dir'[open_files_'[f].name] # None
    BY NoneAssumption DEF TypeOK
  <2>4. open_files_' \in [Fds -> [name : Names \union {None}, dirty : BOOLEAN]]
    BY DEF TypeOK
  <2>5. QED
    BY <2>1, <2>2, <2>3, <2>4, ContentFacts, SizesAssumption DEF TypeOK, Events
<1>4. ASSUME past' = {}
      PROVE  FilesOK' /\ OthersUntouched(i)
  <2>1. buffer[n] = None
    BY <1>4
  <2>2. \A j \in Inodes : Linked(j) => buffer_path[j] # n
    BY <2>1, LinkedFacts, ContentFacts DEF Buffer
  <2>3. OwnPaths'
    BY <1>1, <2>2, NoneAssumption DEF OwnPaths, FilesOK, TypeOK, Key
  <2>4. ObjectsOwned'
    BY <1>1 DEF ObjectsOwned, FilesOK, TypeOK, Key
  <2>5. FileOK(i)'
    <3>1. Size(i)' = 0 /\ Buffer(i)' = <<>> /\ ~is_on_cloud'[i]
      BY DEF Size, Buffer, TypeOK
    <3>2. QED
      BY <3>1, ContentFacts, SizesAssumption DEF FileOK
  <2>6. OthersUntouched(i)
    <3> SUFFICES ASSUME NEW j \in Inodes \ {i}, Linked(j) PROVE Untouched(j)
      BY DEF OthersUntouched
    <3>1. Kept(j)
      BY <2>2 DEF Kept, Buffer, Size, Key, TypeOK
    <3>2. OpenOn(j)' = OpenOn(j) /\ (HasDirty(j)' <=> HasDirty(j))
      BY <1>2 DEF HasDirty, OpenOn, TypeOK
    <3>3. QED
      BY <3>1, <3>2 DEF Untouched
  <2>7. \A j \in Inodes \ {i} : FileOK(j)'
    BY <1>1, <2>6, UntouchedFile DEF FilesOK, OthersUntouched
  <2>8. QED
    BY <2>3, <2>4, <2>5, <2>6, <2>7 DEF FilesOK
<1>5. QED
  BY <1>3, <1>4

\* Steps that change names but neither files nor descriptors.
LEMMA NamesStep ==
    ASSUME IInv, past = {},
           UNCHANGED <<inodeVars, buffer, size, cloud, open_files_,
                       truncated, interrupted, orphans, lost, past>>,
           dir' \in [Names -> Inodes \union {None}],
           \A i \in Inodes : Linked(i)' <=> Linked(i),
           \A fd \in Fds : IsOpen(fd) => InodeOf(fd)' = InodeOf(fd)
    PROVE  IInv'
<1> USE DEF IInv, inodeVars
<1>1. TypeOK'
  <2>1. ASSUME NEW n \in Names, dir'[n] # None
        PROVE  buffer_path[dir'[n]] # None /\ buffer[buffer_path[dir'[n]]] # None
    <3>1. dir'[n] \in Inodes /\ Linked(dir'[n])
      BY <2>1 DEF Linked
    <3>2. PICK m \in Names : dir[m] = dir'[n]
      BY <3>1 DEF Linked
    <3>3. QED
      BY <2>1, <3>2 DEF TypeOK
  <2>2. ASSUME NEW fd \in Fds, open_files_[fd].name # None
        PROVE  dir'[open_files_[fd].name] # None
    BY <2>2 DEF TypeOK, IsOpen, InodeOf
  <2>3. QED
    BY <2>1, <2>2 DEF TypeOK
<1>2. \A j \in Inodes : OpenOn(j)' = OpenOn(j)
  BY DEF OpenOn, IsOpen
<1>3. \A j \in Inodes : HasDirty(j)' <=> HasDirty(j)
  BY <1>2 DEF HasDirty
<1>4. \A j \in Inodes : Buffer(j)' = Buffer(j) /\ Size(j)' = Size(j) /\ Key(j)' = Key(j)
  BY DEF Buffer, Size, Key
<1>5. OwnPaths' /\ ObjectsOwned'
  BY <1>4 DEF FilesOK, OwnPaths, ObjectsOwned, TypeOK
<1>6. \A j \in Inodes : FileOK(j)'
  BY <1>2, <1>3, <1>4 DEF FilesOK, FileOK
<1>7. QED
  BY <1>1, <1>5, <1>6 DEF FilesOK

\* A link is another name of the same file.
LEMMA LinkStep ==
    ASSUME IInv, NEW n \in Names, NEW new \in Names, Link(n, new)
    PROVE  IInv'
<1> USE DEF Link, Idle
<1>1. dir' \in [Names -> Inodes \union {None}]
  BY DEF IInv, TypeOK
<1>2. \A i \in Inodes : Linked(i)' <=> Linked(i)
  BY NoneAssumption DEF IInv, TypeOK, Linked
<1>3. \A fd \in Fds : IsOpen(fd) => InodeOf(fd)' = InodeOf(fd)
  BY DEF IInv, TypeOK, IsOpen, InodeOf
<1>4. QED
  BY <1>1, <1>2, <1>3, NamesStep

\* Unlinking a name that is not the last, nor open.
LEMMA UnlinkNameStep ==
    ASSUME IInv, NEW n \in Names, UnlinkName(n)
    PROVE  IInv'
<1> USE DEF UnlinkName, Idle, Unlinkable
<1>1. dir' \in [Names -> Inodes \union {None}]
  BY DEF IInv, TypeOK
<1>2. \A i \in Inodes : Linked(i)' <=> Linked(i)
  BY NoneAssumption DEF IInv, TypeOK, Linked
<1>3. \A fd \in Fds : IsOpen(fd) => InodeOf(fd)' = InodeOf(fd)
  BY DEF IInv, TypeOK, IsOpen, InodeOf
<1>4. QED
  BY <1>1, <1>2, <1>3, NamesStep

\* Unlinking the last name takes the file with its buffer file and object.
LEMMA UnlinkLastStep ==
    ASSUME IInv, NEW n \in Names, UnlinkLast(n)
    PROVE  IInv' /\ OthersUntouched(dir[n])
<1> USE DEF IInv, UnlinkLast, Idle, Unlinkable
<1> PICK i \in Inodes : i = dir[n]
  BY NoneAssumption DEF TypeOK
<1>1. i \in Inodes /\ Linked(i) /\ past = {} /\ past' = {} /\ FilesOK
  BY DEF TypeOK, Linked
<1>2. /\ buffer_path[i] \in Names /\ Key(i) \in Keys
      /\ \A j \in Inodes : Linked(j)' <=> Linked(j) /\ j # i
  BY <1>1, LinkedFacts, NoneAssumption DEF Linked, TypeOK
<1>3. \A j \in Inodes \ {i} :
         /\ Linked(j) => buffer_path[j] \in Names /\ buffer_path[j] # buffer_path[i]
         /\ buffer_path'[j] = buffer_path[j] /\ is_on_cloud'[j] = is_on_cloud[j]
  BY <1>1, LinkedFacts DEF FilesOK, OwnPaths, TypeOK
<1>4. TypeOK'
  <2>1. \A m \in Names : dir'[m] # None =>
           dir'[m] = dir[m] /\ dir[m] \in Inodes \ {i} /\ Linked(dir[m])
    BY NoneAssumption DEF TypeOK, Linked
  <2>2. \A m \in Names : dir'[m] # None => buffer_path'[dir'[m]] # None
    BY <2>1 DEF TypeOK
  <2>3. \A m \in Names : dir'[m] # None => buffer'[buffer_path'[dir'[m]]] # None
    BY <1>1, <1>3, <2>1 DEF TypeOK
  <2>4. \A fd \in Fds : open_files_[fd].name # None => dir'[open_files_[fd].name] # None
    BY DEF TypeOK
  <2>5. cloud' \in [Keys -> Contents \union {None}]
    BY DEF ObjectDeleted, TypeOK
  <2>6. QED
    BY <1>1, <2>2, <2>3, <2>4, <2>5, SizesAssumption DEF TypeOK
<1>5. \A j \in Inodes \ {i} : OpenOn(j)' = OpenOn(j) /\ (HasDirty(j)' <=> HasDirty(j))
  <2>1. \A j \in Inodes \ {i} : OpenOn(j)' = OpenOn(j)
    BY DEF OpenOn, IsOpen, InodeOf, TypeOK
  <2>2. QED
    BY <2>1 DEF HasDirty
<1>6. \A j \in Inodes \ {i} : Linked(j) =>
         /\ Buffer(j)' = Buffer(j) /\ Size(j)' = Size(j) /\ Key(j)' = Key(j)
         /\ is_on_cloud[j] => cloud'[Key(j)] = cloud[Key(j)]
  <2>1. \A j \in Inodes \ {i} : Linked(j) =>
           Buffer(j)' = Buffer(j) /\ Size(j)' = Size(j) /\ Key(j)' = Key(j)
    BY <1>3 DEF Buffer, Size, Key, TypeOK
  <2>2. \A j \in Inodes \ {i} : Linked(j) /\ is_on_cloud[j] => cloud'[Key(j)] = cloud[Key(j)]
    BY <1>1, <1>2 DEF ObjectDeleted, FilesOK, OwnPaths, TypeOK
  <2>3. QED
    BY <2>1, <2>2
<1>7. OwnPaths'
  <2>1. \A j \in Inodes : buffer_path'[j] # None <=> Linked(j)'
    BY <1>1, <1>2, <1>3 DEF FilesOK, OwnPaths, TypeOK
  <2>2. \A j \in lost' \union truncated' \union interrupted' : Linked(j)'
    BY <1>1, <1>2 DEF FilesOK, OwnPaths, TypeOK
  <2>3. QED
    BY <1>1, <1>2, <1>3, <1>6, <2>1, <2>2 DEF FilesOK, OwnPaths
<1>8. ObjectsOwned'
  <2> SUFFICES ASSUME NEW k \in Keys \ orphans, cloud'[k] # None
               PROVE  \E j \in Inodes : Linked(j)' /\ is_on_cloud'[j] /\ Key(j)' = k
    BY DEF ObjectsOwned
  <2>1. cloud[k] # None /\ (is_on_cloud[i] => k # Key(i))
    BY <1>2 DEF ObjectDeleted, TypeOK
  <2>2. PICK j \in Inodes : Linked(j) /\ is_on_cloud[j] /\ Key(j) = k
    BY <1>1, <2>1 DEF FilesOK, ObjectsOwned
  <2>3. QED
    BY <1>2, <1>3, <1>6, <2>1, <2>2
<1>9. OthersUntouched(i)
  BY <1>3, <1>5, <1>6 DEF OthersUntouched, Untouched, Kept
<1>10. \A j \in Inodes : FileOK(j)'
  <2>1. FileOK(i)'
    BY <1>1, <1>2 DEF FileOK
  <2>2. \A j \in Inodes \ {i} : FileOK(j)'
    BY <1>1, <1>2, <1>9, UntouchedFile DEF FilesOK, OthersUntouched
  <2>3. QED
    BY <2>1, <2>2
<1>11. QED
  BY <1>1, <1>4, <1>7, <1>8, <1>9, <1>10 DEF FilesOK

-----------------------------------------------------------------------------
(* Steps on one open or closed file.                                       *)

\* A descriptor that is opened, closed or written to concerns one file.
LEMMA DescriptorStep ==
    ASSUME TypeOK, NEW fd \in Fds, NEW i \in Inodes, UNCHANGED dir,
           \A f \in Fds \ {fd} : open_files_'[f] = open_files_[f],
           IsOpen(fd) => InodeOf(fd) = i, IsOpen(fd)' => InodeOf(fd)' = i
    PROVE  /\ \A j \in Inodes \ {i} : OpenOn(j)' = OpenOn(j) /\ (HasDirty(j)' <=> HasDirty(j))
           /\ OpenOn(i)' = IF open_files_'[fd].name = None THEN OpenOn(i) \ {fd}
                                                           ELSE OpenOn(i) \union {fd}
           /\ HasDirty(i)' <=> \/ IsOpen(fd)' /\ open_files_'[fd].dirty
                               \/ \E f \in OpenOn(i) \ {fd} : open_files_[f].dirty
<1>1. \A j \in Inodes \ {i} : OpenOn(j)' = OpenOn(j) /\ fd \notin OpenOn(j)
  BY DEF OpenOn, IsOpen, InodeOf
<1>2. OpenOn(i)' = IF open_files_'[fd].name = None THEN OpenOn(i) \ {fd} ELSE OpenOn(i) \union {fd}
  BY DEF OpenOn, IsOpen, InodeOf
<1>3. \A j \in Inodes \ {i} : HasDirty(j)' <=> HasDirty(j)
  BY <1>1 DEF HasDirty, OpenOn
<1>4. HasDirty(i)' <=> \E f \in OpenOn(i)' : open_files_'[f].dirty
  BY DEF HasDirty
<1>5. OpenOn(i) \subseteq Fds
  BY DEF OpenOn
<1>6. HasDirty(i)' <=> \/ IsOpen(fd)' /\ open_files_'[fd].dirty
                       \/ \E f \in OpenOn(i) \ {fd} : open_files_[f].dirty
  BY <1>2, <1>4, <1>5 DEF IsOpen
<1>7. QED
  BY <1>1, <1>2, <1>3, <1>6

\* The files that a step on one file leaves alone.
LEMMA OtherFilesOK ==
    ASSUME IInv, past = {}, NEW i \in Inodes, Linked(i), UNCHANGED <<dir, buffer_path>>,
           \A m \in Names \ {buffer_path[i]} : buffer'[m] = buffer[m] /\ size'[m] = size[m],
           \A j \in Inodes \ {i} :
              /\ is_on_cloud'[j] = is_on_cloud[j]
              /\ OpenOn(j)' = OpenOn(j) /\ (HasDirty(j)' <=> HasDirty(j))
              /\ j \in lost <=> j \in lost'
              /\ j \in truncated <=> j \in truncated'
              /\ j \in interrupted <=> j \in interrupted'
              /\ Linked(j) /\ is_on_cloud[j] => cloud'[Key(j)] = cloud[Key(j)]
    PROVE  OthersUntouched(i) /\ \A j \in Inodes \ {i} : FileOK(j)'
<1>1. ASSUME NEW j \in Inodes \ {i}, Linked(j) PROVE Untouched(j)
  <2>1. buffer_path[j] \in Names \ {buffer_path[i]}
    BY <1>1, LinkedFacts DEF IInv, FilesOK, OwnPaths
  <2>2. Kept(j)
    BY <1>1, <2>1 DEF Kept, Buffer, Size, Key
  <2>3. QED
    BY <2>2 DEF Untouched
<1>2. \A j \in Inodes : Linked(j)' => Linked(j)
  BY DEF Linked
<1>3. QED
  BY <1>1, <1>2, UntouchedFile DEF OthersUntouched, IInv, FilesOK

\* What such a step keeps of the paths.
LEMMA SamePaths ==
    ASSUME IInv, past = {}, NEW i \in Inodes, Linked(i), UNCHANGED <<dir, buffer_path>>,
           lost' \subseteq lost \union {i}, truncated' \subseteq truncated \union {i},
           \A j \in interrupted' : Linked(j),
           \A j \in Inodes \ {i} : is_on_cloud'[j] = is_on_cloud[j],
           is_on_cloud'[i] => is_on_cloud[i] \/ ~Collides(i)
    PROVE  OwnPaths'
<1>1. \A j \in Inodes : (Linked(j)' <=> Linked(j)) /\ Key(j)' = Key(j)
  BY DEF Linked, Key
<1>2. \A j, k \in Inodes : Linked(j) /\ Linked(k) /\ is_on_cloud'[j] /\ is_on_cloud'[k]
                           /\ Key(j) = Key(k) => j = k
  BY DEF IInv, FilesOK, OwnPaths, Collides
<1>3. \A j \in lost' \union truncated' \union interrupted' : Linked(j)'
  BY <1>1 DEF IInv, FilesOK, OwnPaths, TypeOK, Linked
<1>4. QED
  BY <1>1, <1>2, <1>3 DEF IInv, FilesOK, OwnPaths

\* What it keeps of the types.
LEMMA SameTypes ==
    ASSUME TypeOK, past = {}, NEW i \in Inodes, Linked(i), UNCHANGED <<dir, buffer_path>>,
           NEW bytes \in Contents, NEW n \in 0..MaxSize,
           buffer' \in {buffer, [buffer EXCEPT ![buffer_path[i]] = bytes]},
           size' \in {size, [size EXCEPT ![buffer_path[i]] = n]},
           is_on_cloud' \in [Inodes -> BOOLEAN],
           cloud' \in [Keys -> Contents \union {None}],
           open_files_' \in [Fds -> [name : Names \union {None}, dirty : BOOLEAN]],
           \A fd \in Fds : open_files_'[fd].name # None => dir[open_files_'[fd].name] # None,
           lost' \subseteq Inodes, truncated' \subseteq Inodes, interrupted' \subseteq Inodes,
           orphans' \subseteq Keys, past' \subseteq Events
    PROVE  TypeOK'
<1>1. buffer' \in [Names -> Contents \union {None}] /\ size' \in [Names -> 0..MaxSize]
  BY DEF TypeOK
<1>2. \A m \in Names : dir[m] # None => buffer'[buffer_path[dir[m]]] # None
  <2>1. bytes # None
    BY ContentFacts
  <2>2. QED
    BY <2>1 DEF TypeOK
<1>3. QED
  BY <1>1, <1>2 DEF TypeOK

\* What is downloaded is the object, or the file may be lost.
LEMMA Downloaded ==
    ASSUME IInv, past = {}, NEW n \in Names, NEW fd \in Fds, NEW i \in Inodes, i = dir[n],
           Open(n, fd) \/ \E arrived \in 0..MaxSize : OpenFailing(n, fd, arrived)
    PROVE  \E bytes \in Contents :
              /\ Opened(n, fd, bytes)
              /\ lost \subseteq lost' /\ lost' \subseteq lost \union {i}
              /\ i \notin lost' /\ is_on_cloud[i] =>
                    bytes = Object(i) /\ (OpenOn(i) = {} \/ ~Unsaved(i))
<1>1. Object(i) \in Contents
  <2>1. Linked(i)
    BY DEF Linked
  <2>2. QED
    BY <2>1, LinkedFacts, ContentFacts DEF IInv, Object, TypeOK
<1>2. CASE Open(n, fd)
  BY <1>1, <1>2 DEF Open, OverwritesChanges
<1>3. ASSUME NEW arrived \in 0..MaxSize, OpenFailing(n, fd, arrived)
      PROVE  Opened(n, fd, Resized(Object(i), arrived)) /\ lost' = lost \union {i}
  BY <1>3 DEF OpenFailing
<1>4. \A arrived \in 0..MaxSize : Resized(Object(i), arrived) \in Contents
  BY <1>1, ResizedFacts
<1>5. QED
  BY <1>2, <1>3, <1>4

\* Opening downloads a file on the cloud; that this changes nothing a
\* descriptor sees is rule 1.
LEMMA OpenStep ==
    ASSUME IInv, NEW n \in Names, NEW fd \in Fds,
           Open(n, fd) \/ \E arrived \in 0..MaxSize : OpenFailing(n, fd, arrived)
    PROVE  IInv' /\ OthersUntouched(dir[n])
<1> USE DEF IInv, Opened, Idle, inodeVars
<1>a. past = {} /\ dir[n] \in Inodes
  BY NoneAssumption DEF TypeOK, Open, OpenFailing
<1> PICK i \in Inodes : i = dir[n]
  BY <1>a
<1>b. \E bytes \in Contents :
              /\ Opened(n, fd, bytes)
              /\ lost \subseteq lost' /\ lost' \subseteq lost \union {i}
              /\ i \notin lost' /\ is_on_cloud[i] =>
                    bytes = Object(i) /\ (OpenOn(i) = {} \/ ~Unsaved(i))
  <2> HIDE DEF IInv, Opened, Idle
  <2>1. QED
    BY <1>a, Downloaded
<1> PICK bytes \in Contents :
              /\ Opened(n, fd, bytes)
              /\ lost \subseteq lost' /\ lost' \subseteq lost \union {i}
              /\ i \notin lost' /\ is_on_cloud[i] =>
                    bytes = Object(i) /\ (OpenOn(i) = {} \/ ~Unsaved(i))
  BY <1>b
<1>1. Linked(i) /\ past = {} /\ past' = {} /\ FilesOK
  BY DEF Linked
<1>2. buffer_path[i] \in Names /\ Key(i) \in Keys
  BY <1>1, LinkedFacts
<1>3. /\ \A j \in Inodes \ {i} : OpenOn(j)' = OpenOn(j) /\ (HasDirty(j)' <=> HasDirty(j))
      /\ OpenOn(i)' = OpenOn(i) \union {fd}
      /\ HasDirty(i)' <=> HasDirty(i)
  <2>1. fd \notin OpenOn(i) /\ n # None
    BY NoneAssumption DEF OpenOn
  <2>2. /\ \A j \in Inodes \ {i} : OpenOn(j)' = OpenOn(j) /\ (HasDirty(j)' <=> HasDirty(j))
        /\ OpenOn(i)' = OpenOn(i) \union {fd}
        /\ HasDirty(i)' <=> \E f \in OpenOn(i) \ {fd} : open_files_[f].dirty
    <3>1. /\ open_files_'[fd].name = n /\ ~open_files_'[fd].dirty
          /\ \A f \in Fds \ {fd} : open_files_'[f] = open_files_[f]
      BY DEF TypeOK
    <3>2. IsOpen(fd)' /\ InodeOf(fd)' = i
      BY <2>1, <3>1 DEF IsOpen, InodeOf
    <3>3. QED
      BY <2>1, <3>1, <3>2, DescriptorStep
  <2>3. QED
    BY <2>1, <2>2 DEF HasDirty
<1>4. TypeOK'
  <2>1. open_files_' \in [Fds -> [name : Names \union {None}, dirty : BOOLEAN]]
    BY DEF TypeOK
  <2>2. \A f \in Fds : open_files_'[f].name # None => dir[open_files_'[f].name] # None
    BY NoneAssumption DEF TypeOK
  <2>3. 0 \in 0..MaxSize
    BY SizesAssumption
  <2>4. lost' \subseteq Inodes /\ truncated' \subseteq Inodes
    BY DEF TypeOK
  <2>5. buffer' \in {buffer, [buffer EXCEPT ![buffer_path[i]] = bytes]}
    OBVIOUS
  <2>6. /\ is_on_cloud' \in [Inodes -> BOOLEAN] /\ cloud' \in [Keys -> Contents \union {None}]
        /\ interrupted' \subseteq Inodes /\ orphans' \subseteq Keys /\ past' \subseteq Events
    BY DEF TypeOK
  <2>7. QED
    BY <1>1, <1>2, <2>1, <2>2, <2>3, <2>4, <2>5, <2>6, SameTypes
<1>5. OwnPaths'
  <2>1. \A j \in interrupted' : Linked(j)
    BY <1>1 DEF FilesOK, OwnPaths
  <2>2. QED
    BY <1>1, <2>1, SamePaths
<1>6. ObjectsOwned'
  BY <1>1 DEF FilesOK, ObjectsOwned, Linked, Key
<1>7. OthersUntouched(i) /\ \A j \in Inodes \ {i} : FileOK(j)'
  <2>1. \A m \in Names \ {buffer_path[i]} : buffer'[m] = buffer[m] /\ size'[m] = size[m]
    BY DEF TypeOK
  <2>2. QED
    BY <1>1, <1>3, <2>1, OtherFilesOK
<1>8. FileOK(i)'
  <2>1. FileOK(i) /\ Key(i)' = Key(i) /\ Size(i)' = Size(i) /\ (Linked(i)' <=> Linked(i))
    BY <1>1 DEF FilesOK, Key, Size, Linked
  <2>2. CASE is_on_cloud[i]
    <3> SUFFICES ASSUME i \notin lost' PROVE FileOK(i)'
      BY DEF FileOK
    <3>1. i \notin lost /\ (OpenOn(i) = {} \/ ~Unsaved(i))
      BY <2>2
    <3>2. cloud[Key(i)] # None /\ Buffer(i)' = cloud[Key(i)] /\ i \notin truncated'
      BY <1>1, <1>2, <2>1, <2>2, <3>1 DEF FileOK, Buffer, Object, TypeOK
    <3>3. i \notin interrupted => Size(i) = Len(cloud[Key(i)])
      BY <1>1, <2>1, <2>2, <3>1 DEF FileOK, Unsaved, HasDirty
    <3>4. QED
      BY <1>3, <2>1, <2>2, <3>2, <3>3 DEF FileOK
  <2>3. CASE ~is_on_cloud[i]
    <3>1. Buffer(i)' = Buffer(i)
      BY <2>3 DEF Buffer
    <3>2. QED
      BY <1>3, <2>1, <2>3, <3>1 DEF FileOK
  <2>4. QED
    BY <2>2, <2>3
<1>9. QED
  BY <1>1, <1>4, <1>5, <1>6, <1>7, <1>8 DEF FilesOK

\* A write leaves a dirty descriptor and the size it made.
LEMMA WriteStep ==
    ASSUME IInv, NEW fd \in Fds, NEW offset \in 0..MaxSize, NEW data \in Data,
           Write(fd, offset, data)
    PROVE  IInv' /\ OthersUntouched(InodeOf(fd))
<1> USE DEF IInv, Write, Idle, inodeVars
<1> PICK i \in Inodes : i = InodeOf(fd)
  BY OpenFacts
<1>1. Linked(i) /\ past = {} /\ past' = {} /\ FilesOK /\ fd \in OpenOn(i)
  BY OpenFacts
<1> DEFINE bytes == Overwrite(Buffer(i), offset, data)
<1>2. /\ bytes \in Contents /\ Len(bytes) \in 0..MaxSize
      /\ buffer_path[i] \in Names /\ Key(i) \in Keys
  BY <1>1, LinkedFacts, OverwriteFacts, ContentFacts
<1> HIDE DEF bytes
<1>3. /\ open_files_'[fd].name = open_files_[fd].name /\ open_files_'[fd].dirty = TRUE
      /\ \A f \in Fds \ {fd} : open_files_'[f] = open_files_[f]
  BY DEF TypeOK
<1>4. /\ \A j \in Inodes \ {i} : OpenOn(j)' = OpenOn(j) /\ (HasDirty(j)' <=> HasDirty(j))
      /\ OpenOn(i)' # {} /\ HasDirty(i)'
  <2>1. IsOpen(fd)' /\ InodeOf(fd)' = i
    BY <1>3 DEF IsOpen, InodeOf
  <2>2. QED
    BY <1>1, <1>3, <2>1, DescriptorStep DEF IsOpen
<1>5. /\ buffer' = [buffer EXCEPT ![buffer_path[i]] = bytes]
      /\ size' = [size EXCEPT ![buffer_path[i]] = Len(bytes)]
  BY DEF Recorded, bytes
<1>6. TypeOK'
  <2>1. open_files_' \in [Fds -> [name : Names \union {None}, dirty : BOOLEAN]]
    BY <1>3 DEF TypeOK
  <2>2. \A f \in Fds : open_files_'[f].name # None => dir[open_files_'[f].name] # None
    BY <1>3, NoneAssumption DEF TypeOK
  <2>3. /\ is_on_cloud' \in [Inodes -> BOOLEAN] /\ cloud' \in [Keys -> Contents \union {None}]
        /\ lost' \subseteq Inodes /\ truncated' \subseteq Inodes
        /\ interrupted' \subseteq Inodes /\ orphans' \subseteq Keys /\ past' \subseteq Events
    BY DEF TypeOK
  <2>4. QED
    BY <1>1, <1>2, <1>5, <2>1, <2>2, <2>3, SameTypes
<1>7. OwnPaths'
  <2>1. \A j \in interrupted' : Linked(j)
    BY <1>1 DEF FilesOK, OwnPaths
  <2>2. QED
    BY <1>1, <2>1, SamePaths
<1>8. ObjectsOwned'
  BY <1>1 DEF FilesOK, ObjectsOwned, Linked, Key
<1>9. OthersUntouched(i) /\ \A j \in Inodes \ {i} : FileOK(j)'
  <2>1. \A m \in Names \ {buffer_path[i]} : buffer'[m] = buffer[m] /\ size'[m] = size[m]
    BY <1>5 DEF TypeOK
  <2>2. QED
    BY <1>1, <1>4, <2>1, OtherFilesOK
<1>10. FileOK(i)'
  <2>1. FileOK(i) /\ Key(i)' = Key(i) /\ (Linked(i)' <=> Linked(i))
    BY <1>1 DEF FilesOK, Key, Linked
  <2>2. Buffer(i)' = bytes /\ Size(i)' = Len(bytes)
    BY <1>2, <1>5 DEF Buffer, Size, TypeOK
  <2>3. QED
    BY <1>1, <1>4, <2>1, <2>2 DEF FileOK
<1>11. QED
  BY <1>1, <1>6, <1>7, <1>8, <1>9, <1>10 DEF FilesOK

\* A truncation changes only the buffer file.
LEMMA TruncateStep ==
    ASSUME IInv, NEW n \in Names, NEW newSize \in 0..MaxSize, Truncate(n, newSize)
    PROVE  IInv' /\ OthersUntouched(dir[n])
<1> USE DEF IInv, Truncate, TruncatesClosed, Idle, inodeVars
<1> PICK i \in Inodes : i = dir[n]
  BY NoneAssumption DEF TypeOK
<1>1. Linked(i) /\ past = {} /\ past' = {} /\ FilesOK
  BY DEF Linked
<1>2. Resized(Buffer(i), newSize) \in Contents /\ buffer_path[i] \in Names
  BY <1>1, LinkedFacts, ResizedFacts
<1>3. \A j \in Inodes : OpenOn(j)' = OpenOn(j) /\ (HasDirty(j)' <=> HasDirty(j))
  <2>1. \A j \in Inodes : OpenOn(j)' = OpenOn(j)
    BY DEF OpenOn, IsOpen, InodeOf
  <2>2. QED
    BY <2>1 DEF HasDirty
<1>4. TypeOK'
  <2>1. lost' \subseteq Inodes /\ truncated' \subseteq Inodes
    BY DEF TypeOK
  <2>2. \A f \in Fds : open_files_'[f].name # None => dir[open_files_'[f].name] # None
    BY DEF TypeOK
  <2>3. /\ is_on_cloud' \in [Inodes -> BOOLEAN] /\ cloud' \in [Keys -> Contents \union {None}]
        /\ open_files_' \in [Fds -> [name : Names \union {None}, dirty : BOOLEAN]]
        /\ interrupted' \subseteq Inodes /\ orphans' \subseteq Keys /\ past' \subseteq Events
    BY DEF TypeOK
  <2>4. QED
    BY <1>1, <1>2, <2>1, <2>2, <2>3, SameTypes
<1>5. OwnPaths'
  <2>1. \A j \in interrupted' : Linked(j)
    BY <1>1 DEF FilesOK, OwnPaths
  <2>2. QED
    BY <1>1, <2>1, SamePaths
<1>6. ObjectsOwned'
  BY <1>1 DEF FilesOK, ObjectsOwned, Linked, Key
<1>7. OthersUntouched(i) /\ \A j \in Inodes \ {i} : FileOK(j)'
  <2>1. \A m \in Names \ {buffer_path[i]} : buffer'[m] = buffer[m] /\ size'[m] = size[m]
    BY DEF TypeOK
  <2>2. QED
    BY <1>1, <1>3, <2>1, OtherFilesOK
<1>8. FileOK(i)'
  <2>1. FileOK(i) /\ Key(i)' = Key(i) /\ Size(i)' = Size(i) /\ (Linked(i)' <=> Linked(i))
    BY <1>1 DEF FilesOK, Key, Size, Linked
  <2>2. i \in lost' \/ (i \in truncated' /\ ~(is_on_cloud[i] /\ OpenOn(i) = {}))
    OBVIOUS
  <2>3. QED
    BY <1>3, <2>1, <2>2 DEF FileOK
<1>9. QED
  BY <1>1, <1>4, <1>5, <1>6, <1>7, <1>8 DEF FilesOK

-----------------------------------------------------------------------------
(* Closing.                                                                *)

\* What every close does to the descriptors.
LEMMA CloseFacts ==
    ASSUME TypeOK, past = {}, NEW fd \in Fds, IsOpen(fd), CloseEffect(fd), UNCHANGED dir,
           NEW i \in Inodes, i = InodeOf(fd)
    PROVE  /\ Linked(i) /\ fd \in OpenOn(i)
           /\ buffer_path[i] \in Names /\ Key(i) \in Keys
           /\ Buffer(i) \in Contents /\ Len(Buffer(i)) \in 0..MaxSize
           /\ size' = [size EXCEPT ![buffer_path[i]] = Len(Buffer(i))]
           /\ open_files_' \in [Fds -> [name : Names \union {None}, dirty : BOOLEAN]]
           /\ \A f \in Fds : open_files_'[f].name # None => dir[open_files_'[f].name] # None
           /\ \A j \in Inodes \ {i} : OpenOn(j)' = OpenOn(j) /\ (HasDirty(j)' <=> HasDirty(j))
           /\ OpenOn(i)' = OpenOn(i) \ {fd}
           /\ HasDirty(i) <=> HasDirty(i)' \/ open_files_[fd].dirty
           /\ truncated' = truncated \ {i} /\ truncated' \subseteq Inodes
           /\ interrupted' \subseteq interrupted /\ interrupted \ {i} \subseteq interrupted'
           /\ interrupted' \subseteq Inodes
<1>1. Linked(i) /\ fd \in OpenOn(i)
  BY OpenFacts
<1>2. /\ buffer_path[i] \in Names /\ Key(i) \in Keys
      /\ Buffer(i) \in Contents /\ Len(Buffer(i)) \in 0..MaxSize
  BY <1>1, LinkedFacts, ContentFacts
<1>3. /\ open_files_'[fd].name = None
      /\ \A f \in Fds \ {fd} : open_files_'[f] = open_files_[f]
  BY DEF CloseEffect, Closed, TypeOK
<1>4. /\ open_files_' \in [Fds -> [name : Names \union {None}, dirty : BOOLEAN]]
      /\ \A f \in Fds : open_files_'[f].name # None => dir[open_files_'[f].name] # None
  <2>1. open_files_' \in [Fds -> [name : Names \union {None}, dirty : BOOLEAN]]
    BY DEF CloseEffect, Closed, TypeOK
  <2>2. QED
    BY <1>3, <2>1 DEF TypeOK
<1>5. /\ \A j \in Inodes \ {i} : OpenOn(j)' = OpenOn(j) /\ (HasDirty(j)' <=> HasDirty(j))
      /\ OpenOn(i)' = OpenOn(i) \ {fd}
      /\ HasDirty(i)' <=> \E f \in OpenOn(i) \ {fd} : open_files_[f].dirty
  <2>1. ~IsOpen(fd)'
    BY <1>3 DEF IsOpen
  <2>2. QED
    BY <1>3, <2>1, DescriptorStep
<1>6. HasDirty(i) <=> HasDirty(i)' \/ open_files_[fd].dirty
  BY <1>1, <1>5 DEF HasDirty
<1>7. /\ size' = [size EXCEPT ![buffer_path[i]] = Len(Buffer(i))]
      /\ truncated' = truncated \ {i} /\ truncated' \subseteq Inodes
      /\ interrupted' \subseteq interrupted /\ interrupted \ {i} \subseteq interrupted'
      /\ interrupted' \subseteq Inodes
  BY DEF CloseEffect, Recorded, TypeOK
<1>8. QED
  BY <1>1, <1>2, <1>4, <1>5, <1>6, <1>7

\* A changed large file is on the cloud, alone under its key unless files
\* collide, and its buffer file is empty.
LEMMA CloseUploadStep ==
    ASSUME IInv, NEW fd \in Fds, CloseUpload(fd) \/ CloseUploadFailing(fd)
    PROVE  IInv' /\ (past' = {} => OthersUntouched(InodeOf(fd)))
<1> USE DEF IInv, ClosedLarge, Idle
<1>a. ClosedLarge(fd)
  BY DEF CloseUpload, CloseUploadFailing
<1> PICK i \in Inodes : i = InodeOf(fd)
  BY <1>a, OpenFacts
<1>1. past = {} /\ FilesOK
  BY <1>a
<1>2. /\ Linked(i) /\ fd \in OpenOn(i) /\ buffer_path[i] \in Names /\ Key(i) \in Keys
      /\ Buffer(i) \in Contents /\ Len(Buffer(i)) \in 0..MaxSize
      /\ size' = [size EXCEPT ![buffer_path[i]] = Len(Buffer(i))]
      /\ open_files_' \in [Fds -> [name : Names \union {None}, dirty : BOOLEAN]]
      /\ \A f \in Fds : open_files_'[f].name # None => dir[open_files_'[f].name] # None
      /\ \A j \in Inodes \ {i} : OpenOn(j)' = OpenOn(j) /\ (HasDirty(j)' <=> HasDirty(j))
      /\ OpenOn(i)' = OpenOn(i) \ {fd}
      /\ truncated' = truncated \ {i} /\ truncated' \subseteq Inodes
      /\ interrupted' \subseteq interrupted /\ interrupted \ {i} \subseteq interrupted'
      /\ interrupted' \subseteq Inodes
  BY <1>1, <1>a, CloseFacts
<1>3. /\ cloud' \in {cloud, [cloud EXCEPT ![Key(i)] = Buffer(i)]}
      /\ i \notin lost' => OpenOn(i) = {fd} /\ cloud' = [cloud EXCEPT ![Key(i)] = Buffer(i)]
      /\ buffer' = [buffer EXCEPT ![buffer_path[i]] = <<>>]
      /\ is_on_cloud' = [is_on_cloud EXCEPT ![i] = TRUE]
      /\ lost \subseteq lost' /\ lost' \subseteq lost \union {i}
      /\ orphans' = orphans \ {Key(i)}
      /\ UNCHANGED <<dir, buffer_path>>
  BY <1>a DEF CloseUpload, CloseUploadFailing, Uploaded, Cleared, OthersOpen
<1>4. TypeOK'
  <2>1. /\ is_on_cloud' \in [Inodes -> BOOLEAN] /\ cloud' \in [Keys -> Contents \union {None}]
        /\ lost' \subseteq Inodes /\ orphans' \subseteq Keys /\ past' \subseteq Events
    <3>1. past' \in {past, past \union {"collided"}}
      BY <1>a
    <3> HIDE DEF ClosedLarge
    <3>2. past' \subseteq Events
      BY <3>1 DEF TypeOK, Events
    <3>3. cloud' \in [Keys -> Contents \union {None}]
      BY <1>2, <1>3 DEF TypeOK
    <3>4. is_on_cloud' \in [Inodes -> BOOLEAN] /\ lost' \subseteq Inodes /\ orphans' \subseteq Keys
      BY <1>3 DEF TypeOK
    <3>5. QED
      BY <3>2, <3>3, <3>4
  <2>2. <<>> \in Contents
    BY ContentFacts
  <2>3. /\ buffer' \in {buffer, [buffer EXCEPT ![buffer_path[i]] = <<>>]}
        /\ size' \in {size, [size EXCEPT ![buffer_path[i]] = Len(Buffer(i))]}
    BY <1>2, <1>3
  <2>4. UNCHANGED <<dir, buffer_path>>
    BY <1>3
  <2>5. truncated' \subseteq Inodes /\ interrupted' \subseteq Inodes
    BY <1>2
  <2>6. TypeOK
    OBVIOUS
  <2> HIDE DEF ClosedLarge, IInv, Idle
  <2>7. QED
    BY <1>1, <1>2, <2>1, <2>2, <2>3, <2>4, <2>5, <2>6, SameTypes
<1>5. ASSUME past' = {} PROVE FilesOK' /\ OthersUntouched(i)
  <2>1. ~Collides(i)
    BY <1>a, <1>5
  <2>2. /\ \A j \in Inodes \ {i} : is_on_cloud'[j] = is_on_cloud[j]
        /\ is_on_cloud'[i]
        /\ \A j \in Inodes : (Linked(j)' <=> Linked(j)) /\ Key(j)' = Key(j)
    BY <1>3 DEF TypeOK, Linked, Key
  <2>3. OwnPaths'
    <3>1. \A j \in interrupted' : Linked(j)
      BY <1>1, <1>2 DEF FilesOK, OwnPaths
    <3>2. lost' \subseteq lost \union {i} /\ truncated' \subseteq truncated \union {i}
      BY <1>2, <1>3
    <3>3. QED
      BY <1>1, <1>2, <1>3, <2>1, <2>2, <3>1, <3>2, SamePaths
  <2>4. ObjectsOwned'
    <3> SUFFICES ASSUME NEW k \in Keys \ orphans', cloud'[k] # None
                 PROVE  \E j \in Inodes : Linked(j) /\ is_on_cloud'[j] /\ Key(j) = k
      BY <2>2 DEF ObjectsOwned
    <3>1. CASE k = Key(i)
      BY <1>2, <2>2, <3>1
    <3>2. CASE k # Key(i)
      <4>1. k \notin orphans /\ cloud[k] # None
        BY <1>2, <1>3, <3>2 DEF TypeOK
      <4>2. PICK j \in Inodes : Linked(j) /\ is_on_cloud[j] /\ Key(j) = k
        BY <1>1, <4>1 DEF FilesOK, ObjectsOwned
      <4>3. QED
        BY <2>2, <3>2, <4>2
    <3>3. QED
      BY <3>1, <3>2
  <2>5. OthersUntouched(i) /\ \A j \in Inodes \ {i} : FileOK(j)'
    <3>1. \A m \in Names \ {buffer_path[i]} : buffer'[m] = buffer[m] /\ size'[m] = size[m]
      BY <1>2, <1>3 DEF TypeOK
    <3>2. \A j \in Inodes \ {i} : Linked(j) /\ is_on_cloud[j] => cloud'[Key(j)] = cloud[Key(j)]
      <4>1. \A j \in Inodes \ {i} : Linked(j) /\ is_on_cloud[j] => Key(j) # Key(i) /\ Key(j) \in Keys
        BY <1>1, <2>1, LinkedFacts DEF Collides
      <4>2. QED
        BY <1>3, <4>1 DEF TypeOK
    <3>3. \A j \in Inodes \ {i} :
             /\ j \in lost <=> j \in lost'
             /\ j \in truncated <=> j \in truncated'
             /\ j \in interrupted <=> j \in interrupted'
      BY <1>2, <1>3
    <3>4. QED
      BY <1>1, <1>2, <1>3, <2>2, <3>1, <3>2, <3>3, OtherFilesOK
  <2>6. FileOK(i)'
    <3> SUFFICES ASSUME i \notin lost' PROVE FileOK(i)'
      BY DEF FileOK
    <3>1. OpenOn(i)' = {}
      BY <1>2, <1>3
    <3>2. Buffer(i)' = <<>> /\ Size(i)' = Len(Buffer(i)) /\ cloud'[Key(i)] = Buffer(i)
      BY <1>2, <1>3 DEF Buffer, Size, TypeOK
    <3>3. QED
      BY <1>2, <2>2, <3>1, <3>2, ContentFacts DEF FileOK
  <2>7. QED
    BY <2>3, <2>4, <2>5, <2>6 DEF FilesOK
<1>6. QED
  BY <1>4, <1>5

\* A changed small file is local again, and its object is gone.
LEMMA CloseKeepStep ==
    ASSUME IInv, NEW fd \in Fds, CloseKeep(fd)
    PROVE  IInv' /\ OthersUntouched(InodeOf(fd))
<1> USE DEF IInv, CloseKeep, Idle
<1> PICK i \in Inodes : i = InodeOf(fd)
  BY OpenFacts
<1>1. past = {} /\ past' = {} /\ FilesOK
  OBVIOUS
<1>2. /\ Linked(i) /\ fd \in OpenOn(i) /\ buffer_path[i] \in Names /\ Key(i) \in Keys
      /\ Buffer(i) \in Contents /\ Len(Buffer(i)) \in 0..MaxSize
      /\ size' = [size EXCEPT ![buffer_path[i]] = Len(Buffer(i))]
      /\ open_files_' \in [Fds -> [name : Names \union {None}, dirty : BOOLEAN]]
      /\ \A f \in Fds : open_files_'[f].name # None => dir[open_files_'[f].name] # None
      /\ \A j \in Inodes \ {i} : OpenOn(j)' = OpenOn(j) /\ (HasDirty(j)' <=> HasDirty(j))
      /\ truncated' = truncated \ {i} /\ truncated' \subseteq Inodes
      /\ interrupted' \subseteq interrupted /\ interrupted \ {i} \subseteq interrupted'
      /\ interrupted' \subseteq Inodes
  BY <1>1, CloseFacts
<1>3. /\ is_on_cloud[i] => cloud' = [cloud EXCEPT ![Key(i)] = None]
      /\ ~is_on_cloud[i] => cloud' = cloud
      /\ is_on_cloud' = [is_on_cloud EXCEPT ![i] = FALSE]
      /\ Len(Buffer(i)) <= Threshold
  BY <1>2, SizesAssumption DEF ObjectDeleted, IsLarge
<1>4. TypeOK'
  <2>1. /\ is_on_cloud' \in [Inodes -> BOOLEAN] /\ cloud' \in [Keys -> Contents \union {None}]
        /\ lost' \subseteq Inodes /\ orphans' \subseteq Keys /\ past' \subseteq Events
    BY <1>2, <1>3 DEF TypeOK
  <2>2. QED
    BY <1>1, <1>2, <2>1, SameTypes
<1>5. /\ \A j \in Inodes \ {i} : is_on_cloud'[j] = is_on_cloud[j]
      /\ ~is_on_cloud'[i]
      /\ \A j \in Inodes : (Linked(j)' <=> Linked(j)) /\ Key(j)' = Key(j)
  BY <1>3 DEF TypeOK, Linked, Key
<1>6. OwnPaths'
  <2>1. \A j \in interrupted' : Linked(j)
    BY <1>1, <1>2 DEF FilesOK, OwnPaths
  <2>2. lost' \subseteq lost \union {i} /\ truncated' \subseteq truncated \union {i}
    BY <1>2
  <2>3. QED
    BY <1>1, <1>2, <1>5, <2>1, <2>2, SamePaths
<1>7. ObjectsOwned'
  <2> SUFFICES ASSUME NEW k \in Keys \ orphans, cloud'[k] # None
               PROVE  \E j \in Inodes : Linked(j) /\ is_on_cloud'[j] /\ Key(j) = k
    BY <1>5 DEF ObjectsOwned
  <2>1. cloud[k] # None /\ (is_on_cloud[i] => k # Key(i))
    BY <1>2, <1>3 DEF TypeOK
  <2>2. PICK j \in Inodes : Linked(j) /\ is_on_cloud[j] /\ Key(j) = k
    BY <1>1, <2>1 DEF FilesOK, ObjectsOwned
  <2>3. QED
    BY <1>5, <2>1, <2>2
<1>8. OthersUntouched(i) /\ \A j \in Inodes \ {i} : FileOK(j)'
  <2>1. \A m \in Names \ {buffer_path[i]} : buffer'[m] = buffer[m] /\ size'[m] = size[m]
    BY <1>2 DEF TypeOK
  <2>2. \A j \in Inodes \ {i} : Linked(j) /\ is_on_cloud[j] => cloud'[Key(j)] = cloud[Key(j)]
    <3>1. \A j \in Inodes \ {i} : Linked(j) /\ is_on_cloud[j] =>
             Key(j) \in Keys /\ (is_on_cloud[i] => Key(j) # Key(i))
      BY <1>1, <1>2, LinkedFacts DEF FilesOK, OwnPaths
    <3>2. QED
      BY <1>3, <3>1 DEF TypeOK
  <2>3. \A j \in Inodes \ {i} :
           /\ j \in lost <=> j \in lost'
           /\ j \in truncated <=> j \in truncated'
           /\ j \in interrupted <=> j \in interrupted'
    BY <1>2
  <2>4. QED
    BY <1>1, <1>2, <1>5, <2>1, <2>2, <2>3, OtherFilesOK
<1>9. FileOK(i)'
  <2>1. Buffer(i)' = Buffer(i) /\ Size(i)' = Len(Buffer(i))
    BY <1>2 DEF Buffer, Size, TypeOK
  <2>2. QED
    BY <1>3, <1>5, <2>1 DEF FileOK
<1>10. QED
  BY <1>1, <1>4, <1>6, <1>7, <1>8, <1>9 DEF FilesOK

\* A file that was only read is as it was; one on the cloud is emptied, and
\* by rules 1, 3 and 4 nothing was in its buffer file but its object.
LEMMA CloseReadStep ==
    ASSUME IInv, NEW fd \in Fds, CloseRead(fd)
    PROVE  IInv' /\ OthersUntouched(InodeOf(fd))
<1> USE DEF IInv, CloseRead, Idle, inodeVars
<1> PICK i \in Inodes : i = InodeOf(fd)
  BY OpenFacts
<1>1. past = {} /\ past' = {} /\ FilesOK
  OBVIOUS
<1>2. /\ Linked(i) /\ fd \in OpenOn(i) /\ buffer_path[i] \in Names /\ Key(i) \in Keys
      /\ Buffer(i) \in Contents /\ Len(Buffer(i)) \in 0..MaxSize
      /\ size' = [size EXCEPT ![buffer_path[i]] = Len(Buffer(i))]
      /\ open_files_' \in [Fds -> [name : Names \union {None}, dirty : BOOLEAN]]
      /\ \A f \in Fds : open_files_'[f].name # None => dir[open_files_'[f].name] # None
      /\ \A j \in Inodes \ {i} : OpenOn(j)' = OpenOn(j) /\ (HasDirty(j)' <=> HasDirty(j))
      /\ OpenOn(i)' = OpenOn(i) \ {fd}
      /\ HasDirty(i) <=> HasDirty(i)' \/ open_files_[fd].dirty
      /\ truncated' = truncated \ {i} /\ truncated' \subseteq Inodes
      /\ interrupted' \subseteq interrupted /\ interrupted \ {i} \subseteq interrupted'
      /\ interrupted' \subseteq Inodes
  BY <1>1, CloseFacts
<1>3. /\ is_on_cloud[i] => buffer' = [buffer EXCEPT ![buffer_path[i]] = <<>>]
      /\ ~is_on_cloud[i] => buffer' = buffer /\ interrupted' = interrupted
      /\ ~open_files_[fd].dirty /\ Size(i) = Len(Buffer(i))
      /\ lost \subseteq lost' /\ lost' \subseteq lost \union {i}
      /\ is_on_cloud[i] => i \in lost' \/ (OpenOn(i) = {fd} /\ i \notin truncated)
  BY DEF Cleared, ClosesUnsaved, OthersOpen, Changed, Regrown, CloseEffect
<1>4. TypeOK'
  <2>1. /\ is_on_cloud' \in [Inodes -> BOOLEAN] /\ cloud' \in [Keys -> Contents \union {None}]
        /\ lost' \subseteq Inodes /\ orphans' \subseteq Keys /\ past' \subseteq Events
    BY <1>2, <1>3 DEF TypeOK
  <2>2. <<>> \in Contents
    BY ContentFacts
  <2>3. buffer' \in {buffer, [buffer EXCEPT ![buffer_path[i]] = <<>>]}
    BY <1>3
  <2>4. QED
    BY <1>1, <1>2, <2>1, <2>2, <2>3, SameTypes
<1>5. OwnPaths'
  <2>1. \A j \in interrupted' : Linked(j)
    BY <1>1, <1>2 DEF FilesOK, OwnPaths
  <2>2. lost' \subseteq lost \union {i} /\ truncated' \subseteq truncated \union {i}
    BY <1>2, <1>3
  <2>3. QED
    BY <1>1, <1>2, <2>1, <2>2, SamePaths
<1>6. ObjectsOwned'
  BY <1>1 DEF FilesOK, ObjectsOwned, Linked, Key
<1>7. OthersUntouched(i) /\ \A j \in Inodes \ {i} : FileOK(j)'
  <2>1. \A m \in Names \ {buffer_path[i]} : buffer'[m] = buffer[m] /\ size'[m] = size[m]
    BY <1>2, <1>3 DEF TypeOK
  <2>2. \A j \in Inodes \ {i} :
           /\ j \in lost <=> j \in lost'
           /\ j \in truncated <=> j \in truncated'
           /\ j \in interrupted <=> j \in interrupted'
    BY <1>2, <1>3
  <2>3. QED
    BY <1>1, <1>2, <2>1, <2>2, OtherFilesOK
<1>8. FileOK(i)'
  <2> SUFFICES ASSUME i \notin lost' PROVE FileOK(i)'
    BY DEF FileOK
  <2>1. FileOK(i) /\ i \notin lost /\ Key(i)' = Key(i) /\ i \notin truncated'
    BY <1>1, <1>2, <1>3 DEF FilesOK, Key
  <2>2. Size(i)' = Size(i)
    BY <1>2, <1>3 DEF Size, TypeOK
  <2>3. CASE is_on_cloud[i]
    <3>1. OpenOn(i) = {fd} /\ i \notin truncated /\ OpenOn(i)' = {}
      BY <1>2, <1>3, <2>3
    <3>2. ~HasDirty(i)
      BY <1>3, <3>1 DEF HasDirty
    <3>3. Buffer(i) = cloud[Key(i)] /\ cloud[Key(i)] # None
      BY <1>2, <2>1, <2>3, <3>1, <3>2 DEF FileOK
    <3>4. Buffer(i)' = <<>>
      BY <1>2, <1>3, <2>3 DEF Buffer, TypeOK
    <3>5. QED
      BY <1>3, <2>1, <2>2, <2>3, <3>1, <3>3, <3>4, ContentFacts DEF FileOK
  <2>4. CASE ~is_on_cloud[i]
    <3>1. Buffer(i)' = Buffer(i)
      BY <1>3, <2>4 DEF Buffer
    <3>2. QED
      BY <1>2, <1>3, <2>1, <2>2, <2>4, <3>1 DEF FileOK
  <2>5. QED
    BY <2>3, <2>4
<1>9. QED
  BY <1>1, <1>4, <1>5, <1>6, <1>7, <1>8 DEF FilesOK

-----------------------------------------------------------------------------
(* Crashes.                                                                *)

\* What a crash does to the descriptors.
LEMMA KilledFacts ==
    ASSUME IInv, past = {}, Killed
    PROVE  /\ \A j \in Inodes : OpenOn(j)' = {} /\ ~HasDirty(j)'
           /\ \A j \in Inodes : (Linked(j)' <=> Linked(j)) /\ Key(j)' = Key(j)
           /\ open_files_' \in [Fds -> [name : Names \union {None}, dirty : BOOLEAN]]
           /\ \A f \in Fds : open_files_'[f].name # None => dir[open_files_'[f].name] # None
           /\ \A j \in Inodes : OpenOn(j) # {} => j \in interrupted'
           /\ truncated' \subseteq truncated /\ truncated' \subseteq Inodes
           /\ interrupted \subseteq interrupted' /\ interrupted' \subseteq Inodes
           /\ \A j \in interrupted' : Linked(j)
           /\ UNCHANGED <<dir, buffer_path>> /\ past' = {}
<1>1. \A j \in Inodes : OpenOn(j)' = {} /\ ~HasDirty(j)'
  BY DEF Killed, OpenOn, IsOpen, HasDirty, Closed
<1>2. /\ \A j \in Inodes : (Linked(j)' <=> Linked(j)) /\ Key(j)' = Key(j)
      /\ open_files_' \in [Fds -> [name : Names \union {None}, dirty : BOOLEAN]]
      /\ \A f \in Fds : open_files_'[f].name # None => dir[open_files_'[f].name] # None
      /\ UNCHANGED <<dir, buffer_path>> /\ past' = {}
  BY DEF Killed, Closed, Linked, Key
<1>3. /\ \A j \in Inodes : OpenOn(j) # {} => j \in interrupted'
      /\ truncated' \subseteq truncated /\ truncated' \subseteq Inodes
      /\ interrupted \subseteq interrupted' /\ interrupted' \subseteq Inodes
  BY DEF Killed, IInv, TypeOK
<1>4. \A j \in interrupted' : Linked(j)
  <2>1. \A j \in Inodes : OpenOn(j) # {} => Linked(j)
    <3> SUFFICES ASSUME NEW j \in Inodes, NEW fd \in OpenOn(j) PROVE Linked(j)
      OBVIOUS
    <3>1. fd \in Fds /\ IsOpen(fd) /\ InodeOf(fd) = j
      BY DEF OpenOn
    <3>2. QED
      BY <3>1, OpenFacts DEF IInv
  <2>2. QED
    BY <2>1 DEF Killed, IInv, FilesOK, OwnPaths
<1>5. QED
  BY <1>1, <1>2, <1>3, <1>4

\* A file whose buffer file, object and attributes a crash leaves alone.
LEMMA KilledFile ==
    ASSUME IInv, past = {}, Killed, NEW j \in Inodes, Linked(j) => Kept(j), lost \subseteq lost'
    PROVE  FileOK(j)'
<1>1. /\ OpenOn(j)' = {} /\ ~HasDirty(j)' /\ (Linked(j)' <=> Linked(j)) /\ Key(j)' = Key(j)
      /\ interrupted \subseteq interrupted'
      /\ OpenOn(j) # {} => j \in interrupted'
  BY KilledFacts
<1>2. OpenOn(j) = {} => ~HasDirty(j)
  BY DEF HasDirty
<1>3. j \in truncated' <=> j \in truncated /\ ~is_on_cloud[j]
  BY DEF Killed
<1>4. FileOK(j)
  BY DEF IInv, FilesOK
<1>5. QED
  BY <1>1, <1>2, <1>3, <1>4 DEF FileOK, Kept

\* Killed between two handlers.
LEMMA CrashStep == IInv /\ Crash => IInv'
<1> SUFFICES ASSUME IInv, Crash PROVE IInv'
  OBVIOUS
<1> USE DEF Crash, Idle
<1>1. past = {} /\ FilesOK
  BY DEF IInv
<1>2. /\ \A j \in Inodes : (Linked(j)' <=> Linked(j)) /\ Key(j)' = Key(j)
      /\ open_files_' \in [Fds -> [name : Names \union {None}, dirty : BOOLEAN]]
      /\ \A f \in Fds : open_files_'[f].name # None => dir[open_files_'[f].name] # None
      /\ truncated' \subseteq truncated /\ truncated' \subseteq Inodes
      /\ interrupted' \subseteq Inodes /\ \A j \in interrupted' : Linked(j)
      /\ UNCHANGED <<dir, buffer_path>> /\ past' = {}
  BY <1>1, KilledFacts
<1>3. TypeOK'
  BY <1>2 DEF IInv, TypeOK
<1>4. OwnPaths' /\ ObjectsOwned'
  <2>1. \A j \in lost' \union truncated' \union interrupted' : Linked(j)'
    BY <1>1, <1>2 DEF FilesOK, OwnPaths, Linked
  <2>2. OwnPaths'
    BY <1>1, <1>2, <2>1 DEF FilesOK, OwnPaths
  <2>3. ObjectsOwned'
    BY <1>1, <1>2 DEF FilesOK, ObjectsOwned
  <2>4. QED
    BY <2>2, <2>3
<1>5. \A j \in Inodes : FileOK(j)'
  <2>1. \A j \in Inodes : Kept(j)
    BY <1>2 DEF Kept, Buffer, Size
  <2>2. QED
    BY <1>1, <2>1, KilledFile
<1>6. QED
  BY <1>3, <1>4, <1>5 DEF IInv, FilesOK

\* Killed after the upload of a close.
LEMMA CrashUploadedStep ==
    ASSUME IInv, NEW fd \in Fds, NEW marked \in BOOLEAN, CrashUploaded(fd, marked)
    PROVE  IInv' /\ \A j \in Inodes \ {InodeOf(fd)} : Linked(j) => Kept(j)
<1> USE DEF CrashUploaded, Idle
<1> PICK i \in Inodes : i = InodeOf(fd)
  BY OpenFacts DEF IInv
<1>1. past = {} /\ FilesOK /\ TypeOK /\ ~Collides(i)
  BY DEF IInv
<1>2. /\ Linked(i) /\ fd \in OpenOn(i) /\ buffer_path[i] \in Names /\ Key(i) \in Keys
      /\ Buffer(i) \in Contents /\ Len(Buffer(i)) \in 0..MaxSize
  BY <1>1, OpenFacts, LinkedFacts, ContentFacts
<1>3. /\ \A j \in Inodes : (Linked(j)' <=> Linked(j)) /\ Key(j)' = Key(j)
      /\ OpenOn(i)' = {} /\ ~HasDirty(i)'
      /\ open_files_' \in [Fds -> [name : Names \union {None}, dirty : BOOLEAN]]
      /\ \A f \in Fds : open_files_'[f].name # None => dir[open_files_'[f].name] # None
      /\ i \in interrupted'
      /\ truncated' \subseteq truncated /\ truncated' \subseteq Inodes
      /\ interrupted' \subseteq Inodes /\ \A j \in interrupted' : Linked(j)
      /\ UNCHANGED <<dir, buffer_path>> /\ past' = {}
  BY <1>1, <1>2, KilledFacts
<1>4. /\ cloud' = [cloud EXCEPT ![Key(i)] = Buffer(i)]
      /\ size' = [size EXCEPT ![buffer_path[i]] = Len(Buffer(i))]
      /\ is_on_cloud' \in [Inodes -> BOOLEAN]
      /\ \A j \in Inodes \ {i} : is_on_cloud'[j] = is_on_cloud[j]
      /\ is_on_cloud'[i] => orphans' = orphans \ {Key(i)}
      /\ ~is_on_cloud'[i] => orphans' = orphans \union {Key(i)}
  BY <1>1 DEF Uploaded, Recorded, TypeOK
<1>5. TypeOK'
  <2>1. /\ cloud' \in [Keys -> Contents \union {None}] /\ orphans' \subseteq Keys
        /\ lost' \subseteq Inodes /\ past' \subseteq Events
    BY <1>1, <1>2, <1>3, <1>4 DEF TypeOK
  <2>2. QED
    BY <1>1, <1>2, <1>3, <1>4, <2>1, SameTypes
<1>6. OwnPaths'
  BY <1>1, <1>2, <1>3, <1>4, SamePaths
<1>7. ObjectsOwned'
  <2> SUFFICES ASSUME NEW k \in Keys \ orphans', cloud'[k] # None
               PROVE  \E j \in Inodes : Linked(j) /\ is_on_cloud'[j] /\ Key(j) = k
    BY <1>3 DEF ObjectsOwned
  <2>1. CASE k = Key(i)
    BY <1>2, <1>4, <2>1
  <2>2. CASE k # Key(i)
    <3>1. k \notin orphans /\ cloud[k] # None
      BY <1>1, <1>2, <1>4, <2>2 DEF TypeOK
    <3>2. PICK j \in Inodes : Linked(j) /\ is_on_cloud[j] /\ Key(j) = k
      BY <1>1, <3>1 DEF FilesOK, ObjectsOwned
    <3>3. QED
      BY <1>4, <2>2, <3>2
  <2>3. QED
    BY <2>1, <2>2
<1>8. ASSUME NEW j \in Inodes \ {i}, Linked(j) PROVE Kept(j) /\ FileOK(j)'
  <2>1. buffer_path[j] \in Names /\ buffer_path[j] # buffer_path[i]
        /\ Key(j) \in Keys /\ (is_on_cloud[j] => Key(j) # Key(i))
    BY <1>1, <1>2, <1>8, LinkedFacts DEF FilesOK, OwnPaths, Collides
  <2>2. Buffer(j)' = Buffer(j) /\ Size(j)' = Size(j)
    BY <1>1, <1>3, <1>4, <2>1 DEF Buffer, Size, TypeOK
  <2>3. is_on_cloud[j] => cloud'[Key(j)] = cloud[Key(j)]
    BY <1>1, <1>4, <2>1 DEF TypeOK
  <2>4. Kept(j)
    BY <1>3, <1>4, <2>2, <2>3 DEF Kept
  <2>5. QED
    BY <1>1, <1>4, <2>4, KilledFile
<1>9. FileOK(i)'
  <2>1. /\ cloud'[Key(i)] = Buffer(i) /\ Buffer(i) # None /\ Buffer(i)' = Buffer(i)
        /\ Size(i)' = Len(Buffer(i))
    BY <1>1, <1>2, <1>3, <1>4, ContentFacts DEF Buffer, Size, TypeOK
  <2>2. QED
    BY <1>2, <1>3, <2>1 DEF FileOK
<1>10. \A j \in Inodes : FileOK(j)'
  BY <1>3, <1>8, <1>9 DEF FileOK
<1>11. QED
  BY <1>3, <1>5, <1>6, <1>7, <1>8, <1>10 DEF IInv, FilesOK

\* Killed after the deletion of a close: that file is lost, no other.
LEMMA CrashDeletedStep ==
    ASSUME IInv, NEW fd \in Fds, CrashDeleted(fd)
    PROVE  IInv' /\ \A j \in Inodes \ {InodeOf(fd)} : Linked(j) => Kept(j)
<1> USE DEF CrashDeleted, Idle
<1> PICK i \in Inodes : i = InodeOf(fd)
  BY OpenFacts DEF IInv
<1>1. past = {} /\ FilesOK /\ TypeOK
  BY DEF IInv
<1>2. /\ Linked(i) /\ fd \in OpenOn(i) /\ buffer_path[i] \in Names /\ Key(i) \in Keys
      /\ Buffer(i) \in Contents /\ Len(Buffer(i)) \in 0..MaxSize
  BY <1>1, OpenFacts, LinkedFacts, ContentFacts
<1>3. /\ \A j \in Inodes : (Linked(j)' <=> Linked(j)) /\ Key(j)' = Key(j)
      /\ open_files_' \in [Fds -> [name : Names \union {None}, dirty : BOOLEAN]]
      /\ \A f \in Fds : open_files_'[f].name # None => dir[open_files_'[f].name] # None
      /\ truncated' \subseteq truncated /\ truncated' \subseteq Inodes
      /\ interrupted' \subseteq Inodes /\ \A j \in interrupted' : Linked(j)
      /\ UNCHANGED <<dir, buffer_path>> /\ past' = {}
  BY <1>1, <1>2, KilledFacts
<1>4. /\ cloud' = [cloud EXCEPT ![Key(i)] = None] /\ is_on_cloud[i]
      /\ size' = [size EXCEPT ![buffer_path[i]] = Len(Buffer(i))]
      /\ lost' = lost \union {i}
  BY DEF ObjectDeleted, Recorded
<1>5. TypeOK'
  <2>1. /\ cloud' \in [Keys -> Contents \union {None}] /\ orphans' \subseteq Keys
        /\ is_on_cloud' \in [Inodes -> BOOLEAN] /\ lost' \subseteq Inodes /\ past' \subseteq Events
    BY <1>1, <1>2, <1>3, <1>4 DEF TypeOK
  <2>2. QED
    BY <1>1, <1>2, <1>3, <1>4, <2>1, SameTypes
<1>6. OwnPaths'
  <2>1. lost' \subseteq lost \union {i} /\ truncated' \subseteq truncated \union {i}
    BY <1>3, <1>4
  <2>2. QED
    BY <1>1, <1>2, <1>3, <2>1, SamePaths DEF IInv
<1>7. ObjectsOwned'
  <2> SUFFICES ASSUME NEW k \in Keys \ orphans, cloud'[k] # None
               PROVE  \E j \in Inodes : Linked(j) /\ is_on_cloud[j] /\ Key(j) = k
    BY <1>3 DEF ObjectsOwned
  <2>1. cloud[k] # None
    BY <1>1, <1>2, <1>4 DEF TypeOK
  <2>2. QED
    BY <1>1, <2>1 DEF FilesOK, ObjectsOwned
<1>8. ASSUME NEW j \in Inodes \ {i}, Linked(j) PROVE Kept(j) /\ FileOK(j)'
  <2>1. buffer_path[j] \in Names /\ buffer_path[j] # buffer_path[i]
        /\ Key(j) \in Keys /\ (is_on_cloud[j] => Key(j) # Key(i))
    BY <1>1, <1>2, <1>4, <1>8, LinkedFacts DEF FilesOK, OwnPaths
  <2>2. Buffer(j)' = Buffer(j) /\ Size(j)' = Size(j)
    BY <1>1, <1>3, <1>4, <2>1 DEF Buffer, Size, TypeOK
  <2>3. is_on_cloud[j] => cloud'[Key(j)] = cloud[Key(j)]
    BY <1>1, <1>4, <2>1 DEF TypeOK
  <2>4. Kept(j)
    BY <1>3, <1>4, <2>2, <2>3 DEF Kept
  <2>5. QED
    BY <1>1, <1>4, <2>4, KilledFile
<1>9. \A j \in Inodes : FileOK(j)'
  BY <1>3, <1>4, <1>8 DEF FileOK
<1>10. QED
  BY <1>3, <1>5, <1>6, <1>7, <1>8, <1>9 DEF IInv, FilesOK

-----------------------------------------------------------------------------
(* The theorems.                                                           *)

\* Every action keeps the invariant.
LEMMA StepInvariant == IInv /\ [Next]_vars => IInv'
<1> SUFFICES ASSUME IInv, [Next]_vars PROVE IInv'
  OBVIOUS
<1>1. ASSUME NEW n \in Names, NEW fd \in Fds,
             Open(n, fd) \/ \E arrived \in 0..MaxSize : OpenFailing(n, fd, arrived)
      PROVE  IInv'
  BY <1>1, OpenStep
<1>2. ASSUME NEW n \in Names, NEW fd \in Fds, NEW i \in Inodes, Create(n, i, fd) PROVE IInv'
  BY <1>2, CreateStep
<1>3. ASSUME NEW n \in Names, UnlinkName(n) PROVE IInv'
  BY <1>3, UnlinkNameStep
<1>4. ASSUME NEW n \in Names, UnlinkLast(n) PROVE IInv'
  BY <1>4, UnlinkLastStep
<1>5. ASSUME NEW n \in Names, NEW new \in Names, Link(n, new) PROVE IInv'
  BY <1>5, LinkStep
<1>6. ASSUME NEW n \in Names, NEW newSize \in 0..MaxSize, Truncate(n, newSize) PROVE IInv'
  BY <1>6, TruncateStep
<1>7. ASSUME NEW fd \in Fds, CloseUpload(fd) \/ CloseUploadFailing(fd) PROVE IInv'
  BY <1>7, CloseUploadStep
<1>8. ASSUME NEW fd \in Fds, CloseKeep(fd) PROVE IInv'
  BY <1>8, CloseKeepStep
<1>9. ASSUME NEW fd \in Fds, CloseRead(fd) PROVE IInv'
  BY <1>9, CloseReadStep
<1>10. ASSUME NEW fd \in Fds, CrashDeleted(fd) PROVE IInv'
  BY <1>10, CrashDeletedStep
<1>11. ASSUME NEW fd \in Fds, NEW marked \in BOOLEAN, CrashUploaded(fd, marked) PROVE IInv'
  BY <1>11, CrashUploadedStep
<1>12. ASSUME NEW fd \in Fds, NEW offset \in 0..MaxSize, NEW data \in Data,
              Write(fd, offset, data)
       PROVE  IInv'
  BY <1>12, WriteStep
<1>13. CASE Crash
  BY <1>13, CrashStep
<1>14. CASE UNCHANGED vars
  <2>1. /\ \A j \in Inodes : (Linked(j)' <=> Linked(j)) /\ OpenOn(j)' = OpenOn(j)
        /\ \A j \in Inodes : Buffer(j)' = Buffer(j) /\ Size(j)' = Size(j) /\ Key(j)' = Key(j)
    BY <1>14 DEF vars, inodeVars, Linked, OpenOn, IsOpen, InodeOf, Buffer, Size, Key
  <2>2. \A j \in Inodes : HasDirty(j)' <=> HasDirty(j)
    BY <1>14, <2>1 DEF vars, HasDirty
  <2>3. TypeOK'
    BY <1>14 DEF vars, inodeVars, IInv, TypeOK
  <2>4. ASSUME past = {} PROVE OwnPaths' /\ ObjectsOwned'
    <3>1. \A j \in lost' \union truncated' \union interrupted' : Linked(j)'
      BY <1>14, <2>4 DEF vars, IInv, FilesOK, OwnPaths, Linked
    <3>2. QED
      BY <1>14, <2>1, <2>4, <3>1 DEF vars, inodeVars, IInv, FilesOK, OwnPaths, ObjectsOwned
  <2>5. ASSUME past = {}, NEW j \in Inodes PROVE FileOK(j)'
    BY <1>14, <2>1, <2>2, <2>5 DEF vars, inodeVars, IInv, FilesOK, FileOK
  <2>6. QED
    BY <1>14, <2>3, <2>4, <2>5 DEF vars, IInv, FilesOK
<1>15. QED
  BY <1>1, <1>2, <1>3, <1>4, <1>5, <1>6, <1>7, <1>8, <1>9, <1>10, <1>11, <1>12, <1>13, <1>14
     DEF Next

\* So it holds in every state.
LEMMA Invariance == Spec => []IInv
<1>1. Init => IInv
  BY Initially
<1>2. IInv /\ [Next]_vars => IInv'
  BY StepInvariant
<1>3. QED
  BY <1>1, <1>2, PTL DEF Spec

\* Types, through every handler and crash.
THEOREM TypesOK == Spec => []TypeOK
<1>1. IInv => TypeOK
  BY DEF IInv
<1>2. QED
  BY <1>1, Invariance, PTL

\* No order of closes, unlinks and crashes loses or leaks an object, but a
\* close that is cut short (close_file, unlink_file).
THEOREM ObjectsMatchFiles == Spec => []ObjectsAreFiles
<1>1. IInv => ObjectsAreFiles
  BY DEF IInv, FilesOK, ObjectsOwned, FileOK, ObjectsAreFiles
<1>2. QED
  BY <1>1, Invariance, PTL

\* stat returns the length of what a read returns, whatever was opened,
\* written, truncated, closed or interrupted before (stat_file).
THEOREM StatReturnsSize == Spec => []StatIsSize
<1>1. ASSUME IInv, past = {}, NEW i \in Inodes, Linked(i), i \notin truncated \union lost
      PROVE  Size(i) = Len(Seen(i)) \/ (i \in interrupted /\ is_on_cloud[i])
  <2>1. FileOK(i)
    BY <1>1 DEF IInv, FilesOK
  <2>2. CASE OpenOn(i) = {}
    BY <1>1, <2>1, <2>2 DEF FileOK, Seen, Held, Object
  <2>3. CASE OpenOn(i) # {}
    BY <1>1, <2>1, <2>3 DEF FileOK, Seen
  <2>4. QED
    BY <2>2, <2>3
<1>2. IInv => StatIsSize
  BY <1>1 DEF StatIsSize
<1>3. QED
  BY <1>2, Invariance, PTL

\* A closed file leaves at most a threshold of bytes on the SSD (close_file).
THEOREM SmallFilesOnSsd == Spec => []SsdHoldsSmall
<1>1. ASSUME IInv, past = {}, NEW i \in Inodes, Linked(i), OpenOn(i) = {},
             i \notin truncated \union interrupted \union lost
      PROVE  Len(Buffer(i)) <= IF is_on_cloud[i] THEN 0 ELSE Threshold
  <2>1. FileOK(i) /\ ~HasDirty(i)
    BY <1>1 DEF IInv, FilesOK, HasDirty
  <2>2. QED
    BY <1>1, <2>1 DEF FileOK
<1>2. IInv => SsdHoldsSmall
  BY <1>1 DEF SsdHoldsSmall
<1>3. QED
  BY <1>2, Invariance, PTL

\* Close takes a file for truncated only if it was (close_file).
THEOREM OnlyTruncationsResize == Spec => []SizeChangeIsTruncation
<1>1. ASSUME IInv, past = {}, NEW fd \in Fds, IsOpen(fd), Changed(fd), ~open_files_[fd].dirty
      PROVE  InodeOf(fd) \in truncated \union lost \union interrupted
  <2> PICK i \in Inodes : i = InodeOf(fd)
    BY <1>1, OpenFacts DEF IInv
  <2>1. FileOK(i) /\ Linked(i) /\ OpenOn(i) # {}
    BY <1>1, OpenFacts DEF IInv, FilesOK
  <2>2. Len(Buffer(i)) # Size(i)
    BY <1>1 DEF Changed
  <2>3. QED
    BY <2>1, <2>2 DEF FileOK
<1>2. IInv => SizeChangeIsTruncation
  BY <1>1 DEF SizeChangeIsTruncation
<1>3. QED
  BY <1>2, Invariance, PTL

-----------------------------------------------------------------------------
(* The refinement: every handler and every crash is a step of FileStore's  *)
(* abstract store of files, or none.                                       *)

Content(i) == IF i \in lost THEN Lost ELSE IF Linked(i) THEN Seen(i) ELSE <<>>
Durable(i) == IF i \in lost THEN Lost ELSE IF Linked(i) THEN Held(i) ELSE <<>>

Same(i) == Content(i)' = Content(i) /\ Durable(i)' = Durable(i)

\* Only what the step does to one file is left to show.
LEMMA OthersSame ==
    ASSUME IInv, IInv', past = {}, past' = {}, NEW i \in Inodes, OthersUntouched(i),
           \A j \in Inodes \ {i} : Linked(j)' <=> Linked(j)
    PROVE  \A j \in Inodes \ {i} : Same(j)
<1> SUFFICES ASSUME NEW j \in Inodes \ {i} PROVE Same(j)
  OBVIOUS
<1>1. CASE Linked(j)
  <2>1. Untouched(j)
    BY <1>1 DEF OthersUntouched
  <2>2. is_on_cloud[j] => Object(j)' = Object(j)
    BY <2>1 DEF Untouched, Kept, Object
  <2>3. Held(j)' = Held(j) /\ Seen(j)' = Seen(j)
    BY <2>1, <2>2 DEF Untouched, Kept, Held, Seen
  <2>4. QED
    BY <1>1, <2>1, <2>3 DEF Same, Content, Durable, Untouched
<1>2. CASE ~Linked(j)
  BY <1>2 DEF IInv, FilesOK, OwnPaths, Same, Content, Durable
<1>3. QED
  BY <1>1, <1>2

\* Steps on one file.
LEMMA StoreSteps ==
    ASSUME UNCHANGED dir, NEW i \in Inodes, \A j \in Inodes \ {i} : Same(j)
    PROVE  /\ Same(i) => UNCHANGED Store!vars
           /\ Content(i)' = Lost /\ Durable(i)' = Lost => Store!Lose(i)
           /\ Content(i)' = Content(i) /\ Durable(i)' = Content(i) => Store!Close(i)
           /\ \A c : Content(i)' = c /\ Durable(i)' \in {Durable(i), c} => Store!Updated(i, c)
<1> DEFINE content == [j \in Inodes |-> Content(j)]
           durable == [j \in Inodes |-> Durable(j)]
<1>1. Same(i) => content' = content /\ durable' = durable
  BY DEF Same
<1>2. ASSUME NEW c, Content(i)' = c
      PROVE  content' = [content EXCEPT ![i] = c]
  BY <1>2 DEF Same
<1>3. ASSUME NEW c, Durable(i)' = c PROVE durable' = [durable EXCEPT ![i] = c]
  BY <1>3 DEF Same
<1>4. Durable(i)' = Durable(i) => durable' = durable
  BY DEF Same
<1>5. Content(i)' = Content(i) => content' = content
  BY DEF Same
<1>6. content[i] = Content(i)
  OBVIOUS
<1> HIDE DEF content, durable
<1>7. Same(i) => UNCHANGED <<dir, content, durable>>
  BY <1>1
<1>8. Content(i)' = Lost /\ Durable(i)' = Lost =>
         content' = [content EXCEPT ![i] = Lost] /\ durable' = [durable EXCEPT ![i] = Lost]
  BY <1>2, <1>3
<1>9. Content(i)' = Content(i) /\ Durable(i)' = Content(i) =>
         content' = content /\ durable' = [durable EXCEPT ![i] = content[i]]
  BY <1>3, <1>5, <1>6
<1>10. \A c : Content(i)' = c /\ Durable(i)' \in {Durable(i), c} =>
          /\ content' = [content EXCEPT ![i] = c]
          /\ durable' \in {durable, [durable EXCEPT ![i] = c]}
  BY <1>2, <1>3, <1>4
<1>11. QED
  BY <1>7, <1>8, <1>9, <1>10
     DEF content, durable, Content, Durable, Store!vars, Store!Lose, Store!Close, Store!Updated

\* The store's files have the same bytes.
LEMMA SameBytes ==
    ASSUME NEW bytes, NEW offset, NEW data, NEW n
    PROVE  /\ Store!Overwrite(bytes, offset, data) = Overwrite(bytes, offset, data)
           /\ Store!Resized(bytes, n) = Resized(bytes, n)
<1>1. \A S : Store!Max(S) = Max(S)
  BY Zenon DEF Store!Max, Max
<1>2. QED
  BY <1>1, Zenon DEF Store!Overwrite, Overwrite, Store!Resized, Resized

\* An update with the right bytes is a write or a truncation.
LEMMA UpdateSteps ==
    ASSUME NEW i \in Inodes, NEW bytes, Store!Updated(i, bytes), NEW offset, NEW data, NEW n
    PROVE  /\ bytes = (IF Content(i) = Lost THEN Lost ELSE Overwrite(Content(i), offset, data)) =>
                 Store!Write(i, offset, data)
           /\ bytes = (IF Content(i) = Lost THEN Lost ELSE Resized(Content(i), n)) =>
                 Store!Truncate(i, n)
<1> DEFINE content == [j \in Inodes |-> Content(j)]
           durable == [j \in Inodes |-> Durable(j)]
<1>1. content[i] = Content(i)
  OBVIOUS
<1>2. /\ Store!Overwrite(Content(i), offset, data) = Overwrite(Content(i), offset, data)
      /\ Store!Resized(Content(i), n) = Resized(Content(i), n)
  BY SameBytes
<1>3. /\ content' = [content EXCEPT ![i] = bytes]
      /\ durable' \in {durable, [durable EXCEPT ![i] = bytes]}
      /\ UNCHANGED dir
  BY DEF Store!Updated, Content, Durable
<1> HIDE DEF content, durable
<1>4. ASSUME bytes = IF Content(i) = Lost THEN Lost ELSE Overwrite(Content(i), offset, data)
      PROVE  Store!Write(i, offset, data)
  <2>1. bytes = IF content[i] = Lost THEN Lost ELSE Store!Overwrite(content[i], offset, data)
    BY <1>1, <1>2, <1>4
  <2> DEFINE result == IF content[i] = Lost THEN Lost
                       ELSE Store!Overwrite(content[i], offset, data)
  <2> HIDE DEF result
  <2>2. /\ content' = [content EXCEPT ![i] = result]
        /\ durable' \in {durable, [durable EXCEPT ![i] = result]}
        /\ UNCHANGED dir
    BY <1>3, <2>1 DEF result
  <2>3. QED
    BY <2>2, Zenon DEF result, Store!Write, Store!Updated, content, durable, Content, Durable
<1>5. ASSUME bytes = IF Content(i) = Lost THEN Lost ELSE Resized(Content(i), n)
      PROVE  Store!Truncate(i, n)
  <2>1. bytes = IF content[i] = Lost THEN Lost ELSE Store!Resized(content[i], n)
    BY <1>1, <1>2, <1>5
  <2> DEFINE result == IF content[i] = Lost THEN Lost ELSE Store!Resized(content[i], n)
  <2> HIDE DEF result
  <2>2. /\ content' = [content EXCEPT ![i] = result]
        /\ durable' \in {durable, [durable EXCEPT ![i] = result]}
        /\ UNCHANGED dir
    BY <1>3, <2>1 DEF result
  <2>3. QED
    BY <2>2, Zenon DEF result, Store!Truncate, Store!Updated, content, durable, Content, Durable
<1>6. QED
  BY <1>4, <1>5

-----------------------------------------------------------------------------
(* Names.                                                                  *)

\* Creating a file.
LEMMA CreateRefined ==
    ASSUME IInv, past' = {}, NEW n \in Names, NEW i \in Inodes, NEW fd \in Fds, Create(n, i, fd)
    PROVE  Store!Create(n, i)
<1>1. IInv' /\ OthersUntouched(i) /\ past = {}
  BY CreateStep DEF Create, Idle
<1>2. TypeOK /\ TypeOK' /\ Linked(i)' /\ ~Linked(i) /\ i \notin lost /\ lost' = lost
      /\ \A j \in Inodes \ {i} : Linked(j)' <=> Linked(j)
  BY <1>1, NoneAssumption DEF Create, CreateFile, IInv, TypeOK, FilesOK, OwnPaths, Linked
<1>3. \A j \in Inodes \ {i} : Same(j)
  BY <1>1, <1>2, OthersSame
<1>4. Content(i)' = <<>> /\ Durable(i)' = <<>>
  <2>1. Buffer(i)' = <<>> /\ ~is_on_cloud'[i]
    BY <1>2 DEF Create, CreateFile, Buffer, TypeOK
  <2>2. QED
    BY <1>2, <2>1 DEF Content, Durable, Seen, Held
<1> DEFINE content == [j \in Inodes |-> Content(j)]
           durable == [j \in Inodes |-> Durable(j)]
<1>5. content' = [content EXCEPT ![i] = <<>>] /\ durable' = [durable EXCEPT ![i] = <<>>]
  BY <1>3, <1>4 DEF Same
<1>6. dir[n] = None /\ dir' = [dir EXCEPT ![n] = i] /\ ~(\E m \in Names : dir[m] = i)
  BY <1>2 DEF Create, CreateFile, Linked
<1> HIDE DEF content, durable
<1>7. QED
  BY <1>5, <1>6 DEF Store!Create, Store!Linked, content, durable, Content, Durable

\* Steps that change names but no file's content.
LEMMA ContentsKept ==
    ASSUME \A i \in Inodes : Linked(i)' <=> Linked(i),
           \A i \in Inodes : OpenOn(i)' = OpenOn(i),
           UNCHANGED <<inodeVars, buffer, cloud, lost>>
    PROVE  \A i \in Inodes : Same(i)
<1> SUFFICES ASSUME NEW i \in Inodes PROVE Same(i)
  OBVIOUS
<1>1. Held(i)' = Held(i) /\ Buffer(i)' = Buffer(i)
  BY DEF inodeVars, Held, Buffer, Object, Key
<1>2. Seen(i)' = Seen(i)
  BY <1>1 DEF Seen
<1>3. QED
  BY <1>1, <1>2 DEF Same, Content, Durable

\* Linking.
LEMMA LinkRefined ==
    ASSUME IInv, NEW n \in Names, NEW new \in Names, Link(n, new)
    PROVE  Store!Link(n, new)
<1> USE DEF Link
<1>1. \A i \in Inodes : Linked(i)' <=> Linked(i)
  BY NoneAssumption DEF IInv, TypeOK, Linked
<1>2. \A i \in Inodes : OpenOn(i)' = OpenOn(i)
  BY DEF IInv, TypeOK, OpenOn, IsOpen, InodeOf
<1>3. \A i \in Inodes : Same(i)
  BY <1>1, <1>2, ContentsKept
<1> DEFINE content == [j \in Inodes |-> Content(j)]
           durable == [j \in Inodes |-> Durable(j)]
<1>4. content' = content /\ durable' = durable
  BY <1>3 DEF Same
<1> HIDE DEF content, durable
<1>5. QED
  BY <1>4 DEF Store!Link, content, durable, Content, Durable

\* Unlinking, whether it is the last name or not.
LEMMA UnlinkNameRefined ==
    ASSUME IInv, NEW n \in Names, UnlinkName(n)
    PROVE  Store!Unlink(n)
<1> USE DEF UnlinkName, Unlinkable
<1>1. \A i \in Inodes : Linked(i)' <=> Linked(i)
  BY NoneAssumption DEF IInv, TypeOK, Linked
<1>2. \A i \in Inodes : OpenOn(i)' = OpenOn(i)
  BY DEF IInv, TypeOK, OpenOn, IsOpen, InodeOf
<1>3. \A i \in Inodes : Same(i)
  BY <1>1, <1>2, ContentsKept
<1> DEFINE content == [j \in Inodes |-> Content(j)]
           durable == [j \in Inodes |-> Durable(j)]
<1>4. content' = content /\ durable' = durable
  BY <1>3 DEF Same
<1> HIDE DEF content, durable
<1>5. QED
  BY <1>4 DEF Store!Unlink, content, durable, Content, Durable

\* The last name: the store says nothing of a file without a name.
LEMMA UnlinkLastRefined ==
    ASSUME IInv, NEW n \in Names, UnlinkLast(n)
    PROVE  Store!Unlink(n)
<1> USE DEF UnlinkLast, Unlinkable, Idle
<1> PICK i \in Inodes : i = dir[n]
  BY NoneAssumption DEF IInv, TypeOK
<1>1. IInv' /\ OthersUntouched(i) /\ past = {} /\ past' = {}
  BY UnlinkLastStep
<1>2. \A j \in Inodes \ {i} : Linked(j)' <=> Linked(j)
  BY NoneAssumption DEF IInv, TypeOK, Linked
<1>3. \A j \in Inodes \ {i} : Same(j)
  BY <1>1, <1>2, OthersSame
<1> DEFINE content == [j \in Inodes |-> Content(j)]
           durable == [j \in Inodes |-> Durable(j)]
<1>4. \A j \in Inodes \ {i} : content'[j] = content[j] /\ durable'[j] = durable[j]
  BY <1>3 DEF Same
<1> HIDE DEF content, durable
<1>5. QED
  BY <1>4 DEF Store!Unlink, content, durable, Content, Durable

-----------------------------------------------------------------------------
(* Steps on one file.                                                      *)

\* An open or closed file that is not lost.
LEMMA NotLost ==
    ASSUME IInv, past = {}, NEW i \in Inodes, Linked(i), i \notin lost
    PROVE  /\ FileOK(i)
           /\ Content(i) = IF OpenOn(i) # {} \/ ~is_on_cloud[i] THEN Buffer(i) ELSE cloud[Key(i)]
           /\ Durable(i) = IF is_on_cloud[i] THEN cloud[Key(i)] ELSE Buffer(i)
<1>1. FileOK(i) /\ (is_on_cloud[i] => Object(i) = cloud[Key(i)])
  BY DEF IInv, FilesOK, FileOK, Object
<1>2. QED
  BY <1>1 DEF Content, Durable, Seen, Held

\* What a file is to its users after a step that does not lose it.
LEMMA NotLostNext ==
    ASSUME IInv', past' = {}, NEW i \in Inodes, Linked(i)', i \notin lost',
           UNCHANGED buffer_path
    PROVE  /\ Content(i)' = IF OpenOn(i)' # {} \/ ~is_on_cloud'[i] THEN Buffer(i)'
                                                                 ELSE cloud'[Key(i)]
           /\ Durable(i)' = IF is_on_cloud'[i] THEN cloud'[Key(i)] ELSE Buffer(i)'
<1>1. FileOK(i)' /\ Key(i)' = Key(i)
  BY DEF IInv, FilesOK, Key
<1>2. QED
  BY <1>1 DEF FileOK, Content, Durable, Seen, Held, Object

\* Opening changes nothing, unless rule 1 is broken.
LEMMA OpenRefined ==
    ASSUME IInv, NEW n \in Names, NEW fd \in Fds, Open(n, fd), NEW i \in Inodes, i = dir[n]
    PROVE  IF OverwritesChanges(i) THEN Store!Lose(i) ELSE UNCHANGED Store!vars
<1> USE DEF Open, Opened, OverwritesChanges, Idle, inodeVars
<1>1. IInv' /\ OthersUntouched(i) /\ past = {} /\ past' = {} /\ Linked(i)
  BY OpenStep DEF Linked
<1>2. \A j \in Inodes : Linked(j)' <=> Linked(j)
  BY DEF Linked
<1>3. \A j \in Inodes \ {i} : Same(j)
  BY <1>1, <1>2, OthersSame
<1>4. CASE OverwritesChanges(i)
  <2>1. Content(i)' = Lost /\ Durable(i)' = Lost
    BY <1>4 DEF Content, Durable
  <2>2. QED
    BY <1>3, <1>4, <2>1, StoreSteps
<1>5. ASSUME ~OverwritesChanges(i)
      PROVE  Same(i)
  <2> lost' = lost
    BY <1>5
  <2>1. CASE i \in lost
    BY <2>1 DEF Same, Content, Durable
  <2>2. CASE i \notin lost
    <3>1. FileOK(i) /\ (is_on_cloud[i] => OpenOn(i) = {} \/ ~Unsaved(i))
      BY <1>1, <1>5, <2>2, NotLost
    <3>2. /\ Content(i) = IF OpenOn(i) # {} \/ ~is_on_cloud[i] THEN Buffer(i) ELSE cloud[Key(i)]
          /\ Durable(i) = IF is_on_cloud[i] THEN cloud[Key(i)] ELSE Buffer(i)
      BY <1>1, <2>2, NotLost
    <3>3. OpenOn(i)' # {}
      <4>1. fd \in OpenOn(i)'
        BY NoneAssumption DEF IInv, TypeOK, OpenOn, IsOpen, InodeOf
      <4>2. QED
        BY <4>1
    <3>4. /\ Content(i)' = Buffer(i)'
          /\ Durable(i)' = IF is_on_cloud[i] THEN cloud[Key(i)] ELSE Buffer(i)'
      BY <1>1, <1>2, <2>2, <3>3, NotLostNext
    <3>5. CASE is_on_cloud[i]
      <4>1. cloud[Key(i)] # None /\ buffer_path[i] \in Names
        BY <1>1, <2>2, <3>1, <3>5, LinkedFacts DEF FileOK, IInv
      <4>2. Buffer(i)' = cloud[Key(i)]
        BY <3>5, <4>1 DEF IInv, TypeOK, Buffer, Object
      <4>3. OpenOn(i) # {} => Buffer(i) = cloud[Key(i)]
        BY <1>1, <2>2, <3>1, <3>5 DEF FileOK, Unsaved, HasDirty
      <4>4. QED
        BY <3>2, <3>4, <3>5, <4>2, <4>3 DEF Same
    <3>6. CASE ~is_on_cloud[i]
      <4>1. Buffer(i)' = Buffer(i)
        BY <3>6 DEF Buffer
      <4>2. QED
        BY <3>2, <3>4, <3>6, <4>1 DEF Same
    <3>7. QED
      BY <3>5, <3>6
  <2>3. QED
    BY <2>1, <2>2
<1>6. QED
  BY <1>3, <1>4, <1>5, StoreSteps

\* A download that breaks off costs the file.
LEMMA OpenFailingRefined ==
    ASSUME IInv, NEW n \in Names, NEW fd \in Fds, NEW arrived \in 0..MaxSize,
           OpenFailing(n, fd, arrived), NEW i \in Inodes, i = dir[n]
    PROVE  Store!Lose(i)
<1> USE DEF OpenFailing, Opened, Idle
<1>1. IInv' /\ OthersUntouched(i) /\ past = {} /\ past' = {}
  BY OpenStep
<1>2. \A j \in Inodes : Linked(j)' <=> Linked(j)
  BY DEF Linked
<1>3. \A j \in Inodes \ {i} : Same(j)
  BY <1>1, <1>2, OthersSame
<1>4. Content(i)' = Lost /\ Durable(i)' = Lost
  BY DEF Content, Durable
<1>5. QED
  BY <1>3, <1>4, StoreSteps

\* A write overwrites the content, durable at once if the file is local.
LEMMA WriteRefined ==
    ASSUME IInv, NEW fd \in Fds, NEW offset \in 0..MaxSize, NEW data \in Data,
           Write(fd, offset, data), NEW i \in Inodes, i = InodeOf(fd)
    PROVE  Store!Write(i, offset, data)
<1> USE DEF Write, Idle, inodeVars
<1>1. IInv' /\ OthersUntouched(i) /\ past = {} /\ past' = {} /\ Linked(i) /\ OpenOn(i) # {}
  BY WriteStep, OpenFacts DEF IInv
<1>2. \A j \in Inodes : Linked(j)' <=> Linked(j)
  BY DEF Linked
<1>3. \A j \in Inodes \ {i} : Same(j)
  BY <1>1, <1>2, OthersSame
<1>4. CASE i \in lost
  <2>1. Content(i) = Lost /\ Content(i)' = Lost /\ Durable(i)' = Durable(i)
    BY <1>4 DEF Content, Durable
  <2>2. QED
    BY <1>3, <2>1, StoreSteps, UpdateSteps
<1>5. CASE i \notin lost
  <2>1. Overwrite(Buffer(i), offset, data) \in Contents /\ buffer_path[i] \in Names
    BY <1>1, LinkedFacts, OverwriteFacts DEF IInv
  <2> PICK bytes \in Contents : bytes = Overwrite(Buffer(i), offset, data)
    BY <2>1
  <2>2. Buffer(i)' = bytes
    BY <2>1 DEF IInv, TypeOK, Buffer
  <2>3. fd \in OpenOn(i)'
    <3>1. IsOpen(fd)' /\ InodeOf(fd)' = i
      BY DEF IInv, TypeOK, IsOpen, InodeOf
    <3>2. QED
      BY <3>1 DEF OpenOn
  <2>4. Content(i) = Buffer(i) /\ Content(i) # Lost
    BY <1>1, <1>5, NotLost, LinkedFacts, ContentFacts DEF IInv
  <2>5. Content(i)' = bytes /\ Durable(i)' \in {Durable(i), bytes}
    BY <1>1, <1>2, <1>5, <2>2, <2>3, NotLost, NotLostNext
  <2>6. Store!Updated(i, bytes)
    BY <1>3, <2>5, StoreSteps
  <2>7. QED
    BY <2>4, <2>6, UpdateSteps
<1>6. QED
  BY <1>4, <1>5

\* A truncation resizes it, unless rule 2 is broken.
LEMMA TruncateRefined ==
    ASSUME IInv, NEW n \in Names, NEW newSize \in 0..MaxSize, Truncate(n, newSize),
           NEW i \in Inodes, i = dir[n]
    PROVE  IF TruncatesClosed(i) THEN Store!Lose(i) ELSE Store!Truncate(i, newSize)
<1> USE DEF Truncate, Idle, inodeVars
<1>1. IInv' /\ OthersUntouched(i) /\ past = {} /\ past' = {} /\ Linked(i)
  BY TruncateStep DEF Linked
<1>2. \A j \in Inodes : (Linked(j)' <=> Linked(j)) /\ OpenOn(j)' = OpenOn(j)
  BY DEF Linked, OpenOn, IsOpen, InodeOf
<1>3. \A j \in Inodes \ {i} : Same(j)
  BY <1>1, <1>2, OthersSame
<1>4. CASE TruncatesClosed(i)
  <2>1. Content(i)' = Lost /\ Durable(i)' = Lost
    BY <1>4 DEF Content, Durable
  <2>2. QED
    BY <1>3, <1>4, <2>1, StoreSteps
<1>5. CASE ~TruncatesClosed(i) /\ i \in lost
  <2>1. Content(i) = Lost /\ Content(i)' = Lost /\ Durable(i)' = Durable(i)
    BY <1>5 DEF Content, Durable
  <2>2. Store!Truncate(i, newSize)
    BY <1>3, <2>1, StoreSteps, UpdateSteps
  <2>3. QED
    BY <1>5, <2>2
<1>6. CASE ~TruncatesClosed(i) /\ i \notin lost
  <2>1. Resized(Buffer(i), newSize) \in Contents /\ buffer_path[i] \in Names
    BY <1>1, LinkedFacts, ResizedFacts DEF IInv
  <2> PICK bytes \in Contents : bytes = Resized(Buffer(i), newSize)
    BY <2>1
  <2>2. Buffer(i)' = bytes
    BY <2>1 DEF IInv, TypeOK, Buffer
  <2>3. OpenOn(i) # {} \/ ~is_on_cloud[i]
    BY <1>6 DEF TruncatesClosed
  <2>4. Content(i) = Buffer(i) /\ Content(i) # Lost
    BY <1>1, <1>6, <2>3, NotLost, LinkedFacts, ContentFacts DEF IInv
  <2>5. i \notin lost'
    BY <1>6
  <2>6. Content(i)' = bytes /\ Durable(i)' \in {Durable(i), bytes}
    BY <1>1, <1>2, <1>6, <2>2, <2>3, <2>5, NotLost, NotLostNext
  <2>7. Store!Updated(i, bytes)
    BY <1>3, <2>6, StoreSteps
  <2>8. Store!Truncate(i, newSize)
    BY <2>4, <2>7, UpdateSteps
  <2>9. QED
    BY <1>6, <2>8
<1>7. QED
  BY <1>4, <1>5, <1>6

-----------------------------------------------------------------------------
(* Closing.                                                                *)

\* A close makes the content durable or, when rule 3 or 4 is broken, loses
\* the file.
LEMMA CloseOrLose ==
    ASSUME IInv, IInv', past = {}, past' = {}, NEW i \in Inodes, OthersUntouched(i),
           UNCHANGED <<dir, buffer_path>>, Linked(i), OpenOn(i) # {},
           lost \subseteq lost',
           i \notin lost' =>
              /\ OpenOn(i)' # {} \/ ~is_on_cloud'[i] => Buffer(i)' = Buffer(i)
              /\ is_on_cloud'[i] => cloud'[Key(i)] = Buffer(i)
    PROVE  /\ i \in lost' => Store!Lose(i)
           /\ i \notin lost' \/ i \in lost => Store!Close(i)
<1>1. \A j \in Inodes : Linked(j)' <=> Linked(j)
  BY DEF Linked
<1>2. \A j \in Inodes \ {i} : Same(j)
  BY <1>1, OthersSame
<1>3. CASE i \in lost'
  <2>1. Content(i)' = Lost /\ Durable(i)' = Lost /\ (i \in lost => Content(i) = Lost)
    BY <1>3 DEF Content, Durable
  <2>2. QED
    BY <1>2, <1>3, <2>1, StoreSteps
<1>4. CASE i \notin lost'
  <2>1. Content(i) = Buffer(i)
    BY <1>4, NotLost
  <2>2. Content(i)' = Buffer(i) /\ Durable(i)' = Buffer(i)
    BY <1>1, <1>4, NotLostNext
  <2>3. QED
    BY <1>2, <1>4, <2>1, <2>2, StoreSteps
<1>5. QED
  BY <1>3, <1>4

\* The object is what the buffer file was (rule 3).
LEMMA CloseUploadRefined ==
    ASSUME IInv, past' = {}, NEW fd \in Fds, CloseUpload(fd), NEW i \in Inodes, i = InodeOf(fd)
    PROVE  IF OthersOpen(fd) THEN Store!Lose(i) ELSE Store!Close(i)
<1> USE DEF CloseUpload, ClosedLarge, Idle
<1>1. IInv' /\ OthersUntouched(i) /\ past = {} /\ Linked(i) /\ fd \in OpenOn(i)
  BY CloseUploadStep, OpenFacts DEF IInv
<1>2. OpenOn(i)' = OpenOn(i) \ {fd} /\ Key(i) \in Keys
  BY <1>1, CloseFacts DEF IInv
<1>3. /\ OthersOpen(fd) => i \in lost'
      /\ ~OthersOpen(fd) => lost' = lost /\ OpenOn(i)' = {}
  BY <1>2 DEF OthersOpen
<1>4. is_on_cloud'[i] /\ cloud'[Key(i)] = Buffer(i)
  BY <1>2 DEF IInv, TypeOK, Uploaded
<1>5. lost \subseteq lost' /\ UNCHANGED <<dir, buffer_path>>
  OBVIOUS
<1> HIDE DEF CloseUpload, ClosedLarge, Idle
<1>6. i \notin lost' => OpenOn(i)' = {}
  BY <1>3
<1>7. /\ i \in lost' => Store!Lose(i)
      /\ i \notin lost' \/ i \in lost => Store!Close(i)
  BY <1>1, <1>4, <1>5, <1>6, CloseOrLose
<1>8. QED
  BY <1>3, <1>7

\* An upload that fails costs the file.
LEMMA CloseUploadFailingRefined ==
    ASSUME IInv, past' = {}, NEW fd \in Fds, CloseUploadFailing(fd),
           NEW i \in Inodes, i = InodeOf(fd)
    PROVE  Store!Lose(i)
<1> USE DEF CloseUploadFailing, ClosedLarge, Idle
<1>1. IInv' /\ OthersUntouched(i) /\ past = {} /\ i \in lost'
  BY CloseUploadStep
<1>2. \A j \in Inodes : Linked(j)' <=> Linked(j)
  BY DEF Linked
<1>3. \A j \in Inodes \ {i} : Same(j)
  BY <1>1, <1>2, OthersSame
<1>4. Content(i)' = Lost /\ Durable(i)' = Lost
  BY <1>1 DEF Content, Durable
<1>5. QED
  BY <1>3, <1>4, StoreSteps

\* The buffer file is kept.
LEMMA CloseKeepRefined ==
    ASSUME IInv, NEW fd \in Fds, CloseKeep(fd), NEW i \in Inodes, i = InodeOf(fd)
    PROVE  Store!Close(i)
<1> USE DEF CloseKeep, Idle
<1>1. IInv' /\ OthersUntouched(i) /\ past = {} /\ past' = {} /\ Linked(i) /\ fd \in OpenOn(i)
  BY CloseKeepStep, OpenFacts DEF IInv
<1>2. Buffer(i)' = Buffer(i) /\ ~is_on_cloud'[i]
  BY DEF IInv, TypeOK, Buffer
<1>3. QED
  BY <1>1, <1>2, CloseOrLose

\* The buffer file is kept, or it was the object (rules 1, 3 and 4).
LEMMA CloseReadRefined ==
    ASSUME IInv, NEW fd \in Fds, CloseRead(fd), NEW i \in Inodes, i = InodeOf(fd)
    PROVE  IF ClosesUnsaved(fd) THEN Store!Lose(i) ELSE Store!Close(i)
<1> USE DEF CloseRead, Idle, inodeVars
<1>1. IInv' /\ OthersUntouched(i) /\ past = {} /\ past' = {} /\ Linked(i) /\ fd \in OpenOn(i)
  BY CloseReadStep, OpenFacts DEF IInv
<1>2. OpenOn(i)' = OpenOn(i) \ {fd}
  BY <1>1, CloseFacts DEF IInv
<1>3. ~is_on_cloud[i] => Buffer(i)' = Buffer(i)
  BY DEF Buffer
<1>4. is_on_cloud[i] /\ i \notin lost' => OpenOn(i)' = {} /\ cloud[Key(i)] = Buffer(i)
  <2> SUFFICES ASSUME is_on_cloud[i], i \notin lost'
               PROVE  OpenOn(i)' = {} /\ cloud[Key(i)] = Buffer(i)
    OBVIOUS
  <2>1. i \notin lost /\ OpenOn(i) = {fd} /\ i \notin truncated /\ ~open_files_[fd].dirty
    BY DEF ClosesUnsaved, OthersOpen, Regrown, Changed
  <2>2. FileOK(i) /\ ~HasDirty(i)
    BY <1>1, <2>1, NotLost DEF HasDirty
  <2>3. QED
    BY <1>1, <1>2, <2>1, <2>2 DEF FileOK
<1>5. /\ lost \subseteq lost'
      /\ ClosesUnsaved(fd) => i \in lost'
      /\ ~ClosesUnsaved(fd) => lost' = lost
  OBVIOUS
<1>6. /\ i \in lost' => Store!Lose(i)
      /\ i \notin lost' \/ i \in lost => Store!Close(i)
  BY <1>1, <1>3, <1>4, <1>5, CloseOrLose
<1>7. QED
  BY <1>5, <1>6

-----------------------------------------------------------------------------
(* Crashes.                                                                *)

\* What is durable is what is left.
LEMMA CrashMapped ==
    ASSUME IInv, IInv', past = {}, Killed, NEW closing \in SUBSET Inodes, NEW gone \in SUBSET Inodes,
           lost' = lost \union gone, gone \subseteq lost',
           \A j \in Inodes \ (closing \union gone) : Linked(j) => Kept(j),
           \A i \in closing : /\ Linked(i) /\ OpenOn(i) # {} /\ i \notin gone
                              /\ is_on_cloud'[i] => cloud'[Key(i)] = Buffer(i)
                              /\ ~is_on_cloud'[i] => Buffer(i)' = Buffer(i)
    PROVE  Store!Crash(closing, gone)
<1>1. /\ past' = {} /\ UNCHANGED <<dir, buffer_path>>
      /\ \A j \in Inodes : OpenOn(j)' = {} /\ (Linked(j)' <=> Linked(j)) /\ Key(j)' = Key(j)
  BY KilledFacts
<1>2. \A j \in Inodes : Content(j)' = Durable(j)'
  BY <1>1 DEF Content, Durable, Seen
<1>3. ASSUME NEW j \in Inodes
      PROVE  Durable(j)' = IF j \in gone THEN Lost
                           ELSE IF j \in closing THEN Content(j) ELSE Durable(j)
  <2>1. CASE j \in lost'
    BY <2>1 DEF Content, Durable
  <2>2. CASE j \notin lost' /\ ~Linked(j)
    BY <1>1, <2>2 DEF Content, Durable
  <2>3. CASE j \notin lost' /\ Linked(j)
    <3>1. j \notin lost /\ j \notin gone /\ Linked(j)'
      BY <1>1, <2>3
    <3>2. Durable(j)' = IF is_on_cloud'[j] THEN cloud'[Key(j)] ELSE Buffer(j)'
      BY <1>1, <2>3, <3>1, NotLostNext
    <3>3. CASE j \in closing
      <4>1. Content(j) = Buffer(j)
        BY <2>3, <3>1, <3>3, NotLost
      <4>2. QED
        BY <3>1, <3>2, <3>3, <4>1
    <3>4. CASE j \notin closing
      <4>1. Kept(j) /\ Durable(j) = IF is_on_cloud[j] THEN cloud[Key(j)] ELSE Buffer(j)
        BY <2>3, <3>1, <3>4, NotLost
      <4>2. QED
        BY <3>1, <3>2, <3>4, <4>1 DEF Kept
    <3>5. QED
      BY <3>3, <3>4
  <2>4. QED
    BY <2>1, <2>2, <2>3
<1> DEFINE content == [j \in Inodes |-> Content(j)]
           durable == [j \in Inodes |-> Durable(j)]
<1>4. /\ durable' = [j \in Inodes |-> IF j \in gone THEN Lost
                                      ELSE IF j \in closing THEN content[j] ELSE durable[j]]
      /\ content' = durable'
  BY <1>2, <1>3
<1> HIDE DEF content, durable
<1>5. QED
  BY <1>1, <1>4 DEF Store!Crash, content, durable, Content, Durable

\* Between two handlers everything durable is left.
LEMMA CrashRefined == IInv /\ Crash => Store!Crash({}, {})
<1> SUFFICES ASSUME IInv, Crash PROVE Store!Crash({}, {})
  OBVIOUS
<1>1. IInv' /\ past = {} /\ Killed /\ lost' = lost
  BY CrashStep DEF Crash, Idle
<1>2. \A j \in Inodes : Kept(j)
  BY DEF Crash, Killed, Kept, Buffer, Size, Key
<1>3. {} \in SUBSET Inodes /\ lost' = lost \union {}
  BY <1>1
<1>4. QED
  BY <1>1, <1>2, <1>3, CrashMapped

\* In a close, after the upload: the closed file is durable already.
LEMMA CrashUploadedRefined ==
    ASSUME IInv, NEW fd \in Fds, NEW marked \in BOOLEAN, CrashUploaded(fd, marked),
           NEW i \in Inodes, i = InodeOf(fd)
    PROVE  Store!Crash({i}, {})
<1> USE DEF CrashUploaded, Idle
<1>1. /\ IInv' /\ past = {} /\ Linked(i) /\ OpenOn(i) # {}
      /\ \A j \in Inodes \ {i} : Linked(j) => Kept(j)
  BY CrashUploadedStep, OpenFacts DEF IInv
<1>2. cloud'[Key(i)] = Buffer(i) /\ Buffer(i)' = Buffer(i)
  <2>1. Key(i) \in Keys
    BY <1>1, LinkedFacts DEF IInv
  <2>2. QED
    BY <2>1 DEF IInv, TypeOK, Uploaded, Buffer, Killed
<1>3. QED
  BY <1>1, <1>2, CrashMapped

\* After the deletion: that file is gone.
LEMMA CrashDeletedRefined ==
    ASSUME IInv, NEW fd \in Fds, CrashDeleted(fd), NEW i \in Inodes, i = InodeOf(fd)
    PROVE  Store!Crash({}, {i})
<1> USE DEF CrashDeleted, Idle
<1>1. IInv' /\ past = {} /\ \A j \in Inodes \ {i} : Linked(j) => Kept(j)
  BY CrashDeletedStep
<1>2. QED
  BY <1>1, CrashMapped

-----------------------------------------------------------------------------
(* The refinement.                                                         *)

\* The handlers that change the names.
LEMMA NamesRefined == ASSUME IInv, past' = {}, NEW n \in Names PROVE NamesMapped(n)
<1>1. \A i \in Inodes, fd \in Fds : Create(n, i, fd) => Store!Create(n, i)
  BY CreateRefined
<1>2. \A new \in Names : Link(n, new) => Store!Link(n, new)
  BY LinkRefined
<1>3. UnlinkName(n) \/ UnlinkLast(n) => Store!Unlink(n)
  BY UnlinkNameRefined, UnlinkLastRefined
<1>4. QED
  BY <1>1, <1>2, <1>3 DEF NamesMapped

\* Those that are given a path.
LEMMA PathRefined ==
    ASSUME IInv, past' = {}, NEW n \in Names, NEW i \in Inodes PROVE PathMapped(n, i)
<1> SUFFICES ASSUME i = dir[n] PROVE PathMapped(n, i)
  BY DEF PathMapped
<1>1. \A fd \in Fds : Open(n, fd) =>
         IF OverwritesChanges(i) THEN Store!Lose(i) ELSE UNCHANGED Store!vars
  BY OpenRefined
<1>2. \A fd \in Fds, arrived \in 0..MaxSize : OpenFailing(n, fd, arrived) => Store!Lose(i)
  BY OpenFailingRefined
<1>3. \A newSize \in 0..MaxSize : Truncate(n, newSize) =>
         IF TruncatesClosed(i) THEN Store!Lose(i) ELSE Store!Truncate(i, newSize)
  BY TruncateRefined
<1>4. QED
  BY <1>1, <1>2, <1>3 DEF PathMapped

\* Those that are given a descriptor.
LEMMA DescriptorRefined ==
    ASSUME IInv, past' = {}, NEW fd \in Fds, NEW i \in Inodes PROVE DescriptorMapped(fd, i)
<1> SUFFICES ASSUME IsOpen(fd), i = InodeOf(fd) PROVE DescriptorMapped(fd, i)
  BY DEF DescriptorMapped
<1>1. \A offset \in 0..MaxSize, data \in Data :
         Write(fd, offset, data) => Store!Write(i, offset, data)
  BY WriteRefined
<1>2. /\ CloseUpload(fd) => IF OthersOpen(fd) THEN Store!Lose(i) ELSE Store!Close(i)
      /\ CloseUploadFailing(fd) => Store!Lose(i)
  BY CloseUploadRefined, CloseUploadFailingRefined
<1>3. /\ CloseKeep(fd) => Store!Close(i)
      /\ CloseRead(fd) => IF ClosesUnsaved(fd) THEN Store!Lose(i) ELSE Store!Close(i)
  BY CloseKeepRefined, CloseReadRefined
<1>4. /\ \A marked \in BOOLEAN : CrashUploaded(fd, marked) => Store!Crash({i}, {})
      /\ CrashDeleted(fd) => Store!Crash({}, {i})
  BY CrashUploadedRefined, CrashDeletedRefined
<1>5. QED
  BY <1>1, <1>2, <1>3, <1>4 DEF DescriptorMapped

Mapped ==
    /\ \A n \in Names : NamesMapped(n)
    /\ \A n \in Names, i \in Inodes : PathMapped(n, i)
    /\ \A fd \in Fds, i \in Inodes : DescriptorMapped(fd, i)
    /\ Crash => Store!Crash({}, {})

\* All of them, and the crash between two of them.
LEMMA StepsMapped == IInv /\ past' = {} => Mapped
  BY NamesRefined, PathRefined, DescriptorRefined, CrashRefined DEF Mapped

\* No file at first.
LEMMA InitRefined == Init => Store!Init
<1> SUFFICES ASSUME Init PROVE Store!Init
  OBVIOUS
<1>1. \A i \in Inodes : ~Linked(i) /\ i \notin lost
  BY NoneAssumption DEF Init, Linked
<1>2. QED
  BY <1>1 DEF Init, Store!Init

\* A step of a handler that is mapped is a step of the store.
LEMMA StepRefined ==
    ASSUME IInv, [Next]_vars, past' = {}
    PROVE  Store!Next \/ UNCHANGED Store!vars
<1>1. Mapped
  BY StepsMapped
<1>2. ASSUME NEW n \in Names,
             \/ \E fd \in Fds : \/ Open(n, fd)
                                \/ \E arrived \in 0..MaxSize : OpenFailing(n, fd, arrived)
             \/ \E newSize \in 0..MaxSize : Truncate(n, newSize)
      PROVE  Store!Next \/ UNCHANGED Store!vars
  <2>1. dir[n] \in Inodes
    BY <1>2 DEF IInv, TypeOK, Open, OpenFailing, Opened, Truncate
  <2> PICK i \in Inodes : dir[n] = i
    BY <2>1
  <2>2. \/ UNCHANGED Store!vars \/ Store!Lose(i)
        \/ \E newSize \in 0..MaxSize : Store!Truncate(i, newSize)
    BY <1>1, <1>2 DEF Mapped, PathMapped
  <2>3. QED
    BY <2>2 DEF Store!Next
<1>3. ASSUME NEW n \in Names,
             \/ \E fd \in Fds, j \in Inodes : Create(n, j, fd)
             \/ \E new \in Names : Link(n, new)
             \/ UnlinkName(n) \/ UnlinkLast(n)
      PROVE  Store!Next
  <2>1. \/ \E j \in Inodes : Store!Create(n, j)
        \/ \E new \in Names : Store!Link(n, new)
        \/ Store!Unlink(n)
    BY <1>1, <1>3 DEF Mapped, NamesMapped
  <2>2. QED
    BY <2>1 DEF Store!Next
<1>4. ASSUME NEW fd \in Fds,
             \/ CloseUpload(fd) \/ CloseUploadFailing(fd) \/ CloseKeep(fd) \/ CloseRead(fd)
             \/ CrashDeleted(fd) \/ \E marked \in BOOLEAN : CrashUploaded(fd, marked)
             \/ \E offset \in 0..MaxSize, data \in Data : Write(fd, offset, data)
      PROVE  Store!Next
  <2>1. IsOpen(fd)
    BY <1>4 DEF Write, CloseUpload, CloseUploadFailing, ClosedLarge, CloseKeep, CloseRead,
         CrashUploaded, CrashDeleted
  <2> PICK i \in Inodes : InodeOf(fd) = i
    BY <2>1, OpenFacts DEF IInv
  <2>2. \/ Store!Lose(i) \/ Store!Close(i)
        \/ Store!Crash({i}, {}) \/ Store!Crash({}, {i})
        \/ \E offset \in 0..MaxSize, data \in Data : Store!Write(i, offset, data)
    BY <1>1, <1>4, <2>1 DEF Mapped, DescriptorMapped
  <2>3. QED
    BY <2>2 DEF Store!Next
<1>5. CASE Crash
  <2>1. Store!Crash({}, {})
    BY <1>1, <1>5 DEF Mapped
  <2>2. QED
    BY <2>1 DEF Store!Next
<1>6. CASE UNCHANGED vars
  <2>1. \A i \in Inodes : (Linked(i)' <=> Linked(i)) /\ OpenOn(i)' = OpenOn(i)
    BY <1>6 DEF vars, Linked, OpenOn, IsOpen, InodeOf
  <2>2. \A i \in Inodes : Same(i)
    BY <1>6, <2>1, ContentsKept DEF vars
  <2> DEFINE content == [j \in Inodes |-> Content(j)]
             durable == [j \in Inodes |-> Durable(j)]
  <2>3. UNCHANGED <<dir, content, durable>>
    BY <1>6, <2>2 DEF Same, vars
  <2> HIDE DEF content, durable
  <2>4. QED
    BY <2>3 DEF Store!vars, content, durable, Content, Durable
<1>7. QED
  BY <1>2, <1>3, <1>4, <1>5, <1>6 DEF Next

\* What a user of CloudfsControllerNoDedup sees of its files, whatever is on
\* the cloud and whenever the process is killed.
THEOREM FilesArePlain == Spec => ImplementsFileStore
<1>1. Init => Store!Init
  BY InitRefined
<1>2. IInv /\ [Next]_vars => [past' = {} => Store!Next]_(Store!vars)
  BY StepRefined
<1>3. IInv /\ [Next]_vars => [past' = {} => Mapped]_vars
  BY StepsMapped
<1>4. Spec => [][past' = {} => Store!Next]_(Store!vars)
  BY <1>2, Invariance, PTL DEF Spec
<1>5. Spec => [][past' = {} => Mapped]_vars
  BY <1>3, Invariance, PTL DEF Spec
<1>6. Spec => Store!Init
  BY <1>1 DEF Spec
<1>7. QED
  BY <1>4, <1>5, <1>6, PTL DEF ImplementsFileStore, Mapped
=============================================================================
