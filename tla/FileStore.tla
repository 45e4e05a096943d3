----------------------------- MODULE FileStore -----------------------------
(***************************************************************************)
(* What a controller of whole files promises to its users: names, hard     *)
(* links and contents as in a local file system, every content durable     *)
(* once the file is closed, and a crash that takes back no more than was   *)
(* written since.  A user who breaks the rules of the implementation, or   *)
(* whose transfer fails, may lose a file, and that one only.  Opening and  *)
(* reading are no actions: they change nothing here.                       *)
(***************************************************************************)
EXTENDS FileBytes

CONSTANTS
    Names, Inodes, None,
    Empty,      \* the content of a new file
    Lost,       \* stands for the content of a file the user may have lost
    Data,       \* what a write may carry
    MaxSize     \* bound: file size

VARIABLES
    dir,        \* the inode of a name, or None
    content,    \* what a read of the inode returns, or Lost
    durable     \* what a read returns after a crash, or Lost

vars == <<dir, content, durable>>

Linked(i) == \E n \in Names : dir[n] = i

Init ==
    /\ dir = [n \in Names |-> None]
    /\ content = [i \in Inodes |-> Empty]
    /\ durable = [i \in Inodes |-> Empty]

Create(n, i) ==
    /\ dir[n] = None /\ ~Linked(i)
    /\ dir' = [dir EXCEPT ![n] = i]
    /\ content' = [content EXCEPT ![i] = Empty]
    /\ durable' = [durable EXCEPT ![i] = Empty]

Link(n, new) ==
    /\ dir[n] # None /\ dir[new] = None
    /\ dir' = [dir EXCEPT ![new] = dir[n]]
    /\ UNCHANGED <<content, durable>>

\* The content of a file without a name is of no concern.
Unlink(n) ==
    /\ dir[n] # None
    /\ dir' = [dir EXCEPT ![n] = None]
    /\ \A i \in Inodes \ {dir[n]} : content'[i] = content[i] /\ durable'[i] = durable[i]
    /\ (\E m \in Names \ {n} : dir[m] = dir[n]) => UNCHANGED <<content, durable>>

\* The file has these bytes: durable at once, or when it is closed.
Updated(i, bytes) ==
    /\ content' = [content EXCEPT ![i] = bytes]
    /\ durable' \in {durable, [durable EXCEPT ![i] = bytes]}
    /\ UNCHANGED dir

\* Of a lost file nothing is said.
Write(i, offset, data) ==
    Updated(i, IF content[i] = Lost THEN Lost ELSE Overwrite(content[i], offset, data))

Truncate(i, newSize) ==
    Updated(i, IF content[i] = Lost THEN Lost ELSE Resized(content[i], newSize))

Close(i) ==
    /\ durable' = [durable EXCEPT ![i] = content[i]]
    /\ UNCHANGED <<dir, content>>

\* Some files were just being closed and had become durable; one that was
\* just being deleted from the cloud may be gone.
Crash(closing, gone) ==
    /\ durable' = [i \in Inodes |-> IF i \in gone THEN Lost
                                    ELSE IF i \in closing THEN content[i]
                                    ELSE durable[i]]
    /\ content' = durable'
    /\ UNCHANGED dir

Lose(i) ==
    /\ content' = [content EXCEPT ![i] = Lost]
    /\ durable' = [durable EXCEPT ![i] = Lost]
    /\ UNCHANGED dir

Next ==
    \/ \E n \in Names : \/ Unlink(n)
                        \/ \E i \in Inodes : Create(n, i)
                        \/ \E new \in Names : Link(n, new)
    \/ \E i \in Inodes : \/ Close(i) \/ Lose(i)
                         \/ \E newSize \in 0..MaxSize : Truncate(i, newSize)
                         \/ \E offset \in 0..MaxSize, data \in Data : Write(i, offset, data)
    \/ \E closing, gone \in SUBSET Inodes : Crash(closing, gone)

Spec == Init /\ [][Next]_vars
=============================================================================
