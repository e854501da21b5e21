--------------------------- MODULE VnodeHistory ---------------------------
\* Vnode with a history variable: whether a vnode has been cleaned that somebody
\* else was using.  ufs_inactive() calls vgone() for the vnode of an inode without
\* a mode whatever its count is (ufs_inode.c:823-827); a thread that has just found
\* the vnode, for ialloc() or by a file handle, goes on with a dead one.  What this
\* does to open files and to names is not told any more, but that nothing else
\* takes them their vnodes is.
EXTENDS Vnode

VARIABLE taken

\* ufs_inactive() has found the inode without a mode and cleans the vnode, of
\* which it does not have the only reference any more.
Takes == \E t \in Threads :
  Stale(t) /\ ~vn[Top(t).v].xlock /\ vn[Top(t).v].count > 1

HInit == Init /\ taken = FALSE
HNext == Next /\ taken' = (taken \/ Takes)
HSpec == HInit /\ [][HNext]_<<vars, taken>>

\* Until ufs_inactive has done so, every open file keeps its vnode: neither the
\* release and the reclaim of others, nor an unmount or the need for a vnode takes
\* it away, while files are unlinked and inodes are freed
\* and allocated again.
HeldUntilTaken == taken \/ HeldIsKept

\* Until then the name cache leads from a name to the vnode of its file, or to one
\* that is just being cleaned and that a lookup does not take.
NameUntilTaken == taken \/ NameIsRight
=============================================================================
