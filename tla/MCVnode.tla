------------------------------ MODULE MCVnode ------------------------------
\* The smallest instances of Vnode: one vnode, of one file.
EXTENDS Vnode

CONSTANTS t1, t2, v1, i1
=============================================================================
