------------------------------ MODULE MCMalloc ------------------------------
EXTENDS Malloc

\* Nothing; two sizes that fill each other's blocks without a margin; one whose
\* block is cut with one.  A heap of three chunks holds four or five of them.
Sizes == {0, 20, 60, 100}

\* Nothing, and the address of a header or a number as good as any.
Numbers == {0, 80}

\* Two of these do not fit into a chunk of the real size.
LargeSizes == {20, 32700, 40000}
=============================================================================
