---------------------------- MODULE KmallocArray ----------------------------
(***************************************************************************)
(* kmalloc_array of compat-3.4.h over every pair of arguments at a size_t  *)
(* of Width bits: n * size is computed modulo 2^Width, SIZE_MAX is          *)
(* ~(size_t)0 and / is unsigned division, as in C.  __kmalloc is asked for  *)
(* the product; its own failure is not what is checked here.              *)
(***************************************************************************)
EXTENDS Integers

CONSTANT Width   \* bits of size_t

Word == 0..2^Width - 1
SIZE_MAX == 2^Width - 1
NULL == -1   \* returned without calling __kmalloc

VARIABLES n, size, asked
vars == <<n, size, asked>>

\* fault: the product tested against SIZE_MAX itself, after it wrapped
TooBigWrapped(cnt, sz) == (cnt * sz) % 2^Width > SIZE_MAX

\* if (size != 0 && n > SIZE_MAX / size) return NULL;
TooBig(cnt, sz) == sz # 0 /\ cnt > SIZE_MAX \div sz

\* the bytes asked of __kmalloc(n * size, flags), or NULL
KmallocArray(cnt, sz) == IF TooBig(cnt, sz) THEN NULL ELSE (cnt * sz) % 2^Width


Init == n = 0 /\ size = 0 /\ asked = KmallocArray(0, 0)

\* a call with any n and size
Call == \E cnt, sz \in Word : n' = cnt /\ size' = sz /\ asked' = KmallocArray(cnt, sz)

Next == Call

Spec == Init /\ [][Next]_vars
-----------------------------------------------------------------------------
\* An array is allocated only when its n * size bytes fit in a size_t, and
\* then with exactly that many bytes: a product that wraps never yields a
\* short buffer the caller indexes past; one that fits is never refused.
AllocatesWholeArray ==
    asked = IF n * size <= SIZE_MAX THEN n * size ELSE NULL

=============================================================================
