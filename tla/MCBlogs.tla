------------------------------- MODULE MCBlogs -------------------------------
(***************************************************************************)
(* Blogs on small instances.                                               *)
(***************************************************************************)
EXTENDS Blogs

CONSTANTS u1, u2, t1, t2

OneOrBoth == {{u1}, {u1, u2}}

\* The reader's feed starts with four notes of one time; note 3 is yet to
\* be written and sorts between them.
FourOfOneTime == {<<1, 1, 0, 1, 1>>}
=============================================================================
