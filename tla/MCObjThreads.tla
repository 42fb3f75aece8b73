---------------------------- MODULE MCObjThreads ----------------------------
EXTENDS ObjThreads, TLC

\* Threads differ in nothing, and so do keys.
ThreadsAndKeys == Permutations(Threads) \cup Permutations(Keys)

\* Behaviours are followed until the first damage: nothing is claimed of the
\* blocks afterwards, and names, sizes and scans do not depend on them.
Undamaged == ~damaged

\* What a step or a property may still look at.  The sizes of unknown names are
\* not; the size a getattr started with is until a create or unlink overlaps, and
\* no other call has any use for it.
Relevant(f) ==
  IF f.at \in {"getattr", "fillup", "answer"} /\ f.quiet THEN f
  ELSE [f EXCEPT !.low = 0, !.quiet = FALSE]

View ==
  <<store, backup, d_lock, dir,
    [t \in Threads |-> Relevant(th[t])],
    names, [k \in names |-> written[k]], damaged>>
=============================================================================
