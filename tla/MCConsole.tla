----------------------------- MODULE MCConsole -----------------------------
(* Instances of Console for TLC. *)
EXTENDS Console

Letters(n) == [i \in 1..n |-> Lower]

\* On both sides of every limit: nothing but blanks; 80 and 81 characters; a
\* tab inside; nothing a slug keeps; a hyphen where the slug's prefix is cut.
TypedNames ==
  {<<Space, Tab>>, Letters(80), Letters(81), <<Lower, Tab, Lower>>,
   <<Space, Other, Other>>, <<Upper>> \o Letters(36) \o <<Space, Lower>>}
=============================================================================
